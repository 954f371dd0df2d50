----------------------------- MODULE Xp3Layout -----------------------------
(***************************************************************************)
(* How pack places objects in the XP3 file: entry segments, preserved      *)
(* segments, special blobs and index blocks, in the order of their offsets *)
(* in the source archive.  Offsets are written into the index blocks, so   *)
(* the length of a zlib index block depends on the offsets, and the        *)
(* offsets depend on that length: assign, encode, measure and repeat, at   *)
(* most Rounds times.  Then the index objects are built (the original      *)
(* bytes where nothing in them changed), bytes the parser does not know    *)
(* are protected, the objects are written one after another, and the       *)
(* result is parsed again.                                                 *)
(*                                                                         *)
(* A byte is a pair <<content, position>>.  An encoder is a function from  *)
(* the offsets a block lists to a length, and pack cannot predict it: its  *)
(* answers are chosen when they are first asked for, and kept.             *)
(***************************************************************************)
EXTENDS Integers, FiniteSets

CONSTANTS
  N,          \* number of layout objects, in sort order
  HeaderEnd,  \* first byte after magic and index pointer
  MaxAddr,    \* last address of the modelled file; no run reaches it
  Rounds,     \* layout rounds before pack stops adjusting (32 in the code)
  Templates   \* the source archives and edits to lay out (see TemplateType)

Obj == 1 .. N
Addr == 0 .. MaxAddr

(* Contents 1 .. 2N are of source objects and edits; block b re-encoded    *)
(* has content 2N + b.                                                     *)
Recoded(b) == 2 * N + b
Zero == <<0, 0>>
Opaque == <<0, 1>>

TemplateType ==
  [preserve : BOOLEAN,             \* --compact-layout is FALSE
   source : BOOLEAN,               \* the source archive was found
   retained : BOOLEAN,             \* original index bytes are at hand
   index : SUBSET Obj,             \* the index blocks, in chain order
   owner : [Obj -> Obj],           \* the block whose File root lists an object
   orig : [Obj -> Addr],           \* offsets and lengths in the source
   oldLen : [Obj -> Nat],
   newLen : [Obj -> Nat],          \* stored length to write (data objects)
   oldContent : [Obj -> 1 .. N],
   content : [Obj -> 1 .. 2 * N],
   lengths : [Obj -> SUBSET Nat],   \* what a block encoded anew may measure
   opaque : SUBSET Addr]           \* non-zero bytes no parser rule explains

(* All lengths the encoder of some index block of m may come up with. *)
Lengths(m) == UNION {m.lengths[b] : b \in m.index}

ASSUME LayoutAssumption ==
  /\ N \in Nat /\ HeaderEnd \in Nat /\ MaxAddr \in Nat /\ Rounds \in Nat
  /\ Templates \subseteq TemplateType
  /\ \A m \in Templates :
       /\ m.preserve => m.source
       /\ m.source => m.retained
       /\ \A i, j \in Obj : i < j => m.orig[i] <= m.orig[j]
       /\ \A i \in m.index : m.content[i] = m.oldContent[i] /\ m.newLen[i] = m.oldLen[i]
       /\ \A i \in m.index : \A j \in Obj \ {i} : m.content[i] # m.content[j]
       /\ IsFiniteSet(Lengths(m))

VARIABLES
  t,         \* the template and the edits, fixed for the run
  phase,     \* step of pack_xp3_from_manifest
  round,     \* layout rounds done
  settled,   \* the last round changed nothing, and the loop was left
  next,      \* next object of the running loop over objects
  cursor,    \* end of the last object placed
  previous,  \* the last object placed at an offset of its own; 0: none
  footprint, \* room reserved for each object
  assigned,  \* offset of each object in the new file
  encoder,   \* what the encoders have answered so far
  reuse,     \* index blocks written as their original bytes
  image      \* the file being written

vars == <<t, phase, round, settled, next, cursor, previous, footprint, assigned,
          encoder, reuse, image>>

IsIndex(i) == i \in t.index
End(i) == assigned[i] + footprint[i]
Bytes(start, len) == start .. (start + len - 1)
OldBytes(i) == Bytes(t.orig[i], t.oldLen[i])

Init ==
  /\ t \in Templates
  /\ phase = "assign" /\ round = 0 /\ settled = FALSE
  /\ next = 1 /\ cursor = HeaderEnd /\ previous = 0
  /\ footprint = [i \in Obj |-> t.newLen[i]]
  /\ assigned = [i \in Obj |-> 0]
  /\ encoder = {}
  /\ reuse = {}
  /\ image = [a \in Addr |-> Zero]

(* Bug: two objects at one source offset share storage whatever they hold. *)
AliasByPlace(i, j) == t.orig[i] = t.orig[j] /\ footprint[i] = footprint[j]

(* Same source offset, size and bytes as the object placed last: the two   *)
(* may go on sharing their storage.                                        *)
Alias(i, j) ==
  /\ t.orig[i] = t.orig[j]
  /\ footprint[i] = footprint[j]
  /\ t.content[i] = t.content[j]

PlaceAlias ==
  /\ phase = "assign" /\ next \in Obj
  /\ t.preserve /\ previous # 0 /\ Alias(next, previous)
  /\ assigned' = [assigned EXCEPT ![next] = assigned[previous]]
  /\ next' = next + 1
  /\ UNCHANGED <<t, phase, round, settled, cursor, previous, footprint, encoder, reuse, image>>

PlaceOwn ==
  /\ phase = "assign" /\ next \in Obj
  /\ ~(t.preserve /\ previous # 0 /\ Alias(next, previous))
  /\ LET offset == IF t.preserve /\ t.orig[next] > cursor THEN t.orig[next] ELSE cursor
     IN  /\ assigned' = [assigned EXCEPT ![next] = offset]
         /\ cursor' = offset + footprint[next]
  /\ previous' = next
  /\ next' = next + 1
  /\ UNCHANGED <<t, phase, round, settled, footprint, encoder, reuse, image>>

(* What the decoded bytes of block b depend on. *)
Listed(b) == [i \in {i \in Obj \ t.index : t.owner[i] = b} |-> assigned[i]]

(* The answer for the present offsets, once block b was encoded for them. *)
Answers(b) == {x \in encoder : x.block = b /\ x.offsets = Listed(b)}

(* patch_index_templates and encode_index_payloads, for every block: any   *)
(* length, but for offsets a block was encoded for before, the same again. *)
Encode ==
  /\ phase = "assign" /\ next = N + 1
  /\ \E len \in [t.index -> Lengths(t)] :
       /\ \A b \in t.index : len[b] \in t.lengths[b] /\ \A x \in Answers(b) : x.length = len[b]
       /\ encoder' = encoder \cup
            {[block |-> b, offsets |-> Listed(b), length |-> len[b]] : b \in t.index}
  /\ phase' = "measure"
  /\ UNCHANGED <<t, round, settled, next, cursor, previous, footprint, assigned, reuse, image>>

(* Total length of block b encoded for the current offsets. *)
EncodedLen(b) == (CHOOSE x \in Answers(b) : TRUE).length

(* Bug: the old footprint of an index block is not kept as slack. *)
WantedExact(i) == IF IsIndex(i) THEN EncodedLen(i) ELSE footprint[i]

(* The room object i asks for after the blocks were encoded. *)
Wanted(i) ==
  IF ~IsIndex(i) THEN footprint[i]
  ELSE IF t.preserve /\ footprint[i] > EncodedLen(i) THEN footprint[i]
  ELSE EncodedLen(i)

Stable == \A i \in Obj : Wanted(i) = footprint[i]

Adjusting == phase = "measure" /\ ~settled /\ round < Rounds

(* Bug: rounds are not counted. *)
MeasureForever ==
  /\ Adjusting
  /\ footprint' = [i \in Obj |-> Wanted(i)]
  /\ settled' = Stable
  /\ phase' = "assign" /\ next' = 1 /\ cursor' = HeaderEnd /\ previous' = 0
  /\ UNCHANGED <<t, round, assigned, encoder, reuse, image>>

(* End of a round: adjust the footprints of the index blocks.  Whether the *)
(* round changed nothing or was the last, objects are assigned once more   *)
(* after the loop.                                                         *)
Measure ==
  /\ Adjusting
  /\ footprint' = [i \in Obj |-> Wanted(i)]
  /\ settled' = Stable /\ round' = round + 1
  /\ phase' = "assign" /\ next' = 1 /\ cursor' = HeaderEnd /\ previous' = 0
  /\ UNCHANGED <<t, assigned, encoder, reuse, image>>

(* Nothing the block lists moved or changed its size, and neither did the  *)
(* block its continuation pointer names.                                   *)
DecodedUnchanged(b) ==
  \A i \in Obj \ t.index :
    t.owner[i] = b => assigned[i] = t.orig[i] /\ t.newLen[i] = t.oldLen[i]

Follows(c, b) == b < c /\ \A d \in t.index : d <= b \/ c <= d
NextUnmoved(b) == \A c \in t.index : Follows(c, b) => assigned[c] = t.orig[c]

Build ==
  /\ phase = "measure" /\ ~Adjusting
  /\ reuse' = {b \in t.index : t.retained /\ DecodedUnchanged(b) /\ NextUnmoved(b)}
  /\ phase' = "check"
  /\ UNCHANGED <<t, round, settled, next, cursor, previous, footprint, assigned, encoder, image>>

WrittenLen(i) ==
  IF ~IsIndex(i) THEN t.newLen[i]
  ELSE IF i \in reuse THEN t.oldLen[i] ELSE EncodedLen(i)
Content(i) == IF IsIndex(i) /\ i \notin reuse THEN Recoded(i) ELSE t.content[i]
NewBytes(i) == Bytes(assigned[i], WrittenLen(i))

(* Bug: nothing of the source counts as unknown. *)
HitsNothing == FALSE

Known == (0 .. HeaderEnd - 1) \cup UNION {OldBytes(i) : i \in Obj}
HitsOpaque == \E i \in Obj : NewBytes(i) \cap t.opaque \cap (Addr \ Known) # {}

SourceByte(a) ==
  IF \E i \in Obj : a \in OldBytes(i)
  THEN LET i == CHOOSE i \in Obj : a \in OldBytes(i)
       IN <<t.oldContent[i], a - t.orig[i]>>
  ELSE IF a \in t.opaque THEN Opaque ELSE Zero

SourceImage == [a \in Addr |-> SourceByte(a)]

(* validate_opaque_source_safety, then the copy of the source that keeps   *)
(* whatever no object overwrites.                                          *)
Open ==
  /\ phase = "check"
  /\ ~(t.source /\ HitsOpaque)
  /\ image' = IF t.preserve THEN SourceImage ELSE [a \in Addr |-> Zero]
  /\ phase' = "write" /\ next' = 1
  /\ UNCHANGED <<t, round, settled, cursor, previous, footprint, assigned, encoder, reuse>>

Refuse ==
  /\ phase = "check"
  /\ t.source /\ HitsOpaque
  /\ phase' = "failed"
  /\ UNCHANGED <<t, round, settled, next, cursor, previous, footprint, assigned, encoder,
                 reuse, image>>

WriteObject ==
  /\ phase = "write" /\ next \in Obj
  /\ NewBytes(next) \subseteq Addr
  /\ image' = [a \in Addr |-> IF a \in NewBytes(next)
                              THEN <<Content(next), a - assigned[next]>> ELSE image[a]]
  /\ next' = next + 1
  /\ UNCHANGED <<t, phase, round, settled, cursor, previous, footprint, assigned, encoder, reuse>>

ReadsBack(i) ==
  \A a \in NewBytes(i) : image[a] = <<Content(i), a - assigned[i]>>

Unedited == t.content = t.oldContent /\ t.newLen = t.oldLen

(* Bug: the result is not parsed again. *)
TrustWriter ==
  /\ phase = "write" /\ next = N + 1
  /\ phase' = "done"
  /\ UNCHANGED <<t, round, settled, next, cursor, previous, footprint, assigned, encoder,
                 reuse, image>>

(* Archive::open of the new file reads the index chain, not the entries;   *)
(* a pack that edited nothing must also have reproduced the source.        *)
SelfCheck ==
  /\ phase = "write" /\ next = N + 1
  /\ LET parses == \A b \in t.index : ReadsBack(b)
         identical == t.preserve /\ Unedited => image = SourceImage
     IN  phase' = IF parses /\ identical THEN "done" ELSE "failed"
  /\ UNCHANGED <<t, round, settled, next, cursor, previous, footprint, assigned, encoder,
                 reuse, image>>

Next == PlaceAlias \/ PlaceOwn \/ Encode \/ Measure \/ Build \/ Open \/ Refuse
          \/ WriteObject \/ SelfCheck

Spec == Init /\ [][Next]_vars /\ WF_vars(Next)

----------------------------------------------------------------------------
TypeOK ==
  /\ t \in TemplateType
  /\ phase \in {"assign", "measure", "check", "write", "done", "failed"}
  /\ round \in 0 .. Rounds
  /\ settled \in BOOLEAN
  /\ next \in 1 .. N + 1
  /\ cursor \in Nat
  /\ previous \in 0 .. N
  /\ footprint \in [Obj -> Nat]
  /\ assigned \in [Obj -> Nat]
  /\ encoder \subseteq [block : Obj, offsets : UNION {[S -> Nat] : S \in SUBSET Obj},
                         length : Nat]
  /\ reuse \subseteq Obj
  /\ image \in [Addr -> (0 .. 3 * N) \X Int]

(* An edited segment, a grown index block or a compact layout never puts   *)
(* two objects on the same bytes without pack noticing: an archive that is *)
(* reported as written returns every object.                               *)
SuccessReadsBack == phase = "done" => \A i \in Obj : ReadsBack(i)

(* Two data objects share bytes only if they hold the same bytes from the  *)
(* same offset: an edited alias of a shared segment gets its own storage.  *)
SharedOnlyIfEqual ==
  phase \in {"check", "write", "done", "failed"} =>
    \A i, j \in Obj \ t.index :
      NewBytes(i) \cap NewBytes(j) # {} =>
        assigned[i] = assigned[j] /\ t.content[i] = t.content[j]

(* The lengths for which a block has no room in the source. *)
Growth == {x \in t.index \X Lengths(t) : x[2] \in t.lengths[x[1]] /\ x[2] > t.oldLen[x[1]]}

(* Anchored layout: if the loop of pack_xp3_from_manifest was left because *)
(* a round changed nothing, or if the rounds are at least as many as the   *)
(* lengths the blocks could grow to, then no block written, encoded anew   *)
(* or as its original bytes, is longer than the room the final assignment  *)
(* gave it.  When more lengths are possible and the rounds run out, a      *)
(* block may be longer; SuccessReadsBack is about what happens then.       *)
AnchoredIndexFits ==
  t.preserve /\ phase \in {"check", "write", "done", "failed"}
    /\ (settled \/ Cardinality(Growth) <= Rounds) =>
    \A b \in t.index : WrittenLen(b) <= footprint[b]

(* Non-zero bytes of the source that no object claims are still there.     *)
OpaqueKept ==
  t.preserve /\ phase = "done" =>
    \A a \in t.opaque : SourceByte(a) = Opaque => image[a] = Opaque

(* Laying out, writing and checking ends. *)
Terminates == <>(phase \in {"done", "failed"})
=============================================================================
