----------------------------- MODULE Xp3Archive -----------------------------
(***************************************************************************)
(* Opening an XP3 archive and reading from it (xp3.rs): find the           *)
(* signature, follow the chain of index blocks, walk the root chunks of    *)
(* each block, drop the protected-warning entry, name the startup script;  *)
(* then any number of threads read entries and the special-index blob      *)
(* through one file handle behind a mutex.                                 *)
(*                                                                         *)
(* A file is a record: where signatures stand, and what an index block     *)
(* read at a place says.  A place a pointer leads to and where no block    *)
(* can be read (outside the file, unknown method, broken zlib) is not in   *)
(* the domain of `block`.  A byte of the file is its offset; a byte that   *)
(* a zlib stream at offset a decodes to is -(a + k).                       *)
(***************************************************************************)
EXTENDS Integers, Sequences, FiniteSets, SequencesExt

CONSTANTS
  Files,     \* the files that may be opened
  Readers,   \* threads that read from the open archive
  MaxBlocks, \* blocks of an index chain before it is given up: 1_000_001
  Para,      \* alignment of an embedded signature: 16
  Window,    \* SCAN_CHUNK, a multiple of Para
  MagicLen,  \* bytes of XP3_MAGIC
  Prefix     \* bytes of HXV4_PROTECTED_WARNING_PREFIX

None == "none"
Nowhere == -1
NoId == -1

ASSUME ArchiveAssumption ==
  /\ None \notin Readers
  /\ MaxBlocks \in Nat \ {0} /\ Para \in Nat \ {0} /\ MagicLen \in 1 .. Para /\ Prefix \in Nat \ {0}
  /\ Window \in Nat \ {0} /\ Window % Para = 0

Segment == [method : STRING, at : Nat, orig : Nat, stored : Nat, inflates : BOOLEAN]

(* A descriptor of a special index is one range, and its bytes are those   *)
(* of the file.                                                            *)
IsChunk(c) ==
  /\ c.segs \in Seq(Segment)
  /\ c.tag = "Hxv4" \/ c.form = "range" => Len(c.segs) = 1 /\ c.segs[1].method = "raw"
IsBlock(cs) == cs \in Seq(Range(cs)) /\ \A k \in DOMAIN cs : IsChunk(cs[k])

ASSUME FileAssumption ==
  \A f \in Files :
    /\ f.len \in Nat /\ f.magics \subseteq Nat
    /\ 0 \in f.magics => MagicLen <= f.len
    /\ \A p \in DOMAIN f.block : IsBlock(f.block[p].chunks)

VARIABLES
  file,    \* the file, its name and the options it is opened with
  phase,   \* where from_storage stands
  base,    \* xp3_offset
  at,      \* place of the next index block
  walk,    \* root chunks of the current block still to walk
  blocks,  \* index_blocks: their places
  roots,   \* root_chunks
  hxv4,    \* root of the Hxv4 descriptor, or 0
  entries,
  pending, \* pending_alt_name
  holder,  \* thread that holds the mutex of the file
  cursor,  \* position of the file handle
  blob,    \* special_index_blobs: the OnceLock of one root
  reader   \* what each thread reads

parseVars == <<file, phase, base, at, walk, blocks, roots, hxv4, entries, pending>>
readVars == <<holder, cursor, blob, reader>>
vars == <<parseVars, readVars>>

Phases == {"locate", "block", "walk", "prune", "open", "error"}
RootKinds == {"File", "ProtectedFile", "AlternateName", "SpecialIndex", "Hxv4SpecialIndex", "Unknown"}
Idle == [pc |-> "idle", entry |-> 0, left |-> <<>>, got |-> <<>>]

MinOf(S) == CHOOSE x \in S : \A y \in S : x <= y

----------------------------------------------------------------------------
(* The signature *)

(* find_xp3: the first paragraph-aligned signature of an MZ image. *)
ScanMemory(f) ==
  LET aligned == {p \in f.magics : p >= Para /\ p % Para = 0 /\ p + MagicLen <= f.len}
  IN  IF 0 \in f.magics THEN 0
      ELSE IF f.mz /\ aligned # {} THEN MinOf(aligned) ELSE Nowhere

(* One window of the scan: from the first aligned place, never before Para.*)
InWindow(f, b) ==
  LET want == MinOf({f.len - b, Window + MagicLen - 1})
      first == IF b < Para THEN Para ELSE b
  IN  {p \in f.magics : p >= first /\ p % Para = 0 /\ p + MagicLen <= b + want}

(* find_xp3_storage: the same in windows, without reading the whole file. *)
ScanFile(f) ==
  LET hit == {b \in {k * Window : k \in 0 .. f.len} : b < f.len /\ InWindow(f, b) # {}}
  IN  IF f.len < MagicLen THEN Nowhere
      ELSE IF 0 \in f.magics THEN 0
      ELSE IF f.mz /\ hit # {} THEN MinOf(InWindow(f, MinOf(hit))) ELSE Nowhere

Init ==
  /\ file \in Files
  /\ phase = "locate" /\ base = Nowhere /\ at = Nowhere
  /\ walk = <<>> /\ blocks = <<>> /\ roots = <<>> /\ hxv4 = 0 /\ entries = <<>> /\ pending = None
  /\ holder = None /\ cursor = 0 /\ blob = "empty"
  /\ reader = [t \in Readers |-> Idle]

Locate ==
  /\ phase = "locate"
  /\ base' = IF file.backed THEN ScanFile(file) ELSE ScanMemory(file)
  /\ IF base' = Nowhere THEN phase' = "error" /\ at' = at
     ELSE phase' = "block" /\ at' = file.first
  /\ UNCHANGED <<file, walk, blocks, roots, hxv4, entries, pending, readVars>>

----------------------------------------------------------------------------
(* The index chain *)

ReadBlock ==
  /\ phase = "block"
  /\ IF at \in DOMAIN file.block
     THEN /\ phase' = "walk"
          /\ walk' = file.block[at].chunks
          /\ blocks' = Append(blocks, at)
     ELSE phase' = "error" /\ UNCHANGED <<walk, blocks>>
  /\ UNCHANGED <<file, base, at, roots, hxv4, entries, pending, readVars>>

(* Bug: a chain that is too long is cut off instead of refused. *)
EndBlockCuts ==
  /\ phase = "walk" /\ walk = <<>>
  /\ LET b == file.block[at]
     IN  IF b.more /\ Len(blocks) < MaxBlocks THEN phase' = "block" /\ at' = b.next
         ELSE phase' = "prune" /\ at' = at
  /\ UNCHANGED <<file, base, walk, blocks, roots, hxv4, entries, pending, readVars>>

(* Bug: no limit on the number of blocks. *)
EndBlockUnbounded ==
  /\ phase = "walk" /\ walk = <<>>
  /\ LET b == file.block[at]
     IN  IF b.more THEN phase' = "block" /\ at' = b.next ELSE phase' = "prune" /\ at' = at
  /\ blocks' = IF Len(blocks) = MaxBlocks THEN <<>> ELSE blocks
  /\ roots' = IF Len(blocks) = MaxBlocks THEN <<>> ELSE roots
  /\ entries' = IF Len(blocks) = MaxBlocks THEN <<>> ELSE entries
  /\ UNCHANGED <<file, base, walk, hxv4, pending, readVars>>

(* All chunks walked: the chain ends, goes on at the pointer, or is given up.*)
EndBlock ==
  /\ phase = "walk" /\ walk = <<>>
  /\ LET b == file.block[at]
     IN  \/ ~b.more /\ phase' = "prune" /\ at' = at
         \/ b.more /\ Len(blocks) < MaxBlocks /\ phase' = "block" /\ at' = b.next
         \/ b.more /\ Len(blocks) = MaxBlocks /\ phase' = "error" /\ at' = at
  /\ UNCHANGED <<file, base, walk, blocks, roots, hxv4, entries, pending, readVars>>

InFile(s) == s.at + s.stored <= file.len

(* classify_root; a descriptor that points outside the file is no descriptor. *)
Classify(c) ==
  CASE c.tag = "Hxv4" /\ InFile(c.segs[1]) -> "Hxv4SpecialIndex"
    [] c.tag = "File" -> "File"
    [] c.tag # "File" /\ c.form = "name" -> "AlternateName"
    [] c.tag # "File" /\ c.form = "range" /\ InFile(c.segs[1]) -> "SpecialIndex"
    [] OTHER -> "Unknown"

IsDummy(name) == name = "dummy"

(* hxv4_fake_id: the synthetic names that encode an id, and nothing else. *)
FakeId(name) == CASE name = "fake0" -> 0 [] name = "fake1" -> 1 [] OTHER -> NoId

(* The name that decides whether a File chunk is the warning: the          *)
(* alternate name if one is pending, else the one in its info chunk.       *)
ShownName(c) == IF pending # None THEN pending ELSE c.name

Root(c) ==
  [kind |-> IF Classify(c) = "File" /\ IsDummy(ShownName(c)) THEN "ProtectedFile" ELSE Classify(c),
   name |-> IF Classify(c) = "File" THEN ShownName(c) ELSE c.name,
   id |-> IF hxv4 # 0 /\ Classify(c) = "File" /\ ~IsDummy(ShownName(c)) /\ c.parses THEN FakeId(c.name) ELSE NoId,
   range |-> IF Classify(c) \in {"SpecialIndex", "Hxv4SpecialIndex"} THEN c.segs ELSE <<>>]

(* parse_file_chunk: an entry needs both a name and segments. *)
MakesEntry(c) == Classify(c) = "File" /\ ~IsDummy(ShownName(c)) /\ c.parses

EntryOf(c) ==
  [root |-> Len(roots) + 1, name |-> c.name, alt |-> pending, id |-> Root(c).id,
   orig |-> c.orig, arch |-> c.arch, layer |-> c.layer, segs |-> c.segs]

(* An alternate name is for the next File chunk, and not across Hxv4. *)
NextPending(c) ==
  CASE Classify(c) = "AlternateName" -> c.name
    [] Classify(c) \in {"Hxv4SpecialIndex", "File"} -> None
    [] OTHER -> pending

(* walk_root_chunks: one chunk; where its length is impossible, tolerant   *)
(* mode tries again one byte further on.                                   *)
WalkChunk ==
  /\ phase = "walk" /\ walk # <<>>
  /\ LET c == Head(walk)
     IN  \/ /\ ~c.whole /\ file.tolerant
            /\ walk' = Tail(walk)
            /\ UNCHANGED <<phase, roots, hxv4, entries, pending>>
         \/ /\ ~c.whole /\ ~file.tolerant
            /\ phase' = "error"
            /\ UNCHANGED <<walk, roots, hxv4, entries, pending>>
         \/ /\ c.whole
            /\ walk' = Tail(walk)
            /\ roots' = Append(roots, Root(c))
            /\ hxv4' = IF Classify(c) = "Hxv4SpecialIndex" /\ hxv4 = 0 THEN Len(roots) + 1 ELSE hxv4
            /\ entries' = IF MakesEntry(c) THEN Append(entries, EntryOf(c)) ELSE entries
            /\ pending' = NextPending(c)
            /\ phase' = phase
  /\ UNCHANGED <<file, base, at, blocks, readVars>>

----------------------------------------------------------------------------
(* After the walk *)

(* The entry that may be the modern warning: fake id 0, one raw segment. *)
Suspects == {i \in DOMAIN entries : entries[i].id = 0 /\ Len(entries[i].segs) = 1 /\ entries[i].segs[1].method = "raw"}
Suspect == entries[MinOf(Suspects)].segs[1]

(* normalize_hxv4_data_startup_anchor *)
Anchored(es) ==
  LET ordinary == {i \in DOMAIN es : es[i].id = NoId}
  IN  IF /\ file.backed /\ file.data /\ hxv4 # 0 /\ Cardinality(ordinary) = 1
         /\ \A i \in DOMAIN es : es[i].name # "startup"
      THEN [i \in DOMAIN es |-> IF i \in ordinary THEN [es[i] EXCEPT !.name = "startup"] ELSE es[i]]
      ELSE es

(* prune_hxv4_protected_warning_entry, then the startup anchor.  Reading   *)
(* the text of the suspect may fail, and the archive with it.              *)
Prune ==
  /\ phase = "prune"
  /\ LET looks == hxv4 # 0 /\ Suspects # {} /\ Suspect.stored >= Prefix
         marked == {r \in DOMAIN roots : roots[r].kind = "File" /\ roots[r].id = 0}
     IN  \/ /\ looks /\ Suspect.at + Prefix > file.len
            /\ phase' = "error" /\ UNCHANGED <<entries, roots>>
         \/ /\ looks /\ Suspect.at + Prefix <= file.len /\ Suspect.at \in file.warning
            /\ entries' = Anchored(RemoveAt(entries, MinOf(Suspects)))
            /\ roots' = IF marked = {} THEN roots ELSE [roots EXCEPT ![MinOf(marked)].kind = "ProtectedFile"]
            /\ phase' = "open"
         \/ /\ looks => Suspect.at + Prefix <= file.len /\ Suspect.at \notin file.warning
            /\ entries' = Anchored(entries) /\ roots' = roots
            /\ phase' = "open"
  /\ UNCHANGED <<file, base, at, walk, blocks, hxv4, pending, readVars>>

----------------------------------------------------------------------------
(* Reading from the open archive *)

Raw(s) == [k \in 1 .. s.stored |-> s.at + k - 1]
Inflated(a, n) == [k \in 1 .. n |-> -(a + k)]

(* What stops reconstruct_entry_segments at a segment. *)
Broken(s) ==
  \/ ~InFile(s)
  \/ s.method = "raw" /\ s.stored # s.orig
  \/ s.method = "zlib" /\ ~s.inflates
  \/ s.method \notin {"raw", "zlib"}

Special == {r \in DOMAIN roots : roots[r].range # <<>>}

Job(t) == reader[t]
Goes(t, pc, left, got) == reader' = [reader EXCEPT ![t] = [pc |-> pc, entry |-> @.entry, left |-> left, got |-> got]]

BeginEntry(t) ==
  /\ phase = "open" /\ reader[t] = Idle
  /\ \E i \in DOMAIN entries :
       reader' = [reader EXCEPT ![t] = [pc |-> "next", entry |-> i, left |-> entries[i].segs, got |-> <<>>]]
  /\ UNCHANGED <<parseVars, holder, cursor, blob>>

(* special_index_bytes_for_root: the first caller fills the cell, others wait. *)
BeginBlob(t) ==
  /\ phase = "open" /\ reader[t] = Idle /\ Special # {}
  /\ \/ /\ blob = "empty" /\ blob' = "busy"
        /\ reader' = [reader EXCEPT ![t] = [pc |-> "next", entry |-> 0, left |-> roots[MinOf(Special)].range, got |-> <<>>]]
     \/ /\ blob = "failed" /\ blob' = blob
        /\ Goes(t, "error", <<>>, <<>>)
     \/ /\ blob = "filled" /\ blob' = blob
        /\ Goes(t, "done", <<>>, Raw(roots[MinOf(Special)].range[1]))
  /\ UNCHANGED <<parseVars, holder, cursor>>

Stop(t) ==
  /\ Goes(t, "error", <<>>, Job(t).got)
  /\ blob' = IF Job(t).entry = 0 THEN "failed" ELSE blob

(* A segment that cannot be read at all ends the call. *)
Refuse(t) ==
  /\ Job(t).pc = "next" /\ Job(t).left # <<>> /\ Broken(Head(Job(t).left))
  /\ Stop(t)
  /\ UNCHANGED <<parseVars, holder, cursor>>

Decoded(s, a) == IF s.method = "zlib" THEN Inflated(a, s.orig) ELSE Raw([s EXCEPT !.at = a])

(* PhysicalStorage::Memory: a slice. *)
ReadMemory(t) ==
  /\ ~file.backed /\ Job(t).pc = "next" /\ Job(t).left # <<>> /\ ~Broken(Head(Job(t).left))
  /\ Goes(t, "next", Tail(Job(t).left), Job(t).got \o Decoded(Head(Job(t).left), Head(Job(t).left).at))
  /\ UNCHANGED <<parseVars, holder, cursor, blob>>

(* Bug: the handle is cloned; a clone shares the position. *)
SeekUnlocked(t) ==
  /\ file.backed /\ Job(t).pc = "next" /\ Job(t).left # <<>> /\ ~Broken(Head(Job(t).left))
  /\ holder' = t /\ cursor' = Head(Job(t).left).at
  /\ Goes(t, "read", Job(t).left, Job(t).got)
  /\ UNCHANGED <<parseVars, blob>>

(* PhysicalStorage::File: lock and seek ... *)
Seek(t) ==
  /\ file.backed /\ Job(t).pc = "next" /\ Job(t).left # <<>> /\ ~Broken(Head(Job(t).left))
  /\ holder = None /\ holder' = t
  /\ cursor' = Head(Job(t).left).at
  /\ Goes(t, "read", Job(t).left, Job(t).got)
  /\ UNCHANGED <<parseVars, blob>>

(* ... read_exact at the position, unlock; the read may fail. *)
ReadExact(t) ==
  /\ Job(t).pc = "read" /\ holder' = None
  /\ LET s == Head(Job(t).left)
     IN  \/ /\ cursor' = cursor + s.stored
            /\ Goes(t, "next", Tail(Job(t).left), Job(t).got \o Decoded(s, cursor))
            /\ blob' = blob
         \/ cursor' = cursor /\ Stop(t)
  /\ UNCHANGED parseVars

FillBlob(t) ==
  /\ Job(t).pc = "next" /\ Job(t).left = <<>> /\ Job(t).entry = 0
  /\ Goes(t, "done", <<>>, Job(t).got)
  /\ blob' = "filled"
  /\ UNCHANGED <<parseVars, holder, cursor>>

(* reconstruct_entry: the length info promises, or one zlib layer more. *)
FinishEntry(t) ==
  /\ Job(t).pc = "next" /\ Job(t).left = <<>> /\ Job(t).entry # 0
  /\ LET e == entries[Job(t).entry]
         n == Len(Job(t).got)
         layered == n # e.orig /\ n = e.arch /\ e.layer
     IN  Goes(t, IF n = e.orig \/ layered THEN "done" ELSE "error", <<>>,
              IF layered THEN Inflated(file.len, e.orig) ELSE Job(t).got)
  /\ UNCHANGED <<parseVars, holder, cursor, blob>>

Parse == Locate \/ ReadBlock \/ WalkChunk \/ EndBlock \/ Prune

Read(t) ==
  \/ BeginEntry(t) \/ BeginBlob(t) \/ Refuse(t) \/ ReadMemory(t)
  \/ Seek(t) \/ ReadExact(t) \/ FillBlob(t) \/ FinishEntry(t)

Next == Parse \/ \E t \in Readers : Read(t)

Spec == Init /\ [][Next]_vars /\ WF_vars(Parse)

----------------------------------------------------------------------------
(* Properties *)

(* Phases, the chain, the roots, the handle and the readers' jobs keep     *)
(* their types; an Hxv4 descriptor is a root chunk.                        *)
IsJob(r) == r = [pc |-> r.pc, entry |-> r.entry, left |-> r.left, got |-> r.got]
TypeOK ==
  /\ phase \in Phases
  /\ \E S : blocks \in Seq(S)
  /\ Len(blocks) <= MaxBlocks
  /\ \E S : roots \in Seq(S)
  /\ \A r \in DOMAIN roots : roots[r].kind \in RootKinds
  /\ hxv4 \in 0 .. Len(roots)
  /\ \E S : entries \in Seq(S)
  /\ holder \in Readers \cup {None}
  /\ blob \in {"empty", "busy", "filled", "failed"}
  /\ reader = [t \in Readers |-> reader[t]]
  /\ \A t \in Readers : IsJob(reader[t]) /\ reader[t].pc \in {"idle", "next", "read", "done", "error"}

(* The blocks are a chain of the file from its first to one that does not  *)
(* continue, and none is there twice.                                      *)
ChainComplete ==
  /\ blocks # <<>> /\ blocks[1] = file.first
  /\ \A k, l \in DOMAIN blocks : blocks[k] = blocks[l] => k = l
  /\ \A k \in DOMAIN blocks :
       IF k = Len(blocks) THEN ~file.block[blocks[k]].more
       ELSE file.block[blocks[k]].more /\ blocks[k + 1] = file.block[blocks[k]].next

(* The root chunks that an alternate name can meet: before r, the nearest. *)
Meets(r) == {q \in 1 .. r - 1 : roots[q].kind \in {"AlternateName", "File", "ProtectedFile", "Hxv4SpecialIndex"}}
Before(r) == CHOOSE q \in Meets(r) : \A p \in Meets(r) : p <= q

(* An entry has the alternate name that stands before it and no other, and *)
(* an id only behind the Hxv4 descriptor; the warning is no entry.         *)
NamesBelong ==
  \A i \in DOMAIN entries :
    LET e == entries[i]
    IN  /\ e.alt = IF Meets(e.root) # {} /\ roots[Before(e.root)].kind = "AlternateName"
                   THEN roots[Before(e.root)].name ELSE None
        /\ ~IsDummy(IF e.alt # None THEN e.alt ELSE e.name)
        /\ e.id # NoId => hxv4 # 0 /\ hxv4 < e.root
        /\ Cardinality({r \in DOMAIN roots : roots[r].id = 0}) <= 1 => roots[e.root].kind = "File"

(* An archive that is opened is read as the file says: the signature an    *)
(* in-memory parse would find, the whole chain, and names on the entries   *)
(* they stand before, across blocks and chunks that were skipped.          *)
OpenedAsRead ==
  phase = "open" => base = ScanMemory(file) /\ ChainComplete /\ NamesBelong

(* An index chain that leads back into itself is given up: opening ends.   *)
OpenEnds == <>(phase \in {"open", "error"})

(* A reader that succeeds has the bytes of its own segments, in order and  *)
(* of the length info promises, whoever else moved the file handle; a      *)
(* special-index blob is the range its root describes.                     *)
ReadsOwnRange ==
  \A t \in Readers :
    reader[t].pc = "done" =>
      IF reader[t].entry = 0 THEN reader[t].got = Raw(roots[MinOf(Special)].range[1])
      ELSE LET e == entries[reader[t].entry]
               whole == FlattenSeq([k \in DOMAIN e.segs |-> Decoded(e.segs[k], e.segs[k].at)])
           IN  \/ reader[t].got = whole /\ Len(whole) = e.orig
               \/ reader[t].got = Inflated(file.len, e.orig) /\ Len(whole) = e.arch /\ e.arch # e.orig
=============================================================================
