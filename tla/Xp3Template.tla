---------------------------- MODULE Xp3Template -----------------------------
(***************************************************************************)
(* The index of an archive through an edit: unpack records the decoded     *)
(* index blocks, the root chunks and the entries of the open archive       *)
(* (main.rs), pack loads them as templates, gives every object a new place *)
(* and writes places and lengths into the child chunks of the roots        *)
(* (encoder/xp3.rs), and the result is opened again by the same parser     *)
(* (Xp3Archive).  How many bytes a block needs and how the file is filled  *)
(* is the business of Xp3Layout: a block keeps its length here.            *)
(*                                                                         *)
(* A File chunk has child chunks: an info with sizes, lists of segment     *)
(* descriptors, others.  `whole` says that its length fits, `ok` that the  *)
(* body has the form its tag asks for, `named` that an info has its name.  *)
(* Only files that are `detailed` so far are packed.                       *)
(***************************************************************************)
EXTENDS Xp3Archive

CONSTANTS
  HeaderEnd,  \* first byte behind the signature and the first pointer
  BlockLen    \* bytes of an index block

ASSUME TemplateAssumption ==
  /\ HeaderEnd \in Nat /\ BlockLen \in Nat
  /\ \A f \in Files : f.detailed => 0 \in f.magics

VARIABLES
  meta,   \* the part of xp3-meta.yaml that describes the index
  pack    \* the pack in progress

tvars == <<vars, meta, pack>>

NoMeta == [decoded |-> <<>>]
NoPack == [pc |-> "idle"]
Failed == [pc |-> "failed"]

----------------------------------------------------------------------------
(* Child chunks *)

Lists(kids) == [j \in DOMAIN kids |-> IF kids[j].tag = "segm" THEN kids[j].segs ELSE <<>>]
Infos(kids) == SelectSeq(kids, LAMBDA k : k.tag = "info" /\ k.ok)

(* parse_file_chunk: what a File chunk with these children says. *)
ReadFile(c) ==
  LET infos == Infos(c.kids)
      segs == FlattenSeq(Lists(SelectSeq(c.kids, LAMBDA k : k.ok)))
  IN  [c EXCEPT !.parses = /\ \A j \in DOMAIN c.kids : c.kids[j].whole
                           /\ \E j \in DOMAIN infos : infos[j].named
                           /\ segs # <<>>,
                !.segs = segs,
                !.orig = IF infos = <<>> THEN 0 ELSE Last(infos).orig,
                !.arch = IF infos = <<>> THEN 0 ELSE Last(infos).arch]

(* The children before the first that is cut off. *)
Intact(kids) ==
  LET cut == {j \in DOMAIN kids : ~kids[j].whole}
  IN  IF cut = {} THEN kids ELSE SubSeq(kids, 1, MinOf(cut) - 1)

HasList(kids) == \E j \in DOMAIN kids : kids[j].tag = "segm" /\ kids[j].ok

----------------------------------------------------------------------------
(* Unpack records the index *)

(* index_block and index_offset of each root: block and chunk number. *)
Where ==
  FlattenSeq([k \in DOMAIN blocks |->
    LET cs == file.block[blocks[k]].chunks
    IN  SelectSeq([i \in DOMAIN cs |-> <<k, i>>], LAMBDA p : cs[p[2]].whole)])

Kids(r) == file.block[blocks[Where[r][1]]].chunks[Where[r][2]].kids

(* build_preserved_file_meta: the segments of a warning that can be read. *)
Preserved ==
  [r \in {r \in DOMAIN roots : roots[r].kind = "ProtectedFile" /\ HasList(Intact(Kids(r)))} |->
     SelectSeq(FlattenSeq(Lists(SelectSeq(Intact(Kids(r)), LAMBDA k : k.ok))), InFile)]

(* build_xp3_meta and populate_special_meta; an older program named no     *)
(* roots of entries and retained neither warnings nor special blobs.       *)
RecordTemplate ==
  /\ phase = "open" /\ meta = NoMeta /\ file.detailed
  /\ blob = "empty" /\ \A t \in Readers : reader[t] = Idle
  /\ \E older \in BOOLEAN :
       meta' = [decoded |-> [k \in DOMAIN blocks |-> file.block[blocks[k]].chunks],
                blocks |-> blocks, roots |-> roots, where |-> Where,
                entries |-> entries, bound |-> ~older,
                files |-> IF older THEN [r \in {} |-> <<>>] ELSE Preserved,
                specials |-> IF older THEN {} ELSE Special]
  /\ UNCHANGED <<vars, pack>>

----------------------------------------------------------------------------
(* Pack loads what it needs *)

(* resolve_entry_root_bindings *)
FileRoots == SelectSeq([r \in DOMAIN meta.roots |-> r], LAMBDA r : meta.roots[r].kind = "File")
RootFor(i) ==
  IF meta.bound THEN meta.entries[i].root ELSE IF i \in DOMAIN FileRoots THEN FileRoots[i] ELSE 0
Resolves == \A i \in DOMAIN meta.entries : RootFor(i) # 0 /\ meta.roots[RootFor(i)].kind = "File"

SumOf(s) == FoldLeft(LAMBDA a, n : a + n, 0, s)
Originals(segs) == SumOf([k \in DOMAIN segs |-> segs[k].orig])
Storeds(segs) == SumOf([k \in DOMAIN segs |-> segs[k].stored])

(* encode_entry_from_plaintext: an edit adds a byte, in the last segment. *)
Encoded(segs, more) ==
  [k \in DOMAIN segs |->
     LET n == IF k = Len(segs) THEN more ELSE 0
     IN  [segs[k] EXCEPT !.orig = @ + n,
                         !.stored = IF segs[k].method = "raw" THEN segs[k].orig + n ELSE @ + n]]

(* An entry of the manifest as it is to be stored: the stored bytes of the *)
(* source, or its plaintext encoded anew.                                  *)
Reused(i) == [root |-> RootFor(i), orig |-> meta.entries[i].orig, arch |-> meta.entries[i].arch,
              segs |-> meta.entries[i].segs, fresh |-> FALSE]
Reencoded(i, more) ==
  LET segs == Encoded(meta.entries[i].segs, more)
  IN  [root |-> RootFor(i), orig |-> Originals(segs), arch |-> Storeds(segs), segs |-> segs, fresh |-> more > 0]

CanReuse(i) == \A k \in DOMAIN meta.entries[i].segs : InFile(meta.entries[i].segs[k])
CanEncode(i) ==
  /\ Originals(meta.entries[i].segs) = meta.entries[i].orig
  /\ \A k \in DOMAIN meta.entries[i].segs : meta.entries[i].segs[k].method \in {"raw", "zlib"}

(* load_preserved_files: a warning the manifest did not retain is read     *)
(* from the source, and must be well-formed.                               *)
Lost == {r \in DOMAIN meta.roots : meta.roots[r].kind = "ProtectedFile" /\ r \notin DOMAIN meta.files}
WellFormed(kids) == \A j \in DOMAIN kids : kids[j].whole /\ (kids[j].tag = "segm" => kids[j].ok)
CanRecover(r, source) ==
  LET segs == FlattenSeq(Lists(Kids(r)))
  IN  WellFormed(Kids(r)) /\ (segs # <<>> => source /\ \A k \in DOMAIN segs : InFile(segs[k]))
LoadedFiles ==
  [r \in DOMAIN meta.files \cup {q \in Lost : HasList(Kids(q))} |->
     IF r \in DOMAIN meta.files THEN meta.files[r] ELSE FlattenSeq(Lists(Kids(r)))]

(* The first half of pack_xp3_from_manifest, load_special_blobs included;  *)
(* strict packing needs the source.                                        *)
Load ==
  /\ meta # NoMeta /\ pack = NoPack
  /\ \E source \in BOOLEAN, anchored \in BOOLEAN, edited \in SUBSET DOMAIN meta.entries :
       LET reuses(i) == source /\ i \notin edited
           more(i) == IF i \in edited THEN 1 ELSE 0
       IN  pack' = IF /\ anchored => source
                      /\ Resolves
                      /\ \A i \in DOMAIN meta.entries : IF reuses(i) THEN CanReuse(i) ELSE CanEncode(i)
                      /\ \A r \in Lost : CanRecover(r, source)
                      /\ source \/ Special \subseteq meta.specials
                   THEN [pc |-> "place", anchored |-> anchored, files |-> LoadedFiles,
                         entries |-> [i \in DOMAIN meta.entries |-> IF reuses(i) THEN Reused(i) ELSE Reencoded(i, more(i))]]
                   ELSE Failed
  /\ UNCHANGED <<vars, meta>>

----------------------------------------------------------------------------
(* Places *)

(* build_layout_objects; equal contents at one place may share it. *)
Object(key, from, size, content) == [key |-> key, from |-> from, size |-> size, content |-> content]
Segments(class, n, segs, fresh) ==
  [k \in DOMAIN segs |->
     Object(<<class, n, k>>, segs[k].at, segs[k].stored, IF fresh THEN <<n, k>> ELSE <<0, segs[k].at>>)]
Ascending(R) == SelectSeq([r \in DOMAIN meta.roots |-> r], LAMBDA r : r \in R)
Warnings == Ascending(DOMAIN pack.files)
Blobs == Ascending(Special)
Objects ==
  FlattenSeq([i \in DOMAIN pack.entries |-> Segments(1, i, pack.entries[i].segs, pack.entries[i].fresh)])
    \o FlattenSeq([n \in DOMAIN Warnings |-> Segments(2, Warnings[n], pack.files[Warnings[n]], FALSE)])
    \o FlattenSeq([n \in DOMAIN Blobs |-> Segments(3, Blobs[n], meta.roots[Blobs[n]].range, FALSE)])
    \o [k \in DOMAIN meta.blocks |-> Object(<<4, k, 1>>, meta.blocks[k], BlockLen, <<-1, k>>)]

Precedes(x, y) ==
  LET a == <<x.from>> \o x.key
      b == <<y.from>> \o y.key
  IN  \E n \in 1 .. 4 : a[n] < b[n] /\ \A m \in 1 .. n - 1 : a[m] = b[m]

(* assign_layout: one sweep over the objects in the order of their offsets.*)
Assigned ==
  LET order == SortSeq(Objects, Precedes)
      sweep[n \in 0 .. Len(order)] ==
        IF n = 0 THEN [cursor |-> HeaderEnd, place |-> <<>>]
        ELSE LET a == sweep[n - 1]
                 o == order[n]
                 alias == pack.anchored /\ n > 1 /\ order[n - 1] = [o EXCEPT !.key = order[n - 1].key]
                 here == IF alias THEN a.place[order[n - 1].key]
                         ELSE IF pack.anchored /\ o.from > a.cursor THEN o.from ELSE a.cursor
             IN  [cursor |-> IF alias THEN a.cursor ELSE here + o.size, place |-> (o.key :> here) @@ a.place]
  IN  sweep[Len(order)].place

Place ==
  /\ pack.pc = "place"
  /\ pack' = [pc |-> "patch", anchored |-> pack.anchored, files |-> pack.files, entries |-> pack.entries,
              place |-> Assigned, index |-> meta.decoded,
              todo |-> [i \in DOMAIN pack.entries |-> <<1, i>>]
                         \o [n \in DOMAIN Warnings |-> <<2, Warnings[n]>>] \o [n \in DOMAIN Blobs |-> <<3, Blobs[n]>>]]
  /\ UNCHANGED <<vars, meta>>

----------------------------------------------------------------------------
(* Templates are patched *)

(* Segments at their new places. *)
Placed(class, n, segs) == [k \in DOMAIN segs |-> [segs[k] EXCEPT !.at = pack.place[<<class, n, k>>]]]

(* Bug: the second list of an entry starts with the first segment again. *)
CursorReset(kids, j) == 0

(* Where the descriptors of a list begin among those of the entry. *)
Cursor(kids, j) == Len(FlattenSeq(Lists(SubSeq(kids, 1, j - 1))))

PatchedLists(kids, segs) ==
  [j \in DOMAIN kids |->
     IF kids[j].tag # "segm" THEN kids[j]
     ELSE [kids[j] EXCEPT !.segs = SubSeq(segs, Cursor(kids, j) + 1, Cursor(kids, j) + Len(@))]]

PatchedInfos(kids, orig, arch) ==
  [j \in DOMAIN kids |-> IF kids[j].tag = "info" THEN [kids[j] EXCEPT !.orig = orig, !.arch = arch] ELSE kids[j]]

(* As many descriptors as segments, and every list well-formed. *)
Matches(kids, segs) == WellFormed(kids) /\ Len(FlattenSeq(Lists(kids))) = Len(segs)

Todo(class) == pack.pc = "patch" /\ pack.todo # <<>> /\ Head(pack.todo)[1] = class
Item == Head(pack.todo)[2]

(* One root gets its new body, or pack fails. *)
Patch(root, can, body) ==
  /\ pack' = IF ~can THEN Failed
             ELSE [pack EXCEPT !.todo = Tail(@), !.index[meta.where[root][1]][meta.where[root][2]] = body]
  /\ UNCHANGED <<vars, meta>>

Template(root) == pack.index[meta.where[root][1]][meta.where[root][2]]

(* patch_file_root: stricter than the parser, which skips what it cannot read. *)
PatchFile ==
  /\ Todo(1)
  /\ LET e == pack.entries[Item]
         c == Template(e.root)
         kids == PatchedLists(PatchedInfos(c.kids, e.orig, e.arch), Placed(1, Item, e.segs))
     IN  Patch(e.root,
               /\ Matches(c.kids, e.segs)
               /\ \A j \in DOMAIN c.kids : (c.kids[j].tag = "info" => c.kids[j].ok) /\ (c.kids[j].tag = "segm" => c.kids[j].segs # <<>>)
               /\ Infos(c.kids) # <<>>,
               ReadFile([c EXCEPT !.kids = kids]))

(* patch_preserved_file_root *)
PatchPreserved ==
  /\ Todo(2)
  /\ LET c == Template(Item)
     IN  Patch(Item, Matches(c.kids, pack.files[Item]) /\ HasList(c.kids),
               ReadFile([c EXCEPT !.kids = PatchedLists(@, Placed(2, Item, pack.files[Item]))]))

(* patch_special_root: the offset, and the length the blob always had. *)
PatchSpecial ==
  /\ Todo(3)
  /\ Patch(Item, TRUE, [Template(Item) EXCEPT !.segs[1].at = pack.place[<<3, Item, 1>>]])

----------------------------------------------------------------------------
(* The result is written and opened *)

BlockAt(k) == pack.place[<<4, k, 1>>]
Extents == {pack.place[o.key] + o.size : o \in Range(Objects)} \cup {HeaderEnd} \cup IF pack.anchored THEN {file.len} ELSE {}

(* The text of a warning moves with the segment that holds it. *)
MovedWarning == {pack.place[o.key] : o \in {o \in Range(Objects) : o.content[1] = 0 /\ o.from \in file.warning}}

(* write_container, build_index_objects: the chain runs through the new    *)
(* places; the header points to the first.                                 *)
Reopen ==
  /\ pack.pc = "patch" /\ pack.todo = <<>>
  /\ pack' = [pack EXCEPT !.pc = "written"]
  /\ file' = [file EXCEPT
       !.len = CHOOSE n \in Extents : \A m \in Extents : m <= n,
       !.first = BlockAt(1),
       !.warning = MovedWarning,
       !.block = [p \in {BlockAt(k) : k \in DOMAIN meta.blocks} |->
                    LET k == CHOOSE k \in DOMAIN meta.blocks : BlockAt(k) = p
                        more == k < Len(meta.blocks)
                    IN  [more |-> more, next |-> IF more THEN BlockAt(k + 1) ELSE Nowhere, chunks |-> pack.index[k]]]]
  /\ phase' = "locate" /\ base' = Nowhere /\ at' = Nowhere
  /\ walk' = <<>> /\ blocks' = <<>> /\ roots' = <<>> /\ hxv4' = 0 /\ entries' = <<>> /\ pending' = None
  /\ UNCHANGED <<meta, readVars>>

(* The writer's own check counts entries and blocks. *)
SelfCheck ==
  /\ pack.pc = "written" /\ phase \in {"open", "error"}
  /\ pack' = IF /\ phase = "open"
                /\ Len(entries) = Len(meta.entries) /\ Len(blocks) = Len(meta.blocks)
             THEN [pack EXCEPT !.pc = "done"] ELSE Failed
  /\ UNCHANGED <<vars, meta>>

TemplateInit == Init /\ meta = NoMeta /\ pack = NoPack

(* Nothing reads entries once the index has been recorded. *)
Open == Parse /\ UNCHANGED <<meta, pack>>
ReadEntry == meta = NoMeta /\ (\E t \in Readers : Read(t)) /\ UNCHANGED <<meta, pack>>

TemplateNext ==
  \/ Open \/ ReadEntry
  \/ RecordTemplate \/ Load \/ Place \/ PatchFile \/ PatchPreserved \/ PatchSpecial \/ Reopen \/ SelfCheck

TemplateSpec == TemplateInit /\ [][TemplateNext]_tvars /\ WF_vars(Parse)

----------------------------------------------------------------------------
(* Properties *)

(* Descriptors that point behind the end of the source: a longer result    *)
(* may hold what they describe.                                            *)
Dangling ==
  \E k \in DOMAIN meta.decoded : \E i \in DOMAIN meta.decoded[k] :
    LET c == meta.decoded[k][i]
    IN  (c.tag = "Hxv4" \/ c.form = "range") /\ \A r \in DOMAIN meta.roots : meta.where[r] = <<k, i>> => meta.roots[r].range = <<>>

(* Every entry can be told by its number among the File roots. *)
Numbered == Len(FileRoots) = Len(meta.entries)

(* What the root was, at the place its blob has now. *)
MovedRoot(r) ==
  IF meta.roots[r].range = <<>> THEN meta.roots[r]
  ELSE [meta.roots[r] EXCEPT !.range[1].at = pack.place[<<3, r, 1>>]]

MovedEntry(i) ==
  LET e == pack.entries[i]
  IN  [meta.entries[i] EXCEPT !.segs = Placed(1, i, e.segs), !.orig = e.orig, !.arch = e.arch]

(* A packed archive opens to the same roots and the same entries under the *)
(* same names, each with the lengths and the places that were written for  *)
(* it: through lists split in two, chunks nobody knows, warnings that are  *)
(* pruned again, blobs that moved, and manifests of older programs.        *)
RepackedReadsBack ==
  pack.pc = "written" /\ ~Dangling /\ (meta.bound \/ Numbered) =>
    /\ phase # "error"
    /\ phase = "open" =>
         /\ entries = [i \in DOMAIN meta.entries |-> MovedEntry(i)]
         /\ roots = [r \in DOMAIN meta.roots |-> MovedRoot(r)]
=============================================================================
