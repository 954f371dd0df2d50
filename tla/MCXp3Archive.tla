---------------------------- MODULE MCXp3Archive ----------------------------
(* Small files for Xp3Archive: one family for each part of the parser. *)
EXTENDS Xp3Template

Seg(m, a, o, s) == [method |-> m, at |-> a, orig |-> o, stored |-> s, inflates |-> TRUE]

Chunk ==
  [tag |-> "other", form |-> "none", whole |-> TRUE, name |-> "plain", parses |-> TRUE,
   segs |-> <<Seg("raw", 10, 2, 2)>>, orig |-> 2, arch |-> 2, layer |-> FALSE, kids |-> <<>>]
FileChunk(name) == [Chunk EXCEPT !.tag = "File", !.name = name]
Alt(name) == [Chunk EXCEPT !.form = "name", !.name = name]
Hxv4 == [Chunk EXCEPT !.tag = "Hxv4", !.segs = <<Seg("raw", 8, 2, 2)>>]
Dangles == [Hxv4 EXCEPT !.segs[1].at = 15]
Descriptor == [Chunk EXCEPT !.form = "range"]
Cut == [Chunk EXCEPT !.whole = FALSE]

Ends(chunks) == [more |-> FALSE, next |-> Nowhere, chunks |-> chunks]
To(p, chunks) == [more |-> TRUE, next |-> p, chunks |-> chunks]
OneBlock(chunks) == [p \in {0} |-> Ends(chunks)]

Plain ==
  [backed |-> TRUE, data |-> TRUE, mz |-> FALSE, len |-> 16, magics |-> {0}, tolerant |-> TRUE,
   warning |-> {10}, detailed |-> FALSE, first |-> 0, block |-> OneBlock(<<FileChunk("plain")>>)]

(* Where signatures stand; Window is 8, Para 4. *)
Embedded ==
  {[Plain EXCEPT !.backed = b, !.mz = m, !.len = n, !.magics = S, !.first = Nowhere] :
     b \in BOOLEAN, m \in BOOLEAN, n \in {2, 11, 12, 19, 24}, S \in SUBSET {4, 6, 8, 16}}

(* Every chain over three places, each with one chunk or none. *)
Chains ==
  {[Plain EXCEPT !.first = p, !.block = b, !.backed = FALSE] :
     p \in 0 .. 1,
     b \in [0 .. 2 -> {Ends(<<>>), Ends(<<FileChunk("plain")>>), To(0, <<Alt("plain")>>), To(1, <<>>), To(2, <<Alt("dummy")>>), To(7, <<>>)}]}

Pieces ==
  {FileChunk("plain"), FileChunk("dummy"), FileChunk("fake0"), [FileChunk("fake1") EXCEPT !.parses = FALSE],
   Alt("plain"), Alt("dummy"), Hxv4, Dangles, Cut}

(* Every sequence of three chunks in one block, with a file after them. *)
Walks ==
  {[Plain EXCEPT !.block = OneBlock(<<x, y, z, FileChunk("fake1")>>), !.tolerant = k] :
     x \in Pieces, y \in Pieces, z \in Pieces, k \in BOOLEAN}

(* The warning: what a fake id 0 may hold. *)
WarningFiles ==
  {[Plain EXCEPT !.block = OneBlock(<<Hxv4, [FileChunk("fake0") EXCEPT !.segs = s], FileChunk(n)>>), !.data = d] :
     s \in {<<Seg("raw", 10, 2, 2)>>, <<Seg("raw", 10, 1, 1)>>, <<Seg("raw", 12, 2, 2)>>, <<Seg("raw", 15, 2, 2)>>,
            <<Seg("zlib", 10, 2, 2)>>, <<Seg("raw", 10, 1, 1), Seg("raw", 11, 1, 1)>>},
     n \in {"plain", "startup", "fake0", "fake1"}, d \in BOOLEAN}

(* Segments of one entry, beside a plain one and a special index. *)
SegmentFiles ==
  {[Plain EXCEPT !.block = OneBlock(<<Descriptor, FileChunk("plain"), [FileChunk("plain") EXCEPT !.segs = s, !.orig = 3, !.arch = 2, !.layer = l]>>),
                 !.backed = b, !.data = FALSE] :
     s \in {<<Seg("raw", 4, 1, 1), Seg("zlib", 6, 2, 1)>>, <<Seg("raw", 4, 2, 2)>>, <<Seg("raw", 4, 2, 1)>>,
            <<Seg("other", 4, 2, 2)>>, <<Seg("raw", 20, 2, 2)>>, <<[Seg("zlib", 4, 3, 2) EXCEPT !.inflates = FALSE]>>},
     l \in BOOLEAN, b \in BOOLEAN}

(* Child chunks, and the roots they make. *)
Kid(tag) == [tag |-> tag, whole |-> TRUE, ok |-> TRUE, named |-> TRUE, orig |-> 2, arch |-> 2, segs |-> <<>>]
Info == Kid("info")
List(segs) == [Kid("segm") EXCEPT !.segs = segs]
One == List(<<Seg("raw", 10, 2, 2)>>)
Split == <<List(<<Seg("raw", 4, 1, 1)>>), Kid("adlr"), [Info EXCEPT !.orig = 3], List(<<Seg("zlib", 6, 2, 1), Seg("raw", 7, 0, 0)>>)>>
Root0(name, kids) == ReadFile([FileChunk(name) EXCEPT !.kids = kids])
Shapes ==
  {Root0("plain", Split), Root0("plain", <<One>>), Root0("plain", <<Info, Kid("segm"), One>>),
   Root0("plain", <<[Info EXCEPT !.named = FALSE], One>>), Root0("plain", <<[Info EXCEPT !.ok = FALSE], Info, One>>),
   Root0("plain", <<Info, One, [Kid("adlr") EXCEPT !.whole = FALSE]>>),
   Root0("dummy", <<Info>>), Root0("dummy", Split), Root0("dummy", <<Info, List(<<Seg("raw", 20, 2, 2)>>), One>>),
   Root0("dummy", <<Info, One, [One EXCEPT !.ok = FALSE]>>), Root0("dummy", <<Info, One, [One EXCEPT !.whole = FALSE]>>),
   Root0("fake0", <<Info, One>>), Root0("fake0", <<Info, List(<<Seg("raw", 8, 2, 2)>>)>>),
   Alt("plain"), Alt("dummy"), Hxv4, Descriptor, Dangles, Cut}
LastRoot == Root0("fake1", <<[Info EXCEPT !.arch = 3], Kid("time"), List(<<Seg("raw", 10, 2, 2)>>)>>)

(* Every pair of roots, in one block or in two. *)
DetailedFiles ==
  {[Plain EXCEPT !.detailed = TRUE, !.first = 12, !.block = b] :
     b \in UNION {{[p \in {12} |-> Ends(<<x, y, LastRoot>>)], 12 :> To(14, <<x>>) @@ 14 :> Ends(<<y, LastRoot>>)} : x, y \in Shapes}}

MCFiles == DetailedFiles \cup Embedded \cup Chains \cup Walks \cup WarningFiles \cup SegmentFiles
=============================================================================
