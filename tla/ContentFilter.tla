--------------------------- MODULE ContentFilter ---------------------------
(***************************************************************************)
(* What follows a selection: the engine is built, lane by lane, and        *)
(* applied to the content of entries, piece by piece (CxdecEngine in       *)
(* cxdec_classic.rs, Hxv4NativeFilterManager in hxv4_native.rs).  An HXV4  *)
(* archive, for which nothing is selected, has its native engine.  The     *)
(* recovery of dispatch orders from a module's builder (legacy_cxdec.rs)   *)
(* is studied sample by sample.                                            *)
(*                                                                         *)
(* Content is a function from positions to the masks a byte carries:       *)
(* applying a mask twice takes it off again.  What a lane program makes of *)
(* a hash is any word; of a word, its key bytes are named and its two      *)
(* positions taken.                                                        *)
(***************************************************************************)
EXTENDS EngineSelect, ReferenceLanes

CONSTANTS
  Filtered,     \* games whose archive is read
  HxOrders,     \* orders of native HXV4 engines
  StudiedBuilders,     \* [p, others]: builders studied, with other targets of theirs
  BuilderSamples,  \* 256: samples of a builder
  Lanes,        \* 128
  Hashes,       \* hashes and seeds
  Positions,    \* what a half of a word may be
  FileSize, Pieces,
  PrefixBytes   \* 8 for the prefix wrapper, 16 for HXV4

VARIABLES
  engine,   \* [kind, p, lanes, odd, even]
  file      \* [key, at, data, failed]

fvars == <<vars, engine, file>>

NoEngine == [kind |-> "none", p |-> Nothing, lanes |-> 0, odd |-> {}, even |-> <<>>]
NoFile == [key |-> Nothing, at |-> 0, data |-> <<>>, failed |-> FALSE]

FInit == Init /\ engine = NoEngine /\ file = NoFile

----------------------------------------------------------------------------
(* Building the engine *)

Idle == route = "done" /\ game \in Filtered /\ engine = NoEngine /\ file = NoFile
OpenAs(kind, p) == engine' = [NoEngine EXCEPT !.kind = kind, !.p = p] /\ UNCHANGED <<vars, file>>

OpenClassic == Idle /\ Selected /\ outcome.cand.kind = "cxdec" /\ OpenAs("classic", outcome.cand.p)
OpenHx == Idle /\ game.skip /\ \E p \in HxOrders : OpenAs("hx", p)

LaneOf(e, n) == IF e.kind = "hx" THEN HxLane(n, e.p.gen, HxParams(e.p)) ELSE ClassicLane(n, e.p)

(* A lane no attempt of which fits the budget makes the engine unusable.   *)
BuildLane ==
  /\ engine.kind \in {"classic", "hx"} /\ engine.lanes < Lanes /\ file = NoFile
  /\ engine' = IF LaneOf(engine, engine.lanes).ok THEN [engine EXCEPT !.lanes = @ + 1] ELSE [engine EXCEPT !.kind = "unusable"]
  /\ UNCHANGED <<vars, file>>

----------------------------------------------------------------------------
(* Captured code of a builder, and of the functions it calls *)

OddCode(p, seed) == [seed |-> seed, code |-> Emit(Stage(Attempt(Rng(seed, p.gen)), 2, p, TRUE).tree)]
EvenCode(p, seed) == [seed |-> seed, code |-> Emit(Stage(Attempt(Rng(seed, p.gen)), 2, p, FALSE).tree)]
Targets(b) == <<b.p>> \o b.others
TargetCode(t, seed) == IF t = Nothing THEN [seed |-> seed, code |-> Plain(<<"int 3">>)] ELSE EvenCode(t, seed)

OpenBuilder ==
  /\ Idle
  /\ \E b \in StudiedBuilders :
       engine' = [NoEngine EXCEPT !.kind = "builder", !.p = b, !.even = [n \in DOMAIN Targets(b) |-> {}]]
  /\ UNCHANGED <<vars, file>>

CaptureSample ==
  /\ engine.kind = "builder" /\ engine.lanes < BuilderSamples
  /\ engine' = [engine EXCEPT
       !.lanes = @ + 1,
       !.odd = @ \cup {OddSample(OddCode(engine.p.p, engine.lanes))},
       !.even = [n \in DOMAIN @ |-> @[n] \cup {EvenSample(TargetCode(Targets(engine.p)[n], engine.lanes))}]]
  /\ UNCHANGED <<vars, file>>

----------------------------------------------------------------------------
(* Applying the engine *)

Least(a, b) == IF a < b THEN a ELSE b
Toggled(data, range, what) ==
  [i \in DOMAIN data |-> IF i \notin range THEN data[i]
                         ELSE IF what \in data[i] THEN data[i] \ {what} ELSE data[i] \cup {what}]
PrefixMasked(data, from, to) ==
  FoldLeft(LAMBDA d, i : Toggled(d, {i}, <<"prefix", i>>), data, [n \in 1..(IF to > from THEN to - from ELSE 0) |-> from + n - 1])

(* The two positions a word names are different.                           *)
LowOf(w) == IF w.low = w.high THEN w.low + 1 ELSE w.low

(* Bug: positions count from the start of the piece.                       *)
RegionRelative(data, w, offset, n) ==
  LET body == Toggled(data, offset..offset + n - 1, <<w.side, "body">>)
      low == Toggled(body, {offset + LowOf(w)} \cap (offset..offset + n - 1), <<w.side, "low">>)
  IN Toggled(low, {offset + w.high} \cap (offset..offset + n - 1), <<w.side, "high">>)

Region(data, w, offset, n) ==
  LET body == Toggled(data, offset..offset + n - 1, <<w.side, "body">>)
      low == Toggled(body, {LowOf(w)} \cap (offset..offset + n - 1), <<w.side, "low">>)
  IN Toggled(low, {w.high} \cap (offset..offset + n - 1), <<w.side, "high">>)

(* CxdecEngine::apply: the wrapper, then up to the boundary by one hash    *)
(* and from there by another.                                              *)
ClassicApply(key, data, at, n) ==
  LET d0 == IF key.prefix THEN PrefixMasked(data, at, Least(at + n, PrefixBytes)) ELSE data
      first == IF at < key.boundary THEN Least(n, key.boundary - at) ELSE 0
      d1 == IF first # 0 THEN Region(d0, key.left, at, first) ELSE d0
  IN IF first # n THEN Region(d1, key.right, at + first, n - first) ELSE d1

(* Hxv4NativeFilterState::apply: the corrections of a side come last, and  *)
(* only where the side reigns.                                             *)
Corrected(data, w, range) ==
  Toggled(Toggled(data, {w.high} \cap range, <<w.side, "high">>), {LowOf(w)} \cap range, <<w.side, "low">>)
HxApply(key, data, at, n) ==
  LET end == at + n
      split == key.boundary
      d0 == PrefixMasked(data, Least(at, PrefixBytes), Least(end, PrefixBytes))
      d1 == IF at < split THEN Toggled(d0, at..Least(end, split) - 1, <<key.left.side, "body">>) ELSE d0
      d2 == IF end > split THEN Toggled(d1, (IF at > split THEN at ELSE split)..end - 1, <<key.right.side, "body">>) ELSE d1
  IN Corrected(Corrected(d2, key.left, at..Least(end, split) - 1), key.right,
               (IF at > split THEN at ELSE split)..end - 1)

Word(side) == [side : {side}, low : Positions, high : Positions]

(* The boundary of a hash; of an HXV4 entry, the split of its key.         *)
SplitOf(p, hash) == Wrap((hash & p.mo[1]) + p.mo[2])
KeysOf(e) ==
  [boundary : {SplitOf(e.p, h) : h \in Hashes}, left : Word("left"), right : Word("right"), prefix : {e.p.wrap}]

StartFile ==
  /\ engine.kind \in {"classic", "hx"} /\ engine.lanes = Lanes /\ file = NoFile
  /\ \E k \in KeysOf(engine) : file' = [NoFile EXCEPT !.key = k, !.data = [i \in 0..FileSize - 1 |-> {}]]
  /\ UNCHANGED <<vars, engine>>

(* A CxDec engine takes 32 bits of offset and of length.                   *)
ApplyPiece ==
  /\ file # NoFile /\ ~file.failed
  /\ \E n \in Pieces :
       /\ file.at + n <= FileSize
       /\ file' =
            IF engine.kind = "hx" THEN [file EXCEPT !.at = @ + n, !.data = HxApply(file.key, @, file.at, n)]
            ELSE IF file.at > WordLimit \/ n > WordLimit THEN [file EXCEPT !.failed = TRUE]
            ELSE [file EXCEPT !.at = @ + n, !.data = ClassicApply(file.key, @, file.at, n)]
  /\ UNCHANGED <<vars, engine>>

FNext ==
  \/ Next /\ UNCHANGED <<engine, file>>
  \/ OpenClassic \/ OpenHx \/ BuildLane
  \/ OpenBuilder \/ CaptureSample
  \/ StartFile \/ ApplyPiece

FSpec == FInit /\ [][FNext]_fvars

----------------------------------------------------------------------------
(* Properties *)

SameStream(a, h) == a.ok = h.ok /\ a.len = h.len /\ a.rng = h.rng
SameValue(a, h, code) ==
  /\ a.len = Prologue + Size(code) + Epilogue
  /\ \A s \in Hashes : Eval(a.tree, s) = Execute(h.code, s)
  /\ Is(code, Foreign) = <<>> => Parses(code, TableAt) /\ \A s \in Hashes : Eval(a.tree, s) = EvalGenerated(code, s)
Agrees(a, h, n, p) ==
  /\ SameStream(a, h)
  /\ a.ok => SameValue(a, h, Emit(a.tree))
  /\ p.ord = FixedOrder /\ p.gen = Classic => a = FixedLane(n)

(* All forms of a lane program are the same: the expression tree, the flat *)
(* code of HXV4 and the reference generator use the same numbers of the    *)
(* stream, over failed attempts too, and give the same word for a seed,    *)
(* and so does the code a builder emits, which is as long as the budget    *)
(* counts.                                                                 *)
LanesAgree == engine.kind \in {"classic", "hx"} /\ engine.lanes < Lanes =>
  Agrees(ClassicLane(engine.lanes, engine.p), HxLane(engine.lanes, engine.p.gen, HxParams(engine.p)), engine.lanes, engine.p)

(* The orders of a builder are recovered from samples, or nothing is: with *)
(* few samples, with a generator of another kind and with other functions  *)
(* among the call targets.  They are found when the samples have shown     *)
(* every slot and no other target has the same prologs.                    *)
Shows(read, n) == {w[1] : w \in BranchesOf(read)} = 0..n - 1
DispatchIsRecovered ==
  engine.kind = "builder" =>
    LET b == engine.p
        a == Answer(engine.odd, ToSet(engine.even))
    IN /\ a \in {<<>>, b.p.ord}
       /\ /\ b.p.gen = Classic /\ Shows(engine.odd, 6) /\ Shows(engine.even[1], 8)
          /\ {w[1] : w \in PrologsOf(engine.odd)} = 0..2
          /\ \A n \in DOMAIN b.others : b.others[n] # Nothing => PrologOrder(b.others[n]) # PrologOrder(b.p)
          => a = b.p.ord

(* What KiriKiri has put on the byte at i when it writes a whole entry.    *)
Expected(key, hx, i) ==
  LET w == IF i < key.boundary THEN key.left ELSE key.right
  IN {<<w.side, "body">>}
     \cup (IF i = LowOf(w) THEN {<<w.side, "low">>} ELSE {})
     \cup (IF i = w.high THEN {<<w.side, "high">>} ELSE {})
     \cup (IF (hx \/ key.prefix) /\ i < PrefixBytes THEN {<<"prefix", i>>} ELSE {})

(* However an entry is cut into pieces, every byte gets the masks of its   *)
(* place in the entry, once: around the boundary, at the positions the     *)
(* words name and in the prefix; an offset too big changes nothing.        *)
PiecesAreTheWhole ==
  file # NoFile =>
    \A i \in DOMAIN file.data :
      file.data[i] = IF i < file.at THEN Expected(file.key, engine.kind = "hx", i) ELSE {}
=============================================================================
