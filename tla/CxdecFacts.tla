----------------------------- MODULE CxdecFacts -----------------------------
(***************************************************************************)
(* What the static scanners read from one PE image (legacy_cxdec.rs:       *)
(* collect_module_param_facts and the find_* functions).  No instruction   *)
(* of the image is executed: a scanner matches the shape of compiled code  *)
(* and gives up, or keeps several candidates, when it is ambiguous.        *)
(*                                                                         *)
(* Bytes are abstracted to the shapes the scanners match.  An image is     *)
(*   [i386, lcg, v2link, setup, text, descs, code, data, layers]           *)
(* with `lcg` the LCG constants it contains, `text` the bounds of its      *)
(* executable code, and sequences in file order: `descs` the callback      *)
(* descriptors, `code` the instruction shapes, each [kind, at, ...].       *)
(* `data` is a set of [at, block, like, sig, exec, points]; `layers` what  *)
(* the bit-permutation layer makes of an executable section.               *)
(***************************************************************************)
EXTENDS Integers, Sequences, SequencesExt, FiniteSets, FiniteSetsExt, Folds

CONSTANTS
  KeyLimit,      \* 0x00ffffff: largest mask and offset
  ReferenceKeys, \* REFERENCE_KEY0, REFERENCE_KEY1
  BuilderReach,  \* 0x20000: distance of a selector from the builder
  PointerReach,  \* 0x8000: distance of a pointer from an anchor
  SeedReach,     \* 0x2000: distance of a seed from the builder or the PRNG
  MaxOrders,     \* 8: selectors of a kind
  MaxTuples,     \* 16: combinations of selectors
  MaxSeeds,      \* 256
  RandomLooking  \* the values seed_like lets pass, wherever they are

ASSUME FactsAssumption ==
  /\ KeyLimit \in Nat /\ BuilderReach \in Nat /\ PointerReach \in Nat
  /\ SeedReach \in Nat /\ SeedReach >= 8 /\ SeedReach % 8 = 0
  /\ MaxOrders \in Nat /\ MaxTuples \in Nat /\ MaxSeeds \in Nat

Nothing == [recognized |-> FALSE]
Known(x) == x.recognized

(* A value used several times is computed once.                            *)
LOCAL With(x, F(_)) == CHOOSE y \in {F(v) : v \in {x}} : TRUE

Between(lo, hi) == IF lo < hi THEN hi - lo ELSE lo - hi
Upto(s, n) == SubSeq(s, 1, IF Len(s) < n THEN Len(s) ELSE n)
Below(k, l) == \E n \in DOMAIN k : k[n] < l[n] /\ \A m \in 1..n-1 : k[m] = l[m]

Shapes(img, kind) == SelectSeq(img.code, LAMBDA x : x.kind = kind)
Executable(img, at) == img.text[1] <= at /\ at <= img.text[2]
IsClassic(img) == {"mul", "add"} \subseteq img.lcg

(* Distinct values are an ambiguity: nothing is taken then.                *)
Agreed(S) == IF Cardinality(S) = 1 THEN S ELSE {}

----------------------------------------------------------------------------
(* Mask and offset *)

IsKey(k) == k \in 1..KeyLimit

(* find_callback_config: the best descriptor whose builder is code, that   *)
(* code refers to or whose builder lies in .decc.                          *)
IsDescriptor(img, d) ==
  /\ Executable(img, d.builder)
  /\ IsKey(d.key0) /\ IsKey(d.key1)
  /\ d.xrefs > 0 \/ d.decc
  /\ d.name # "bad"
DescriptorScore(d) ==
  20 + 4 * (IF d.xrefs < 8 THEN d.xrefs ELSE 8) + (IF d.name = "null" THEN 1 ELSE 3)
     + (IF d.decc THEN 12 ELSE 0) + (IF <<d.key0, d.key1>> = ReferenceKeys THEN 8 ELSE 0)

(* The first of the best, as a set of at most one.                         *)
Callback(img) ==
  LET ranked == {<<DescriptorScore(img.descs[i]), -i>> : i \in {k \in DOMAIN img.descs : IsDescriptor(img, img.descs[k])}}
  IN {img.descs[-r[2]] : r \in {x \in ranked : \A y \in ranked : ~Below(x, y)}}

(* find_classic_boundary_params: AND, ADD and the two stores of one object *)
(* register; find_classic_direct_boundary_params: AND and ADD alone.       *)
Boundaries(img, forms) ==
  Agreed({<<b.mask, b.offset>> : b \in {x \in ToSet(Shapes(img, "boundary")) :
            x.form \in forms /\ IsKey(x.mask) /\ IsKey(x.offset)}})

----------------------------------------------------------------------------
(* Control blocks *)

BlocksAt(img, at) == {d \in img.data : d.at = at /\ d.like}

(* find_classic_dynamic_xcode: the manager of the 128 lanes, with its      *)
(* builder and control block.                                              *)
Manager(img) ==
  With({x \in ToSet(Shapes(img, "manager")) :
          Executable(img, x.builder) /\ x.complement /\ BlocksAt(img, x.control) # {}},
       LAMBDA seen :
         IF ~IsClassic(img) \/ Cardinality({<<x.builder, x.control>> : x \in seen}) # 1 THEN {}
         ELSE {[builder |-> x.builder, control |-> x.control, managers |-> {y.at : y \in seen}] : x \in seen})

Pointed(img, to) ==
  LET target(a) == {d \in BlocksAt(img, a) : ~d.exec}
  IN target(to) \cup UNION {target(c.points) : c \in {d \in img.data : d.at = to /\ d.points # 0}}

(* find_control_block_file_offsets: the first run with the signature, the  *)
(* manager's block, and what instructions around the anchors point to.     *)
Signed(img) ==
  LET all == {d \in img.data : d.sig} IN {d \in all : \A e \in all : d.at <= e.at}

Anchors(img, callback, manager) ==
  UNION {{c.builder, c.at} : c \in callback}
    \cup UNION {{Min(m.managers), m.builder} : m \in manager}
    \cup {x.at : x \in {y \in ToSet(img.code) : y.kind \in {"cabbage", "riddle"}}}

ControlBlocks(img, callback, manager) ==
  LET near == {x \in ToSet(Shapes(img, "pointer")) :
                 \E a \in Anchors(img, callback, manager) : Executable(img, a) /\ Between(x.at, a) < PointerReach}
  IN {d.block : d \in Signed(img) \cup UNION {BlocksAt(img, m.control) : m \in manager}
                        \cup UNION {Pointed(img, x.to) : x \in near}}

----------------------------------------------------------------------------
(* Dispatch orders *)

(* classify_dispatch_block: the generated instruction a case emits, by the *)
(* constants it pushes; "aa4" and "554" stand for four pushes of the byte. *)
Classify(role, e) ==
  LET has(S) == S \subseteq e
      any(S) == S \cap e # {}
  IN CASE role = "prolog" -> (CASE has({"be"}) /\ any({"86", "3ff"}) -> 2
                                [] has({"8b", "c7"}) -> 1
                                [] has({"b8"}) -> 0
                                [] OTHER -> -1)
       [] role = "even" -> (CASE has({"aaaaaaaa", "55555555"}) \/ has({"aa4", "554"}) -> 5
                              [] has({"3ff"}) /\ any({"be", "86", "25"}) -> 4
                              [] has({"35"}) -> 6
                              [] any({"05", "2d"}) -> 7
                              [] has({"f7", "d0"}) -> 0
                              [] has({"f7", "d8"}) -> 2
                              [] has({"48"}) -> 1
                              [] has({"40"}) -> 3
                              [] OTHER -> -1)
       [] role = "odd" -> (CASE has({"0f", "af", "c3"}) -> 4
                             [] has({"f7", "d8", "01"}) -> 3
                             [] has({"29", "d8"}) -> 5
                             [] has({"01", "d8"}) -> 2
                             [] has({"d3", "e8"}) -> 0
                             [] has({"d3", "e0"}) -> 1
                             [] OTHER -> -1)

(* Bug: only the case's own block is looked at.                            *)
ClassifyOwn(role, target) == Classify(role, target.own)

(* classify_dispatch_target: the case's own block, then with the shared    *)
(* tails it branches to, one after the other.                              *)
ClassifyTarget(role, target) ==
  With({<<n, Classify(role, target.own \cup UNION {target.tails[k] : k \in 1..n})>> : n \in 0..Min({8, Len(target.tails)})},
       LAMBDA seen : LET hits == {s \in seen : s[2] # -1}
                     IN IF hits = {} THEN -1 ELSE (CHOOSE h \in hits : \A k \in hits : h[1] <= k[1])[2])

Order(x) == [n \in DOMAIN x.targets |-> ClassifyTarget(x.role, x.targets[n])]
IsPermutation(order) == {order[n] : n \in DOMAIN order} = 0..Len(order)-1

(* Vec::dedup: of equal neighbours the first stays.                        *)
Dedup(s, key(_)) ==
  LET keep == SelectSeq([i \in DOMAIN s |-> i], LAMBDA i : i = 1 \/ key(s[i]) # key(s[i-1]))
  IN [i \in DOMAIN keep |-> s[keep[i]]]

Nearest(s) ==
  LET idx == SortSeq([i \in DOMAIN s |-> i], LAMBDA i, j : s[i].dist < s[j].dist \/ (s[i].dist = s[j].dist /\ i < j))
  IN [i \in DOMAIN idx |-> s[idx[i]]]

(* find_dispatch_tables, find_prolog_branch_dispatches *)
Selectors(img, builder, role, form) ==
  LET xs == SelectSeq(Shapes(img, "selector"), LAMBDA x :
              x.role = role /\ x.form \in form /\ Between(x.at, builder) <= BuilderReach)
      found == [i \in DOMAIN xs |-> [ord |-> Order(xs[i]), dist |-> Between(xs[i].at, builder)]]
  IN With(found, LAMBDA fs : With(Nearest(SelectSeq(fs, LAMBDA f : IsPermutation(f.ord))),
                                  LAMBDA s : Upto(Dedup(s, LAMBDA f : f.ord), MaxOrders)))

(* find_static_dispatch_candidates: the branch form exists for the prolog  *)
(* only, and each form is cut on its own before the two are merged.        *)
Prologs(img, builder) ==
  With(FlattenSeq([n \in 1..2 |-> Selectors(img, builder, "prolog", {<<"table", "branch">>[n]})]),
       LAMBDA all : Upto(Dedup(Nearest(all), LAMBDA f : f.ord), MaxOrders))

Combined(prologs, evens, odds) ==
  FlattenSeq([a \in DOMAIN prologs |-> FlattenSeq([b \in DOMAIN evens |-> [c \in DOMAIN odds |->
    [ord |-> prologs[a].ord \o evens[b].ord \o odds[c].ord,
     dist |-> prologs[a].dist + evens[b].dist + odds[c].dist]]])])

DispatchCandidates(img, builder) ==
  With([role \in {"even", "odd"} |-> Selectors(img, builder, role, {"table"})],
       LAMBDA s : With(Combined(Prologs(img, builder), s["even"], s["odd"]),
                       LAMBDA all : Upto(Dedup(Nearest(all), LAMBDA f : f.ord), MaxTuples)))

----------------------------------------------------------------------------
(* Seeds of the Cabbage generator *)

Mapped(img, v) == Executable(img, v) \/ \E d \in img.data : d.at = v
SeedLike(img, v) == v \in RandomLooking /\ ~Mapped(img, v)

(* Points for one immediate: in the object passed to the builder, stored   *)
(* to the state of the PRNG, near the builder or the PRNG, before a call.  *)
SeedPoints(x, prng, builders) ==
  LET centers == builders \o <<prng.at>>
      immediate == x.form \in {"object", "operand"}
      local(c) == IF immediate /\ Between(x.at, c) < SeedReach
                  THEN 1 + (2 * SeedReach - Between(x.at, c)) \div (SeedReach \div 8) + (IF x.call THEN 48 ELSE 0)
                  ELSE 0
  IN (IF x.form = "object" THEN 1000000 ELSE 0)
     + (IF x.form = "store" /\ x.to \in prng.state THEN 100 ELSE 0)
     + FoldLeft(LAMBDA sum, c : sum + local(c), 0, centers)
     + (IF immediate /\ x.call THEN 20 ELSE 0)

(* find_static_cabbage_seed_candidates: best score first.                  *)
SeedCandidates(img, prng, builders) ==
  LET xs == SelectSeq(Shapes(img, "seed"), LAMBDA x : SeedLike(img, x.value) /\ SeedPoints(x, prng, builders) > 0)
      score(v) == FoldLeft(LAMBDA sum, x : IF x.value = v THEN sum + SeedPoints(x, prng, builders) ELSE sum, 0, xs)
  IN With([v \in {x.value : x \in ToSet(xs)} |-> score(v)], LAMBDA points :
       Upto(SetToSortSeq(DOMAIN points, LAMBDA v, w : points[v] > points[w] \/ (points[v] = points[w] /\ v < w)), MaxSeeds))

----------------------------------------------------------------------------
(* collect_module_param_facts *)

FirstAt(img, kind) == LET xs == Shapes(img, kind) IN IF xs = <<>> THEN {} ELSE {xs[1]}

(* The scanners, in the order in which they need one another.              *)
Boundary(img, ctl) ==
  LET object == Boundaries(img, {"object"})
  IN IF object # {} \/ ~IsClassic(img) \/ ctl = {} THEN object
     ELSE Boundaries(img, {"object", "direct"})

Builders(callback, manager) == IF callback # {} THEN {c.builder : c \in callback} ELSE {m.builder : m \in manager}

OrdersNear(img, builders, cabbage) ==
  LET anchor == IF builders # {} THEN builders ELSE {c.at : c \in cabbage}
  IN IF anchor = {} THEN <<>> ELSE DispatchCandidates(img, Min(anchor))

Scanned(img, callback, manager, cabbage, riddle) ==
  With([ctl |-> ControlBlocks(img, callback, manager),
        disp |-> OrdersNear(img, Builders(callback, manager), cabbage),
        seeds |-> IF cabbage = {} THEN <<>>
                  ELSE SeedCandidates(img, CHOOSE c \in cabbage : TRUE, SetToSeq(Builders(callback, manager)))],
       LAMBDA s :
         With(Boundary(img, s.ctl), LAMBDA mo :
           IF callback = {} /\ manager = {} /\ mo = {} /\ s.ctl = {} /\ s.disp = <<>> /\ ~IsClassic(img) /\ cabbage = {} /\ ~riddle THEN Nothing
           ELSE [recognized |-> TRUE,
                 mo |-> IF callback # {} THEN {<<c.key0, c.key1>> : c \in callback} ELSE mo,
                 ctl |-> s.ctl, disp |-> s.disp, classic |-> IsClassic(img), cabbage |-> cabbage # {},
                 seeds |-> s.seeds, riddle |-> riddle, setup |-> img.setup, v2link |-> img.v2link]))

FactOf(img) ==
  IF ~img.i386 THEN Nothing
  ELSE With([callback |-> Callback(img), manager |-> Manager(img), cabbage |-> FirstAt(img, "cabbage")],
            LAMBDA s : Scanned(img, s.callback, s.manager, s.cabbage, FirstAt(img, "riddle") # {}))

(* try_static_cxdec_self_decode: only on an image without the classic      *)
(* constants; writable sections first; a layer counts when one of the      *)
(* immediates of the image is its seed and both constants appear.          *)
Unfolded(img) ==
  LET opens(l) == l.seed \in img.immediates /\ IsClassic(l.image)
  IN IF ~img.i386 \/ IsClassic(img) THEN <<>>
     ELSE Upto(SelectSeq(SelectSeq(img.layers, LAMBDA l : l.writable) \o img.layers, opens), 1)
=============================================================================
