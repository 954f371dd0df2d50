---- MODULE KeySpace ----
(* The key space a partial key leaves, and the searches through it           *)
(* (brute.rs): every combination on the CPU, the same combinations on the    *)
(* GPU, or meet-in-the-middle over the two sums of Adler-32. AdlerMod stands *)
(* for 65521.                                                                *)
EXTENDS RepeatingXor

CONSTANTS
  AdlerMod,
  MaxCombinations,   \* brute_max_combinations
  MaxHalf,           \* brute_max_mitm_half_combinations
  MaxSolutions,      \* brute_max_solutions
  TopK,              \* histogram_top_k
  MinTemplate,       \* template bytes below which nothing is pruned (512)
  MinSamples,        \* histogram_min_slot_samples
  PruneGap,          \* histogram_min_log_likelihood_gap
  SingletonGap       \* histogram_singleton_log_likelihood_gap

NoSpace == <<>>

Allowed(stream, c, constraints, slot) ==
  {v \in Byte : /\ c.key[slot] \in {Unknown, v}
                /\ \A k \in constraints :
                     k.at < Len(stream) /\ k.at % c.period = slot
                       => \E p \in k.allowed : v = Xor(At(stream, k.at), p)}

Ascending(S) == SetToSortSeq(S, LAMBDA a, b : a < b)

\* The candidates of every used slot, in byte order; none when a slot has
\* none left or the period contradicts its evidence.
BuildKeySpace(stream, c, constraints) ==
  IF \/ c.conflicts # 0
     \/ \E s \in 0..(Used(c, Len(stream)) - 1) : Allowed(stream, c, constraints, s) = {}
  THEN NoSpace
  ELSE [s \in 0..(Used(c, Len(stream)) - 1) |-> Ascending(Allowed(stream, c, constraints, s))]

Positions(stream, period, slot) ==
  {o \in 0..(Len(stream) - 1) : o % period = slot}

\* How often a plaintext byte occurs under the key bytes already known.
Template(stream, c) ==
  [v \in Byte |-> Cardinality({o \in 0..(Len(stream) - 1) : PlainAt(stream, c, o) = v})]

\* Likelihood of a key byte for a slot: how common the bytes it yields are.
Likelihood(stream, c, template, slot, value) ==
  MapThenSumSet(LAMBDA o : template[Xor(At(stream, o), value)],
                Positions(stream, c.period, slot))

ByScore(candidates, score) ==
  SortSeq(candidates, LAMBDA a, b : score[a] > score[b] \/ (score[a] = score[b] /\ a < b))

\* One slot ordered by likelihood and cut to one or TopK candidates where the
\* gap allows it. Not a proof: the true byte can be cut.
Pruned(sorted, score) ==
  IF score[sorted[1]] - score[sorted[2]] >= SingletonGap THEN SubSeq(sorted, 1, 1)
  ELSE IF score[sorted[1]] - score[sorted[TopK + 1]] >= PruneGap THEN SubSeq(sorted, 1, TopK)
  ELSE sorted

\* refine_key_space_with_histogram: slots with more than TopK candidates and
\* enough samples, once the known residues give a template.
PruneByHistogram(stream, c, space, template) ==
  IF MapThenSumSet(LAMBDA v : template[v], Byte) < MinTemplate THEN space
  ELSE [s \in DOMAIN space |->
          IF \/ Len(space[s]) <= TopK \/ Len(space[s]) <= 1
             \/ Cardinality(Positions(stream, c.period, s)) < MinSamples
          THEN space[s]
          ELSE LET Cut(score) == Pruned(ByScore(space[s], score), score)
               IN  Cut([v \in Byte |-> Likelihood(stream, c, template, s, v)])]

Refined(stream, c, space) == PruneByHistogram(stream, c, space, Template(stream, c))

Ambiguous(space) == {s \in DOMAIN space : Len(space[s]) > 1}

Product(slots, space) == FoldSet(LAMBDA s, n : n * Len(space[s]), 1, slots)

Size(space) == Product(Ambiguous(space), space)

\* split_balanced: largest slot first, each to the side with the smaller product.
SplitBalanced(space) ==
  FoldLeft(LAMBDA halves, s : IF Product(halves[1], space) <= Product(halves[2], space)
                              THEN <<halves[1] \union {s}, halves[2]>>
                              ELSE <<halves[1], halves[2] \union {s}>>,
           <<{}, {}>>,
           SetToSortSeq(Ambiguous(space),
             LAMBDA a, b : \/ Len(space[a]) > Len(space[b])
                           \/ Len(space[a]) = Len(space[b]) /\ a < b))

DirectFeasible(space) == Size(space) <= MaxCombinations

HalvesFit(halves, space) ==
  Product(halves[1], space) <= MaxHalf /\ Product(halves[2], space) <= MaxHalf

MitmFeasible(space) == HalvesFit(SplitBalanced(space), space)

(* --- the two equations of Adler-32 --- *)

Adler(plain) ==
  <<(1 + MapThenSumSet(LAMBDA i : plain[i], DOMAIN plain)) % AdlerMod,
    (Len(plain) + MapThenSumSet(LAMBDA i : (Len(plain) + 1 - i) * plain[i], DOMAIN plain))
       % AdlerMod>>

\* What one key byte adds to the two sums.
SlotContribution(stream, period, slot, value) ==
  <<MapThenSumSet(LAMBDA o : Xor(At(stream, o), value), Positions(stream, period, slot)) % AdlerMod,
    MapThenSumSet(LAMBDA o : (Len(stream) - o) * Xor(At(stream, o), value),
                  Positions(stream, period, slot)) % AdlerMod>>

Plus(a, b) == <<(a[1] + b[1]) % AdlerMod, (a[2] + b[2]) % AdlerMod>>
ModSub(a, b) == <<(a[1] + AdlerMod - b[1]) % AdlerMod, (a[2] + AdlerMod - b[2]) % AdlerMod>>

\* The contributions of an assignment of values to some slots.
Sums(stream, period, assignment) ==
  FoldSet(LAMBDA s, sum : Plus(sum, SlotContribution(stream, period, s, assignment[s])),
          <<0, 0>>, DOMAIN assignment)

TargetSums(adler, len) == ModSub(adler, <<1, len % AdlerMod>>)

FixedPart(space) == [s \in DOMAIN space \ Ambiguous(space) |-> space[s][1]]

\* What the ambiguous slots must contribute.
Need(stream, period, adler, space) ==
  ModSub(TargetSums(adler, Len(stream)), Sums(stream, period, FixedPart(space)))

(* --- enumeration --- *)

\* The n-th assignment of some slots when the last slot turns fastest.
Nth(slots, space, n) ==
  [s \in slots |-> space[s][1 + ((n \div Product({t \in slots : t > s}, space)) % Len(space[s]))]]

\* The n-th assignment when the first slot turns fastest: the GPU's index.
NthGpu(slots, space, n) ==
  [s \in slots |-> space[s][1 + ((n \div Product({t \in slots : t < s}, space)) % Len(space[s]))]]

\* enumerate_group: all assignments in the order the recursion meets them.
Enumerated(slots, space) ==
  [n \in 1..Product(slots, space) |-> Nth(slots, space, n - 1)]

\* build_base_key and an assignment; slots behind the stream's end stay 0.
FullKey(space, period, assignment) ==
  [s \in 0..(period - 1) |-> IF s \in DOMAIN assignment THEN assignment[s]
                             ELSE IF s \in DOMAIN space THEN space[s][1] ELSE 0]

Cut(keys) == SubSeq(keys, 1, IF Len(keys) < MaxSolutions THEN Len(keys) ELSE MaxSolutions)

\* The keys whose sums are the needed ones, in the order of the recursion.
DirectHits(stream, period, space, need) ==
  FoldLeft(LAMBDA keys, a : IF Sums(stream, period, a) = need
                            THEN Append(keys, FullKey(space, period, a)) ELSE keys,
           <<>>, Enumerated(Ambiguous(space), space))

\* The same keys found by the GPU; they arrive in any order.
GpuHits(stream, period, space, need) ==
  {FullKey(space, period, NthGpu(Ambiguous(space), space, n)) :
     n \in {m \in 0..(Size(space) - 1) :
              Sums(stream, period, NthGpu(Ambiguous(space), space, m)) = need}}

\* The ways to take some of a set in some order, all of it or n of it.
Orders(S, n) ==
  {q \in [1..(IF Cardinality(S) < n THEN Cardinality(S) ELSE n) -> S] :
     \A i, j \in DOMAIN q : q[i] = q[j] => i = j}

\* Mutant: only the first left half of each pair of sums is kept.
BucketFirst(stream, period, left, want) ==
  LET all == SelectSeq(left, LAMBDA a : Sums(stream, period, a) = want)
  IN  IF all = <<>> THEN <<>> ELSE <<all[1]>>

\* Every left half with the sums a right half wants: several can share them.
Bucket(stream, period, left, want) ==
  SelectSeq(left, LAMBDA a : Sums(stream, period, a) = want)

\* For each right half in turn, all left halves of its bucket.
MitmHits(stream, period, space, need) ==
  LET Joined(halves) ==
        FoldLeft(LAMBDA keys, b :
                   keys \o FoldLeft(LAMBDA more, a : Append(more, FullKey(space, period, a @@ b)),
                                    <<>>,
                                    Bucket(stream, period, Enumerated(halves[1], space),
                                           ModSub(need, Sums(stream, period, b)))),
                 <<>>, Enumerated(halves[2], space))
  IN  Joined(SplitBalanced(space))

\* Without adlr: every combination.
AllKeys(period, space) ==
  FoldLeft(LAMBDA keys, a : Append(keys, FullKey(space, period, a)),
           <<>>, Enumerated(Ambiguous(space), space))
====
