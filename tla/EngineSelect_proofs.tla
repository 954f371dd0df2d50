------------------------ MODULE EngineSelect_proofs ------------------------
(* Proofs about the choice of the native filter, for any games, samples    *)
(* and limits.  What the scans of the modules find is left open here: the  *)
(* selection is right for whatever candidates they hand it.                *)
EXTENDS EngineSelect, FiniteSetTheorems, SequenceTheorems, TLAPS, WellFoundedInduction

(* What the checksum of an entry says of a candidate.                      *)
Checks(i) == Usable(game.entries[i]) /\ game.entries[i].sum = "adler"
Hits(c, i) == game.entries[i].enc /\ Decodes(c, game.entries[i])
Found(c, i) == Usable(game.entries[i]) /\ Hits(c, i) /\ game.entries[i].strong

(* What the first n entries of a list come to for a candidate.             *)
NoMismatch(c, s, n) == \A m \in 1..n : Checks(s[m]) => Hits(c, s[m])
Tally(c, s, n) ==
  [tested |-> Cardinality({m \in 1..n : Checks(s[m])}),
   matches |-> Cardinality({m \in 1..n : Checks(s[m]) /\ Hits(c, s[m])}),
   strong |-> Cardinality({m \in 1..n : Found(c, s[m])})]
Passes(c, s) == NoMismatch(c, s, Len(s)) /\ Enough(Tally(c, s, Len(s)))

(* A validation as it goes: the candidate with the callback it runs, the   *)
(* entries behind it, and the counters for parameters.                     *)
Behind(j) == Len(Scope(j.cand)) - Len(j.left)

IsCandidate(c) ==
  /\ DOMAIN c = {"kind", "p", "mod", "cb", "forced", "k"}
  /\ IF IsCxdec THEN c = Cx(c.p) ELSE c.kind = "x86" /\ c.k \in 1..3
  /\ route = "registered" => c.k = 3
  /\ IsCxdec /\ phase = "full" => Passes(c, CxdecSamples)

JobFields == {"cand", "at", "rt", "left", "tested", "matches", "strong", "verdict"}
RuntimeFields == {"ok", "cb", "h"}
JobShape(j) ==
  /\ DOMAIN j = JobFields /\ DOMAIN j.rt = RuntimeFields
  /\ j.verdict \in {"open", "mismatch", "error"}
  /\ IsCandidate(j.cand)
  /\ Len(j.left) \in 0..Len(Scope(j.cand))
  /\ j.left = SubSeq(Scope(j.cand), Behind(j) + 1, Len(Scope(j.cand)))
JobCounts(j) ==
  /\ j.verdict = "open" => NoMismatch(Running(j), Scope(j.cand), Behind(j))
  /\ j.cand.kind = "cxdec" =>
       /\ j.verdict # "error"
       /\ j.verdict = "mismatch" => ~NoMismatch(j.cand, Scope(j.cand), Len(Scope(j.cand)))
       /\ [tested |-> j.tested, matches |-> j.matches, strong |-> j.strong] = Tally(j.cand, Scope(j.cand), Behind(j))
JobInv == job # NoJob => JobShape(job) /\ JobCounts(job)

(* What has passed the phase so far.                                       *)
Survived(c) ==
  /\ IsCandidate(c)
  /\ IF IsCxdec THEN Passes(c, Scope(c))
     ELSE LET s == IF phase = "full" THEN Indices ELSE FilterSamples IN NoMismatch(c, s, Len(s))

(* Where the parameters are that fit the archive: no list loses one that   *)
(* the samples do not reject.                                              *)
Kept(q) ==
  \/ \E n \in DOMAIN todo : todo[n] = Cx(q)
  \/ job.cand = Cx(q)
  \/ \E n \in DOMAIN passing : passing[n] = Cx(q)
  \/ ~Passes(Cx(q), Scope(Cx(q)))
  \/ ~Passes(Cx(q), CxdecSamples)

Lists ==
  /\ \E S : passing \in Seq(S)
  /\ \A n \in DOMAIN todo : IsCandidate(todo[n])
  /\ \A n \in DOMAIN passing : Survived(passing[n])
  /\ IsCxdec => \A q \in ToSet(Tried) : FitsAll(q) => Kept(q)

Routes ==
  /\ game \in Games
  /\ phase \in {"sample", "full"}
  /\ route \in {"coherent", "generic", "registered", "hypotheses"}
     \/ (job = NoJob /\ DOMAIN todo = {} /\ passing = <<>>)
  /\ route \in {"registered"} => phase = "sample"
  /\ route = "coherent" => found.coherent # <<>>
  /\ route = "generic" => found.coherent = <<>>
  /\ IF route = "done" THEN SelectedFits /\ OnlyOneFits ELSE outcome.how = "pending"
  /\ DOMAIN outcome = {"how", "cand"}

SInv == Routes /\ Lists /\ JobInv

----------------------------------------------------------------------------
(* Least elements of sets of naturals.                                     *)

LEMMA HasLeast ==
  ASSUME NEW S, S \subseteq Nat, S # {}
  PROVE  \E x \in S : \A y \in S : x <= y
<1> DEFINE Less == {p \in Nat \X Nat : p[1] < p[2]}
<1>1. Less = OpToRel(<, Nat)
  BY DEF OpToRel
<1>2. IsWellFoundedOn(Less, Nat)
  BY <1>1, NatLessThanWellFounded
<1>3. PICK x \in S : \A y \in S : ~(<<y, x>> \in Less)
  BY <1>2, WFMin
<1>4. ASSUME NEW y \in S
      PROVE  x <= y
  <2>1. <<y, x>> \in Nat \X Nat /\ ~(<<y, x>> \in Less)
    BY <1>3
  <2> QED
    BY <2>1
<1> QED
  BY <1>4

----------------------------------------------------------------------------
(* The samples are entries of the archive.                                 *)

LEMMA EntriesTyped ==
  ASSUME game \in Games
  PROVE  /\ Len(game.entries) \in Nat /\ DOMAIN game.entries = 1..Len(game.entries)
         /\ \A i \in DOMAIN game.entries :
              /\ game.entries[i].size \in Nat /\ game.entries[i].enc \in BOOLEAN
              /\ game.entries[i].real \in BOOLEAN /\ game.entries[i].readable \in BOOLEAN
              /\ game.entries[i].strong \in BOOLEAN
              /\ game.entries[i].sum \in {"adler", "alternate", "none"}
<1> DEFINE E == [sum : {"adler", "alternate", "none"}, enc : BOOLEAN, strong : BOOLEAN, real : BOOLEAN,
                 readable : BOOLEAN, size : Nat, senses : SUBSET STRING]
           es == game.entries
<1>1. es \in Seq(E)
  BY EngineAssumption
<1>2. \A e \in E : /\ e.size \in Nat /\ e.enc \in BOOLEAN /\ e.real \in BOOLEAN /\ e.readable \in BOOLEAN
                   /\ e.strong \in BOOLEAN /\ e.sum \in {"adler", "alternate", "none"}
  OBVIOUS
<1> HIDE DEF E, es
<1>3. Len(es) \in Nat /\ DOMAIN es = 1..Len(es) /\ \A i \in DOMAIN es : es[i] \in E
  BY <1>1
<1> QED
  BY <1>2, <1>3 DEF es

(* Some entry comes before all others.                                     *)
LEMMA HasFirst ==
  ASSUME game \in Games, NEW b \in BOOLEAN, NEW S, S \subseteq DOMAIN game.entries, S # {}
  PROVE  \E x \in S : \A y \in S \ {x} : Earlier(b, x, y)
<1> DEFINE e(i) == game.entries[i]
           ranks == {Rank(b, e(i)) : i \in S}
<1>1. \A i \in S : Rank(b, e(i)) \in Nat /\ e(i).size \in Nat /\ i \in Nat
  BY EntriesTyped DEF Rank
<1>2. PICK r \in ranks : \A q \in ranks : r <= q
  <2>1. ranks \subseteq Nat /\ ranks # {}
    BY <1>1
  <2> HIDE DEF ranks
  <2> QED
    BY <2>1, HasLeast
<1> DEFINE R == {i \in S : Rank(b, e(i)) = r}
           sizes == {e(i).size : i \in R}
<1>3. R # {} /\ \A i \in S : r <= Rank(b, e(i))
  BY <1>2
<1>4. PICK z \in sizes : \A q \in sizes : z <= q
  <2>1. sizes \subseteq Nat /\ sizes # {}
    BY <1>1, <1>3
  <2> HIDE DEF sizes
  <2> QED
    BY <2>1, HasLeast
<1> DEFINE Z == {i \in R : e(i).size = z}
<1>5. Z # {} /\ \A i \in R : z <= e(i).size
  BY <1>4
<1>6. PICK x \in Z : \A y \in Z : x <= y
  BY <1>1, <1>5, HasLeast
<1>7. ASSUME NEW y \in S \ {x}
      PROVE  Earlier(b, x, y)
  <2>1. r <= Rank(b, e(y)) /\ Rank(b, e(x)) = r /\ r \in Nat /\ Rank(b, e(y)) \in Nat
    BY <1>1, <1>3, <1>6
  <2>2. e(x).size = z /\ z \in Nat /\ e(y).size \in Nat /\ x \in Nat /\ y \in Nat
    BY <1>1, <1>6
  <2>3. Rank(b, e(y)) = r => z <= e(y).size
    BY <1>5
  <2>4. Rank(b, e(y)) = r /\ e(y).size = z => x <= y
    BY <1>6
  <2> QED
    BY <2>1, <2>2, <2>3, <2>4 DEF Earlier
<1> QED
  BY <1>6, <1>7

Taken(s) == s.left \subseteq DOMAIN game.entries /\ s.ids \in Seq(DOMAIN game.entries)
Takes(b, n, f) ==
  f = [k \in 0..n |-> IF k = 0 THEN [left |-> {i \in DOMAIN game.entries : Usable(game.entries[i])},
                                     ids |-> <<>>, bytes |-> 0]
                      ELSE Take(b, f[k - 1])]

LEMMA TakeStep ==
  ASSUME game \in Games, NEW b \in BOOLEAN, NEW s, Taken(s)
  PROVE  Taken(Take(b, s))
<1>1. CASE s.left = {}
  BY <1>1 DEF Take
<1>2. CASE s.left # {}
  <2> DEFINE i == CHOOSE x \in s.left : \A y \in s.left \ {x} : Earlier(b, x, y)
  <2>1. i \in s.left
    BY <1>2, HasFirst DEF Taken
  <2> HIDE DEF i
  <2> DEFINE D == DOMAIN game.entries
             ids == s.ids
  <2>2. i \in D /\ ids \in Seq(D)
    BY <2>1 DEF Taken
  <2>4. Append(ids, i) \in Seq(D)
    <3> HIDE DEF D, ids
    <3> QED
      BY <2>2
  <2>3. Take(b, s).left = s.left \ {i} /\ Take(b, s).ids \in {s.ids, Append(s.ids, i)}
    BY <1>2 DEF Take, i
  <2> QED
    BY <2>2, <2>3, <2>4 DEF Taken
<1> QED
  BY <1>1, <1>2

LEMMA TakesExists ==
  ASSUME NEW b
  PROVE  \A n \in Nat : \E f : Takes(b, n, f)
<1> DEFINE Not == {n \in Nat : ~ \E f : Takes(b, n, f)}
           start == [left |-> {i \in DOMAIN game.entries : Usable(game.entries[i])}, ids |-> <<>>, bytes |-> 0]
<1> SUFFICES ASSUME Not # {}
             PROVE  FALSE
  OBVIOUS
<1>1. PICK n \in Not : \A m \in Not : n <= m
  BY HasLeast
<1>2. CASE n = 0
  <2>1. Takes(b, 0, [k \in 0..0 |-> start])
    BY DEF Takes
  <2> QED
    BY <1>1, <1>2, <2>1
<1>3. CASE n # 0
  <2>1. n - 1 \in Nat /\ n - 1 \notin Not
    BY <1>1, <1>3
  <2>2. PICK f : Takes(b, n - 1, f)
    BY <2>1
  <2> DEFINE new == Take(b, f[n - 1])
             g == [k \in 0..n |-> IF k = n THEN new ELSE f[k]]
  <2>3. \A k \in 0..n - 1 : f[k] = IF k = 0 THEN start ELSE Take(b, f[k - 1])
    BY <2>2 DEF Takes
  <2>4. (\A k \in 0..n - 1 : g[k] = f[k]) /\ g[n] = new /\ g = [k \in 0..n |-> g[k]]
    BY <2>1
  <2> HIDE DEF g, new, start
  <2>5. ASSUME NEW k \in 0..n
        PROVE  g[k] = IF k = 0 THEN start ELSE Take(b, g[k - 1])
    <3>1. CASE k = n
      <4>1. n - 1 \in 0..n - 1
        BY <2>1
      <4>2. g[n - 1] = f[n - 1]
        BY <2>4, <4>1
      <4> QED
        BY <2>4, <3>1, <1>3, <4>2 DEF new
    <3>2. CASE k # n
      <4>1. k \in 0..n - 1 /\ (k # 0 => k - 1 \in 0..n - 1)
        BY <2>1, <3>2
      <4> QED
        BY <2>3, <2>4, <4>1
    <3> QED
      BY <3>1, <3>2
  <2>6. Takes(b, n, g)
    BY <2>4, <2>5 DEF Takes, start
  <2> QED
    BY <1>1, <2>6
<1> QED
  BY <1>2, <1>3

LEMMA SamplesTyped ==
  ASSUME game \in Games, NEW b \in BOOLEAN
  PROVE  SamplesIn(b) \in Seq(DOMAIN game.entries)
<1> DEFINE n == Len(game.entries)
           f == CHOOSE g : Takes(b, n, g)
<1>1. n \in Nat
  BY EntriesTyped
<1>2. Takes(b, n, f)
  BY <1>1, TakesExists
<1>3. SamplesIn(b) = f[n].ids
  BY DEF SamplesIn, Takes
<1> HIDE DEF f, n
<1> DEFINE Not == {k \in 0..n : ~Taken(f[k])}
<1>4. Not = {}
  <2> SUFFICES ASSUME Not # {}
               PROVE  FALSE
    OBVIOUS
  <2>1. PICK k \in Not : \A m \in Not : k <= m
    <3>1. Not \subseteq Nat
      BY <1>1
    <3> QED
      BY <3>1, HasLeast
  <2>2. k # 0
    <3>1. 0 \in 0..n
      BY <1>1
    <3>2. f[0] = [left |-> {i \in DOMAIN game.entries : Usable(game.entries[i])}, ids |-> <<>>, bytes |-> 0]
      BY <1>2, <3>1 DEF Takes
    <3>3. Taken(f[0])
      BY <3>2 DEF Taken
    <3> QED
      BY <2>1, <3>3
  <2>3. k - 1 \in 0..n /\ k - 1 \notin Not
    BY <1>1, <2>1, <2>2
  <2>4. Taken(Take(b, f[k - 1]))
    BY <2>3, TakeStep
  <2>5. f[k] = Take(b, f[k - 1])
    BY <1>2, <2>1, <2>2 DEF Takes
  <2> QED
    BY <2>1, <2>4, <2>5
<1>5. n \in 0..n
  BY <1>1
<1> QED
  BY <1>3, <1>4, <1>5 DEF Taken

----------------------------------------------------------------------------
(* What the evidence comes to.                                             *)

LEMMA ListTyped ==
  ASSUME game \in Games
  PROVE  Indices \in Seq(DOMAIN game.entries) /\ CxdecSamples \in Seq(DOMAIN game.entries)
         /\ FilterSamples \in Seq(DOMAIN game.entries)
         /\ Len(Indices) = Len(game.entries) /\ (\A i \in DOMAIN game.entries : Indices[i] = i)
<1>1. CxdecSamples \in Seq(DOMAIN game.entries) /\ FilterSamples \in Seq(DOMAIN game.entries)
  BY SamplesTyped DEF CxdecSamples, FilterSamples
<1> DEFINE D == DOMAIN game.entries
           n == Len(game.entries)
<1>2. n \in Nat /\ D = 1..n /\ Indices = [i \in D |-> i]
  BY EntriesTyped DEF Indices
<1>3. Indices \in Seq(D) /\ Len(Indices) = n /\ \A i \in D : Indices[i] = i
  <2> HIDE DEF D, n
  <2> QED
    BY <1>2
<1> QED
  BY <1>1, <1>3

LEMMA ScopeTyped ==
  ASSUME game \in Games, NEW c, c.kind = "cxdec" \/ c.k \in 1..3
  PROVE  Scope(c) \in Seq(DOMAIN game.entries)
<1> DEFINE D == DOMAIN game.entries
           s == FilterSamples
<1>1. CASE phase = "full"
  BY <1>1, ListTyped DEF Scope
<1>2. CASE phase # "full" /\ c.kind = "cxdec"
  BY <1>2, ListTyped DEF Scope
<1>3. CASE phase # "full" /\ c.kind # "cxdec"
  <2> DEFINE n == CASE c.k = 1 -> 1 [] c.k = 2 -> Preflight [] OTHER -> Len(s)
             m == IF n < Len(s) THEN n ELSE Len(s)
  <2>1. s \in Seq(D) /\ Len(s) \in Nat
    BY ListTyped
  <2>2. n \in Nat
    BY <2>1, EngineAssumption
  <2>3. Scope(c) = SubSeq(s, 1, m)
    BY <1>3 DEF Scope
  <2>4. m \in 0..Len(s)
    BY <2>1, <2>2
  <2> HIDE DEF D, s, m, n
  <2>5. SubSeq(s, 1, m) \in Seq(D)
    BY <2>1, <2>4
  <2> QED
    BY <2>3, <2>5 DEF D
<1> QED
  BY <1>1, <1>2, <1>3

(* One more entry: one more in the count if it is one of them.             *)
LEMMA CountStep ==
  ASSUME NEW n \in Nat, NEW S
  PROVE  /\ Cardinality(S \cap (1..n)) \in Nat
         /\ Cardinality(S \cap (1..n + 1)) = Cardinality(S \cap (1..n)) + (IF n + 1 \in S THEN 1 ELSE 0)
<1> DEFINE A == S \cap (1..n)
<1>1. IsFiniteSet(A) /\ Cardinality(A) \in Nat
  <2>1. IsFiniteSet(1..n) /\ A \in SUBSET (1..n)
    BY FS_Interval
  <2>2. IsFiniteSet(A)
    BY <2>1, FS_Subset
  <2> QED
    BY <2>2, FS_CardinalityType
<1>2. CASE n + 1 \in S
  <2>1. S \cap (1..n + 1) = A \cup {n + 1} /\ n + 1 \notin A
    BY <1>2
  <2> QED
    BY <1>1, <1>2, <2>1, FS_AddElement
<1>3. CASE n + 1 \notin S
  <2>1. S \cap (1..n + 1) = A
    BY <1>3
  <2> QED
    BY <1>1, <1>3, <2>1
<1> QED
  BY <1>1, <1>2, <1>3

LEMMA TallyStep ==
  ASSUME NEW c, NEW s, NEW n \in Nat
  PROVE  Tally(c, s, n + 1) =
           [tested |-> Tally(c, s, n).tested + (IF Checks(s[n + 1]) THEN 1 ELSE 0),
            matches |-> Tally(c, s, n).matches + (IF Checks(s[n + 1]) /\ Hits(c, s[n + 1]) THEN 1 ELSE 0),
            strong |-> Tally(c, s, n).strong + (IF Found(c, s[n + 1]) THEN 1 ELSE 0)]
<1> DEFINE T == {m \in Nat : Checks(s[m])}
           M == {m \in Nat : Checks(s[m]) /\ Hits(c, s[m])}
           F == {m \in Nat : Found(c, s[m])}
<1>1. \A k \in Nat : Tally(c, s, k) = [tested |-> Cardinality(T \cap (1..k)), matches |-> Cardinality(M \cap (1..k)),
                                       strong |-> Cardinality(F \cap (1..k))]
  <2> TAKE k \in Nat
  <2>1. T \cap (1..k) = {m \in 1..k : Checks(s[m])}
    OBVIOUS
  <2>2. M \cap (1..k) = {m \in 1..k : Checks(s[m]) /\ Hits(c, s[m])}
    OBVIOUS
  <2>3. F \cap (1..k) = {m \in 1..k : Found(c, s[m])}
    OBVIOUS
  <2> QED
    BY <2>1, <2>2, <2>3 DEF Tally
<1>2. /\ n + 1 \in T <=> Checks(s[n + 1])
      /\ n + 1 \in M <=> Checks(s[n + 1]) /\ Hits(c, s[n + 1])
      /\ n + 1 \in F <=> Found(c, s[n + 1])
  OBVIOUS
<1> HIDE DEF T, M, F
<1>3. /\ Cardinality(T \cap (1..n + 1)) = Cardinality(T \cap (1..n)) + (IF n + 1 \in T THEN 1 ELSE 0)
      /\ Cardinality(M \cap (1..n + 1)) = Cardinality(M \cap (1..n)) + (IF n + 1 \in M THEN 1 ELSE 0)
      /\ Cardinality(F \cap (1..n + 1)) = Cardinality(F \cap (1..n)) + (IF n + 1 \in F THEN 1 ELSE 0)
  BY CountStep
<1> QED
  BY <1>1, <1>2, <1>3

LEMMA TallyNone ==
  ASSUME NEW c, NEW s
  PROVE  Tally(c, s, 0) = [tested |-> 0, matches |-> 0, strong |-> 0] /\ NoMismatch(c, s, 0)
<1>1. 1..0 = {}
  OBVIOUS
<1> QED
  BY <1>1, FS_EmptySet DEF Tally, NoMismatch

LEMMA TallyNat ==
  ASSUME NEW c, NEW s, NEW n \in Nat
  PROVE  Tally(c, s, n).tested \in Nat /\ Tally(c, s, n).matches \in Nat /\ Tally(c, s, n).strong \in Nat
<1>1. \A S \in SUBSET (1..n) : Cardinality(S) \in Nat
  <2>1. IsFiniteSet(1..n)
    BY FS_Interval
  <2>2. \A S \in SUBSET (1..n) : IsFiniteSet(S)
    BY <2>1, FS_Subset
  <2> QED
    BY <2>2, FS_CardinalityType
<1>2. /\ {m \in 1..n : Checks(s[m])} \in SUBSET (1..n)
      /\ {m \in 1..n : Checks(s[m]) /\ Hits(c, s[m])} \in SUBSET (1..n)
      /\ {m \in 1..n : Found(c, s[m])} \in SUBSET (1..n)
  OBVIOUS
<1>3. /\ Cardinality({m \in 1..n : Checks(s[m])}) \in Nat
      /\ Cardinality({m \in 1..n : Checks(s[m]) /\ Hits(c, s[m])}) \in Nat
      /\ Cardinality({m \in 1..n : Found(c, s[m])}) \in Nat
  BY <1>1, <1>2
<1> QED
  BY <1>3 DEF Tally

(* Whoever fits the whole archive passes where anyone passes.              *)
LEMMA FitPasses ==
  ASSUME game \in Games, NEW p, NEW q, FitsAll(q), NEW s \in Seq(DOMAIN game.entries), Passes(Cx(p), s)
  PROVE  Passes(Cx(q), s)
<1> DEFINE n == Len(s)
           P == Tally(Cx(p), s, n)
           Q == Tally(Cx(q), s, n)
<1>1. n \in Nat /\ \A m \in 1..n : s[m] \in DOMAIN game.entries
  OBVIOUS
<1>2. \A m \in 1..n : Usable(game.entries[s[m]]) /\ Hits(Cx(p), s[m]) => Hits(Cx(q), s[m])
  BY <1>1 DEF Hits, FitsAll
<1>3. NoMismatch(Cx(p), s, n) /\ Enough(P)
  BY DEF Passes
<1>4. NoMismatch(Cx(q), s, n)
  BY <1>2, <1>3 DEF NoMismatch, Checks
<1>5. P.tested = Q.tested
  BY DEF Tally
<1>6. \A S \in SUBSET (1..n) : IsFiniteSet(S) /\ Cardinality(S) \in Nat
  <2>1. IsFiniteSet(1..n)
    BY <1>1, FS_Interval
  <2>2. \A S \in SUBSET (1..n) : IsFiniteSet(S)
    BY <2>1, FS_Subset
  <2> QED
    BY <2>2, FS_CardinalityType
<1>7. P.matches <= Q.matches /\ P.matches \in Nat /\ Q.matches \in Nat
  <2> DEFINE A == {m \in 1..n : Checks(s[m]) /\ Hits(Cx(p), s[m])}
             B == {m \in 1..n : Checks(s[m]) /\ Hits(Cx(q), s[m])}
  <2>1. A \in SUBSET B /\ A \in SUBSET (1..n) /\ B \in SUBSET (1..n)
    BY <1>2 DEF Checks
  <2>2. P.matches = Cardinality(A) /\ Q.matches = Cardinality(B)
    BY DEF Tally
  <2> HIDE DEF A, B
  <2> QED
    BY <1>6, <2>1, <2>2, FS_Subset
<1>8. P.strong <= Q.strong /\ P.strong \in Nat /\ Q.strong \in Nat
  <2> DEFINE A == {m \in 1..n : Found(Cx(p), s[m])}
             B == {m \in 1..n : Found(Cx(q), s[m])}
  <2>1. A \in SUBSET B /\ A \in SUBSET (1..n) /\ B \in SUBSET (1..n)
    BY <1>2 DEF Found
  <2>2. P.strong = Cardinality(A) /\ Q.strong = Cardinality(B)
    BY DEF Tally
  <2> HIDE DEF A, B
  <2> QED
    BY <1>6, <2>1, <2>2, FS_Subset
<1>9. Enough(Q)
  <2> HIDE DEF P, Q
  <2> QED
    BY <1>3, <1>5, <1>7, <1>8 DEF Enough
<1> QED
  BY <1>4, <1>9 DEF Passes

----------------------------------------------------------------------------
(* A runtime keeps its callback, whatever its calls do to the emulator.    *)

LEMMA RuntimeReady ==
  ASSUME NEW c
  PROVE  /\ c.kind = "cxdec" => RuntimeOf(c) = Ready(NoCallback, Fresh)
         /\ RuntimeOf(c).ok => \E cb, h : RuntimeOf(c) = Ready(cb, h)
<1>1. c.kind = "cxdec" => RuntimeOf(c) = Ready(NoCallback, Fresh)
  BY DEF RuntimeOf
<1>2. ASSUME NEW m, NEW a, NEW l
      PROVE  OpenPe(m, a, l) = Failed \/ \E cb, h : OpenPe(m, a, l) = Ready(cb, h)
  BY DEF OpenPe
<1>3. ASSUME NEW m
      PROVE  Open(m) = Failed \/ \E cb, h : Open(m) = Ready(cb, h)
  <2>1. \E a, l : Open(m) = OpenPe(m, a, l)
    BY DEF Open
  <2> QED
    BY <1>2, <2>1
<1>4. ASSUME NEW m, NEW cb
      PROVE  OpenWithCallback(m, cb) = Failed \/ \E b, h : OpenWithCallback(m, cb) = Ready(b, h)
  BY DEF OpenWithCallback
<1>5. ~Failed.ok
  BY DEF Failed
<1> QED
  BY <1>1, <1>3, <1>4, <1>5 DEF RuntimeOf

LEMMA ApplyKeeps ==
  ASSUME NEW m, NEW size, NEW rt, DOMAIN rt = RuntimeFields
  PROVE  LET r == Apply(m, rt, size).rt IN DOMAIN r = RuntimeFields /\ r.cb = rt.cb
<1> DEFINE chunks == Chunks(size)
           failing == {i \in DOMAIN chunks : ChunkStop(m, rt, chunks[i]) # "returned"}
           calls == IF failing = {} THEN Len(chunks) ELSE Min(failing)
           r == Apply(m, rt, size).rt
           now == [rt.h EXCEPT !.calls = @ + calls]
<1>1. r = [rt EXCEPT !.h = now]
  BY DEF Apply
<1> HIDE DEF calls, r, now
<1>2. DOMAIN r = RuntimeFields /\ r.cb = rt.cb
  BY <1>1 DEF RuntimeFields
<1> QED
  BY <1>2 DEF r

(* What is left of a list behind its first n elements.                     *)
LEMMA Rest ==
  ASSUME NEW S, NEW s \in Seq(S), NEW n \in Nat, n <= Len(s), NEW l, l = SubSeq(s, n + 1, Len(s)), l # <<>>
  PROVE  /\ n < Len(s) /\ n + 1 \in DOMAIN s
         /\ Head(l) = s[n + 1] /\ Tail(l) = SubSeq(s, n + 2, Len(s)) /\ Len(Tail(l)) = Len(s) - (n + 1)
<1>1. Len(s) \in Nat /\ DOMAIN s = 1..Len(s)
  BY LenProperties
<1>2. n < Len(s)
  <2> SUFFICES ASSUME Len(s) < n + 1
               PROVE  FALSE
    BY <1>1
  <2> QED
    BY <1>1, SubSeqEmpty
<1>3. n + 1 \in 1..Len(s) /\ Len(s) \in n + 1..Len(s)
  BY <1>1, <1>2
<1>4. Head(l) = s[n + 1] /\ Tail(l) = SubSeq(s, (n + 1) + 1, Len(s))
  BY <1>3, HeadTailOfSubSeq
<1>5. Len(SubSeq(s, n + 2, Len(s))) = IF n + 2 <= Len(s) THEN Len(s) - (n + 2) + 1 ELSE 0
  <2>1. \A i \in n + 2..Len(s) : s[i] \in S
    BY <1>1, ElementOfSeq
  <2>2. n + 2 \in Int /\ Len(s) \in Int
    BY <1>1
  <2> QED
    BY <2>1, <2>2, SubSeqProperties
<1> QED
  BY <1>1, <1>2, <1>3, <1>4, <1>5

(* What judging an entry does to the fields of a validation.               *)
Judged(j, e, a, k) ==
  /\ DOMAIN k = DOMAIN j /\ k.cand = j.cand /\ k.at = j.at /\ k.left = Tail(j.left)
  /\ DOMAIN k.rt = RuntimeFields /\ k.rt.cb = j.rt.cb
  /\ ~Usable(e) => k.verdict = j.verdict /\ k.tested = j.tested /\ k.matches = j.matches /\ k.strong = j.strong
  /\ Usable(e) =>
       /\ k.verdict = IF ~a.ok THEN "error" ELSE IF e.sum = "adler" /\ ~a.right THEN "mismatch" ELSE j.verdict
       /\ k.tested = j.tested + (IF a.ok /\ e.sum = "adler" THEN 1 ELSE 0)
       /\ k.matches = j.matches + (IF a.ok /\ e.sum = "adler" /\ a.right THEN 1 ELSE 0)
       /\ k.strong = j.strong + (IF a.ok /\ a.right /\ e.strong THEN 1 ELSE 0)

LEMMA JudgeFields ==
  ASSUME NEW j, DOMAIN j = JobFields, DOMAIN j.rt = RuntimeFields, NEW e, NEW a, a = Applied(j, e), NEW k, k = Judge(j, e)
  PROVE  Judged(j, e, a, k)
<1> DEFINE l == Tail(j.left)
           v == IF ~a.ok THEN "error" ELSE IF (e.sum = "adler") /\ ~a.right THEN "mismatch" ELSE j.verdict
           t == j.tested + Count(a.ok /\ (e.sum = "adler"))
           m == j.matches + Count(a.ok /\ (e.sum = "adler") /\ a.right)
           s == j.strong + Count(a.ok /\ a.right /\ e.strong)
           r == a.rt
<1>1. DOMAIN r = RuntimeFields /\ r.cb = j.rt.cb
  BY ApplyKeeps DEF Applied
<1>2. Judge(j, e) = IF ~Usable(e) THEN [j EXCEPT !.left = l]
                    ELSE [j EXCEPT !.left = l, !.rt = r, !.verdict = v, !.tested = t, !.matches = m, !.strong = s]
  BY DEF Judge
<1> HIDE DEF l, v, t, m, s, Count, Judged, r
<1>3. CASE ~Usable(e)
  BY <1>2, <1>3 DEF l, JobFields, Judged
<1>4. CASE Usable(e)
  <2>1. k = [j EXCEPT !.left = l, !.rt = r, !.verdict = v, !.tested = t, !.matches = m, !.strong = s]
    BY <1>2, <1>4
  <2>2. /\ DOMAIN k = DOMAIN j /\ k.cand = j.cand /\ k.at = j.at /\ k.left = l
        /\ k.rt = r /\ k.verdict = v /\ k.tested = t /\ k.matches = m /\ k.strong = s
    BY <2>1 DEF JobFields
  <2> QED
    BY <1>1, <1>4, <2>2 DEF l, v, t, m, s, Count, Judged
<1> QED
  BY <1>3, <1>4

(* A filtered entry is right only if the candidate hits it; with CxDec     *)
(* parameters exactly then.                                                *)
LEMMA RightHits ==
  ASSUME NEW j, IsCandidate(j.cand), NEW i, NEW e, e = game.entries[i]
  PROVE  /\ Applied(j, e).right => Hits(Running(j), i)
         /\ j.cand.kind = "cxdec" => Running(j) = j.cand /\ (Applied(j, e).right <=> Hits(j.cand, i))
<1>1. CASE j.cand.kind = "cxdec"
  <2>1. j.cand.kind # "x86"
    BY <1>1
  <2> QED
    BY <1>1, <2>1 DEF Applied, Hits, Running
<1>2. CASE j.cand.kind # "cxdec"
  BY <1>2 DEF Applied, Hits, Running
<1> QED
  BY <1>1, <1>2

(* One entry of a validation.                                              *)
LEMMA JudgeStep ==
  ASSUME game \in Games, NEW j, JobShape(j), JobCounts(j), j.verdict = "open", j.left # <<>>, NEW e,
         e = game.entries[Head(j.left)], Judge(j, e).verdict = "error" => j.cand.kind # "cxdec"
  PROVE  JobShape(Judge(j, e)) /\ JobCounts(Judge(j, e))
<1> DEFINE s == Scope(j.cand)
           n == Behind(j)
           k == Judge(j, e)
           a == Applied(j, e)
           D == DOMAIN game.entries
<1>1. s \in Seq(D) /\ IsCandidate(j.cand)
  BY ScopeTyped DEF JobShape, IsCandidate, Cx
<1>2. /\ n \in Nat /\ Len(s) \in Nat /\ n < Len(s) /\ n + 1 \in DOMAIN s /\ Head(j.left) = s[n + 1]
      /\ Tail(j.left) = SubSeq(s, n + 2, Len(s)) /\ Len(Tail(j.left)) = Len(s) - (n + 1)
  <2> DEFINE l == j.left
  <2>1. n = Len(s) - Len(l) /\ Len(l) \in 0..Len(s) /\ l = SubSeq(s, n + 1, Len(s)) /\ l # <<>>
    BY DEF JobShape, Behind
  <2> HIDE DEF s, n, l, D
  <2>2. Len(s) \in Nat
    BY <1>1
  <2>3. n \in Nat /\ n <= Len(s)
    BY <2>1, <2>2
  <2>4. /\ n < Len(s) /\ n + 1 \in DOMAIN s
        /\ Head(l) = s[n + 1] /\ Tail(l) = SubSeq(s, n + 2, Len(s)) /\ Len(Tail(l)) = Len(s) - (n + 1)
    BY <1>1, <2>1, <2>3, Rest
  <2> QED
    BY <2>2, <2>3, <2>4 DEF l
<1> DEFINE i == s[n + 1]
<1>3. e = game.entries[i]
  BY <1>2
<1>4. /\ DOMAIN k = DOMAIN j /\ k.cand = j.cand /\ k.left = Tail(j.left)
      /\ DOMAIN k.rt = RuntimeFields /\ k.rt.cb = j.rt.cb
      /\ ~Usable(e) => k.verdict = "open" /\ k.tested = j.tested /\ k.matches = j.matches /\ k.strong = j.strong
      /\ Usable(e) =>
           /\ k.verdict = IF ~a.ok THEN "error" ELSE IF e.sum = "adler" /\ ~a.right THEN "mismatch" ELSE "open"
           /\ k.tested = j.tested + (IF a.ok /\ e.sum = "adler" THEN 1 ELSE 0)
           /\ k.matches = j.matches + (IF a.ok /\ e.sum = "adler" /\ a.right THEN 1 ELSE 0)
           /\ k.strong = j.strong + (IF a.ok /\ a.right /\ e.strong THEN 1 ELSE 0)
  <2>1. DOMAIN j = JobFields /\ DOMAIN j.rt = RuntimeFields
    BY DEF JobShape
  <2>2. a = Applied(j, e) /\ k = Judge(j, e)
    OBVIOUS
  <2> HIDE DEF a, k
  <2>3. Judged(j, e, a, k)
    BY <2>1, <2>2, JudgeFields
  <2> QED
    BY <2>3 DEF Judged
<1>5. Running(k) = Running(j) /\ Scope(k.cand) = s
  BY <1>4 DEF Running
<1>6. Behind(k) = n + 1
  <2>1. Behind(k) = Len(s) - Len(Tail(j.left))
    BY <1>4, <1>5 DEF Behind
  <2> DEFINE b == Len(Tail(j.left))
             m == Len(s)
  <2>2. n \in Nat /\ m \in Nat /\ b = m - (n + 1) /\ Behind(k) = m - b
    BY <1>2, <2>1
  <2> HIDE DEF s, n, k, b, m
  <2> QED
    BY <2>2
<1>7. /\ a.right => Hits(Running(j), i)
      /\ j.cand.kind = "cxdec" => Running(j) = j.cand /\ (a.right <=> Hits(j.cand, i))
  BY <1>1, <1>3, RightHits
<1>8. Checks(i) <=> Usable(e) /\ e.sum = "adler"
  BY <1>3 DEF Checks
<1>9. JobShape(k)
  <2>1. k.verdict \in {"open", "mismatch", "error"}
    BY <1>4
  <2>2. Len(k.left) \in 0..Len(Scope(k.cand))
    BY <1>2, <1>4, <1>5
  <2>3. k.left = SubSeq(Scope(k.cand), Behind(k) + 1, Len(Scope(k.cand)))
    <3>1. (n + 1) + 1 = n + 2
      BY <1>2
    <3> HIDE DEF s, n, k
    <3> QED
      BY <1>2, <1>4, <1>5, <1>6, <3>1
  <2> QED
    BY <1>1, <1>4, <2>1, <2>2, <2>3 DEF JobShape
<1>10. k.verdict = "open" => NoMismatch(Running(k), Scope(k.cand), Behind(k))
  <2> SUFFICES ASSUME k.verdict = "open"
               PROVE  NoMismatch(Running(j), s, n + 1)
    BY <1>5, <1>6
  <2>1. Checks(i) => Hits(Running(j), i)
    BY <1>4, <1>7, <1>8
  <2>2. NoMismatch(Running(j), s, n)
    BY DEF JobCounts
  <2> HIDE DEF s, n
  <2> QED
    BY <1>2, <2>1, <2>2 DEF NoMismatch
<1>11. ASSUME j.cand.kind = "cxdec"
       PROVE  /\ k.verdict # "error"
              /\ k.verdict = "mismatch" => ~NoMismatch(k.cand, Scope(k.cand), Len(Scope(k.cand)))
              /\ [tested |-> k.tested, matches |-> k.matches, strong |-> k.strong] = Tally(k.cand, Scope(k.cand), Behind(k))
  <2>1. k.verdict # "error" /\ (Usable(e) => a.ok)
    BY <1>4, <1>11
  <2>2. ASSUME k.verdict = "mismatch"
        PROVE  ~NoMismatch(j.cand, s, Len(s))
    <3>1. Checks(i) /\ ~Hits(j.cand, i)
      BY <1>4, <1>7, <1>8, <1>11, <2>1, <2>2
    <3>2. n + 1 \in 1..Len(s)
      BY <1>2
    <3> QED
      BY <3>1, <3>2 DEF NoMismatch
  <2> DEFINE T == Tally(j.cand, s, n)
  <2>3. T.tested = j.tested /\ T.matches = j.matches /\ T.strong = j.strong
    <3>1. [tested |-> j.tested, matches |-> j.matches, strong |-> j.strong] = T
      BY <1>11 DEF JobCounts
    <3> HIDE DEF T
    <3> QED
      BY <3>1
  <2>4. /\ k.tested = j.tested + (IF Checks(i) THEN 1 ELSE 0)
        /\ k.matches = j.matches + (IF Checks(i) /\ Hits(j.cand, i) THEN 1 ELSE 0)
        /\ k.strong = j.strong + (IF Found(j.cand, i) THEN 1 ELSE 0)
    <3>1. Found(j.cand, i) <=> Usable(e) /\ Hits(j.cand, i) /\ e.strong
      BY <1>3 DEF Found
    <3>2. CASE ~Usable(e)
      <4>1. T.tested \in Nat /\ T.matches \in Nat /\ T.strong \in Nat
        BY <1>2, TallyNat
      <4> HIDE DEF T, i, k, a
      <4> QED
        BY <1>4, <1>8, <2>3, <3>1, <3>2, <4>1
    <3>3. CASE Usable(e)
      <4> HIDE DEF T, i, k, a
      <4> QED
        BY <1>4, <1>7, <1>8, <1>11, <2>1, <3>1, <3>3 DEF Count
    <3> QED
      BY <3>2, <3>3
  <2>5. Tally(j.cand, s, n + 1) = [tested |-> k.tested, matches |-> k.matches, strong |-> k.strong]
    <3>1. Tally(j.cand, s, n + 1) =
             [tested |-> T.tested + (IF Checks(i) THEN 1 ELSE 0),
              matches |-> T.matches + (IF Checks(i) /\ Hits(j.cand, i) THEN 1 ELSE 0),
              strong |-> T.strong + (IF Found(j.cand, i) THEN 1 ELSE 0)]
      BY <1>2, TallyStep
    <3> HIDE DEF T, i, k
    <3> QED
      BY <2>3, <2>4, <3>1
  <2> QED
    BY <1>4, <1>5, <1>6, <2>1, <2>2, <2>5
<1>12. JobCounts(k)
  <2>1. k.cand = j.cand
    BY <1>4
  <2> HIDE DEF k
  <2> QED
    BY <1>10, <1>11, <2>1 DEF JobCounts
<1> QED
  BY <1>9, <1>12

----------------------------------------------------------------------------
(* What depends on the archive alone stays as it is.                       *)

LEMMA SameSamples ==
  ASSUME game' = game
  PROVE  Indices' = Indices /\ CxdecSamples' = CxdecSamples /\ FilterSamples' = FilterSamples
<1>2. \A b, s : Take(b, s)' = Take(b, s)
  BY DEF Take, Earlier
<1>3. \A b : SamplesIn(b)' = SamplesIn(b)
  BY <1>2 DEF SamplesIn
<1> QED
  BY <1>3 DEF Indices, CxdecSamples, FilterSamples
LEMMA SameScope ==
  ASSUME game' = game, phase' = phase
  PROVE  \A c : Scope(c)' = Scope(c)
BY SameSamples DEF Scope
LEMMA SameEvidence ==
  ASSUME game' = game
  PROVE  /\ \A c, i : (Hits(c, i)' <=> Hits(c, i)) /\ (Checks(i)' <=> Checks(i)) /\ (Found(c, i)' <=> Found(c, i))
         /\ \A c, s, n : (NoMismatch(c, s, n)' <=> NoMismatch(c, s, n)) /\ Tally(c, s, n)' = Tally(c, s, n)
         /\ \A c, s : Passes(c, s)' <=> Passes(c, s)
         /\ \A q : FitsAll(q)' <=> FitsAll(q)
<1>1. \A c, e : Decodes(c, e)' <=> Decodes(c, e)
  BY DEF Decodes, ModuleOf
<1>2. \A c, i : (Hits(c, i)' <=> Hits(c, i)) /\ (Checks(i)' <=> Checks(i)) /\ (Found(c, i)' <=> Found(c, i))
  BY <1>1 DEF Hits, Checks, Found
<1>3. \A c, s, n : (NoMismatch(c, s, n)' <=> NoMismatch(c, s, n)) 
  BY <1>2 DEF NoMismatch
<1>4. \A c, s, n : Tally(c, s, n)' = Tally(c, s, n)
  BY <1>2 DEF Tally
<1>5. \A c, s : Passes(c, s)' <=> Passes(c, s)
  BY <1>3, <1>4 DEF Passes
<1>6. \A q : FitsAll(q)' <=> FitsAll(q)
  BY <1>1 DEF FitsAll
<1> QED
  BY <1>2, <1>3, <1>4, <1>5, <1>6

LEMMA SameShape ==
  ASSUME game' = game, phase' = phase, route' = route
  PROVE  /\ \A c : IsCandidate(c)' <=> IsCandidate(c)
         /\ \A c : Survived(c)' <=> Survived(c)
         /\ \A j : JobShape(j)' <=> JobShape(j)
         /\ \A j : JobCounts(j)' <=> JobCounts(j)
<1>1. \A c : Scope(c)' = Scope(c)
  BY SameScope
<1>2. CxdecSamples' = CxdecSamples /\ FilterSamples' = FilterSamples /\ Indices' = Indices
  BY SameSamples
<1>3. /\ \A c, s, n : (NoMismatch(c, s, n)' <=> NoMismatch(c, s, n)) /\ Tally(c, s, n)' = Tally(c, s, n)
      /\ \A c, s : Passes(c, s)' <=> Passes(c, s)
  BY SameEvidence
<1>4. \A c : IsCandidate(c)' <=> IsCandidate(c)
  BY <1>2, <1>3 DEF IsCandidate, IsCxdec
<1>5. \A j : Behind(j)' = Behind(j)
  BY <1>1 DEF Behind
<1>6. \A c : Survived(c)' <=> Survived(c)
  BY <1>1, <1>2, <1>3, <1>4 DEF Survived, IsCxdec
<1>7. \A j : JobShape(j)' <=> JobShape(j)
  BY <1>1, <1>4, <1>5 DEF JobShape
<1>8. \A j : JobCounts(j)' <=> JobCounts(j)
  BY <1>1, <1>3, <1>5 DEF JobCounts
<1> QED
  BY <1>4, <1>6, <1>7, <1>8

----------------------------------------------------------------------------
(* The steps *)

LEMMA InitEstablishes ==
  ASSUME Init
  PROVE  SInv
<1>1. DOMAIN <<>> = {} /\ <<>> \in Seq({})
  OBVIOUS
<1>2. Routes
  BY <1>1 DEF Init, Routes, Decided
<1>3. Lists
  BY <1>1 DEF Init, Lists, IsCxdec
<1> QED
  BY <1>2, <1>3 DEF Init, SInv, JobInv

LEMMA FinishKeeps ==
  ASSUME SInv, NEW how, NEW c, Finish(how, c), how # "selected" \/ (SelectedFits' /\ OnlyOneFits')
  PROVE  SInv'
<1>1. /\ game' = game /\ phase' = phase /\ route' = "done" /\ outcome' = Decided(how, c)
      /\ DOMAIN todo' = {} /\ job' = NoJob /\ passing' = <<>>
  BY DEF Finish
<1>2. SelectedFits' /\ OnlyOneFits'
  BY <1>1 DEF SelectedFits, OnlyOneFits, Selected, Decided
<1>3. Routes'
  BY <1>1, <1>2 DEF SInv, Routes, Decided
<1>4. Lists'
  <2>1. passing' \in Seq({}) /\ DOMAIN passing' = {}
    BY <1>1
  <2> QED
    BY <1>1, <2>1 DEF Lists, IsCxdec
<1>5. JobInv'
  BY <1>1 DEF JobInv
<1> QED
  BY <1>3, <1>4, <1>5 DEF SInv

(* The steps between the lists of candidates.                              *)
LEMMA IdleKeeps ==
  ASSUME SInv, game' = game, phase' \in {"sample", "full"}, outcome' = outcome, route # "done",
         route' \notin {"coherent", "generic", "registered", "done"},
         job' = NoJob, todo' = <<>> \/ (DOMAIN todo = {} /\ todo' = todo), passing' = <<>>
  PROVE  SInv'
<1>1. DOMAIN todo' = {} /\ passing' \in Seq({}) /\ DOMAIN passing' = {}
  OBVIOUS
<1>2. Routes'
  BY <1>1 DEF SInv, Routes
<1>3. Lists'
  BY <1>1 DEF Lists, IsCxdec
<1> QED
  BY <1>2, <1>3 DEF SInv, JobInv

LEMMA Restful ==
  ASSUME SInv, route \notin {"coherent", "generic", "registered", "hypotheses"}
  PROVE  job = NoJob /\ DOMAIN todo = {} /\ passing = <<>>
BY DEF SInv, Routes

LEMMA StartsKeep ==
  ASSUME SInv, NotNeeded \/ ScanFails \/ CollectParams \/ StartX86 \/ Probe
  PROVE  SInv'
<1>1. CASE NotNeeded
  BY <1>1, FinishKeeps DEF NotNeeded
<1>2. CASE ScanFails
  BY <1>2, FinishKeeps DEF ScanFails
<1>3. CASE CollectParams
  <2>1. route = "start" /\ route' = "collected" /\ UNCHANGED <<game, phase, todo, job, passing, outcome>>
    BY <1>3 DEF CollectParams, Searching
  <2>2. job = NoJob /\ DOMAIN todo = {} /\ passing = <<>> /\ phase \in {"sample", "full"}
    BY <2>1, Restful DEF SInv, Routes
  <2> QED
    BY <2>1, <2>2, IdleKeeps
<1>4. CASE StartX86
  <2>1. route \in {"start", "collected"} /\ EnterX86
    BY <1>4 DEF StartX86, Searching
  <2>2. job = NoJob
    BY <2>1, Restful
  <2> QED
    BY <2>1, <2>2, IdleKeeps DEF EnterX86, Enter
<1>5. CASE Probe
  <2>1. job = NoJob /\ DOMAIN todo = {} /\ passing = <<>> /\ phase \in {"sample", "full"}
    BY <1>5, Restful DEF Probe, SInv, Routes
  <2>2. CASE Finish("none", NoCandidate)
    BY <2>2, FinishKeeps
  <2>3. CASE UNCHANGED <<game, route, phase, todo, job, passing, outcome>>
    <3>1. route = "probe"
      BY <1>5 DEF Probe
    <3> QED
      BY <2>1, <2>3, <3>1, IdleKeeps
  <2> QED
    BY <1>5, <2>2, <2>3 DEF Probe
<1> QED
  BY <1>1, <1>2, <1>3, <1>4, <1>5

(* The lists of parameters, and of modules that register a callback.       *)
LEMMA ListStarts ==
  ASSUME SInv, NEW r, NEW ps, route = "collected", game' = game, phase' = "sample", route' = r, found' = found,
         outcome' = outcome, job' = job, passing' = passing, todo' = Candidates(ps),
         ps = Tried, r \in {"coherent", "generic"}, r = "coherent" <=> found.coherent # <<>>
  PROVE  SInv'
<1>1. job = NoJob /\ passing = <<>> /\ game \in Games /\ outcome.how = "pending" /\ DOMAIN outcome = {"how", "cand"}
  BY Restful DEF SInv, Routes
<1>2. Routes'
  BY <1>1 DEF Routes
<1>3. passing' \in Seq({}) /\ DOMAIN passing' = {}
  BY <1>1
<1>4. \A n \in DOMAIN todo' : n \in DOMAIN ps /\ todo'[n] = Cx(ps[n])
  BY DEF Candidates
<1>5. \A p : IsCandidate(Cx(p))'
  BY DEF IsCandidate, IsCxdec, Cx
<1>6. ASSUME NEW q \in ToSet(ps)
      PROVE  Kept(q)'
  <2>1. PICK n \in DOMAIN ps : ps[n] = q
    BY DEF ToSet
  <2>2. n \in DOMAIN todo' /\ todo'[n] = Cx(q)
    BY <2>1 DEF Candidates
  <2> QED
    BY <2>2 DEF Kept
<1>7. ToSet(Tried)' = ToSet(ps)
  BY DEF Tried
<1>8. Lists'
  BY <1>3, <1>4, <1>5, <1>6, <1>7 DEF Lists
<1> QED
  BY <1>1, <1>2, <1>8 DEF SInv, JobInv

LEMMA CxdecStarts ==
  ASSUME SInv, StartCoherent \/ StartGeneric
  PROVE  SInv'
<1>1. CASE StartCoherent
  <2>1. route = "collected" /\ found.coherent # <<>>
    BY <1>1 DEF StartCoherent
  <2>2. CASE Enter("coherent", "sample", Candidates(found.coherent)) /\ passing' = passing
    <3>1. /\ game' = game /\ phase' = "sample" /\ route' = "coherent" /\ found' = found /\ outcome' = outcome
          /\ job' = job /\ passing' = passing /\ todo' = Candidates(Tried)
      BY <2>1, <2>2 DEF Enter, Tried
    <3> QED
      BY <2>1, <3>1, ListStarts
  <2>3. CASE Finish("error", NoCandidate)
    BY <2>3, FinishKeeps
  <2> QED
    BY <1>1, <2>2, <2>3 DEF StartCoherent
<1>2. CASE StartGeneric
  <2>1. /\ route = "collected" /\ found.coherent = <<>>
        /\ game' = game /\ phase' = "sample" /\ route' = "generic" /\ found' = found /\ outcome' = outcome
        /\ job' = job /\ passing' = passing /\ todo' = Candidates(Tried)
    BY <1>2 DEF StartGeneric, Enter, Tried
  <2> QED
    BY <2>1, ListStarts
<1> QED
  BY <1>1, <1>2

LEMMA RegisteredStarts ==
  ASSUME SInv, StartRegistered
  PROVE  SInv'
<1>1. CASE Finish("none", NoCandidate)
  BY <1>1, FinishKeeps
<1>2. CASE Enter("registered", "sample", RegisteredNow) /\ passing' = passing
  <2>1. route = "probe" /\ game \in Games /\ outcome.how = "pending" /\ DOMAIN outcome = {"how", "cand"}
    BY DEF StartRegistered, SInv, Routes
  <2>2. job = NoJob /\ passing = <<>>
    BY <2>1, Restful
  <2>3. /\ game' = game /\ phase' = "sample" /\ route' = "registered" /\ outcome' = outcome
        /\ job' = NoJob /\ passing' = <<>> /\ todo' = RegisteredNow
    BY <1>2, <2>2 DEF Enter
  <2>4. passing' \in Seq({}) /\ DOMAIN passing' = {}
    BY <2>3
  <2>5. ASSUME NEW n \in DOMAIN todo'
        PROVE  IsCandidate(todo[n])'
    <3>1. PICK m : todo'[n] = X86(m, NoCallback, FALSE)
      BY <2>3 DEF RegisteredNow
    <3>2. IsCandidate(X86(m, NoCallback, FALSE))'
      BY <2>3 DEF IsCandidate, IsCxdec, X86
    <3> QED
      BY <3>1, <3>2
  <2>6. Lists'
    BY <2>3, <2>4, <2>5 DEF Lists, IsCxdec
  <2>7. Routes'
    BY <2>1, <2>3 DEF Routes
  <2> QED
    BY <2>3, <2>6, <2>7 DEF SInv, JobInv
<1> QED
  BY <1>1, <1>2 DEF StartRegistered

LEMMA HypothesesStart ==
  ASSUME SInv, EndRegistered
  PROVE  SInv'
<1>1. /\ route = "registered" /\ phase = "sample" /\ job = NoJob
      /\ game \in Games /\ outcome.how = "pending" /\ DOMAIN outcome = {"how", "cand"}
  BY DEF EndRegistered, ListDone, SInv, Routes
<1>2. /\ game' = game /\ phase' = "sample" /\ route' = "hypotheses" /\ outcome' = outcome
      /\ job' = NoJob /\ passing' = passing /\ todo' = HypothesesNow
  BY <1>1 DEF EndRegistered, Enter
<1>3. ASSUME NEW n \in DOMAIN todo'
      PROVE  IsCandidate(todo[n])'
  <2>1. PICK m, cb : todo'[n] = X86(m, cb, TRUE)
    BY <1>2 DEF HypothesesNow
  <2>2. IsCandidate(X86(m, cb, TRUE))'
    BY <1>2 DEF IsCandidate, IsCxdec, X86
  <2> QED
    BY <2>1, <2>2
<1>4. ASSUME NEW c, Survived(c)
      PROVE  Survived(c)'
  <2>1. IsCandidate(c) /\ NoMismatch(c, FilterSamples, Len(FilterSamples))
    BY <1>1, <1>4 DEF Survived, IsCxdec
  <2>2. IsCandidate(c)'
    BY <1>1, <1>2, <2>1 DEF IsCandidate, IsCxdec
  <2>3. NoMismatch(c, FilterSamples, Len(FilterSamples))'
    BY <1>2, <2>1, SameSamples, SameEvidence
  <2> QED
    BY <1>2, <2>2, <2>3 DEF Survived, IsCxdec
<1>5. Lists'
  <2>1. (\E S : passing \in Seq(S)) /\ \A n \in DOMAIN passing : Survived(passing[n])
    BY DEF SInv, Lists
  <2>2. \A n \in DOMAIN passing' : Survived(passing[n])'
    BY <1>2, <1>4, <2>1
  <2> QED
    BY <1>2, <1>3, <2>1, <2>2 DEF Lists, IsCxdec
<1>6. Routes'
  BY <1>1, <1>2 DEF Routes
<1> QED
  BY <1>2, <1>5, <1>6 DEF SInv, JobInv

(* Nothing but the work of one route changes.                              *)
Steady == game' = game /\ phase' = phase /\ route' = route /\ found' = found /\ outcome' = outcome

LEMMA SteadyRoutes ==
  ASSUME SInv, Steady, route \in {"coherent", "generic", "registered", "hypotheses"}
  PROVE  Routes'
BY DEF SInv, Routes, Steady

LEMMA SteadyLists ==
  ASSUME SInv, Steady,
         \A n \in DOMAIN todo' : IsCandidate(todo'[n]),
         \E S : passing' \in Seq(S),
         \A n \in DOMAIN passing' : Survived(passing'[n]),
         IsCxdec => \A q : FitsAll(q) /\ Kept(q) => Kept(q)'
  PROVE  Lists'
<1>1. game' = game /\ phase' = phase /\ route' = route /\ found' = found
  BY DEF Steady
<1>2. (\A c : IsCandidate(c)' <=> IsCandidate(c)) /\ (\A c : Survived(c)' <=> Survived(c)) /\ (\A q : FitsAll(q)' <=> FitsAll(q))
  BY <1>1, SameShape, SameEvidence
<1>3. IsCxdec' <=> IsCxdec
  BY <1>1 DEF IsCxdec
<1>4. Tried' = Tried
  BY <1>1 DEF Tried
<1>5. IsCxdec => \A q \in ToSet(Tried) : FitsAll(q) => Kept(q)
  BY DEF SInv, Lists
<1>6. ASSUME IsCxdec', NEW q \in ToSet(Tried)', FitsAll(q)'
      PROVE  Kept(q)'
  BY <1>2, <1>3, <1>4, <1>5, <1>6
<1>7. \A n \in DOMAIN todo' : IsCandidate(todo[n])'
  BY <1>2
<1>8. \A n \in DOMAIN passing' : Survived(passing[n])'
  BY <1>2
<1> QED
  BY <1>6, <1>7, <1>8 DEF Lists

(* The candidates a step leaves where they are.                            *)
LEMMA SameWork ==
  ASSUME SInv
  PROVE  /\ \A n \in DOMAIN todo : IsCandidate(todo[n])
         /\ \E S : passing \in Seq(S)
         /\ \A n \in DOMAIN passing : Survived(passing[n])
BY DEF SInv, Lists

LEMMA ActiveRoute ==
  ASSUME SInv, job # NoJob \/ DOMAIN todo # {}
  PROVE  route \in {"coherent", "generic", "registered", "hypotheses"}
BY DEF SInv, Routes

LEMMA TryKeeps ==
  ASSUME SInv, TryNext
  PROVE  SInv'
<1>1. PICK n \in DOMAIN todo :
        /\ job' = IF ~RuntimeOf(todo[n]).ok THEN NoJob
                  ELSE [cand |-> todo[n], at |-> n, rt |-> RuntimeOf(todo[n]), left |-> Scope(todo[n]),
                        tested |-> 0, matches |-> 0, strong |-> 0, verdict |-> "open"]
        /\ todo' = [m \in DOMAIN todo \ {n} |-> todo[m]]
  BY DEF TryNext
<1>2. Steady /\ passing' = passing /\ job = NoJob
  BY DEF TryNext, Steady
<1> DEFINE c == todo[n]
           s == Scope(c)
           rt == RuntimeOf(c)
<1>3. IsCandidate(c) /\ game \in Games
  BY SameWork DEF SInv, Routes
<1>4. Routes'
  BY <1>2, ActiveRoute, SteadyRoutes
<1>5. \A m \in DOMAIN todo' : IsCandidate(todo'[m])
  BY <1>1, SameWork
<1>6. ASSUME IsCxdec, NEW q, Kept(q)
      PROVE  Kept(q)'
  <2>1. c = Cx(c.p) /\ c.kind = "cxdec"
    BY <1>3, <1>6 DEF IsCandidate, Cx
  <2>2. rt.ok
    BY <2>1, RuntimeReady DEF Ready
  <2>3. job'.cand = c
    BY <1>1, <2>2
  <2>4. CASE c = Cx(q)
    BY <2>3, <2>4 DEF Kept
  <2>5. CASE c # Cx(q) /\ \E m \in DOMAIN todo : todo[m] = Cx(q)
    BY <1>1, <2>5 DEF Kept
  <2>6. CASE \E m \in DOMAIN passing : passing[m] = Cx(q)
    BY <1>2, <2>6 DEF Kept
  <2>7. CASE job.cand = Cx(q)
    BY <1>2, <2>7 DEF NoJob, NoCandidate, Cx
  <2>8. CASE ~Passes(Cx(q), Scope(Cx(q))) \/ ~Passes(Cx(q), CxdecSamples)
    <3>1. game' = game /\ phase' = phase
      BY <1>2 DEF Steady
    <3> QED
      BY <2>8, <3>1, SameEvidence, SameScope, SameSamples DEF Kept
  <2> QED
    BY <1>6, <2>4, <2>5, <2>6, <2>7, <2>8 DEF Kept
<1>7. Lists'
  BY <1>2, <1>5, <1>6, SameWork, SteadyLists
<1>8. ASSUME NEW j, rt.ok, j = [cand |-> c, at |-> n, rt |-> rt, left |-> s, tested |-> 0, matches |-> 0, strong |-> 0, verdict |-> "open"]
      PROVE  JobShape(j) /\ JobCounts(j)
  <2>1. s \in Seq(DOMAIN game.entries) /\ Len(s) \in Nat
    BY <1>3, ScopeTyped DEF IsCandidate, Cx
  <2>2. DOMAIN rt = RuntimeFields
    <3>1. PICK cb, h : rt = Ready(cb, h)
      BY <1>8, RuntimeReady
    <3> QED
      BY <3>1 DEF Ready, RuntimeFields
  <2> HIDE DEF c, s, rt
  <2>3. j.cand = c /\ j.left = s /\ j.rt = rt /\ j.verdict = "open" /\ j.tested = 0 /\ j.matches = 0 /\ j.strong = 0
    BY <1>8
  <2>4. DOMAIN j = JobFields
    BY <1>8 DEF JobFields
  <2>5. Scope(j.cand) = s /\ Behind(j) = 0
    BY <2>1, <2>3 DEF Behind, s
  <2>6. s = SubSeq(s, 1, Len(s))
    BY <2>1, SubSeqFull
  <2>7. JobShape(j)
    <3>1. 0 + 1 = 1 /\ Len(s) \in 0..Len(s)
      BY <2>1
    <3> QED
      BY <1>3, <2>2, <2>3, <2>4, <2>5, <2>6, <3>1 DEF JobShape, c
  <2>8. JobCounts(j)
    BY <2>3, <2>5, TallyNone DEF JobCounts
  <2> QED
    BY <2>7, <2>8
<1>9. JobInv'
  <2>1. game' = game /\ phase' = phase /\ route' = route
    BY <1>2 DEF Steady
  <2>2. job' # NoJob => JobShape(job') /\ JobCounts(job')
    BY <1>1, <1>8
  <2> QED
    BY <2>1, <2>2, SameShape DEF JobInv
<1> QED
  BY <1>4, <1>7, <1>9 DEF SInv

LEMMA CheckKeeps ==
  ASSUME SInv, CheckEntry
  PROVE  SInv'
<1> DEFINE e == game.entries[Head(job.left)]
           j == Judge(job, e)
<1>1. job # NoJob /\ job.verdict = "open" /\ job.left # <<>>
  BY DEF CheckEntry, Working
<1>2. CASE Finish("error", NoCandidate)
  BY <1>2, FinishKeeps
<1>3. CASE /\ ~(j.verdict = "error" /\ job.cand.kind = "cxdec")
           /\ job' = j /\ todo' = todo /\ passing' = passing /\ Steady
  <2>1. game \in Games /\ JobShape(job) /\ JobCounts(job)
    BY <1>1 DEF SInv, Routes, JobInv
  <2>2. JobShape(j) /\ JobCounts(j)
    BY <1>1, <1>3, <2>1, JudgeStep
  <2>3. game' = game /\ phase' = phase /\ route' = route
    BY <1>3 DEF Steady
  <2>4. JobInv'
    <3> HIDE DEF j
    <3> QED
      BY <1>3, <2>2, <2>3, SameShape DEF JobInv
  <2>5. job'.cand = job.cand
    <3>1. DOMAIN job = JobFields /\ DOMAIN job.rt = RuntimeFields
      BY <2>1 DEF JobShape
    <3>2. Judged(job, e, Applied(job, e), j)
      BY <3>1, JudgeFields
    <3> HIDE DEF j, e
    <3> QED
      BY <1>3, <3>2 DEF Judged
  <2>6. \A q : Kept(q) => Kept(q)'
    BY <1>3, <2>3, <2>5, SameEvidence, SameScope, SameSamples DEF Kept
  <2>7. Lists'
    BY <1>3, <2>6, SameWork, SteadyLists
  <2>8. Routes'
    BY <1>1, <1>3, ActiveRoute, SteadyRoutes
  <2> QED
    BY <2>4, <2>7, <2>8 DEF SInv
<1> QED
  BY <1>2, <1>3 DEF CheckEntry, Steady

(* A validation that is through.                                           *)
Over == job # NoJob /\ (job.left = <<>> \/ job.verdict # "open")

LEMMA OverBehind ==
  ASSUME SInv, job # NoJob, job.left = <<>>
  PROVE  Behind(job) = Len(Scope(job.cand)) /\ Behind(job) \in Nat
<1>1. Scope(job.cand) \in Seq(DOMAIN game.entries)
  BY ScopeTyped DEF SInv, Routes, JobInv, JobShape, IsCandidate, Cx
<1>2. Len(Scope(job.cand)) \in Nat
  BY <1>1
<1>3. Len(job.left) = 0
  OBVIOUS
<1> QED
  BY <1>2, <1>3 DEF Behind

(* With parameters, acceptance is passing the list.                        *)
LEMMA CxdecAccepted ==
  ASSUME SInv, Over, IsCxdec
  PROVE  /\ job.cand = Cx(job.cand.p) /\ Running(job) = job.cand
         /\ Accepted(job) <=> Passes(job.cand, Scope(job.cand))
<1> DEFINE c == job.cand
           s == Scope(c)
           T == Tally(c, s, Len(s))
<1>1. JobShape(job) /\ JobCounts(job)
  BY DEF SInv, JobInv, Over
<1>2. c = Cx(c.p)
  BY <1>1 DEF JobShape, IsCandidate
<1>3. c.kind = "cxdec" /\ c.k = 0
  BY <1>2 DEF Cx
<1>4. Running(job) = c
  BY <1>3 DEF Running
<1>5. CASE job.verdict # "open"
  <2>1. ~NoMismatch(c, s, Len(s))
    BY <1>1, <1>3, <1>5 DEF JobShape, JobCounts
  <2> QED
    BY <1>2, <1>4, <1>5, <2>1 DEF Accepted, Passes
<1>6. CASE job.verdict = "open"
  <2>1. Behind(job) = Len(s)
    BY <1>6, OverBehind DEF Over
  <2>2. NoMismatch(c, s, Len(s)) /\ [tested |-> job.tested, matches |-> job.matches, strong |-> job.strong] = T
    BY <1>1, <1>3, <1>4, <1>6, <2>1 DEF JobCounts
  <2>3. job.tested = T.tested /\ job.matches = T.matches /\ job.strong = T.strong
    <3> HIDE DEF T
    <3> QED
      BY <2>2
  <2>4. Enough(job) <=> Enough(T)
    <3> HIDE DEF T
    <3> QED
      BY <2>3 DEF Enough
  <2>5. Accepted(job) <=> Enough(job)
    BY <1>3, <1>6 DEF Accepted
  <2> QED
    BY <1>2, <1>4, <2>2, <2>4, <2>5 DEF Passes
<1> QED
  BY <1>5, <1>6

(* An accepted candidate that goes no further has survived.                *)
LEMMA AcceptedSurvives ==
  ASSUME SInv, Over, Accepted(job), ~(route = "hypotheses" /\ phase = "sample" /\ job.cand.k < 3)
  PROVE  Survived(Running(job))
<1> DEFINE c == job.cand
           r == Running(job)
<1>1. JobShape(job) /\ JobCounts(job) /\ IsCandidate(c) /\ job.verdict = "open" /\ job.left = <<>>
  BY DEF SInv, JobInv, Over, JobShape, Accepted
<1>2. CASE IsCxdec
  BY <1>1, <1>2, CxdecAccepted DEF Survived
<1>3. CASE ~IsCxdec
  <2>1. c.kind = "x86" /\ c.k \in 1..3 /\ DOMAIN c = {"kind", "p", "mod", "cb", "forced", "k"}
    BY <1>1, <1>3 DEF IsCandidate
  <2>2. r = [c EXCEPT !.cb = job.rt.cb]
    BY <2>1 DEF Running
  <2>3. DOMAIN r = DOMAIN c /\ r.kind = c.kind /\ r.k = c.k
    <3> HIDE DEF r, c
    <3> QED
      BY <2>1, <2>2
  <2>4. IsCandidate(r)
    BY <1>1, <1>3, <2>3 DEF IsCandidate
  <2>5. NoMismatch(r, Scope(c), Len(Scope(c)))
    BY <1>1, OverBehind DEF JobCounts, Over
  <2>6. CASE phase = "full"
    <3>1. Scope(c) = Indices
      BY <2>6 DEF Scope
    <3> QED
      BY <1>3, <2>4, <2>5, <2>6, <3>1 DEF Survived
  <2>7. CASE phase # "full"
    <3>1. route \in {"registered", "hypotheses"} /\ phase = "sample" /\ game \in Games
      BY <1>3, <2>7, ActiveRoute DEF SInv, Routes, IsCxdec, Over
    <3>2. c.k = 3
      BY <1>1, <2>1, <3>1 DEF IsCandidate
    <3>3. FilterSamples \in Seq(DOMAIN game.entries) /\ Len(FilterSamples) \in Nat
      BY <3>1, ListTyped
    <3>4. Scope(c) = SubSeq(FilterSamples, 1, Len(FilterSamples))
      BY <2>1, <2>7, <3>2, <3>3 DEF Scope
    <3>5. Scope(c) = FilterSamples
      BY <3>3, <3>4, SubSeqFull
    <3> QED
      BY <1>3, <2>4, <2>5, <2>7, <3>5 DEF Survived
  <2> QED
    BY <2>6, <2>7
<1> QED
  BY <1>2, <1>3

LEMMA EndKeeps ==
  ASSUME SInv, EndCandidate
  PROVE  SInv'
<1> DEFINE c == job.cand
           staged == route = "hypotheses" /\ phase = "sample"
<1>1. Over /\ job' = NoJob /\ Steady
  BY DEF EndCandidate, Over, Steady
<1>2. game' = game /\ phase' = phase /\ route' = route
  BY <1>1 DEF Steady
<1>3. Routes'
  BY <1>1, ActiveRoute, SteadyRoutes DEF Over
<1>4. ASSUME IsCxdec, NEW q, Kept(q), ~Accepted(job), todo' = todo, passing' = passing
      PROVE  Kept(q)'
  <2>1. job.cand = Cx(q) => ~Passes(Cx(q), Scope(Cx(q)))
    BY <1>1, <1>4, CxdecAccepted
  <2> QED
    BY <1>2, <1>4, <2>1, SameEvidence, SameScope, SameSamples DEF Kept
<1>5. CASE ~Accepted(job)
  <2>1. todo' = todo /\ passing' = passing
    BY <1>5 DEF EndCandidate
  <2>2. Lists'
    BY <1>1, <1>4, <1>5, <2>1, SameWork, SteadyLists
  <2> QED
    BY <1>1, <1>3, <2>2 DEF SInv, JobInv
<1>6. CASE Accepted(job) /\ staged /\ c.k < 3
  <2> DEFINE d == [c EXCEPT !.k = @ + 1]
  <2>1. todo' = [m \in DOMAIN todo \cup {job.at} |-> IF m = job.at THEN d ELSE todo[m]] /\ passing' = passing
    BY <1>6 DEF EndCandidate
  <2>2. IsCandidate(c)
    BY <1>1 DEF SInv, JobInv, Over, JobShape
  <2>3. c.kind = "x86" /\ c.k \in 1..3 /\ DOMAIN c = {"kind", "p", "mod", "cb", "forced", "k"} /\ ~IsCxdec
    BY <1>6, <2>2 DEF IsCandidate, IsCxdec
  <2>4. d.kind = "x86" /\ d.k \in 1..3 /\ DOMAIN d = {"kind", "p", "mod", "cb", "forced", "k"}
    <3> HIDE DEF c
    <3> QED
      BY <1>6, <2>3
  <2>5. IsCandidate(d)
    <3> HIDE DEF d
    <3> QED
      BY <1>6, <2>3, <2>4 DEF IsCandidate
  <2>6. \A n \in DOMAIN todo' : IsCandidate(todo'[n])
    <3> HIDE DEF d
    <3> QED
      BY <2>1, <2>5, SameWork
  <2>7. Lists'
    BY <1>1, <2>1, <2>3, <2>6, SameWork, SteadyLists
  <2> QED
    BY <1>1, <1>3, <2>7 DEF SInv, JobInv
<1>7. CASE Accepted(job) /\ ~(staged /\ c.k < 3)
  <2> DEFINE r == Running(job)
  <2>1. passing' = Append(passing, r) /\ todo' = IF staged THEN <<>> ELSE todo
    BY <1>7 DEF EndCandidate
  <2>2. Survived(r)
    BY <1>1, <1>7, AcceptedSurvives
  <2>3. PICK S : passing \in Seq(S)
    BY SameWork
  <2>4. /\ passing' \in Seq(S \cup {r}) /\ Len(passing') = Len(passing) + 1 /\ Len(passing) \in Nat
        /\ DOMAIN passing' = 1..Len(passing) + 1 /\ DOMAIN passing = 1..Len(passing)
        /\ (\A n \in DOMAIN passing : passing'[n] = passing[n]) /\ passing'[Len(passing) + 1] = r
    <3> HIDE DEF r
    <3>1. passing \in Seq(S \cup {r}) /\ Len(passing) \in Nat /\ DOMAIN passing = 1..Len(passing)
      BY <2>3, SeqMonotonic, LenProperties
    <3> QED
      BY <2>1, <3>1, AppendProperties, LenProperties
  <2>5. \A n \in DOMAIN passing' : Survived(passing'[n])
    <3> TAKE n \in DOMAIN passing'
    <3>1. n \in DOMAIN passing \/ n = Len(passing) + 1
      BY <2>4
    <3> HIDE DEF r
    <3> QED
      BY <2>2, <2>4, <3>1, SameWork
  <2>6. \A n \in DOMAIN todo' : IsCandidate(todo'[n])
    BY <2>1, SameWork
  <2>7. ASSUME IsCxdec, NEW q, Kept(q)
        PROVE  Kept(q)'
    <3>1. ~staged /\ r = c
      BY <1>1, <2>7, CxdecAccepted DEF IsCxdec
    <3>2. c = Cx(q) => passing'[Len(passing) + 1] = Cx(q) /\ Len(passing) + 1 \in DOMAIN passing'
      BY <2>4, <3>1
    <3>3. \A n \in DOMAIN passing : n \in DOMAIN passing' /\ passing'[n] = passing[n]
      BY <2>4
    <3>4. todo' = todo
      BY <2>1, <3>1
    <3>5. Passes(Cx(q), Scope(Cx(q)))' <=> Passes(Cx(q), Scope(Cx(q)))
      BY <1>2, SameEvidence, SameScope
    <3>6. Passes(Cx(q), CxdecSamples)' <=> Passes(Cx(q), CxdecSamples)
      BY <1>2, SameEvidence, SameSamples
    <3> QED
      BY <2>7, <3>2, <3>3, <3>4, <3>5, <3>6 DEF Kept
  <2>8. Lists'
    BY <1>1, <2>4, <2>5, <2>6, <2>7, SteadyLists
  <2> QED
    BY <1>1, <1>3, <2>8 DEF SInv, JobInv
<1> QED
  BY <1>5, <1>6, <1>7

(* A proper entry is one the checksum judges.                              *)
LEMMA ProperIsChecked ==
  ASSUME NEW c, NEW i, Proper(game.entries[i])
  PROVE  Checks(i) /\ (Hits(c, i) <=> Decodes(c, game.entries[i]))
BY DEF Proper, Checks, Hits, Usable, StoredPlain

(* What has no mismatch over a list decodes the proper entries of it.      *)
LEMMA NoMismatchDecodes ==
  ASSUME game \in Games, NEW c, NEW s \in Seq(DOMAIN game.entries), NoMismatch(c, s, Len(s)), NEW i \in ToSet(s),
         Proper(game.entries[i])
  PROVE  Decodes(c, game.entries[i])
<1>1. PICK m \in DOMAIN s : s[m] = i
  BY DEF ToSet
<1>2. m \in 1..Len(s)
  BY <1>1, LenProperties
<1> QED
  BY <1>1, <1>2, ProperIsChecked DEF NoMismatch

LEMMA IndicesAreAll ==
  ASSUME game \in Games
  PROVE  ToSet(Indices) = DOMAIN game.entries
<1>1. DOMAIN Indices = DOMAIN game.entries /\ \A i \in DOMAIN game.entries : Indices[i] = i
  BY DEF Indices
<1> QED
  BY <1>1 DEF ToSet

(* The one that is left.                                                   *)
LEMMA OneLeft ==
  ASSUME SInv, Len(passing) = 1
  PROVE  DOMAIN passing = {1} /\ Survived(passing[1])
<1>1. PICK S : passing \in Seq(S)
  BY SameWork
<1>2. DOMAIN passing = 1..1
  BY <1>1, LenProperties
<1> QED
  BY <1>2, SameWork

LEMMA ConcludeCxdecKeeps ==
  ASSUME SInv, ConcludeCxdec
  PROVE  SInv'
<1>1. IsCxdec /\ job = NoJob /\ DOMAIN todo = {} /\ game \in Games /\ phase \in {"sample", "full"}
  BY DEF ConcludeCxdec, ListDone, SInv, Routes
<1>2. route \in {"coherent", "generic"} /\ outcome.how = "pending" /\ DOMAIN outcome = {"how", "cand"}
  BY <1>1 DEF IsCxdec, SInv, Routes
<1>3. CASE phase = "sample" /\ passing # <<>>
  <2>1. /\ route' = route /\ phase' = "full" /\ todo' = passing /\ passing' = <<>>
        /\ game' = game /\ found' = found /\ job' = NoJob /\ outcome' = outcome
    BY <1>1, <1>3 DEF ConcludeCxdec, Enter
  <2>2. Routes'
    BY <1>1, <1>2, <2>1 DEF SInv, Routes
  <2>3. ASSUME NEW c, Survived(c)
        PROVE  IsCandidate(c)'
    <3>1. IsCandidate(c) /\ Passes(c, Scope(c)) /\ c = Cx(c.p)
      BY <1>1, <2>3 DEF Survived, IsCandidate
    <3>2. Scope(c) = CxdecSamples
      BY <1>3, <3>1 DEF Scope, Cx
    <3>3. Passes(c, CxdecSamples)'
      BY <2>1, <3>1, <3>2, SameEvidence, SameSamples
    <3> QED
      BY <1>2, <2>1, <3>1, <3>3 DEF IsCandidate, IsCxdec
  <2>4. ASSUME NEW q \in ToSet(Tried)', FitsAll(q)'
        PROVE  Kept(q)'
    <3>1. q \in ToSet(Tried) /\ FitsAll(q)
      BY <2>1, <2>4, SameEvidence DEF Tried
    <3>2. Kept(q)
      BY <1>1, <3>1 DEF SInv, Lists
    <3>3. CASE \E n \in DOMAIN passing : passing[n] = Cx(q)
      BY <2>1, <3>3 DEF Kept
    <3>4. CASE ~Passes(Cx(q), Scope(Cx(q))) \/ ~Passes(Cx(q), CxdecSamples)
      <4>1. Scope(Cx(q)) = CxdecSamples
        BY <1>3 DEF Scope, Cx
      <4>2. ~Passes(Cx(q), CxdecSamples)'
        BY <2>1, <3>4, <4>1, SameEvidence, SameSamples
      <4> QED
        BY <4>2 DEF Kept
    <3>5. job.cand # Cx(q)
      BY <1>1 DEF NoJob, NoCandidate, Cx
    <3> QED
      BY <1>1, <3>2, <3>3, <3>4, <3>5 DEF Kept
  <2>5. passing' \in Seq({}) /\ DOMAIN passing' = {}
    BY <2>1
  <2>6. \A n \in DOMAIN todo' : IsCandidate(todo[n])'
    BY <2>1, <2>3, SameWork
  <2>7. Lists'
    BY <2>4, <2>5, <2>6 DEF Lists
  <2> QED
    BY <2>1, <2>2, <2>7 DEF SInv, JobInv
<1>4. CASE ~(phase = "sample" /\ passing # <<>>) /\ Len(passing) = 1
  <2> DEFINE c == passing[1]
  <2>1. Finish("selected", c)
    BY <1>4 DEF ConcludeCxdec
  <2>2. DOMAIN passing = {1} /\ Survived(c)
    BY <1>4, OneLeft
  <2>3. phase = "full"
    <3>1. passing # <<>>
      BY <2>2
    <3> QED
      BY <1>1, <1>4, <3>1
  <2>4. c = Cx(c.p) /\ Passes(c, Indices) /\ Passes(c, CxdecSamples)
    BY <1>1, <2>2, <2>3 DEF Survived, IsCandidate, Scope
  <2>5. Indices \in Seq(DOMAIN game.entries) /\ CxdecSamples \in Seq(DOMAIN game.entries)
    BY <1>1, ListTyped
  <2>6. game' = game /\ found' = found /\ outcome' = Decided("selected", c)
    BY <2>1 DEF Finish
  <2>7. \A i \in DOMAIN game.entries : Proper(game.entries[i]) => Decodes(c, game.entries[i])
    BY <1>1, <2>4, <2>5, NoMismatchDecodes, IndicesAreAll DEF Passes
  <2>8. SelectedFits'
    <3>1. outcome'.cand = c
      BY <2>6 DEF Decided
    <3>2. \A d, e : Decodes(d, e)' <=> Decodes(d, e)
      BY <2>6 DEF Decodes, ModuleOf
    <3> HIDE DEF c
    <3> QED
      BY <2>6, <2>7, <3>1, <3>2 DEF SelectedFits
  <2>9. ASSUME NEW q \in ToSet(Tried), FitsAll(q), q # c.p
        PROVE  FALSE
    <3>1. Kept(q)
      BY <1>1, <2>9 DEF SInv, Lists
    <3>2. Passes(Cx(q), Indices) /\ Passes(Cx(q), CxdecSamples)
      <4> DEFINE p == c.p
      <4>1. Passes(Cx(p), Indices) /\ Passes(Cx(p), CxdecSamples)
        BY <2>4
      <4> HIDE DEF p
      <4> QED
        BY <1>1, <2>5, <2>9, <4>1, FitPasses
    <3>3. Scope(Cx(q)) = Indices
      BY <2>3 DEF Scope
    <3>4. job.cand # Cx(q)
      BY <1>1 DEF NoJob, NoCandidate, Cx
    <3>5. c = Cx(q)
      BY <1>1, <2>2, <3>1, <3>2, <3>3, <3>4 DEF Kept
    <3> QED
      BY <2>9, <3>5 DEF Cx
  <2>10. OnlyOneFits'
    <3>1. outcome'.cand = c
      BY <2>6 DEF Decided
    <3>2. Tried' = Tried /\ \A q : FitsAll(q)' <=> FitsAll(q)
      BY <2>6, SameEvidence DEF Tried
    <3> HIDE DEF c
    <3> QED
      BY <2>9, <3>1, <3>2 DEF OnlyOneFits
  <2> QED
    BY <2>1, <2>8, <2>10, FinishKeeps
<1>5. CASE ~(phase = "sample" /\ passing # <<>>) /\ Len(passing) # 1
  <2>1. CASE Finish("error", NoCandidate)
    BY <2>1, FinishKeeps
  <2>2. CASE EnterX86
    <3>1. route # "done"
      BY <1>2
    <3> QED
      BY <1>1, <2>2, <3>1, IdleKeeps DEF EnterX86, Enter
  <2> QED
    BY <1>5, <2>1, <2>2 DEF ConcludeCxdec
<1> QED
  BY <1>3, <1>4, <1>5

LEMMA ConcludeX86Keeps ==
  ASSUME SInv, ConcludeX86
  PROVE  SInv'
<1>1. route = "hypotheses" /\ job = NoJob /\ game \in Games /\ phase \in {"sample", "full"} /\ outcome.how = "pending"
      /\ DOMAIN outcome = {"how", "cand"}
  BY DEF ConcludeX86, ListDone, SInv, Routes
<1>2. ~IsCxdec
  BY <1>1 DEF IsCxdec
<1>3. CASE Len(passing) = 1
  <2> DEFINE c == passing[1]
             s == IF phase = "full" THEN Indices ELSE FilterSamples
  <2>1. Finish("selected", c)
    BY <1>3 DEF ConcludeX86
  <2>2. IsCandidate(c) /\ NoMismatch(c, s, Len(s))
    BY <1>2, <1>3, OneLeft DEF Survived
  <2>3. c.kind = "x86"
    BY <1>2, <2>2 DEF IsCandidate
  <2>4. s \in Seq(DOMAIN game.entries) /\ FilterSamples \in Seq(DOMAIN game.entries)
    BY <1>1, ListTyped
  <2>5. \A i \in ToSet(s) : Proper(game.entries[i]) => Decodes(c, game.entries[i])
    <3> HIDE DEF s, c
    <3> QED
      BY <1>1, <2>2, <2>4, NoMismatchDecodes
  <2>6. ToSet(FilterSamples) \cap DOMAIN game.entries \subseteq ToSet(s)
    BY <1>1, IndicesAreAll
  <2>7. game' = game /\ outcome' = Decided("selected", c)
    BY <2>1 DEF Finish
  <2>8. outcome'.cand = c
    BY <2>7 DEF Decided
  <2>9. SelectedFits'
    <3>1. \A d, e : Decodes(d, e)' <=> Decodes(d, e)
      BY <2>7 DEF Decodes, ModuleOf
    <3>2. FilterSamples' = FilterSamples
      BY <2>7, SameSamples
    <3>3. outcome'.cand.kind # "cxdec"
      BY <2>3, <2>8
    <3> HIDE DEF c, s
    <3> QED
      BY <2>5, <2>6, <2>7, <2>8, <3>1, <3>2, <3>3 DEF SelectedFits
  <2>10. OnlyOneFits'
    BY <2>3, <2>8 DEF OnlyOneFits
  <2> QED
    BY <2>1, <2>9, <2>10, FinishKeeps
<1>4. CASE Len(passing) # 1 /\ Len(passing) > 1 /\ phase = "sample"
  <2>1. /\ route' = route /\ phase' = "full" /\ todo' = passing /\ passing' = <<>>
        /\ game' = game /\ found' = found /\ job' = NoJob /\ outcome' = outcome
    BY <1>1, <1>4 DEF ConcludeX86, Enter
  <2>2. Routes'
    BY <1>1, <2>1 DEF SInv, Routes
  <2>3. ASSUME NEW c, Survived(c)
        PROVE  IsCandidate(c)'
    BY <1>1, <1>2, <2>1, <2>3 DEF Survived, IsCandidate, IsCxdec
  <2>4. passing' \in Seq({}) /\ DOMAIN passing' = {}
    BY <2>1
  <2>5. \A n \in DOMAIN todo' : IsCandidate(todo[n])'
    BY <2>1, <2>3, SameWork
  <2>6. Lists'
    BY <1>1, <2>1, <2>4, <2>5 DEF Lists, IsCxdec
  <2> QED
    BY <2>1, <2>2, <2>6 DEF SInv, JobInv
<1>5. CASE Len(passing) # 1 /\ ~(Len(passing) > 1 /\ phase = "sample")
  <2>1. Finish("none", NoCandidate)
    BY <1>5 DEF ConcludeX86
  <2> QED
    BY <2>1, FinishKeeps
<1> QED
  BY <1>3, <1>4, <1>5

LEMMA StutterKeeps ==
  ASSUME SInv, UNCHANGED vars
  PROVE  SInv'
<1>1. game' = game /\ phase' = phase /\ route' = route /\ found' = found /\ outcome' = outcome
      /\ todo' = todo /\ job' = job /\ passing' = passing
  BY DEF vars
<1>2. (SelectedFits' <=> SelectedFits) /\ (OnlyOneFits' <=> OnlyOneFits)
  <2>1. \A d, e : Decodes(d, e)' <=> Decodes(d, e)
    BY <1>1 DEF Decodes, ModuleOf
  <2>2. FilterSamples' = FilterSamples /\ \A q : FitsAll(q)' <=> FitsAll(q)
    BY <1>1, SameSamples, SameEvidence
  <2> QED
    BY <1>1, <2>1, <2>2 DEF SelectedFits, OnlyOneFits, Selected, Tried
<1>3. Routes'
  BY <1>1, <1>2 DEF SInv, Routes
<1>4. \A q : Kept(q) => Kept(q)'
  BY <1>1, SameEvidence, SameScope, SameSamples DEF Kept
<1>5. Lists'
  BY <1>1, <1>4, SameWork, SteadyLists DEF Steady
<1>6. JobInv'
  BY <1>1, SameShape DEF SInv, JobInv
<1> QED
  BY <1>3, <1>5, <1>6 DEF SInv

----------------------------------------------------------------------------
(* The theorems *)

(* Every validation going on counts exactly what lies behind it, what has  *)
(* passed has no mismatch over its list, and no list loses parameters that *)
(* fit the archive.                                                        *)
THEOREM SelectionInductive == Spec => []SInv
<1>1. Init => SInv
  BY InitEstablishes
<1>2. SInv /\ [Next]_vars => SInv'
  <2> SUFFICES ASSUME SInv, [Next]_vars
               PROVE  SInv'
    OBVIOUS
  <2>1. CASE NotNeeded \/ ScanFails \/ CollectParams \/ StartX86 \/ Probe
    BY <2>1, StartsKeep
  <2>2. CASE StartCoherent \/ StartGeneric
    BY <2>2, CxdecStarts
  <2>3. CASE StartRegistered
    BY <2>3, RegisteredStarts
  <2>4. CASE TryNext
    BY <2>4, TryKeeps
  <2>5. CASE CheckEntry
    BY <2>5, CheckKeeps
  <2>6. CASE EndCandidate
    BY <2>6, EndKeeps
  <2>7. CASE ConcludeCxdec
    BY <2>7, ConcludeCxdecKeeps
  <2>8. CASE EndRegistered
    BY <2>8, HypothesesStart
  <2>9. CASE ConcludeX86
    BY <2>9, ConcludeX86Keeps
  <2>10. CASE UNCHANGED vars
    BY <2>10, StutterKeeps
  <2> QED
    BY <2>1, <2>2, <2>3, <2>4, <2>5, <2>6, <2>7, <2>8, <2>9, <2>10 DEF Next
<1> QED
  BY <1>1, <1>2, PTL DEF Spec

(* A selected engine reproduces the checksum of what it was judged on.     *)
THEOREM SelectedCorrect == Spec => []SelectedFits
<1>1. SInv => SelectedFits
  BY DEF SInv, Routes, SelectedFits, Selected
<1> QED
  BY <1>1, SelectionInductive, PTL

(* An ambiguous recovery selects no parameters.                            *)
THEOREM OnlyOneCorrect == Spec => []OnlyOneFits
<1>1. SInv => OnlyOneFits
  BY DEF SInv, Routes, OnlyOneFits, Selected
<1> QED
  BY <1>1, SelectionInductive, PTL
=============================================================================
