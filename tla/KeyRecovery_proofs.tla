---- MODULE KeyRecovery_proofs ----
(* Proofs about KeyRecovery, for any archives, tags, periods and limits:     *)
(* no evidence is wrong about a plaintext of the hypothesis, and a key used  *)
(* for the whole archive fits all of it.                                     *)
EXTENDS KeyRecovery, FiniteSetTheorems, SequenceTheorems, TLAPS, WellFoundedInduction

(* --- bytes, residues, least and greatest numbers --- *)

LEMMA XorTyped ==
  \A a, b \in Byte : Xor(a, b) \in Byte
BY SMTT(30) DEF Xor, Byte

LEMMA XorUndone ==
  \A a, b \in Byte : Xor(Xor(a, b), b) = a /\ Xor(a, Xor(a, b)) = b
<1> SUFFICES ASSUME NEW a \in {0, 1, 2, 3}, NEW b \in {0, 1, 2, 3}
             PROVE  Xor(Xor(a, b), b) = a /\ Xor(a, Xor(a, b)) = b
  <2>1. Byte = {0, 1, 2, 3}
    BY DEF Byte
  <2> QED
    BY <2>1
<1>1. CASE a = 0
  BY <1>1, SMTT(30) DEF Xor
<1>2. CASE a = 1
  BY <1>2, SMTT(30) DEF Xor
<1>3. CASE a = 2
  BY <1>3, SMTT(30) DEF Xor
<1>4. CASE a = 3
  BY <1>4, SMTT(30) DEF Xor
<1> QED
  BY <1>1, <1>2, <1>3, <1>4

LEMMA XorZero ==
  \A a \in Byte : Xor(a, 0) = a
<1>1. Byte = {0, 1, 2, 3}
  BY DEF Byte
<1> QED
  BY <1>1, SMTT(30) DEF Xor

LEMMA Residue ==
  ASSUME NEW b \in Nat \ {0}, NEW q \in Nat, NEW s \in 0..(b - 1)
  PROVE  (b * q + s) % b = s
<1> DEFINE a == b * q + s
           d == a \div b
           r == a % b
<1>1. a \in Nat
  OBVIOUS
<1>2. d \in Int /\ r \in 0..(b - 1) /\ a = b * d + r
  BY <1>1, SMTT(30)
<1>3. b * (d - q) = s - r
  BY <1>2
<1>4. s - r < b /\ r - s < b
  BY <1>2
<1> HIDE DEF d, r, a
<1>5. CASE d > q
  <2>1. d - q >= 1
    BY <1>2, <1>5
  <2>2. b * (d - q) >= b
    BY <1>2, <2>1
  <2> QED
    BY <1>2, <1>3, <1>4, <2>2
<1>6. CASE d < q
  <2>1. q - d >= 1
    BY <1>2, <1>6
  <2>2. b * (q - d) >= b
    BY <1>2, <2>1
  <2>3. b * (q - d) = r - s
    BY <1>2, <1>3
  <2> QED
    BY <1>2, <1>4, <2>2, <2>3
<1>7. CASE d = q
  <2>1. s = r
    BY <1>2, <1>3, <1>7
  <2> QED
    BY <2>1 DEF r, a
<1> QED
  BY <1>2, <1>5, <1>6, <1>7

LEMMA ModMod ==
  ASSUME NEW a \in Nat, NEW m \in Nat \ {0}, NEW b \in Nat \ {0}, m % b = 0
  PROVE  (a % m) % b = a % b
<1>1. PICK k \in Nat : m = b * k
  <2>1. m = b * (m \div b) + 0 /\ m \div b \in Nat
    BY SMTT(30)
  <2> QED
    BY <2>1
<1>2. PICK q \in Nat, r \in Nat : a = m * q + r /\ r = a % m
  <2>1. a = m * (a \div m) + (a % m) /\ a \div m \in Nat /\ a % m \in Nat
    BY SMTT(30)
  <2> QED
    BY <2>1
<1>3. PICK y \in Nat, s \in 0..(b - 1) : r = b * y + s
  <2>1. r = b * (r \div b) + (r % b) /\ r \div b \in Nat /\ r % b \in 0..(b - 1)
    BY SMTT(30)
  <2> QED
    BY <2>1
<1>4. r % b = s
  BY <1>3, Residue
<1>5. a = b * (k * q + y) + s /\ k * q + y \in Nat
  <2>1. k * q \in Nat /\ k * q + y \in Nat
    BY <1>1, <1>2, <1>3
  <2>2. (b * k) * q = b * (k * q)
    BY <1>1, <1>2
  <2>3. b * (k * q + y) = b * (k * q) + b * y
    BY <1>1, <1>3, <2>1
  <2>4. m * q = b * (k * q)
    BY <1>1, <2>2
  <2> DEFINE u == b * (k * q)
             v == b * y
  <2>5. u \in Nat /\ v \in Nat
    BY <2>1, <1>3
  <2>6. a = u + r /\ r = v + s
    BY <1>2, <1>3, <2>4
  <2>7. b * (k * q + y) = u + v
    BY <2>3
  <2> HIDE DEF u, v
  <2>8. a = (u + v) + s
    BY <2>5, <2>6
  <2> QED
    BY <2>1, <2>7, <2>8
<1>6. a % b = s
  BY <1>5, Residue
<1> QED
  BY <1>2, <1>4, <1>6

LEMMA ModSmall ==
  ASSUME NEW a \in Nat, NEW b \in Nat \ {0}
  PROVE  a % b \in 0..(b - 1) /\ a % b <= a
<1> DEFINE q == a \div b
           r == a % b
<1>1. a = b * q + r /\ q \in Nat /\ r \in 0..(b - 1)
  BY SMTT(30)
<1> HIDE DEF q, r
<1>2. b * q \in Nat
  BY <1>1
<1>3. r <= a
  BY <1>1, <1>2
<1> QED
  BY <1>1, <1>3 DEF r

LEMMA HasLeast ==
  ASSUME NEW S, S \subseteq Nat, S # {}
  PROVE  \E x \in S : \A y \in S : x <= y
<1> DEFINE Less == {p \in Nat \X Nat : p[1] < p[2]}
<1>1. Less = OpToRel(<, Nat)
  BY DEF OpToRel
<1>2. IsWellFoundedOn(Less, Nat)
  BY <1>1, NatLessThanWellFounded
<1>3. PICK x \in S : \A y \in S : ~(<<y, x>> \in Less)
  BY <1>2, WFMin
<1>4. ASSUME NEW y \in S
      PROVE  x <= y
  <2>1. <<y, x>> \in Nat \X Nat /\ ~(<<y, x>> \in Less)
    BY <1>3
  <2> QED
    BY <2>1
<1> QED
  BY <1>4

LEMMA HasGreatest ==
  ASSUME NEW n \in Nat, NEW S, S \subseteq 0..n, S # {}
  PROVE  \E x \in S : \A y \in S : y <= x
<1> DEFINE T == {k \in Nat : k <= n /\ n - k \in S}
<1>1. T # {} /\ T \subseteq Nat
  <2>1. PICK y \in S : TRUE
    OBVIOUS
  <2>2. n - y \in T
    BY <2>1
  <2> QED
    BY <2>2
<1>2. PICK k \in T : \A l \in T : k <= l
  <2> HIDE DEF T
  <2> QED
    BY <1>1, HasLeast
<1>3. ASSUME NEW y \in S
      PROVE  y <= n - k
  <2>1. n - y \in T
    OBVIOUS
  <2> QED
    BY <2>1, <1>2
<1> QED
  BY <1>2, <1>3

(* --- walks --- *)

Onward(step, p) == step[p] \in DOMAIN step /\ step[p] > p

Walks(step, f) ==
  f = [p \in DOMAIN step |-> {p} \union IF step[p] \in DOMAIN step /\ step[p] > p THEN f[step[p]] ELSE {}]

\* The places of the walks that begin at m or later.
WalksFrom(step, m, n, f) ==
  /\ f = [p \in m..n |-> f[p]]
  /\ \A p \in m..n : f[p] = {p} \union IF Onward(step, p) THEN f[step[p]] ELSE {}

LEMMA WalkBack ==
  ASSUME NEW n \in Nat, NEW step, DOMAIN step = 0..n, NEW m \in 0..n,
         NEW g, WalksFrom(step, m + 1, n, g)
  PROVE  \E h : WalksFrom(step, m, n, h)
<1> DEFINE first == {m} \union IF Onward(step, m) THEN g[step[m]] ELSE {}
           h == [p \in m..n |-> IF p = m THEN first ELSE g[p]]
<1>1. \A p \in (m + 1)..n : h[p] = g[p]
  OBVIOUS
<1>2. h[m] = first /\ h = [p \in m..n |-> h[p]]
  OBVIOUS
<1>3. \A p \in (m + 1)..n : g[p] = {p} \union IF Onward(step, p) THEN g[step[p]] ELSE {}
  BY DEF WalksFrom
<1> HIDE DEF h, first
<1>4. ASSUME NEW p \in m..n
      PROVE  h[p] = {p} \union IF Onward(step, p) THEN h[step[p]] ELSE {}
  <2>1. Onward(step, p) => h[step[p]] = g[step[p]]
    BY <1>1 DEF Onward
  <2>2. CASE p = m
    BY <1>2, <2>1, <2>2 DEF first
  <2>3. CASE p # m
    <3>1. p \in (m + 1)..n
      BY <2>3
    <3> QED
      BY <1>1, <1>3, <2>1, <3>1
  <2> QED
    BY <2>2, <2>3
<1> QED
  BY <1>2, <1>4 DEF WalksFrom

(* A walk's places as a recursive function exist: the least number of      *)
(* places at the end of the range that has none would be one more than a   *)
(* number that has them.                                                   *)
LEMMA WalkExists ==
  ASSUME NEW n \in Nat, NEW step, DOMAIN step = 0..n
  PROVE  \E f : Walks(step, f)
<1> DEFINE Has(m) == \E g : WalksFrom(step, m, n, g)
           Not == {k \in 0..(n + 1) : ~ Has(n + 1 - k)}
<1>1. Not = {}
  <2> SUFFICES ASSUME Not # {}
               PROVE  FALSE
    OBVIOUS
  <2> HIDE DEF Has
  <2>1. PICK k \in Not : \A l \in Not : k <= l
    <3>1. Not \subseteq Nat
      OBVIOUS
    <3> HIDE DEF Not
    <3> QED
      BY <3>1, HasLeast
  <2>2. CASE k = 0
    <3>1. WalksFrom(step, n + 1, n, [p \in (n + 1)..n |-> {}])
      BY DEF WalksFrom
    <3>2. n + 1 - k = n + 1 /\ ~Has(n + 1)
      BY <2>1, <2>2
    <3> QED
      BY <3>1, <3>2 DEF Has
  <2>3. CASE k # 0
    <3>1. n + 1 - k \in 0..n /\ k - 1 \in 0..(n + 1) /\ k - 1 \notin Not
      BY <2>1, <2>3
    <3>2. Has(n + 1 - k + 1)
      <4>1. n + 1 - (k - 1) = n + 1 - k + 1
        BY <3>1
      <4> QED
        BY <3>1, <4>1
    <3>3. Has(n + 1 - k)
      BY <3>1, <3>2, WalkBack DEF Has
    <3> QED
      BY <2>1, <3>3
  <2> QED
    BY <2>2, <2>3
<1>2. Has(0)
  <2> HIDE DEF Has
  <2>1. n + 1 \in 0..(n + 1) /\ n + 1 - (n + 1) = 0
    OBVIOUS
  <2> QED
    BY <1>1, <2>1
<1>3. PICK g : WalksFrom(step, 0, n, g)
  BY <1>2
<1>4. Walks(step, g)
  BY <1>3 DEF Walks, WalksFrom, Onward
<1> QED
  BY <1>4

LEMMA WalkedIs ==
  ASSUME NEW n \in Nat, NEW step, DOMAIN step = 0..n
  PROVE  \E f : Walks(step, f) /\ \A start : Walked(step, start) = IF start \in DOMAIN step THEN f[start] ELSE {}
<1> DEFINE f == CHOOSE g : Walks(step, g)
<1>1. Walks(step, f)
  BY WalkExists
<1>2. \A start : Walked(step, start) = IF start \in DOMAIN step THEN f[start] ELSE {}
  BY DEF Walked, Walks
<1> QED
  BY <1>1, <1>2

LEMMA WalkOutside ==
  ASSUME NEW step, NEW start, start \notin DOMAIN step
  PROVE  Walked(step, start) = {}
BY DEF Walked

(* What a walk is: it holds its start, goes on from every place, and holds *)
(* nothing a set with these two properties does not.                       *)
LEMMA WalkStarts ==
  ASSUME NEW n \in Nat, NEW step, DOMAIN step = 0..n, NEW start \in 0..n
  PROVE  /\ start \in Walked(step, start)
         /\ Walked(step, start) \subseteq 0..n
         /\ \A p \in Walked(step, start) : Onward(step, p) => step[p] \in Walked(step, start)
<1>1. PICK f : Walks(step, f) /\ \A s \in 0..n : Walked(step, s) = f[s]
  BY WalkedIs
<1>2. \A p \in 0..n : f[p] = {p} \union IF Onward(step, p) THEN f[step[p]] ELSE {}
  BY <1>1 DEF Walks, Onward
<1> DEFINE Good(q) == /\ q \in f[q] /\ f[q] \subseteq 0..n
                      /\ \A p \in f[q] : Onward(step, p) => step[p] \in f[q]
           Not == {q \in 0..n : ~Good(q)}
<1>3. Not = {}
  <2> SUFFICES ASSUME Not # {}
               PROVE  FALSE
    OBVIOUS
  <2>1. PICK q \in Not : \A p \in Not : p <= q
    <3>1. Not \subseteq 0..n
      OBVIOUS
    <3> HIDE DEF Not
    <3> QED
      BY <3>1, HasGreatest
  <2>2. CASE Onward(step, q)
    <3>1. step[q] \in 0..n /\ ~(step[q] <= q)
      BY <2>2 DEF Onward
    <3>2. Good(step[q])
      BY <2>1, <3>1
    <3>3. f[q] = {q} \union f[step[q]]
      BY <1>2, <2>2
    <3>4. Good(q)
      BY <3>2, <3>3
    <3> QED
      BY <2>1, <3>4
  <2>3. CASE ~Onward(step, q)
    <3>1. f[q] = {q}
      BY <1>2, <2>3
    <3>2. Good(q)
      BY <2>3, <3>1
    <3> QED
      BY <2>1, <3>2
  <2> QED
    BY <2>2, <2>3
<1>4. Good(start)
  BY <1>3
<1> QED
  BY <1>1, <1>4

LEMMA WalkLeast ==
  ASSUME NEW n \in Nat, NEW step, DOMAIN step = 0..n, NEW start \in 0..n, NEW S,
         start \in S,
         \A p \in S \cap 0..n : Onward(step, p) => step[p] \in S
  PROVE  Walked(step, start) \subseteq S
<1>1. PICK f : Walks(step, f) /\ \A s \in 0..n : Walked(step, s) = f[s]
  BY WalkedIs
<1>2. \A p \in 0..n : f[p] = {p} \union IF Onward(step, p) THEN f[step[p]] ELSE {}
  BY <1>1 DEF Walks, Onward
<1> DEFINE Not == {q \in 0..n : q \in S /\ ~(f[q] \subseteq S)}
<1>3. Not = {}
  <2> SUFFICES ASSUME Not # {}
               PROVE  FALSE
    OBVIOUS
  <2>1. PICK q \in Not : \A p \in Not : p <= q
    <3>1. Not \subseteq 0..n
      OBVIOUS
    <3> HIDE DEF Not
    <3> QED
      BY <3>1, HasGreatest
  <2>2. CASE Onward(step, q)
    <3>1. step[q] \in 0..n /\ ~(step[q] <= q) /\ step[q] \in S
      BY <2>1, <2>2 DEF Onward
    <3>2. f[step[q]] \subseteq S
      BY <2>1, <3>1
    <3>3. f[q] = {q} \union f[step[q]]
      BY <1>2, <2>2
    <3> QED
      BY <2>1, <3>2, <3>3
  <2>3. CASE ~Onward(step, q)
    <3>1. f[q] = {q}
      BY <1>2, <2>3
    <3> QED
      BY <2>1, <3>1
  <2> QED
    BY <2>2, <2>3
<1> QED
  BY <1>1, <1>3

(* --- evidence --- *)

Candidate(c) == c.period \in Nat \ {0} /\ c.key \in [0..(c.period - 1) -> Byte \union {Unknown}]

Fragment(c) == c.at \in Nat /\ c.plain \in Seq(Byte)
Fragments(cs) == IsFiniteSet(cs) /\ \A c \in cs : Fragment(c)

\* A fragment that is what a plaintext holds at its place.
Holds(plain, c) == \A d \in DOMAIN c.plain : c.at + d <= Len(plain) => plain[c.at + d] = c.plain[d]

\* A candidate none of whose known bytes differs from a key.
Agree(len, key, c) ==
  \A s \in KnownSlots(c) : s < len => c.key[s] = key[s % Cardinality(DOMAIN key)]

LEMMA ImageFinite ==
  ASSUME NEW S, IsFiniteSet(S), NEW f, S \subseteq DOMAIN f
  PROVE  IsFiniteSet({f[x] : x \in S})
<1> DEFINE T == {f[x] : x \in S}
           g == [x \in S |-> f[x]]
<1>1. g \in Surjection(S, T)
  BY DEF Surjection
<1> QED
  BY <1>1, FS_Surjection

LEMMA KeyShape ==
  ASSUME NEW key, IsKey(key)
  PROVE  /\ Cardinality(DOMAIN key) \in Nat \ {0}
         /\ DOMAIN key = 0..(Cardinality(DOMAIN key) - 1)
         /\ \A i \in Nat : /\ i % Cardinality(DOMAIN key) \in DOMAIN key
                          /\ key[i % Cardinality(DOMAIN key)] \in Byte
<1> DEFINE m == Cardinality(DOMAIN key)
<1>1. m \in Nat
  BY FS_CardinalityType DEF IsKey
<1>2. m # 0
  BY FS_EmptySet DEF IsKey
<1>3. DOMAIN key = 0..(m - 1) /\ key \in [0..(m - 1) -> Byte]
  BY DEF IsKey
<1> HIDE DEF m
<1>4. \A i \in Nat : i % m \in 0..(m - 1)
  BY <1>1, <1>2
<1> QED
  BY <1>1, <1>2, <1>3, <1>4 DEF m

LEMMA PlainShape ==
  ASSUME NEW key, IsKey(key), NEW stream \in Seq(Byte)
  PROVE  /\ Decrypted(stream, key) \in Seq(Byte)
         /\ Len(Decrypted(stream, key)) = Len(stream)
         /\ \A i \in 1..Len(stream) :
              /\ stream[i] \in Byte
              /\ Decrypted(stream, key)[i] = Xor(stream[i], key[(i - 1) % Cardinality(DOMAIN key)])
<1> DEFINE m == Cardinality(DOMAIN key)
           d == [i \in 1..Len(stream) |-> Xor(stream[i], key[(i - 1) % m])]
<1>1. DOMAIN stream = 1..Len(stream) /\ Len(stream) \in Nat /\ \A i \in 1..Len(stream) : stream[i] \in Byte
  OBVIOUS
<1>2. Decrypted(stream, key) = d
  BY <1>1 DEF Decrypted
<1>3. \A i \in 1..Len(stream) : d[i] \in Byte
  <2> SUFFICES ASSUME NEW i \in 1..Len(stream)
               PROVE  Xor(stream[i], key[(i - 1) % m]) \in Byte
    OBVIOUS
  <2>1. i - 1 \in Nat
    BY <1>1
  <2>2. key[(i - 1) % m] \in Byte
    BY <2>1, KeyShape
  <2> QED
    BY <1>1, <2>2, XorTyped
<1>4. d \in Seq(Byte) /\ Len(d) = Len(stream)
  <2>1. d \in [1..Len(stream) -> Byte]
    BY <1>3
  <2> QED
    BY <1>1, <2>1
<1> QED
  BY <1>1, <1>2, <1>4

(* A key laid over a stream twice leaves it as it was.                     *)
LEMMA Undone ==
  ASSUME NEW key, IsKey(key), NEW stream \in Seq(Byte)
  PROVE  Decrypted(Decrypted(stream, key), key) = stream
<1> DEFINE d == Decrypted(stream, key)
           e == Decrypted(d, key)
           k(i) == key[(i - 1) % Cardinality(DOMAIN key)]
<1>1. /\ d \in Seq(Byte) /\ Len(d) = Len(stream)
      /\ \A i \in 1..Len(stream) : stream[i] \in Byte /\ d[i] = Xor(stream[i], k(i))
  BY PlainShape
<1> HIDE DEF d
<1>2. /\ e \in Seq(Byte) /\ Len(e) = Len(stream)
      /\ \A i \in 1..Len(stream) : e[i] = Xor(d[i], k(i))
  BY <1>1, PlainShape
<1> HIDE DEF e
<1>3. \A i \in 1..Len(stream) : k(i) \in Byte
  BY KeyShape
<1> HIDE DEF k
<1>4. \A i \in 1..Len(stream) : e[i] = stream[i]
  BY <1>1, <1>2, <1>3, XorUndone
<1>5. e = stream
  BY <1>2, <1>4
<1> QED
  BY <1>5 DEF e, d

LEMMA ObservationsTyped ==
  ASSUME NEW sample, NEW stream \in Seq(Byte), NEW cs, Fragments(cs)
  PROVE  /\ IsFiniteSet(Observations(sample, stream, cs))
         /\ \A o \in Observations(sample, stream, cs) :
              /\ o.at \in 0..(Len(stream) - 1) /\ o.key \in Byte
              /\ \E c \in cs : \E d \in DOMAIN c.plain :
                   /\ o.at = c.at + d - 1 /\ c.at + d <= Len(stream)
                   /\ o.key = Xor(stream[c.at + d], c.plain[d])
<1> DEFINE inside(c) == {e \in DOMAIN c.plain : c.at + e <= Len(stream)}
           one(c, d) == [sample |-> sample, crib |-> c, at |-> c.at + d - 1,
                         key |-> Xor(At(stream, c.at + d - 1), c.plain[d])]
           of(c) == {one(c, d) : d \in inside(c)}
           all == {of(c) : c \in cs}
<1>1. Observations(sample, stream, cs) = UNION all
  BY DEF Observations
<1>2. IsFiniteSet(UNION all)
  <2>1. IsFiniteSet(all)
    <3> DEFINE f == [c \in cs |-> of(c)]
    <3>1. IsFiniteSet({f[c] : c \in cs})
      BY ImageFinite DEF Fragments
    <3>2. {f[c] : c \in cs} = all
      OBVIOUS
    <3> QED
      BY <3>1, <3>2
  <2>2. ASSUME NEW c \in cs
        PROVE  IsFiniteSet(of(c))
    <3> DEFINE f == [d \in inside(c) |-> one(c, d)]
    <3>1. DOMAIN c.plain = 1..Len(c.plain) /\ Len(c.plain) \in Nat
      BY DEF Fragments, Fragment
    <3>2. IsFiniteSet(inside(c))
      <4>1. inside(c) \in SUBSET (1..Len(c.plain))
        BY <3>1
      <4>2. IsFiniteSet(1..Len(c.plain))
        BY <3>1, FS_Interval
      <4> HIDE DEF inside
      <4> QED
        BY <4>1, <4>2, FS_Subset
    <3>3. IsFiniteSet({f[d] : d \in inside(c)})
      BY <3>2, ImageFinite
    <3>4. {f[d] : d \in inside(c)} = of(c)
      OBVIOUS
    <3> QED
      BY <3>3, <3>4
  <2> HIDE DEF of
  <2>3. \A T \in all : IsFiniteSet(T)
    BY <2>2
  <2> HIDE DEF all
  <2> QED
    BY <2>1, <2>3, FS_UNION
<1>3. ASSUME NEW c \in cs, NEW d \in inside(c)
      PROVE  /\ c.at + d - 1 \in 0..(Len(stream) - 1)
             /\ Xor(At(stream, c.at + d - 1), c.plain[d]) = Xor(stream[c.at + d], c.plain[d])
             /\ Xor(stream[c.at + d], c.plain[d]) \in Byte
  <2>1. c.at \in Nat /\ d \in 1..Len(c.plain) /\ c.plain[d] \in Byte /\ c.at + d <= Len(stream)
    BY DEF Fragments, Fragment
  <2>2. c.at + d \in 1..Len(stream) /\ (c.at + d - 1) + 1 = c.at + d
    BY <2>1
  <2>3. stream[c.at + d] \in Byte
    BY <2>2
  <2> QED
    BY <2>1, <2>2, <2>3, XorTyped DEF At
<1>4. ASSUME NEW o \in UNION all
      PROVE  \E c \in cs : \E d \in inside(c) : o = one(c, d)
  OBVIOUS
<1> QED
  BY <1>1, <1>2, <1>3, <1>4

LEMMA VotesTyped ==
  ASSUME NEW obs, IsFiniteSet(obs), NEW period, NEW slot, NEW v
  PROVE  /\ Votes(obs, period, slot, v) \in Nat
         /\ Votes(obs, period, slot, v) = 0 <=> \A o \in obs : o.at % period = slot => o.key # v
<1> DEFINE S == {o \in obs : o.at % period = slot /\ o.key = v}
<1>1. IsFiniteSet(S)
  BY FS_Subset
<1>2. Cardinality(S) \in Nat /\ (Cardinality(S) = 0 <=> S = {})
  BY <1>1, FS_CardinalityType, FS_EmptySet
<1>3. S = {} <=> \A o \in obs : o.at % period = slot => o.key # v
  OBVIOUS
<1> QED
  BY <1>2, <1>3 DEF Votes

Wins(obs, period, slot, v) ==
  \A w \in Byte \ {v} :
    \/ Votes(obs, period, slot, v) > Votes(obs, period, slot, w)
    \/ Votes(obs, period, slot, v) = Votes(obs, period, slot, w) /\ v < w

LEMMA SomeWins ==
  ASSUME NEW obs, IsFiniteSet(obs), NEW period, NEW slot
  PROVE  \E v \in Byte : Wins(obs, period, slot, v)
<1> DEFINE a == Votes(obs, period, slot, 0)
           b == Votes(obs, period, slot, 1)
           c == Votes(obs, period, slot, 2)
           d == Votes(obs, period, slot, 3)
<1>1. a \in Nat /\ b \in Nat /\ c \in Nat /\ d \in Nat
  BY VotesTyped
<1>2. Byte = {0, 1, 2, 3}
  BY DEF Byte
<1>3. Wins(obs, period, slot, 0) <=> a >= b /\ a >= c /\ a >= d
  BY <1>1, <1>2 DEF Wins
<1>4. Wins(obs, period, slot, 1) <=> b > a /\ b >= c /\ b >= d
  BY <1>1, <1>2 DEF Wins
<1>5. Wins(obs, period, slot, 2) <=> c > a /\ c > b /\ c >= d
  BY <1>1, <1>2 DEF Wins
<1>6. Wins(obs, period, slot, 3) <=> d > a /\ d > b /\ d > c
  BY <1>1, <1>2 DEF Wins
<1> HIDE DEF a, b, c, d
<1>7. \/ Wins(obs, period, slot, 0) \/ Wins(obs, period, slot, 1)
      \/ Wins(obs, period, slot, 2) \/ Wins(obs, period, slot, 3)
  BY <1>1, <1>3, <1>4, <1>5, <1>6
<1> QED
  BY <1>2, <1>7

LEMMA WinnerIs ==
  ASSUME NEW obs, IsFiniteSet(obs), NEW period, NEW slot
  PROVE  \/ /\ Winner(obs, period, slot) = Unknown
            /\ \A o \in obs : o.at % period # slot
         \/ /\ Winner(obs, period, slot) \in Byte
            /\ Wins(obs, period, slot, Winner(obs, period, slot))
            /\ \E o \in obs : o.at % period = slot
<1>1. CASE \A o \in obs : o.at % period # slot
  BY <1>1 DEF Winner
<1>2. CASE \E o \in obs : o.at % period = slot
  <2>1. Winner(obs, period, slot) = CHOOSE v \in Byte : Wins(obs, period, slot, v)
    BY <1>2 DEF Winner, Wins
  <2> QED
    BY <1>2, <2>1, SomeWins
<1> QED
  BY <1>1, <1>2

LEMMA EvaluateTyped ==
  ASSUME NEW obs, IsFiniteSet(obs), NEW period \in Nat \ {0}
  PROVE  /\ Candidate(Evaluate(obs, period))
         /\ Evaluate(obs, period).period = period
         /\ Evaluate(obs, period).key = [s \in 0..(period - 1) |-> Winner(obs, period, s)]
<1>1. /\ Evaluate(obs, period).period = period
      /\ Evaluate(obs, period).key = [s \in 0..(period - 1) |-> Winner(obs, period, s)]
  BY DEF Evaluate, Tallied
<1>2. \A s \in 0..(period - 1) : Winner(obs, period, s) \in Byte \union {Unknown}
  BY WinnerIs
<1> QED
  BY <1>1, <1>2 DEF Candidate

(* True observations make a true candidate at each multiple of the true    *)
(* period: all votes of a slot are for the same byte.                      *)
LEMMA EvaluateTrue ==
  ASSUME NEW key, IsKey(key), NEW len, NEW obs, IsFiniteSet(obs),
         \A o \in obs : o.at \in Nat /\ o.key = key[o.at % Cardinality(DOMAIN key)],
         NEW period \in Nat \ {0}, period % Cardinality(DOMAIN key) = 0
  PROVE  Agree(len, key, Evaluate(obs, period))
<1> DEFINE m == Cardinality(DOMAIN key)
           c == Evaluate(obs, period)
<1> SUFFICES ASSUME NEW s \in KnownSlots(c)
             PROVE  c.key[s] = key[s % m]
  BY DEF Agree
<1>1. s \in 0..(period - 1) /\ c.key[s] = Winner(obs, period, s) /\ c.key[s] # Unknown
  <2>1. c.key = [t \in 0..(period - 1) |-> Winner(obs, period, t)]
    BY EvaluateTyped
  <2> HIDE DEF c
  <2> QED
    BY <2>1 DEF KnownSlots
<1>2. m \in Nat \ {0} /\ key[s % m] \in Byte
  BY <1>1, KeyShape
<1>3. \A o \in obs : o.at % period = s => o.key = key[s % m]
  <2> SUFFICES ASSUME NEW o \in obs, o.at % period = s
               PROVE  o.key = key[s % m]
    OBVIOUS
  <2>1. (o.at % period) % m = o.at % m
    BY <1>2, ModMod
  <2> QED
    BY <2>1
<1>4. Winner(obs, period, s) \in Byte /\ Wins(obs, period, s, Winner(obs, period, s))
      /\ \E o \in obs : o.at % period = s
  BY <1>1, WinnerIs
<1> DEFINE v == Winner(obs, period, s)
           k == key[s % m]
<1>5. ASSUME v # k
      PROVE  FALSE
  <2>1. Votes(obs, period, s, k) \in Nat /\ Votes(obs, period, s, k) # 0
    BY <1>3, <1>4, VotesTyped
  <2>2. Votes(obs, period, s, v) = 0
    BY <1>3, <1>5, VotesTyped
  <2>3. k \in Byte \ {v}
    BY <1>2, <1>5
  <2>4. \/ Votes(obs, period, s, v) > Votes(obs, period, s, k)
        \/ Votes(obs, period, s, v) = Votes(obs, period, s, k) /\ v < k
    BY <1>4, <2>3 DEF Wins
  <2> QED
    BY <2>1, <2>2, <2>4
<1> QED
  BY <1>1, <1>5

(* A fragment of the plaintext yields bytes of the key.                    *)
LEMMA ObservationsTrue ==
  ASSUME NEW key, IsKey(key), NEW stream \in Seq(Byte), NEW sample, NEW cs, Fragments(cs),
         \A c \in cs : Holds(Decrypted(stream, key), c)
  PROVE  \A o \in Observations(sample, stream, cs) :
           o.at \in Nat /\ o.key = key[o.at % Cardinality(DOMAIN key)]
<1> DEFINE m == Cardinality(DOMAIN key)
           plain == Decrypted(stream, key)
<1> SUFFICES ASSUME NEW o \in Observations(sample, stream, cs)
             PROVE  o.at \in Nat /\ o.key = key[o.at % m]
  OBVIOUS
<1>1. o.at \in 0..(Len(stream) - 1)
  BY ObservationsTyped
<1>2. PICK c \in cs : \E d \in DOMAIN c.plain :
        o.at = c.at + d - 1 /\ c.at + d <= Len(stream) /\ o.key = Xor(stream[c.at + d], c.plain[d])
  BY ObservationsTyped
<1>9. PICK d \in DOMAIN c.plain :
        o.at = c.at + d - 1 /\ c.at + d <= Len(stream) /\ o.key = Xor(stream[c.at + d], c.plain[d])
  BY <1>2
<1>3. c.at \in Nat /\ d \in Nat \ {0}
  BY DEF Fragments, Fragment
<1> DEFINE i == c.at + d
<1>4. i \in 1..Len(stream) /\ i - 1 = o.at
  BY <1>9, <1>3
<1>5. plain[i] = c.plain[d]
  <2>1. Len(plain) = Len(stream)
    BY PlainShape
  <2> QED
    BY <1>9, <2>1 DEF Holds
<1>6. plain[i] = Xor(stream[i], key[(i - 1) % m]) /\ stream[i] \in Byte
  BY <1>4, PlainShape
<1>7. key[(i - 1) % m] \in Byte
  <2>1. i - 1 \in Nat
    BY <1>4
  <2> QED
    BY <2>1, KeyShape
<1>8. Xor(stream[i], plain[i]) = key[(i - 1) % m]
  BY <1>6, <1>7, XorUndone
<1> QED
  BY <1>1, <1>9, <1>4, <1>5, <1>8

(* --- what is discovered --- *)

ConformsTo(h, plain) ==
  /\ Strong(h, plain)
  /\ h = "chain" =>
       \A p \in 0..(Len(plain) - Len(Anchor)) \ PageWalk(plain, Plainly) :
         Cardinality({d \in DOMAIN Anchor : plain[p + d] = Anchor[d]}) < Len(Anchor) - 1
  /\ h = "chunk" =>
       \A p \in ChunkWalk(plain, Plainly) : SubSeq(plain, p + 2, p + 3) \in Tags

\* A candidate that knows only bytes of a key, over a stream under this key.
Genuine(key, stream, c) ==
  /\ IsKey(key) /\ stream \in Seq(Byte) /\ Candidate(c)
  /\ c.period % Cardinality(DOMAIN key) = 0
  /\ Agree(Len(stream), key, c)

LEMMA KnownIsTrue ==
  ASSUME NEW key, NEW stream, NEW c, Genuine(key, stream, c), NEW o \in Nat
  PROVE  \/ PlainAt(stream, c, o) = Unknown
         \/ /\ o < Len(stream)
            /\ PlainAt(stream, c, o) = Decrypted(stream, key)[o + 1]
            /\ PlainAt(stream, c, o) \in Byte
<1> DEFINE m == Cardinality(DOMAIN key)
           plain == Decrypted(stream, key)
           s == o % c.period
<1> SUFFICES ASSUME PlainAt(stream, c, o) # Unknown
             PROVE  /\ o < Len(stream) /\ PlainAt(stream, c, o) = plain[o + 1]
                    /\ PlainAt(stream, c, o) \in Byte
  OBVIOUS
<1>1. /\ IsKey(key) /\ stream \in Seq(Byte) /\ Candidate(c) /\ c.period % m = 0
      /\ Agree(Len(stream), key, c)
  BY DEF Genuine
<1>2. ~(o >= Len(stream)) /\ c.key[s] # Unknown /\ PlainAt(stream, c, o) = Xor(stream[o + 1], c.key[s])
  BY DEF PlainAt, At
<1>3. o < Len(stream) /\ o + 1 \in 1..Len(stream)
  BY <1>1, <1>2
<1>4. c.period \in Nat \ {0} /\ DOMAIN c.key = 0..(c.period - 1)
  BY <1>1 DEF Candidate
<1>5. s \in 0..(c.period - 1) /\ s <= o
  BY <1>4, ModSmall
<1>6. c.key[s] = key[s % m]
  <2>1. s \in KnownSlots(c) /\ s < Len(stream)
    BY <1>1, <1>2, <1>3, <1>4, <1>5 DEF KnownSlots
  <2> QED
    BY <1>1, <2>1 DEF Agree
<1>7. s % m = o % m
  <2>1. m \in Nat \ {0}
    BY <1>1, KeyShape
  <2> QED
    BY <1>1, <1>4, <2>1, ModMod
<1>8. stream[o + 1] \in Byte /\ plain[o + 1] = Xor(stream[o + 1], key[((o + 1) - 1) % m])
  BY <1>1, <1>3, PlainShape
<1>9. (o + 1) - 1 = o
  OBVIOUS
<1>10. key[o % m] \in Byte
  BY <1>1, KeyShape
<1>11. c.key[s] = key[o % m]
  BY <1>6, <1>7
<1> HIDE DEF s, m, plain
<1>12. plain[o + 1] = Xor(stream[o + 1], key[o % m])
  BY <1>8, <1>9
<1> QED
  BY <1>2, <1>3, <1>8, <1>10, <1>11, <1>12, XorTyped

LEMMA PlainlyIs ==
  ASSUME NEW plain \in Seq(Byte), NEW o \in Nat, o < Len(plain)
  PROVE  /\ PlainAt(plain, Plainly, o) = plain[o + 1]
         /\ PlainAt(plain, Plainly, o) \in Byte
         /\ PlainAt(plain, Plainly, o) # Unknown
<1>1. Plainly.period = 1 /\ o % 1 = 0 /\ Plainly.key[0] = 0 /\ 0 # Unknown
  BY DEF Plainly, Unknown
<1>2. plain[o + 1] \in Byte
  <2>1. o + 1 \in 1..Len(plain)
    OBVIOUS
  <2> QED
    BY <2>1
<1>3. PlainAt(plain, Plainly, o) = Xor(plain[o + 1], 0)
  BY <1>1 DEF PlainAt, At
<1>4. PlainAt(plain, Plainly, o) = plain[o + 1]
  BY <1>2, <1>3, XorZero
<1> QED
  BY <1>2, <1>4 DEF Byte, Unknown

LEMMA PlainPages ==
  ASSUME NEW plain \in Seq(Byte)
  PROVE  PageStep(plain, Plainly) = ChainStep(plain)
<1>1. \A p \in 0..Len(plain) : p + 4 <= Len(plain) =>
        PlainAt(plain, Plainly, p + 3) # Unknown /\ PlainAt(plain, Plainly, p + 3) = At(plain, p + 3)
  <2> SUFFICES ASSUME NEW p \in 0..Len(plain), p + 4 <= Len(plain)
               PROVE  PlainAt(plain, Plainly, p + 3) # Unknown /\ PlainAt(plain, Plainly, p + 3) = At(plain, p + 3)
    OBVIOUS
  <2>1. p + 3 \in Nat /\ p + 3 < Len(plain)
    OBVIOUS
  <2> QED
    BY <2>1, PlainlyIs DEF At
<1>2. \A p \in 0..Len(plain) :
        (IF p + 4 > Len(plain) \/ PlainAt(plain, Plainly, p + 3) = Unknown THEN p
         ELSE p + 4 + PlainAt(plain, Plainly, p + 3))
        = (IF p + 4 <= Len(plain) THEN p + 4 + At(plain, p + 3) ELSE p)
  BY <1>1
<1> QED
  BY <1>2 DEF PageStep, ChainStep

(* Pages found with a genuine candidate are pages.                         *)
LEMMA PagesTrue ==
  ASSUME NEW key, NEW stream, NEW c, Genuine(key, stream, c)
  PROVE  PageWalk(stream, c) \subseteq PageWalk(Decrypted(stream, key), Plainly)
<1> DEFINE plain == Decrypted(stream, key)
           n == Len(stream)
           S == Walked(ChainStep(plain), 0)
<1>1. plain \in Seq(Byte) /\ Len(plain) = n /\ n \in Nat
  BY PlainShape DEF Genuine
<1>2. DOMAIN PageStep(stream, c) = 0..n /\ DOMAIN ChainStep(plain) = 0..n
  BY <1>1 DEF PageStep, ChainStep
<1>3. /\ 0 \in S /\ \A p \in S : Onward(ChainStep(plain), p) => ChainStep(plain)[p] \in S
  BY <1>1, <1>2, WalkStarts
<1>4. ASSUME NEW p \in S \cap 0..n, Onward(PageStep(stream, c), p)
      PROVE  PageStep(stream, c)[p] \in S
  <2>1. p + 4 <= n /\ PlainAt(stream, c, p + 3) # Unknown
        /\ PageStep(stream, c)[p] = p + 4 + PlainAt(stream, c, p + 3)
    BY <1>1, <1>4 DEF PageStep, Onward
  <2>2. PlainAt(stream, c, p + 3) = plain[(p + 3) + 1]
    <3>1. p + 3 \in Nat
      OBVIOUS
    <3> QED
      BY <2>1, <3>1, KnownIsTrue
  <2>3. ChainStep(plain)[p] = PageStep(stream, c)[p]
    BY <1>1, <2>1, <2>2 DEF ChainStep, At
  <2>4. Onward(ChainStep(plain), p)
    BY <1>2, <1>4, <2>3 DEF Onward
  <2> QED
    BY <1>3, <2>3, <2>4
<1>5. Walked(PageStep(stream, c), 0) \subseteq S
  <2> HIDE DEF S
  <2>1. \A p \in S \cap 0..n : Onward(PageStep(stream, c), p) => PageStep(stream, c)[p] \in S
    BY <1>4
  <2> HIDE DEF n
  <2> QED
    BY <1>1, <1>2, <1>3, <2>1, WalkLeast
<1> QED
  BY <1>1, <1>5, PlainPages DEF PageWalk

LEMMA AnchorIs ==
  /\ Anchor \in Seq(Byte) /\ DOMAIN Anchor = 1..3 /\ Len(Anchor) = 3
  /\ Signature \in Seq(Byte) /\ DOMAIN Signature = {1} /\ Len(Signature) = 1
BY DEF Anchor, Signature, Byte

LEMMA PieceIs ==
  ASSUME NEW plain \in Seq(Byte), NEW a \in Int, NEW b \in Int, 0 < a, b <= Len(plain)
  PROVE  /\ SubSeq(plain, a, b) \in Seq(Byte)
         /\ Len(SubSeq(plain, a, b)) = IF a <= b THEN b - a + 1 ELSE 0
         /\ \A i \in 1..(b - a + 1) : SubSeq(plain, a, b)[i] = plain[a + i - 1]
<1>1. \A i \in a..b : plain[i] \in Byte
  OBVIOUS
<1> QED
  BY <1>1, SubSeqProperties

(* A page of a valid chain begins with the pattern.                        *)
LEMMA PagesHold ==
  ASSUME NEW plain \in Seq(Byte), ChainValid(plain), NEW p \in PageWalk(plain, Plainly)
  PROVE  /\ p \in 0..(Len(plain) - 4)
         /\ \A d \in DOMAIN Anchor : plain[p + d] = Anchor[d]
<1> DEFINE n == Len(plain)
<1>1. n \in Nat /\ DOMAIN ChainStep(plain) = 0..n
  BY DEF ChainStep
<1>2. p \in Walked(ChainStep(plain), 0) /\ p + 4 <= n
  BY PlainPages DEF PageWalk
<1>3. p \in 0..n
  BY <1>1, <1>2, WalkStarts
<1>4. SubSeq(plain, p + 1, p + 3) = Anchor
  BY <1>2, <1>3 DEF ChainValid
<1>5. \A i \in 1..3 : SubSeq(plain, p + 1, p + 3)[i] = plain[p + 1 + i - 1]
  <2>1. /\ p + 1 \in Int /\ p + 3 \in Int /\ 0 < p + 1 /\ p + 3 <= n
        /\ (p + 3) - (p + 1) + 1 = 3
    BY <1>2, <1>3
  <2> QED
    BY <2>1, PieceIs
<1>6. \A d \in 1..3 : p + 1 + d - 1 = p + d
  BY <1>3
<1> QED
  BY <1>2, <1>3, <1>4, <1>5, <1>6, AnchorIs

(* In a conforming plaintext, two known bytes of the pattern are enough.   *)
LEMMA ResyncTrue ==
  ASSUME NEW key, NEW stream, NEW c, Genuine(key, stream, c),
         ConformsTo("chain", Decrypted(stream, key)), NEW p \in Resync(stream, c)
  PROVE  p \in PageWalk(Decrypted(stream, key), Plainly)
<1> DEFINE plain == Decrypted(stream, key)
           bytes == [d \in DOMAIN Anchor |-> PlainAt(stream, c, p + d - 1)]
           known == {d \in DOMAIN Anchor : bytes[d] # Unknown}
           same == {d \in DOMAIN Anchor : plain[p + d] = Anchor[d]}
<1>1. plain \in Seq(Byte) /\ Len(plain) = Len(stream) /\ Len(stream) \in Nat
  BY PlainShape DEF Genuine
<1>2. p \in 1..(Len(stream) - 3) /\ KnownMatch(stream, c, p, Anchor) >= 2
  BY AnchorIs DEF Resync
<1>3. /\ \A d \in DOMAIN Anchor : bytes[d] \in {Unknown, Anchor[d]}
      /\ Cardinality(known) >= 2
  <2>1. ~(-1 >= 2)
    OBVIOUS
  <2> QED
    BY <1>2, <2>1 DEF KnownMatch
<1>4. known \subseteq same
  <2> SUFFICES ASSUME NEW d \in known
               PROVE  plain[p + d] = Anchor[d]
    OBVIOUS
  <2>1. p + d - 1 \in Nat /\ (p + d - 1) + 1 = p + d
    BY <1>1, <1>2, AnchorIs
  <2>2. PlainAt(stream, c, p + d - 1) # Unknown /\ PlainAt(stream, c, p + d - 1) = Anchor[d]
    BY <1>3
  <2> QED
    BY <2>1, <2>2, KnownIsTrue
<1>5. Cardinality(same) >= 2
  <2>1. IsFiniteSet(DOMAIN Anchor)
    BY AnchorIs, FS_Interval
  <2>2. IsFiniteSet(same)
    BY <2>1, FS_Subset
  <2>3. Cardinality(known) <= Cardinality(same) /\ Cardinality(same) \in Nat /\ Cardinality(known) \in Nat
    <3> HIDE DEF known, same
    <3>1. IsFiniteSet(known)
      BY <1>4, <2>2, FS_Subset
    <3> QED
      BY <1>4, <2>2, <3>1, FS_Subset, FS_CardinalityType
  <2> QED
    BY <1>3, <2>3
<1>6. ~(Cardinality(same) < Len(Anchor) - 1)
  <2>1. IsFiniteSet(DOMAIN Anchor)
    BY AnchorIs, FS_Interval
  <2>2. Cardinality(same) \in Nat
    BY <2>1, FS_Subset, FS_CardinalityType
  <2> QED
    BY <1>5, <2>2, AnchorIs
<1>7. p \in 0..(Len(plain) - Len(Anchor))
  BY <1>1, <1>2, AnchorIs
<1> QED
  BY <1>6, <1>7 DEF ConformsTo

LEMMA ChainTyped ==
  ASSUME NEW stream \in Seq(Byte), NEW c
  PROVE  Fragments(DiscoverChain(stream, c))
<1> DEFINE n == Len(stream)
           at == PageWalk(stream, c) \union Resync(stream, c)
           f == [p \in 0..n |-> Crib(p, Anchor)]
<1>1. n \in Nat
  OBVIOUS
<1>2. at \subseteq 0..n
  <2>1. PageWalk(stream, c) \subseteq 0..n
    <3>1. DOMAIN PageStep(stream, c) = 0..n /\ 0 \in 0..n
      BY <1>1 DEF PageStep
    <3>2. Walked(PageStep(stream, c), 0) \subseteq 0..n
      <4> HIDE DEF n
      <4> QED
        BY <1>1, <3>1, WalkStarts
    <3> QED
      BY <3>2 DEF PageWalk
  <2>2. Resync(stream, c) \subseteq 0..n
    BY <1>1, AnchorIs DEF Resync
  <2> QED
    BY <2>1, <2>2
<1>3. DiscoverChain(stream, c) = {f[p] : p \in at}
  <2>1. DiscoverChain(stream, c) = {Crib(p, Anchor) : p \in at}
    BY DEF DiscoverChain
  <2> HIDE DEF at, n
  <2>2. \A p \in at : f[p] = Crib(p, Anchor)
    BY <1>2
  <2> HIDE DEF f
  <2> QED
    BY <2>1, <2>2
<1>4. IsFiniteSet(at)
  <2> HIDE DEF at, n
  <2>1. IsFiniteSet(0..n)
    BY <1>1, FS_Interval
  <2> QED
    BY <1>2, <2>1, FS_Subset
<1>5. IsFiniteSet(DiscoverChain(stream, c))
  <2>1. at \subseteq DOMAIN f
    BY <1>2
  <2> HIDE DEF at, f
  <2> QED
    BY <1>3, <1>4, <2>1, ImageFinite
<1>6. \A p \in 0..n : Fragment(Crib(p, Anchor))
  BY AnchorIs DEF Fragment, Crib
<1> QED
  BY <1>2, <1>5, <1>6 DEF Fragments, DiscoverChain

LEMMA ChainTrue ==
  ASSUME NEW key, NEW stream, NEW c, Genuine(key, stream, c),
         ConformsTo("chain", Decrypted(stream, key)), NEW f \in DiscoverChain(stream, c)
  PROVE  Holds(Decrypted(stream, key), f)
<1> DEFINE plain == Decrypted(stream, key)
<1>1. PICK p \in PageWalk(stream, c) \union Resync(stream, c) : f = Crib(p, Anchor)
  BY DEF DiscoverChain
<1>2. p \in PageWalk(plain, Plainly)
  BY PagesTrue, ResyncTrue
<1>3. plain \in Seq(Byte) /\ ChainValid(plain)
  BY PlainShape DEF Genuine, ConformsTo, Strong
<1>4. \A d \in DOMAIN Anchor : plain[p + d] = Anchor[d]
  BY <1>2, <1>3, PagesHold
<1> QED
  BY <1>1, <1>4 DEF Holds, Crib

(* --- chunks --- *)

LEMMA EndTagIs ==
  /\ EndTag \in Seq(Byte) /\ <<0>> \o EndTag \in Seq(Byte) /\ Len(<<0>> \o EndTag) = 3
  /\ DOMAIN (<<0>> \o EndTag) = 1..3
BY DEF EndTag, Byte

(* Chunks found with a genuine candidate are chunks.                       *)
LEMMA ChunksTrue ==
  ASSUME NEW key, NEW stream, NEW c, Genuine(key, stream, c)
  PROVE  ChunkWalk(stream, c) \subseteq ChunkWalk(Decrypted(stream, key), Plainly)
<1> DEFINE plain == Decrypted(stream, key)
           n == Len(stream)
           step == ChunkStep(stream, c)
           true == ChunkStep(plain, Plainly)
           S == Walked(true, 1)
<1>1. plain \in Seq(Byte) /\ Len(plain) = n /\ n \in Nat
  BY PlainShape DEF Genuine
<1> SUFFICES ASSUME NEW q \in ChunkWalk(stream, c)
             PROVE  ChunkWalk(stream, c) \subseteq ChunkWalk(plain, Plainly)
  OBVIOUS
<1>2. DOMAIN step = 0..n /\ DOMAIN true = 0..n /\ 1 \in 0..n
  <2>1. DOMAIN step = 0..n /\ DOMAIN true = 0..n
    BY <1>1 DEF ChunkStep
  <2>2. Walked(step, 1) # {}
    BY AnchorIs DEF ChunkWalk
  <2> QED
    BY <2>1, <2>2, WalkOutside
<1>3. /\ 1 \in S /\ \A p \in S : Onward(true, p) => true[p] \in S
  BY <1>1, <1>2, WalkStarts
<1>4. ASSUME NEW p \in 0..n, step[p] > p
      PROVE  true[p] = step[p] /\ Onward(step, p)
  <2>1. /\ p + 3 <= n /\ PlainAt(stream, c, p) # Unknown /\ ~(p + 3 + PlainAt(stream, c, p) > n)
        /\ step[p] = p + 3 + PlainAt(stream, c, p)
    BY <1>1, <1>4 DEF ChunkStep
  <2>2. PlainAt(stream, c, p) = plain[p + 1] /\ PlainAt(stream, c, p) \in Byte
    BY <2>1, KnownIsTrue
  <2>3. PlainAt(plain, Plainly, p) = plain[p + 1] /\ PlainAt(plain, Plainly, p) # Unknown
    BY <1>1, <2>1, PlainlyIs
  <2>4. true[p] = step[p]
    BY <1>1, <2>1, <2>2, <2>3 DEF ChunkStep
  <2>5. step[p] \in 0..n
    BY <2>1, <2>2 DEF Byte
  <2> QED
    BY <1>2, <1>4, <2>4, <2>5 DEF Onward
<1>5. Walked(step, 1) \subseteq S
  <2>1. \A p \in S \cap 0..n : Onward(step, p) => step[p] \in S
    <3> SUFFICES ASSUME NEW p \in S \cap 0..n, Onward(step, p)
                 PROVE  step[p] \in S
      OBVIOUS
    <3>1. step[p] > p
      BY DEF Onward
    <3>2. true[p] = step[p] /\ Onward(true, p)
      BY <1>2, <1>4, <3>1 DEF Onward
    <3> QED
      BY <1>3, <3>2
  <2> HIDE DEF S, n, step
  <2> QED
    BY <1>1, <1>2, <1>3, <2>1, WalkLeast
<1>6. Walked(step, 1) \subseteq 0..n
  <2> HIDE DEF n, step
  <2> QED
    BY <1>1, <1>2, WalkStarts
<1>7. ASSUME NEW p \in ChunkWalk(stream, c)
      PROVE  p \in ChunkWalk(plain, Plainly)
  <2>1. p \in Walked(step, 1) /\ step[p] > p
    BY AnchorIs DEF ChunkWalk
  <2>2. p \in S /\ true[p] > p
    BY <1>4, <1>5, <1>6, <2>1
  <2> QED
    BY <2>2, AnchorIs DEF ChunkWalk
<1> QED
  BY <1>7

LEMMA ChunkPlaces ==
  ASSUME NEW stream \in Seq(Byte), NEW c, NEW p \in ChunkWalk(stream, c)
  PROVE  p \in 0..Len(stream) /\ p + 3 <= Len(stream)
<1> DEFINE n == Len(stream)
           step == ChunkStep(stream, c)
<1>2. p \in Walked(step, 1) /\ step[p] > p
  BY AnchorIs DEF ChunkWalk
<1>1. n \in Nat /\ DOMAIN step = 0..n /\ 1 \in 0..n
  <2>1. n \in Nat /\ DOMAIN step = 0..n
    BY DEF ChunkStep
  <2> QED
    BY <1>2, <2>1, WalkOutside
<1>3. p \in 0..n
  <2> HIDE DEF n, step
  <2> QED
    BY <1>1, <1>2, WalkStarts
<1>4. p + 3 <= n
  BY <1>1, <1>2, <1>3 DEF ChunkStep
<1> QED
  BY <1>3, <1>4

LEMMA MatchingIs ==
  ASSUME NEW stream, NEW c, NEW p \in Nat, NEW t \in [1..2 -> Byte]
  PROVE  KnownMatch(stream, c, p + 1, t) >= 1 <=>
           /\ \A d \in 1..2 : PlainAt(stream, c, p + d) \in {Unknown, t[d]}
           /\ \E d \in 1..2 : PlainAt(stream, c, p + d) # Unknown
<1> DEFINE bytes == [d \in DOMAIN t |-> PlainAt(stream, c, p + 1 + d - 1)]
           known == {d \in DOMAIN t : bytes[d] # Unknown}
<1>1. DOMAIN t = 1..2 /\ \A d \in 1..2 : bytes[d] = PlainAt(stream, c, p + d)
  <2>1. DOMAIN t = 1..2
    OBVIOUS
  <2>2. \A d \in 1..2 : p + 1 + d - 1 = p + d
    OBVIOUS
  <2> QED
    BY <2>1, <2>2
<1>2. KnownMatch(stream, c, p + 1, t) =
        IF \E d \in DOMAIN t : bytes[d] \notin {Unknown, t[d]} THEN -1 ELSE Cardinality(known)
  BY DEF KnownMatch
<1>3. IsFiniteSet(known)
  <2>1. known \in SUBSET (1..2)
    BY <1>1
  <2>2. IsFiniteSet(1..2)
    <3>1. 1 \in Int /\ 2 \in Int
      OBVIOUS
    <3> QED
      BY <3>1, FS_Interval
  <2> HIDE DEF known
  <2> QED
    BY <2>1, <2>2, FS_Subset
<1>4. Cardinality(known) \in Nat /\ (Cardinality(known) = 0 <=> known = {})
  BY <1>3, FS_CardinalityType, FS_EmptySet
<1>5. known = {} <=> \A d \in 1..2 : PlainAt(stream, c, p + d) = Unknown
  BY <1>1
<1>6. (\E d \in DOMAIN t : bytes[d] \notin {Unknown, t[d]})
        <=> \E d \in 1..2 : PlainAt(stream, c, p + d) \notin {Unknown, t[d]}
  BY <1>1
<1> HIDE DEF known, bytes
<1> QED
  BY <1>2, <1>4, <1>5, <1>6

(* The one listed tag that fits the known bytes is the one that is there.  *)
LEMMA TagTrue ==
  ASSUME NEW key, NEW stream, NEW c, Genuine(key, stream, c),
         ConformsTo("chunk", Decrypted(stream, key)),
         NEW p \in ChunkWalk(stream, c), Cardinality(MatchingTags(stream, c, p)) = 1,
         NEW t \in MatchingTags(stream, c, p)
  PROVE  t = SubSeq(Decrypted(stream, key), p + 2, p + 3)
<1> DEFINE plain == Decrypted(stream, key)
           u == SubSeq(plain, p + 2, p + 3)
           M == MatchingTags(stream, c, p)
<1>1. plain \in Seq(Byte) /\ Len(plain) = Len(stream) /\ Len(stream) \in Nat
  BY PlainShape DEF Genuine
<1>2. p \in 0..Len(stream) /\ p + 3 <= Len(stream)
  BY ChunkPlaces DEF Genuine
<1>3. u \in Tags
  BY ChunksTrue DEF ConformsTo
<1>4. u \in [1..2 -> Byte] /\ t \in [1..2 -> Byte] /\ IsFiniteSet(M)
  BY <1>3, TagAssumption, FS_Subset DEF MatchingTags
<1>5. \A d \in 1..2 : u[d] = plain[p + d + 1]
  <2>1. \A i \in 1..2 : u[i] = plain[p + 2 + i - 1]
    <3>1. /\ p + 2 \in Int /\ p + 3 \in Int /\ 0 < p + 2 /\ p + 3 <= Len(plain)
          /\ (p + 3) - (p + 2) + 1 = 2
      BY <1>1, <1>2
    <3> QED
      BY <1>1, <3>1, PieceIs
  <2>2. \A d \in 1..2 : p + 2 + d - 1 = p + d + 1
    BY <1>2
  <2> QED
    BY <2>1, <2>2
<1>6. \A d \in 1..2 : PlainAt(stream, c, p + d) \in {Unknown, u[d]}
  <2> SUFFICES ASSUME NEW d \in 1..2
               PROVE  PlainAt(stream, c, p + d) \in {Unknown, u[d]}
    OBVIOUS
  <2>1. p + d \in Nat
    BY <1>2
  <2> QED
    BY <1>5, <2>1, KnownIsTrue
<1>7. \E d \in 1..2 : PlainAt(stream, c, p + d) # Unknown
  <2>1. KnownMatch(stream, c, p + 1, t) >= 1
    BY DEF MatchingTags
  <2> QED
    BY <1>2, <1>4, <2>1, MatchingIs
<1>8. u \in M
  <2>1. KnownMatch(stream, c, p + 1, u) >= 1
    <3>1. p \in Nat
      BY <1>2
    <3> HIDE DEF u
    <3> QED
      BY <3>1, <1>4, <1>6, <1>7, MatchingIs
  <2> QED
    BY <1>3, <2>1 DEF MatchingTags
<1>9. \E x : M = {x}
  BY <1>4, FS_Singleton
<1> HIDE DEF u, M
<1>10. t = u
  BY <1>8, <1>9 DEF M
<1> QED
  BY <1>10 DEF u

LEMMA ChunkTyped ==
  ASSUME NEW stream \in Seq(Byte), NEW c
  PROVE  Fragments(DiscoverChunk(stream, c))
<1> DEFINE n == Len(stream)
           g == [x \in (0..n) \X Tags |-> Crib(x[1] + 1, x[2])]
           all == {g[x] : x \in (0..n) \X Tags}
           D == DiscoverChunk(stream, c)
<1>1. n \in Nat
  OBVIOUS
<1>2. IsFiniteSet(all)
  <2>1. IsFiniteSet((0..n) \X Tags)
    <3> HIDE DEF n
    <3>1. IsFiniteSet(0..n)
      BY <1>1, FS_Interval
    <3> QED
      BY <3>1, FS_Product, TagAssumption
  <2>2. (0..n) \X Tags \subseteq DOMAIN g
    OBVIOUS
  <2> HIDE DEF g, n
  <2> QED
    BY <2>1, <2>2, ImageFinite
<1>3. \A f \in D : \E p \in 0..n : \E t \in Tags : f = Crib(p + 1, t)
  <2> SUFFICES ASSUME NEW f \in D
               PROVE  \E p \in 0..n : \E t \in Tags : f = Crib(p + 1, t)
    OBVIOUS
  <2>1. PICK p \in ChunkWalk(stream, c) : f \in {Crib(p + 1, t) : t \in MatchingTags(stream, c, p)}
    BY DEF DiscoverChunk
  <2>2. PICK t \in MatchingTags(stream, c, p) : f = Crib(p + 1, t)
    BY <2>1
  <2>3. t \in Tags
    BY DEF MatchingTags
  <2>4. p \in 0..n
    BY ChunkPlaces
  <2> HIDE DEF n
  <2> QED
    BY <2>2, <2>3, <2>4
<1>4. D \subseteq all
  <2> SUFFICES ASSUME NEW p \in 0..n, NEW t \in Tags
               PROVE  Crib(p + 1, t) \in all
    BY <1>3
  <2>1. g[<<p, t>>] = Crib(p + 1, t)
    OBVIOUS
  <2> QED
    BY <2>1
<1>5. IsFiniteSet(D)
  <2> HIDE DEF D, all
  <2> QED
    BY <1>2, <1>4, FS_Subset
<1>6. ASSUME NEW p \in 0..n, NEW t \in Tags
      PROVE  Fragment(Crib(p + 1, t))
  <2>1. t \in [1..2 -> Byte]
    BY TagAssumption
  <2>2. t \in Seq(Byte)
    <3>1. 2 \in Nat
      OBVIOUS
    <3>2. t \in UNION {[1..k -> Byte] : k \in Nat}
      BY <2>1, <3>1
    <3> HIDE DEF n
    <3> QED
      BY <3>2, SeqDef
  <2>3. p + 1 \in Nat
    BY <1>1
  <2> QED
    BY <2>2, <2>3 DEF Fragment, Crib
<1> QED
  BY <1>3, <1>5, <1>6 DEF Fragments

LEMMA ChunkTrue ==
  ASSUME NEW key, NEW stream, NEW c, Genuine(key, stream, c),
         ConformsTo("chunk", Decrypted(stream, key)), NEW f \in DiscoverChunk(stream, c)
  PROVE  Holds(Decrypted(stream, key), f)
<1> DEFINE plain == Decrypted(stream, key)
<1>1. PICK p \in ChunkWalk(stream, c) :
        /\ Cardinality(MatchingTags(stream, c, p)) = 1
        /\ f \in {Crib(p + 1, t) : t \in MatchingTags(stream, c, p)}
  BY DEF DiscoverChunk
<1>2. PICK t \in MatchingTags(stream, c, p) : f = Crib(p + 1, t)
  BY <1>1
<1>3. t = SubSeq(plain, p + 2, p + 3)
  BY <1>1, TagTrue
<1>4. plain \in Seq(Byte) /\ Len(plain) = Len(stream) /\ Len(stream) \in Nat
  BY PlainShape DEF Genuine
<1>5. p \in 0..Len(stream) /\ p + 3 <= Len(stream)
  BY ChunkPlaces DEF Genuine
<1>6. t \in [1..2 -> Byte]
  BY TagAssumption DEF MatchingTags
<1>7. \A i \in 1..2 : t[i] = plain[p + 2 + i - 1]
  <2>1. /\ p + 2 \in Int /\ p + 3 \in Int /\ 0 < p + 2 /\ p + 3 <= Len(plain)
        /\ (p + 3) - (p + 2) + 1 = 2
    BY <1>4, <1>5
  <2> QED
    BY <1>3, <1>4, <2>1, PieceIs
<1>8. \A d \in 1..2 : p + 2 + d - 1 = p + 1 + d
  BY <1>5
<1> QED
  BY <1>2, <1>6, <1>7, <1>8 DEF Holds, Crib

LEMMA DiscoverTyped ==
  ASSUME NEW stream \in Seq(Byte), NEW h \in {"chain", "chunk", "text"}, NEW c
  PROVE  Fragments(Discover(h, stream, c))
<1>1. CASE h = "chain"
  BY <1>1, ChainTyped DEF Discover
<1>2. CASE h = "chunk"
  BY <1>2, ChunkTyped DEF Discover
<1>3. CASE h = "text"
  BY <1>3, FS_EmptySet DEF Discover, Fragments
<1> QED
  BY <1>1, <1>2, <1>3

LEMMA DiscoverTrue ==
  ASSUME NEW key, NEW stream, NEW c, Genuine(key, stream, c),
         NEW h \in {"chain", "chunk", "text"}, ConformsTo(h, Decrypted(stream, key))
  PROVE  \A f \in Discover(h, stream, c) : Holds(Decrypted(stream, key), f)
<1>1. CASE h = "chain"
  BY <1>1, ChainTrue DEF Discover
<1>2. CASE h = "chunk"
  BY <1>2, ChunkTrue DEF Discover
<1>3. CASE h = "text"
  BY <1>3 DEF Discover
<1> QED
  BY <1>1, <1>2, <1>3

(* --- the fragments a hypothesis begins with --- *)

LEMMA CribTyped ==
  /\ Fragment(Crib(0, Anchor)) /\ Fragment(Crib(0, Signature))
  /\ \A at \in Nat : Fragment(Crib(at, <<0>> \o EndTag))
BY AnchorIs, EndTagIs DEF Fragment, Crib

LEMMA HeadersTyped ==
  ASSUME NEW h \in {"chain", "chunk", "text"}
  PROVE  Fragments(HeaderCribs(h))
BY CribTyped, FS_EmptySet, FS_Singleton DEF HeaderCribs, Fragments

LEMMA InitialTyped ==
  ASSUME NEW stream \in Seq(Byte), NEW h \in {"chain", "chunk", "text"}
  PROVE  Fragments(InitialCribs(h, Len(stream)))
<1>1. Fragments(LengthCribs(h, Len(stream)))
  <2>1. Len(stream) >= 3 => Len(stream) - 3 \in Nat
    OBVIOUS
  <2> QED
    BY <2>1, CribTyped, FS_EmptySet, FS_Singleton DEF LengthCribs, Fragments
<1> QED
  BY <1>1, HeadersTyped, FS_Union DEF InitialCribs, Fragments

LEMMA HeadersTrue ==
  ASSUME NEW plain \in Seq(Byte), NEW h \in {"chain", "chunk", "text"}, Strong(h, plain)
  PROVE  \A c \in HeaderCribs(h) : Holds(plain, c)
<1>1. CASE h = "chain"
  <2>1. ChainValid(plain)
    BY <1>1 DEF Strong
  <2>2. DOMAIN ChainStep(plain) = 0..Len(plain) /\ Len(plain) \in Nat /\ Len(plain) # 0
    BY <2>1 DEF ChainStep, ChainValid
  <2>3. 0 \in Walked(ChainStep(plain), 0)
    BY <2>2, WalkStarts
  <2>4. 0 \in PageWalk(plain, Plainly)
    BY <2>1, <2>2, <2>3, PlainPages DEF PageWalk, ChainValid
  <2>5. \A d \in DOMAIN Anchor : plain[0 + d] = Anchor[d]
    BY <2>1, <2>4, PagesHold
  <2> QED
    BY <1>1, <2>5 DEF HeaderCribs, Holds, Crib
<1>2. CASE h = "chunk"
  <2>1. plain[1] = Signature[1]
    BY <1>2 DEF Strong, ChunkValid
  <2>2. \A d \in DOMAIN Signature : plain[0 + d] = Signature[d]
    BY <2>1, AnchorIs
  <2> QED
    BY <1>2, <2>2 DEF HeaderCribs, Holds, Crib
<1>3. CASE h = "text"
  BY <1>3 DEF HeaderCribs
<1> QED
  BY <1>1, <1>2, <1>3

(* The last chunk of a valid list is the end chunk: the furthest place its *)
(* walk comes to.                                                          *)
LEMMA EndChunk ==
  ASSUME NEW plain \in Seq(Byte), ChunkValid(plain), Len(plain) >= 3
  PROVE  Holds(plain, Crib(Len(plain) - 3, <<0>> \o EndTag))
<1> DEFINE n == Len(plain)
           step == DataStep(plain)
           S == Walked(step, 1)
<1>1. n \in Nat /\ DOMAIN step = 0..n /\ 1 \in 0..n
  BY DEF DataStep
<1>2. 1 \in S /\ S \subseteq 0..n /\ \A p \in S : Onward(step, p) => step[p] \in S
  <2> HIDE DEF n, step
  <2> QED
    BY <1>1, WalkStarts
<1>3. PICK p \in S : \A q \in S : q <= p
  <2> HIDE DEF S, n
  <2> QED
    BY <1>1, <1>2, HasGreatest
<1>4. /\ p + 3 <= n
      /\ IF p + 3 = n THEN SubSeq(plain, p + 1, p + 3) = <<0>> \o EndTag ELSE step[p] <= n
  BY AnchorIs DEF ChunkValid
<1>5. p + 3 = n
  <2> SUFFICES ASSUME p + 3 # n
               PROVE  FALSE
    OBVIOUS
  <2>1. p \in 0..n /\ p + 3 < n
    BY <1>1, <1>2, <1>4
  <2>2. step[p] = p + 3 + plain[p + 1]
    BY <1>1, <2>1 DEF DataStep, At
  <2>3. plain[p + 1] \in 0..3
    <3>1. p + 1 \in 1..Len(plain)
      BY <2>1
    <3> QED
      BY <3>1 DEF Byte
  <2>4. step[p] > p /\ step[p] \in 0..n
    BY <1>4, <2>1, <2>2, <2>3
  <2>5. step[p] \in S
    BY <1>1, <1>2, <2>4 DEF Onward
  <2>6. step[p] <= p
    BY <1>3, <2>5
  <2> QED
    BY <2>1, <2>4, <2>6
<1>6. SubSeq(plain, p + 1, p + 3) = <<0>> \o EndTag
  BY <1>4, <1>5
<1>7. \A i \in 1..3 : SubSeq(plain, p + 1, p + 3)[i] = plain[p + 1 + i - 1]
  <2>1. p \in 0..n /\ n \in Nat /\ n = Len(plain)
    BY <1>1, <1>2
  <2>2. /\ p + 1 \in Int /\ p + 3 \in Int /\ 0 < p + 1 /\ p + 3 <= Len(plain)
        /\ (p + 3) - (p + 1) + 1 = 3
    <3> HIDE DEF n, S, step
    <3> QED
      BY <1>5, <2>1
  <2> QED
    BY <2>2, PieceIs
<1>8. \A i \in 1..3 : p + 1 + i - 1 = (Len(plain) - 3) + i
  BY <1>1, <1>2, <1>5
<1> HIDE DEF S, step
<1> QED
  BY <1>6, <1>7, <1>8, EndTagIs DEF Holds, Crib

LEMMA InitialTrue ==
  ASSUME NEW plain \in Seq(Byte), NEW h \in {"chain", "chunk", "text"}, Strong(h, plain)
  PROVE  \A c \in InitialCribs(h, Len(plain)) : Holds(plain, c)
<1> SUFFICES ASSUME NEW c \in LengthCribs(h, Len(plain))
             PROVE  Holds(plain, c)
  BY HeadersTrue DEF InitialCribs
<1>1. h = "chunk" /\ Len(plain) >= 3 /\ c = Crib(Len(plain) - 3, <<0>> \o EndTag)
  BY DEF LengthCribs
<1>2. ChunkValid(plain)
  BY <1>1 DEF Strong
<1> QED
  BY <1>1, <1>2, EndChunk

(* --- the ranking of a hypothesis --- *)

LEMMA RankedIn ==
  ASSUME NEW earlier, NEW t \in Ranked(earlier)
  PROVE  /\ t.cand \in DOMAIN earlier
         /\ t = [at |-> Cardinality(earlier[t.cand]), cand |-> t.cand]
BY DEF Ranked

LEMMA ObservedAre ==
  ASSUME NEW obs, NEW min, NEW max, NEW t \in RankObserved(obs, min, max)
  PROVE  \E p \in min..max : t.cand = Evaluate(obs, p)
<1> DEFINE all == {Evaluate(obs, p) : p \in min..max}
           earlier == [c \in all |-> {d \in all : CandidateOrder(d, c)}]
<1>1. t \in Ranked(earlier)
  BY DEF RankObserved
<1>2. DOMAIN earlier = all
  OBVIOUS
<1>3. t.cand \in all
  <2> HIDE DEF all, earlier
  <2> QED
    BY <1>1, <1>2, RankedIn
<1> QED
  BY <1>3

LEMMA CoincidenceIs ==
  ASSUME NEW ranked, NEW scores, NEW t \in ByCoincidence(ranked, scores)
  PROVE  \E u \in ranked : t.cand = u.cand
<1> DEFINE clean == {scores[u.cand.period] : u \in {v \in ranked : v.cand.conflicts = 0}}
           all   == {u.cand : u \in ranked}
           earlier == [c \in all |-> {d \in all : BinaryOrder(scores, Threshold(Max(clean)), d, c)}]
<1>1. t \in ranked \/ t \in Ranked(earlier)
  BY DEF ByCoincidence
<1>2. DOMAIN earlier = all
  OBVIOUS
<1>3. t \in Ranked(earlier) => t.cand \in all
  <2> HIDE DEF all, earlier
  <2> QED
    BY <1>2, RankedIn
<1> QED
  BY <1>1, <1>3

\* What a hypothesis takes its periods from.
Periods(h, stream) ==
  IF IsText(h) THEN {EmptyPeriod(p) : p \in MinPeriod..MaxPeriod}
  ELSE {Evaluate(Observations(1, stream, InitialCribs(h, Len(stream))), p) : p \in MinPeriod..MaxPeriod}

LEMMA RankedAre ==
  ASSUME NEW h, NEW stream, NEW t \in RankHypothesis(h, stream)
  PROVE  t.cand \in Periods(h, stream)
<1>1. CASE IsText(h)
  <2> DEFINE all == {EmptyPeriod(p) : p \in MinPeriod..MaxPeriod}
             earlier == [c \in all |-> {d \in all : TextOrder(Scores(h, stream), d, c)}]
  <2>1. t \in Ranked(earlier)
    BY <1>1 DEF RankHypothesis
  <2>2. DOMAIN earlier = all
    OBVIOUS
  <2>3. t.cand \in all
    <3> HIDE DEF all, earlier
    <3> QED
      BY <2>1, <2>2, RankedIn
  <2> QED
    BY <1>1, <2>3 DEF Periods
<1>2. CASE ~IsText(h)
  <2> DEFINE obs == Observations(1, stream, InitialCribs(h, Len(stream)))
  <2>1. t \in ByCoincidence(RankObserved(obs, MinPeriod, MaxPeriod), Scores(h, stream))
    BY <1>2 DEF RankHypothesis, RankPeriods
  <2>2. PICK u \in RankObserved(obs, MinPeriod, MaxPeriod) : t.cand = u.cand
    BY <2>1, CoincidenceIs
  <2>3. \E p \in MinPeriod..MaxPeriod : u.cand = Evaluate(obs, p)
    BY ObservedAre
  <2> QED
    BY <1>2, <2>2, <2>3 DEF Periods
<1> QED
  BY <1>1, <1>2

LEMMA EmptyIs ==
  ASSUME NEW p \in Nat \ {0}
  PROVE  /\ Candidate(EmptyPeriod(p)) /\ KnownSlots(EmptyPeriod(p)) = {}
BY DEF Candidate, EmptyPeriod, KnownSlots

LEMMA RankedTyped ==
  ASSUME NEW h \in {"chain", "chunk", "text"}, NEW stream \in Seq(Byte),
         NEW t \in RankHypothesis(h, stream)
  PROVE  Candidate(t.cand)
<1>1. MinPeriod..MaxPeriod \subseteq Nat \ {0}
  BY PeriodAssumption
<1>2. CASE IsText(h)
  BY <1>1, <1>2, RankedAre, EmptyIs DEF Periods
<1>3. CASE ~IsText(h)
  <2> DEFINE obs == Observations(1, stream, InitialCribs(h, Len(stream)))
  <2>1. IsFiniteSet(obs)
    BY InitialTyped, ObservationsTyped
  <2>2. PICK p \in MinPeriod..MaxPeriod : t.cand = Evaluate(obs, p)
    BY <1>3, RankedAre DEF Periods
  <2> HIDE DEF obs
  <2>3. p \in Nat \ {0}
    BY <1>1
  <2>4. Candidate(Evaluate(obs, p))
    BY <2>1, <2>3, EvaluateTyped
  <2> QED
    BY <2>2, <2>4
<1> QED
  BY <1>2, <1>3

LEMMA RankedTrue ==
  ASSUME NEW key, IsKey(key), NEW stream \in Seq(Byte), NEW h \in {"chain", "chunk", "text"},
         Strong(h, Decrypted(stream, key)),
         NEW t \in RankHypothesis(h, stream), t.cand.period % Cardinality(DOMAIN key) = 0
  PROVE  Agree(Len(stream), key, t.cand)
<1>1. MinPeriod..MaxPeriod \subseteq Nat \ {0}
  BY PeriodAssumption
<1>2. CASE IsText(h)
  BY <1>1, <1>2, RankedAre, EmptyIs DEF Periods, Agree
<1>3. CASE ~IsText(h)
  <2> DEFINE cs  == InitialCribs(h, Len(stream))
             obs == Observations(1, stream, cs)
  <2>1. Fragments(cs)
    BY InitialTyped
  <2>2. \A c \in cs : Holds(Decrypted(stream, key), c)
    <3>1. Decrypted(stream, key) \in Seq(Byte) /\ Len(Decrypted(stream, key)) = Len(stream)
      BY PlainShape
    <3> QED
      BY <3>1, InitialTrue
  <2>3. PICK p \in MinPeriod..MaxPeriod : t.cand = Evaluate(obs, p)
    BY <1>3, RankedAre DEF Periods
  <2> HIDE DEF cs
  <2>4. /\ IsFiniteSet(obs)
        /\ \A o \in obs : o.at \in Nat /\ o.key = key[o.at % Cardinality(DOMAIN key)]
    BY <2>1, <2>2, ObservationsTyped, ObservationsTrue
  <2> HIDE DEF obs
  <2>5. p \in Nat \ {0}
    BY <1>1
  <2>6. Evaluate(obs, p).period = p
    BY <2>4, <2>5, EvaluateTyped
  <2>7. p % Cardinality(DOMAIN key) = 0
    BY <2>3, <2>6
  <2>8. Agree(Len(stream), key, Evaluate(obs, p))
    BY <2>4, <2>5, <2>7, EvaluateTrue
  <2> QED
    BY <2>3, <2>8
<1> QED
  BY <1>2, <1>3

(* --- evidence is sound --- *)

Hypotheses == {"chain", "chunk", "text"}

\* What the plaintext is, and that the period in turn is a multiple of the true one.
Fits(c) == Conforms(Hyp) /\ c.period % TruePeriod = 0

\* The strengthening of EvidenceIsSound: the fragments a candidate was made of
\* are fragments of the plaintext, too, and so are the candidates still to come.
IInv ==
  /\ problem \in Problems
  /\ hyp \in Nat \ {0}
  /\ stage = "period" \/ AtPeriod =>
       /\ hyp <= Len(problem.hyps)
       /\ \A t \in todo : Candidate(t.cand) /\ (Fits(t.cand) => Agrees(t.cand))
  /\ AtPeriod =>
       /\ Candidate(cand) /\ Fragments(cribs)
       /\ ~guessed /\ Fits(cand) => Agrees(cand) /\ \A c \in cribs : Holds(TruePlain, c)

LEMMA ProblemIs ==
  ASSUME NEW p \in Problems
  PROVE  /\ p.entries[1].stream \in Seq(Byte) /\ IsKey(p.key)
         /\ p.hyps \in Seq(Hypotheses)
         /\ \A n \in Nat \ {0} : n <= Len(p.hyps) => p.hyps[n] \in Hypotheses
<1>1. p.entries \in Seq(Entries) /\ p.entries # <<>> /\ p.hyps \in Seq(Hypotheses) /\ IsKey(p.key)
  BY ProblemAssumption DEF Hypotheses
<1>2. p.entries[1] \in Entries
  BY <1>1
<1>3. \A n \in Nat \ {0} : n <= Len(p.hyps) => p.hyps[n] \in Hypotheses
  BY <1>1
<1> QED
  BY <1>1, <1>2, <1>3 DEF Entries

LEMMA TrueIs ==
  ASSUME problem \in Problems
  PROVE  /\ Stream \in Seq(Byte) /\ IsKey(TrueKey)
         /\ TruePlain \in Seq(Byte) /\ Len(TruePlain) = Length
         /\ TruePlain = Decrypted(Stream, TrueKey)
         /\ \A h : Conforms(h) <=> ConformsTo(h, TruePlain)
         /\ \A c : Agrees(c) <=> Agree(Len(Stream), TrueKey, c)
<1>1. Stream \in Seq(Byte) /\ IsKey(TrueKey)
  BY ProblemIs DEF Stream, TrueKey
<1>2. TruePlain \in Seq(Byte) /\ Len(TruePlain) = Length
  BY <1>1, PlainShape DEF TruePlain, Length
<1>3. \A h : Conforms(h) <=> ConformsTo(h, TruePlain)
  BY <1>2 DEF Conforms, ConformsTo
<1>4. \A c : Agrees(c) <=> Agree(Len(Stream), TrueKey, c)
  BY DEF Agrees, Agree, Length, TruePeriod
<1> QED
  BY <1>1, <1>2, <1>3, <1>4 DEF TruePlain

\* A candidate made anew from true fragments of the plaintext, and the fragments
\* found with it.
LEMMA AnewTyped ==
  ASSUME NEW stream \in Seq(Byte), NEW cs, Fragments(cs), NEW period \in Nat \ {0}
  PROVE  /\ Candidate(Evaluate(Observations(1, stream, cs), period))
         /\ Evaluate(Observations(1, stream, cs), period).period = period
<1> DEFINE obs == Observations(1, stream, cs)
<1>1. IsFiniteSet(obs)
  BY ObservationsTyped
<1> HIDE DEF obs
<1> QED
  BY <1>1, EvaluateTyped DEF obs

LEMMA AnewTrue ==
  ASSUME NEW key, IsKey(key), NEW stream \in Seq(Byte), NEW cs, Fragments(cs),
         \A c \in cs : Holds(Decrypted(stream, key), c),
         NEW period \in Nat \ {0}, period % Cardinality(DOMAIN key) = 0
  PROVE  Agree(Len(stream), key, Evaluate(Observations(1, stream, cs), period))
<1> DEFINE obs == Observations(1, stream, cs)
<1>1. /\ IsFiniteSet(obs)
      /\ \A o \in obs : o.at \in Nat /\ o.key = key[o.at % Cardinality(DOMAIN key)]
  BY ObservationsTyped, ObservationsTrue
<1> HIDE DEF obs
<1> QED
  BY <1>1, EvaluateTrue DEF obs

LEMMA Lasting ==
  ASSUME problem' = problem, hyp' = hyp
  PROVE  /\ Hyp' = Hyp /\ TruePlain' = TruePlain
         /\ \A c : (Fits(c))' <=> Fits(c)
         /\ \A c : (Agrees(c))' <=> Agrees(c)
<1>1. Stream' = Stream /\ TrueKey' = TrueKey /\ Hyp' = Hyp
  BY DEF Stream, TrueKey, Hyp
<1>2. TruePeriod' = TruePeriod /\ TruePlain' = TruePlain /\ Length' = Length
  BY <1>1 DEF TruePeriod, TruePlain, Length
<1>3. (Conforms(Hyp))' <=> Conforms(Hyp)
  BY <1>1, <1>2 DEF Conforms
<1>4. \A c : (Fits(c))' <=> Fits(c)
  BY <1>2, <1>3 DEF Fits
<1>5. \A c : (Agrees(c))' <=> Agrees(c)
  BY <1>1, <1>2 DEF Agrees
<1> QED
  BY <1>1, <1>2, <1>4, <1>5

\* A candidate of the period in turn, as it may replace the one before.
Sound(c) == Candidate(c) /\ (~guessed /\ Fits(c) => Agrees(c))

LEMMA BeginTyped ==
  ASSUME IInv, hyp <= Len(problem.hyps)
  PROVE  /\ Stream \in Seq(Byte) /\ Hyp \in Hypotheses
         /\ Fragments(InitialCribs(Hyp, Length))
         /\ Conforms(Hyp) => \A c \in InitialCribs(Hyp, Length) : Holds(TruePlain, c)
<1>1. Stream \in Seq(Byte) /\ Hyp \in Hypotheses
  BY ProblemIs DEF IInv, Stream, Hyp
<1>2. Fragments(InitialCribs(Hyp, Length))
  BY <1>1, InitialTyped DEF Length, Hypotheses
<1>3. ASSUME Conforms(Hyp)
      PROVE  \A c \in InitialCribs(Hyp, Length) : Holds(TruePlain, c)
  <2>1. TruePlain \in Seq(Byte) /\ Len(TruePlain) = Length
    BY TrueIs DEF IInv
  <2>2. Strong(Hyp, TruePlain)
    BY <1>3 DEF Conforms
  <2> QED
    BY <1>1, <2>1, <2>2, InitialTrue DEF Hypotheses
<1> QED
  BY <1>1, <1>2, <1>3

LEMMA DiscoverSound ==
  ASSUME IInv, hyp <= Len(problem.hyps), NEW c, Sound(c)
  PROVE  /\ Fragments(Discover(Hyp, Stream, c))
         /\ ~guessed /\ Fits(c) => \A f \in Discover(Hyp, Stream, c) : Holds(TruePlain, f)
<1>1. Stream \in Seq(Byte) /\ Hyp \in Hypotheses
  BY BeginTyped
<1>2. Fragments(Discover(Hyp, Stream, c))
  BY <1>1, DiscoverTyped DEF Hypotheses
<1>3. ASSUME ~guessed, Fits(c)
      PROVE  \A f \in Discover(Hyp, Stream, c) : Holds(TruePlain, f)
  <2>1. Candidate(c) /\ Agrees(c) /\ Conforms(Hyp) /\ c.period % TruePeriod = 0
    BY <1>3 DEF Sound, Fits
  <2>2. Genuine(TrueKey, Stream, c) /\ ConformsTo(Hyp, Decrypted(Stream, TrueKey))
    BY <2>1, TrueIs DEF IInv, Genuine, TruePeriod
  <2> QED
    BY <1>1, <2>2, DiscoverTrue, TrueIs DEF Hypotheses, IInv
<1> QED
  BY <1>2, <1>3

LEMMA NextSound ==
  ASSUME IInv, AtPeriod, NEW more, Fragments(more),
         ~guessed /\ Fits(cand) => \A f \in more : Holds(TruePlain, f)
  PROVE  LET next == Evaluate(Observations(1, Stream, cribs \union more), cand.period)
         IN  /\ Sound(next) /\ next.period = cand.period
             /\ Fragments(cribs \union more)
             /\ ~guessed /\ Fits(next) => \A f \in cribs \union more : Holds(TruePlain, f)
<1> DEFINE next == Evaluate(Observations(1, Stream, cribs \union more), cand.period)
           all  == cribs \union more
<1>1. Candidate(cand) /\ Fragments(cribs) /\ hyp <= Len(problem.hyps) /\ cand.period \in Nat \ {0}
  BY DEF IInv, Candidate
<1>2. Stream \in Seq(Byte) /\ IsKey(TrueKey)
  BY TrueIs DEF IInv
<1>3. Fragments(all)
  BY <1>1, FS_Union DEF Fragments
<1>4. Candidate(next) /\ next.period = cand.period
  BY <1>1, <1>2, <1>3, AnewTyped
<1>5. Fits(next) <=> Fits(cand)
  BY <1>4 DEF Fits
<1>6. ~guessed /\ Fits(cand) => \A f \in all : Holds(TruePlain, f)
  BY DEF IInv
<1>7. ASSUME ~guessed, Fits(cand)
      PROVE  Agrees(next)
  <2>1. cand.period % Cardinality(DOMAIN TrueKey) = 0
    BY <1>7 DEF Fits, TruePeriod
  <2>2. \A f \in all : Holds(Decrypted(Stream, TrueKey), f)
    BY <1>6, <1>7 DEF TruePlain
  <2> HIDE DEF all
  <2>3. Agree(Len(Stream), TrueKey, Evaluate(Observations(1, Stream, all), cand.period))
    BY <1>1, <1>2, <1>3, <2>1, <2>2, AnewTrue
  <2> QED
    BY <2>3, TrueIs DEF IInv, all
<1> HIDE DEF next, all
<1>8. Sound(next)
  BY <1>4, <1>5, <1>7 DEF Sound
<1> QED
  BY <1>3, <1>4, <1>5, <1>6, <1>8 DEF next, all

(* Steps that leave the evidence as it is.                                 *)
LEMMA QuietStep ==
  ASSUME IInv, problem' = problem, hyp' \in Nat \ {0},
         \/ ~(stage = "period" \/ AtPeriod)'
         \/ /\ stage = "period" \/ AtPeriod
            /\ stage' = "period"
            /\ UNCHANGED <<hyp, todo>>
         \/ AtPeriod /\ UNCHANGED <<hyp, todo, cand, cribs, guessed>>
  PROVE  IInv'
<1>1. CASE ~(stage = "period" \/ AtPeriod)'
  BY <1>1 DEF IInv
<1>2. CASE /\ stage = "period" \/ AtPeriod
           /\ stage' = "period"
           /\ UNCHANGED <<hyp, todo>>
  <2>1. ~AtPeriod'
    BY <1>2 DEF AtPeriod
  <2> QED
    BY <1>2, <2>1, Lasting DEF IInv
<1>3. CASE AtPeriod /\ UNCHANGED <<hyp, todo, cand, cribs, guessed>>
  BY <1>3, Lasting DEF IInv
<1> QED
  BY <1>1, <1>2, <1>3

(* Steps that replace the candidate and its fragments.                     *)
LEMMA FreshStep ==
  ASSUME IInv, UNCHANGED <<problem, hyp>>, hyp <= Len(problem.hyps), AtPeriod',
         \A t \in todo' : t \in todo,
         stage = "period" \/ AtPeriod,
         Candidate(cand'), Fragments(cribs'),
         ~guessed' /\ Fits(cand') => Agrees(cand') /\ \A c \in cribs' : Holds(TruePlain, c)
  PROVE  IInv'
<1>1. \A t \in todo' : Candidate(t.cand) /\ (Fits(t.cand) => Agrees(t.cand))
  BY DEF IInv
<1>2. /\ problem' \in Problems /\ hyp' \in Nat \ {0} /\ hyp' <= Len(problem'.hyps)
  BY DEF IInv
<1>3. \A t \in todo' : (Fits(t.cand))' => (Agrees(t.cand))'
  BY <1>1, Lasting
<1> QED
  BY <1>1, <1>2, <1>3, Lasting DEF IInv

LEMMA EvidenceInit ==
  ASSUME Init
  PROVE  IInv
BY DEF Init, IInv, AtPeriod

LEMMA BeginStep ==
  ASSUME IInv, BeginHypothesis
  PROVE  IInv'
<1>1. /\ stage' = "period" /\ hyp <= Len(problem.hyps) /\ UNCHANGED <<problem, hyp>>
      /\ todo' = RankHypothesis(Hyp, Stream)
  BY DEF BeginHypothesis
<1>2. Stream \in Seq(Byte) /\ Hyp \in {"chain", "chunk", "text"} /\ IsKey(TrueKey)
  BY <1>1, BeginTyped, TrueIs DEF Hypotheses, IInv
<1>3. ASSUME NEW t \in todo'
      PROVE  Candidate(t.cand) /\ (Fits(t.cand) => Agrees(t.cand))
  <2>1. t \in RankHypothesis(Hyp, Stream)
    BY <1>1
  <2>2. Candidate(t.cand)
    BY <1>2, <2>1, RankedTyped
  <2>3. ASSUME Fits(t.cand)
        PROVE  Agrees(t.cand)
    <3>1. Strong(Hyp, Decrypted(Stream, TrueKey)) /\ t.cand.period % Cardinality(DOMAIN TrueKey) = 0
      BY <2>3 DEF Fits, Conforms, TruePlain, TruePeriod
    <3>2. Agree(Len(Stream), TrueKey, t.cand)
      BY <1>2, <2>1, <3>1, RankedTrue
    <3> QED
      BY <3>2, TrueIs DEF IInv
  <2> QED
    BY <2>2, <2>3
<1>4. ~AtPeriod'
  BY <1>1 DEF AtPeriod
<1> QED
  BY <1>1, <1>3, <1>4, Lasting DEF IInv

LEMMA NextStep ==
  ASSUME IInv, NextPeriod
  PROVE  IInv'
<1>1. stage = "period" /\ UNCHANGED <<problem, hyp>> /\ hyp <= Len(problem.hyps)
  BY DEF NextPeriod, IInv
<1>2. PICK t \in todo :
        /\ todo' = todo \ {t}
        /\ IF Visited(t.cand, t.at)
           THEN /\ cand' = t.cand
                /\ cribs' = InitialCribs(Hyp, Length)
                /\ round' = 0 /\ guessed' = FALSE
                /\ stage' = IF t.cand.conflicts # 0 THEN Judgement
                           ELSE IF CompleteFor(t.cand, Length) THEN "histogram" ELSE "refine"
           ELSE UNCHANGED <<cand, cribs, round, guessed, stage>>
  BY DEF NextPeriod
<1>3. CASE Visited(t.cand, t.at)
  <2>1. AtPeriod'
    BY <1>2, <1>3 DEF AtPeriod, Judgement
  <2>2. Candidate(t.cand) /\ (Fits(t.cand) => Agrees(t.cand))
    BY <1>1 DEF IInv
  <2>3. Fragments(cribs') /\ (Conforms(Hyp) => \A c \in cribs' : Holds(TruePlain, c))
    BY <1>1, <1>2, <1>3, BeginTyped
  <2>4. Fits(cand') => Agrees(cand') /\ \A c \in cribs' : Holds(TruePlain, c)
    BY <1>2, <1>3, <2>2, <2>3 DEF Fits
  <2>5. Candidate(cand') /\ \A u \in todo' : u \in todo
    BY <1>2, <1>3, <2>2
  <2> QED
    BY <1>1, <2>1, <2>3, <2>4, <2>5, FreshStep
<1>4. CASE ~Visited(t.cand, t.at)
  <2>1. stage' = "period" /\ ~AtPeriod'
    BY <1>1, <1>2, <1>4 DEF AtPeriod
  <2>2. \A u \in todo' : Candidate(u.cand) /\ (Fits(u.cand) => Agrees(u.cand))
    BY <1>1, <1>2 DEF IInv
  <2> QED
    BY <1>1, <2>1, <2>2, Lasting DEF IInv
<1> QED
  BY <1>3, <1>4

LEMMA EndRefineStep ==
  ASSUME IInv, AtPeriod, UNCHANGED <<problem, hyp, todo, guessed>>, NEW c, Sound(c), EndRefine(c)
  PROVE  IInv'
<1>1. hyp <= Len(problem.hyps) /\ stage' = "histogram" /\ cand' = c
      /\ cribs' = InitialCribs(Hyp, Length) \union Discover(Hyp, Stream, c)
  BY DEF IInv, EndRefine
<1>2. /\ Fragments(InitialCribs(Hyp, Length)) /\ Fragments(Discover(Hyp, Stream, c))
      /\ Conforms(Hyp) => \A f \in InitialCribs(Hyp, Length) : Holds(TruePlain, f)
      /\ ~guessed /\ Fits(c) => \A f \in Discover(Hyp, Stream, c) : Holds(TruePlain, f)
  BY <1>1, BeginTyped, DiscoverSound
<1>3. Fragments(cribs')
  BY <1>1, <1>2, FS_Union DEF Fragments
<1>4. ~guessed' /\ Fits(cand') => Agrees(cand') /\ \A f \in cribs' : Holds(TruePlain, f)
  BY <1>1, <1>2 DEF Fits, Sound
<1>5. AtPeriod' /\ Candidate(cand')
  BY <1>1 DEF AtPeriod, Sound
<1> QED
  BY <1>1, <1>3, <1>4, <1>5, FreshStep

LEMMA RefineStep ==
  ASSUME IInv, RefineRound
  PROVE  IInv'
<1> DEFINE more == Discover(Hyp, Stream, cand)
           next == Evaluate(Observations(1, Stream, cribs \union more), cand.period)
<1>1. AtPeriod /\ UNCHANGED <<problem, hyp, todo, guessed>> /\ hyp <= Len(problem.hyps)
  BY DEF RefineRound, AtPeriod, IInv
<1>2. \/ EndRefine(cand)
      \/ EndRefine(next)
      \/ cand' = next /\ cribs' = cribs \union more /\ stage' = stage
  BY DEF RefineRound
<1>3. Sound(cand)
  BY <1>1 DEF IInv, Sound
<1>4. /\ Fragments(more)
      /\ ~guessed /\ Fits(cand) => \A f \in more : Holds(TruePlain, f)
  BY <1>1, <1>3, DiscoverSound
<1> HIDE DEF more
<1>5. /\ Sound(next) /\ Fragments(cribs \union more)
      /\ ~guessed /\ Fits(next) => \A f \in cribs \union more : Holds(TruePlain, f)
  BY <1>1, <1>4, NextSound
<1> HIDE DEF next
<1>6. CASE EndRefine(cand)
  BY <1>1, <1>3, <1>6, EndRefineStep
<1>7. CASE EndRefine(next)
  BY <1>1, <1>5, <1>7, EndRefineStep
<1>8. CASE cand' = next /\ cribs' = cribs \union more /\ stage' = stage
  <2>1. AtPeriod'
    BY <1>1, <1>8 DEF AtPeriod
  <2>2. Candidate(cand') /\ Fragments(cribs')
        /\ (~guessed' /\ Fits(cand') => Agrees(cand') /\ \A c \in cribs' : Holds(TruePlain, c))
    BY <1>1, <1>5, <1>8 DEF Sound
  <2> QED
    BY <1>1, <2>1, <2>2, FreshStep
<1> QED
  BY <1>2, <1>6, <1>7, <1>8

LEMMA HistogramStep ==
  ASSUME IInv, HistogramRound
  PROVE  IInv'
<1> DEFINE projected == Projected(cand, Space(cand, TRUE))
           more == Discover(Hyp, Stream, projected)
           next == Evaluate(Observations(1, Stream, cribs \union more), cand.period)
<1>1. AtPeriod /\ UNCHANGED <<problem, hyp, todo>> /\ hyp <= Len(problem.hyps)
  BY DEF HistogramRound, AtPeriod, IInv
<1>2. \/ EndHistogram
      \/ /\ cand' = next /\ cribs' = cribs \union more /\ guessed' = TRUE
         /\ stage' \in {Judgement, stage}
  BY DEF HistogramRound
<1>3. CASE EndHistogram
  <2>1. AtPeriod' /\ UNCHANGED <<hyp, todo, cand, cribs, guessed>>
    BY <1>1, <1>3 DEF EndHistogram, Judgement, AtPeriod
  <2>2. hyp' \in Nat \ {0}
    BY <1>1 DEF IInv
  <2> QED
    BY <1>1, <2>1, <2>2, QuietStep
<1>4. CASE /\ cand' = next /\ cribs' = cribs \union more /\ guessed' = TRUE
           /\ stage' \in {Judgement, stage}
  <2> HIDE DEF projected
  <2>1. Stream \in Seq(Byte) /\ Hyp \in {"chain", "chunk", "text"}
    BY <1>1, BeginTyped DEF Hypotheses
  <2>2. Fragments(more)
    BY <2>1, DiscoverTyped
  <2> HIDE DEF more
  <2>3. Fragments(cribs \union more) /\ cand.period \in Nat \ {0}
    BY <1>1, <2>2, FS_Union DEF IInv, Fragments, Candidate
  <2>4. Candidate(next)
    BY <2>1, <2>3, AnewTyped
  <2> HIDE DEF next
  <2>5. AtPeriod'
    BY <1>1, <1>4 DEF AtPeriod, Judgement
  <2> QED
    BY <1>1, <1>4, <2>3, <2>4, <2>5, FreshStep
<1> QED
  BY <1>2, <1>3, <1>4

LEMMA EvidenceStep ==
  ASSUME IInv, [Next]_vars
  PROVE  IInv'
<1>1. hyp \in Nat \ {0}
  BY DEF IInv
<1>2. CASE ContentKey
  <2>1. ~(stage = "period" \/ AtPeriod)' /\ problem' = problem /\ hyp' = hyp
    BY <1>2 DEF ContentKey, search, AtPeriod
  <2> QED
    BY <1>1, <2>1, QuietStep
<1>3. CASE SharedProbe
  <2>1. ~(stage = "period" \/ AtPeriod)' /\ problem' = problem /\ hyp' = hyp
    BY <1>3 DEF SharedProbe, search, AtPeriod
  <2> QED
    BY <1>1, <2>1, QuietStep
<1>4. CASE EndHypothesis
  <2>1. ~(stage = "period" \/ AtPeriod)' /\ problem' = problem /\ hyp' \in Nat \ {0}
    BY <1>1, <1>4 DEF EndHypothesis, AtPeriod
  <2> QED
    BY <2>1, QuietStep
<1>5. CASE Guess
  <2>1. AtPeriod /\ UNCHANGED <<problem, hyp, todo, cand, cribs, guessed>>
    BY <1>5 DEF Guess, AtPeriod
  <2> QED
    BY <1>1, <2>1, QuietStep
<1>6. CASE Complete \/ Report
  <2>1. AtPeriod /\ stage' = "period" /\ UNCHANGED <<problem, hyp, todo>>
    BY <1>6 DEF Complete, Report, AtPeriod
  <2> QED
    BY <1>1, <2>1, QuietStep
<1>7. CASE SearchCpu \/ SearchGpu
  <2>1. AtPeriod /\ stage' = "period" /\ UNCHANGED <<problem, hyp, todo>>
    BY <1>7 DEF SearchCpu, SearchGpu, SearchDone, AtPeriod
  <2> QED
    BY <1>1, <2>1, QuietStep
<1>8. CASE SearchGpuOnly
  <2>1. /\ AtPeriod /\ UNCHANGED <<problem, hyp, todo>>
        /\ stage' \in {"period", "failed"}
    BY <1>8 DEF SearchGpuOnly, SearchDone, search, AtPeriod
  <2>2. stage' = "failed" => ~(stage = "period" \/ AtPeriod)'
    BY DEF AtPeriod
  <2> QED
    BY <1>1, <2>1, <2>2, QuietStep
<1>9. CASE Finish \/ FinishProbe
  <2>1. ~(stage = "period" \/ AtPeriod)' /\ problem' = problem /\ hyp' = hyp
    BY <1>9 DEF Finish, FinishProbe, search, AtPeriod
  <2> QED
    BY <1>1, <2>1, QuietStep
<1>10. CASE UNCHANGED vars
  BY <1>10, Lasting DEF vars, IInv, AtPeriod
<1> QED
  BY <1>2, <1>3, <1>4, <1>5, <1>6, <1>7, <1>8, <1>9, <1>10,
     BeginStep, NextStep, RefineStep, HistogramStep DEF Next

(* Throughout a recovery the evidence is sound, and with it what it was    *)
(* derived from.                                                           *)
THEOREM EvidenceInvariant == Spec => []IInv
<1>1. Init => IInv
  BY EvidenceInit
<1>2. IInv /\ [Next]_vars => IInv'
  BY EvidenceStep
<1> QED
  BY <1>1, <1>2, PTL DEF Spec

THEOREM EvidenceSound == Spec => []EvidenceIsSound
<1>1. IInv => EvidenceIsSound
  BY DEF IInv, EvidenceIsSound, Fits
<1> QED
  BY <1>1, EvidenceInvariant, PTL

(* --- the ranks of a ranking --- *)

\* What comes before a candidate, of a set in a strict total order.
Strict(earlier) ==
  /\ \A c \in DOMAIN earlier : earlier[c] \subseteq DOMAIN earlier /\ c \notin earlier[c]
  /\ \A c, d \in DOMAIN earlier : c # d => c \in earlier[d] \/ d \in earlier[c]
  /\ \A c, d, e \in DOMAIN earlier : c \in earlier[d] /\ d \in earlier[e] => c \in earlier[e]

(* The ranks of finitely many candidates in order count from 0 without a   *)
(* gap: the map to ranks is an injection between sets of the same size.    *)
LEMMA RanksCount ==
  ASSUME NEW earlier, IsFiniteSet(DOMAIN earlier), Strict(earlier)
  PROVE  /\ \A t \in Ranked(earlier) : t.at \in Nat
         /\ IsFiniteSet(Ranked(earlier)) /\ Cardinality(Ranked(earlier)) = Cardinality(DOMAIN earlier)
         /\ \A n \in 0..(Cardinality(Ranked(earlier)) - 1) : \E t \in Ranked(earlier) : t.at = n
<1> DEFINE all  == DOMAIN earlier
           k    == Cardinality(all)
           rk   == [c \in all |-> Cardinality(earlier[c])]
           full == [c \in all |-> [at |-> Cardinality(earlier[c]), cand |-> c]]
<1>1. k \in Nat
  BY FS_CardinalityType
<1>2. \A c \in all : IsFiniteSet(earlier[c]) /\ rk[c] \in 0..(k - 1)
  <2> SUFFICES ASSUME NEW c \in all
               PROVE  IsFiniteSet(earlier[c]) /\ rk[c] \in 0..(k - 1)
    OBVIOUS
  <2>1. earlier[c] \in SUBSET all /\ earlier[c] # all
    BY DEF Strict
  <2> HIDE DEF all
  <2>2. /\ IsFiniteSet(earlier[c]) /\ Cardinality(earlier[c]) <= k
        /\ Cardinality(earlier[c]) # k
    BY <2>1, FS_Subset DEF all
  <2>3. Cardinality(earlier[c]) \in Nat
    BY <2>2, FS_CardinalityType
  <2> QED
    BY <1>1, <2>2, <2>3
<1>3. \A c, d \in all : c \in earlier[d] => rk[c] < rk[d]
  <2> SUFFICES ASSUME NEW c \in all, NEW d \in all, c \in earlier[d]
               PROVE  Cardinality(earlier[c]) < Cardinality(earlier[d])
    OBVIOUS
  <2>1. earlier[c] \in SUBSET earlier[d] /\ earlier[c] # earlier[d]
    BY DEF Strict
  <2>2. /\ Cardinality(earlier[c]) <= Cardinality(earlier[d])
        /\ Cardinality(earlier[c]) # Cardinality(earlier[d])
    BY <1>2, <2>1, FS_Subset
  <2>3. Cardinality(earlier[c]) \in Nat /\ Cardinality(earlier[d]) \in Nat
    BY <1>2
  <2> QED
    BY <2>2, <2>3
<1>4. \A c, d \in all : rk[c] = rk[d] => c = d
  <2> SUFFICES ASSUME NEW c \in all, NEW d \in all, c # d
               PROVE  rk[c] # rk[d]
    OBVIOUS
  <2>1. rk[c] < rk[d] \/ rk[d] < rk[c]
    BY <1>3 DEF Strict
  <2>2. rk[c] \in Nat /\ rk[d] \in Nat
    BY <1>2
  <2> HIDE DEF rk
  <2> QED
    BY <2>1, <2>2
<1>5. IsFiniteSet(0..(k - 1)) /\ Cardinality(0..(k - 1)) = k
  <2>1. 0 \in Int /\ k - 1 \in Int
    BY <1>1
  <2> HIDE DEF k
  <2> QED
    BY <1>1, <2>1, FS_Interval
<1>6. rk \in Surjection(all, 0..(k - 1))
  <2>1. rk \in [all -> 0..(k - 1)]
    BY <1>2
  <2> HIDE DEF rk, k, all
  <2>2. rk \in Injection(all, 0..(k - 1))
    BY <1>4, <2>1 DEF Injection, IsInjective
  <2> QED
    BY <1>5, <2>2, FS_Injection DEF k, all
<1>7. full \in Bijection(all, Ranked(earlier))
  <2>1. \A c, d \in all : full[c] = full[d] => c = d
    <3> SUFFICES ASSUME NEW c \in all, NEW d \in all, full[c] = full[d]
                 PROVE  c = d
      OBVIOUS
    <3>1. full[c].cand = c /\ full[d].cand = d
      OBVIOUS
    <3> QED
      BY <3>1
  <2>2. full \in [all -> Ranked(earlier)] /\ \A t \in Ranked(earlier) : \E c \in all : full[c] = t
    BY DEF Ranked
  <2> HIDE DEF full, all
  <2> QED
    BY <2>1, <2>2 DEF Bijection, Injection, Surjection, IsInjective
<1>8. IsFiniteSet(Ranked(earlier)) /\ Cardinality(Ranked(earlier)) = k
  <2> HIDE DEF full
  <2> QED
    BY <1>7, FS_Bijection DEF ExistsBijection
<1>9. \A t \in Ranked(earlier) : t.at \in Nat
  <2> SUFFICES ASSUME NEW c \in all
               PROVE  Cardinality(earlier[c]) \in Nat
    BY DEF Ranked
  <2> QED
    BY <1>2
<1>10. ASSUME NEW n \in 0..(k - 1)
       PROVE  \E t \in Ranked(earlier) : t.at = n
  <2>1. PICK c \in all : rk[c] = n
    BY <1>6 DEF Surjection
  <2>2. full[c].at = n /\ full[c] \in Ranked(earlier)
    BY <2>1 DEF Ranked
  <2> QED
    BY <2>2
<1> HIDE DEF k, all
<1> QED
  BY <1>8, <1>9, <1>10 DEF k, all

(* --- the samples of an archive, and the periods they rank --- *)

LEMMA EvaluateCounts ==
  ASSUME NEW obs, IsFiniteSet(obs), NEW p \in Nat \ {0}
  PROVE  /\ Evaluate(obs, p).conflicts \in Nat /\ Evaluate(obs, p).agreements \in Int
         /\ Evaluate(obs, p).period = p
<1> DEFINE key == [s \in 0..(p - 1) |-> Winner(obs, p, s)]
           against == {o \in obs : o.key # key[o.at % p]}
           with    == {o \in obs : o.key = key[o.at % p]}
           known   == {s \in 0..(p - 1) : key[s] # Unknown}
<1>1. Evaluate(obs, p) = [period |-> p, key |-> key, conflicts |-> Cardinality(against),
                          agreements |-> Cardinality(with) - Cardinality(known)]
  BY DEF Evaluate, Tallied
<1>2. IsFiniteSet(0..(p - 1))
  <2>1. 0 \in Int /\ p - 1 \in Int
    OBVIOUS
  <2> QED
    BY <2>1, FS_Interval
<1>3. against \in SUBSET obs /\ with \in SUBSET obs /\ known \in SUBSET (0..(p - 1))
  OBVIOUS
<1> HIDE DEF against, with, known, key
<1>4. Cardinality(against) \in Nat /\ Cardinality(with) \in Nat /\ Cardinality(known) \in Nat
  BY <1>2, <1>3, FS_Subset, FS_CardinalityType
<1> QED
  BY <1>1, <1>4

LEMMA CandidatesStrict ==
  ASSUME NEW obs, IsFiniteSet(obs)
  PROVE  LET all == {Evaluate(obs, p) : p \in MinPeriod..MaxPeriod}
             earlier == [c \in all |-> {d \in all : CandidateOrder(d, c)}]
         IN  /\ Strict(earlier) /\ IsFiniteSet(DOMAIN earlier)
             /\ RankObserved(obs, MinPeriod, MaxPeriod) = Ranked(earlier)
<1> DEFINE all == {Evaluate(obs, p) : p \in MinPeriod..MaxPeriod}
           earlier == [c \in all |-> {d \in all : CandidateOrder(d, c)}]
<1>1. \A c \in all : c.conflicts \in Nat /\ c.agreements \in Int /\ c.period \in Nat
                     /\ c = Evaluate(obs, c.period)
  <2> SUFFICES ASSUME NEW p \in MinPeriod..MaxPeriod
               PROVE  LET c == Evaluate(obs, p)
                      IN  c.conflicts \in Nat /\ c.agreements \in Int /\ c.period \in Nat
                          /\ c = Evaluate(obs, c.period)
    OBVIOUS
  <2>1. p \in Nat \ {0}
    BY PeriodAssumption
  <2> QED
    BY <2>1, EvaluateCounts
<1>2. IsFiniteSet(all)
  <2> DEFINE f == [p \in MinPeriod..MaxPeriod |-> Evaluate(obs, p)]
  <2>1. IsFiniteSet(MinPeriod..MaxPeriod)
    <3>1. MinPeriod \in Int /\ MaxPeriod \in Int
      BY PeriodAssumption
    <3> QED
      BY <3>1, FS_Interval
  <2>2. IsFiniteSet({f[p] : p \in MinPeriod..MaxPeriod})
    BY <2>1, ImageFinite
  <2> QED
    BY <2>2
<1>3. RankObserved(obs, MinPeriod, MaxPeriod) = Ranked(earlier)
  BY DEF RankObserved
<1> HIDE DEF all
<1>4. \A c, d \in all : CandidateOrder(c, d) => c # d
  BY <1>1 DEF CandidateOrder
<1>5. \A c, d \in all : c # d => CandidateOrder(c, d) \/ CandidateOrder(d, c)
  <2> SUFFICES ASSUME NEW c \in all, NEW d \in all, c # d
               PROVE  CandidateOrder(c, d) \/ CandidateOrder(d, c)
    OBVIOUS
  <2>1. c.period # d.period
    BY <1>1
  <2> QED
    BY <1>1, <2>1 DEF CandidateOrder
<1>6. \A c, d, e \in all : CandidateOrder(c, d) /\ CandidateOrder(d, e) => CandidateOrder(c, e)
  BY <1>1 DEF CandidateOrder
<1>7. DOMAIN earlier = all
  OBVIOUS
<1>8. Strict(earlier)
  BY <1>4, <1>5, <1>6 DEF Strict
<1> QED
  BY <1>2, <1>3, <1>7, <1>8 DEF all

LEMMA SamplesTyped ==
  ASSUME NEW entries \in Seq(Entries)
  PROVE  /\ IsFiniteSet(DOMAIN Samples(entries))
         /\ \A i \in DOMAIN Samples(entries) :
              /\ Samples(entries)[i].stream \in Seq(Byte)
              /\ Fragments(Samples(entries)[i].cribs)
<1> DEFINE with == {i \in Readable(entries) : SharedCribs(entries[i]) # {}}
           of == {j \in with : Cardinality({k \in with : Shorter(entries, k, j)}) < MaxSamples}
<1>1. Samples(entries) = [i \in of |-> [stream |-> entries[i].stream, cribs |-> SharedCribs(entries[i])]]
  BY DEF Samples
<1>2. of \in SUBSET DOMAIN entries /\ \A i \in of : entries[i] \in Entries /\ SharedCribs(entries[i]) # {}
  BY DEF Readable
<1>3. IsFiniteSet(DOMAIN entries)
  <2>1. DOMAIN entries = 1..Len(entries) /\ 1 \in Int /\ Len(entries) \in Int
    OBVIOUS
  <2> QED
    BY <2>1, FS_Interval
<1> HIDE DEF of
<1>4. IsFiniteSet(of)
  BY <1>2, <1>3, FS_Subset
<1>5. ASSUME NEW i \in of
      PROVE  entries[i].stream \in Seq(Byte) /\ Fragments(SharedCribs(entries[i]))
  <2>1. entries[i].stream \in Seq(Byte) /\ entries[i].format # NoFormat
        /\ entries[i].format \in {"chain", "chunk", "text"}
        /\ SharedCribs(entries[i]) = HeaderCribs(entries[i].format)
    BY <1>2 DEF Entries, SharedCribs
  <2> QED
    BY <2>1, HeadersTyped
<1> QED
  BY <1>1, <1>4, <1>5

LEMMA SharedRanking ==
  ASSUME NEW entries \in Seq(Entries)
  PROVE  LET ranked == RankSharedPeriods(Samples(entries), MinPeriod, MaxPeriod)
         IN  /\ IsFiniteSet(ranked)
             /\ \A t \in ranked : t.at \in Nat /\ Candidate(t.cand)
             /\ \A n \in 0..(Cardinality(ranked) - 1) : \E t \in ranked : t.at = n
<1> DEFINE samples == Samples(entries)
           one == [i \in DOMAIN samples |-> Observations(i, samples[i].stream, samples[i].cribs)]
           obs == UNION {one[i] : i \in DOMAIN samples}
           ranked == RankObserved(obs, MinPeriod, MaxPeriod)
<1>1. RankSharedPeriods(samples, MinPeriod, MaxPeriod) = ranked
  <2>1. obs = UNION {Observations(i, samples[i].stream, samples[i].cribs) : i \in DOMAIN samples}
    OBVIOUS
  <2> QED
    BY <2>1 DEF RankSharedPeriods
<1>2. IsFiniteSet(DOMAIN samples)
      /\ \A i \in DOMAIN samples : samples[i].stream \in Seq(Byte) /\ Fragments(samples[i].cribs)
  BY SamplesTyped
<1> HIDE DEF samples
<1>3. \A i \in DOMAIN samples : IsFiniteSet(one[i])
  BY <1>2, ObservationsTyped
<1>4. DOMAIN one = DOMAIN samples
  OBVIOUS
<1> HIDE DEF one
<1>5. IsFiniteSet({one[i] : i \in DOMAIN samples})
  BY <1>2, <1>4, ImageFinite
<1>6. IsFiniteSet(obs)
  BY <1>3, <1>5, FS_UNION
<1> HIDE DEF obs
<1> DEFINE all == {Evaluate(obs, p) : p \in MinPeriod..MaxPeriod}
           earlier == [c \in all |-> {d \in all : CandidateOrder(d, c)}]
<1>7. /\ Strict(earlier) /\ IsFiniteSet(DOMAIN earlier) /\ ranked = Ranked(earlier)
  BY <1>6, CandidatesStrict
<1> HIDE DEF earlier
<1>8. /\ \A t \in Ranked(earlier) : t.at \in Nat
      /\ IsFiniteSet(Ranked(earlier))
      /\ \A n \in 0..(Cardinality(Ranked(earlier)) - 1) : \E t \in Ranked(earlier) : t.at = n
  BY <1>7, RanksCount
<1>9. ASSUME NEW t \in ranked
      PROVE  Candidate(t.cand)
  <2>1. PICK p \in MinPeriod..MaxPeriod : t.cand = Evaluate(obs, p)
    BY ObservedAre
  <2>2. p \in Nat \ {0}
    BY PeriodAssumption
  <2> QED
    BY <1>6, <2>1, <2>2, EvaluateTyped
<1> HIDE DEF ranked
<1> QED
  BY <1>1, <1>7, <1>8, <1>9 DEF samples

(* --- what is checked about a shared key --- *)

LEMMA LeadingTyped ==
  ASSUME NEW ranked, IsFiniteSet(ranked), NEW top \in Nat,
         \A t \in ranked : Candidate(t.cand),
         \A n \in 0..(Cardinality(ranked) - 1) : \E t \in ranked : t.at = n
  PROVE  /\ Len(Leading(ranked, top)) \in Nat
         /\ DOMAIN Leading(ranked, top) = 1..Len(Leading(ranked, top))
         /\ \A n \in 1..Len(Leading(ranked, top)) : Candidate(Leading(ranked, top)[n])
<1> DEFINE k == IF top < Cardinality(ranked) THEN top ELSE Cardinality(ranked)
           best == [n \in 1..k |-> (CHOOSE t \in ranked : t.at = n - 1).cand]
<1>1. Cardinality(ranked) \in Nat /\ k \in Nat /\ k <= Cardinality(ranked)
  BY FS_CardinalityType
<1>2. Leading(ranked, top) = best
  BY DEF Leading
<1> HIDE DEF k
<1>3. Len(best) = k
  BY <1>1
<1>4. ASSUME NEW n \in 1..k
      PROVE  Candidate(best[n])
  <2>1. n - 1 \in 0..(Cardinality(ranked) - 1)
    BY <1>1
  <2>2. \E t \in ranked : t.at = n - 1
    BY <2>1
  <2>3. (CHOOSE t \in ranked : t.at = n - 1) \in ranked
    BY <2>2
  <2> QED
    BY <2>3
<1> HIDE DEF best
<1>5. DOMAIN best = 1..k
  BY DEF best
<1> QED
  BY <1>1, <1>2, <1>3, <1>4, <1>5

(* The key of a whole candidate is a key.                                  *)
LEMMA WholeIsKey ==
  ASSUME NEW c, Candidate(c), Whole(c)
  PROVE  IsKey(c.key)
<1>1. c.period \in Nat \ {0} /\ DOMAIN c.key = 0..(c.period - 1)
  BY DEF Candidate
<1>2. IsFiniteSet(0..(c.period - 1)) /\ Cardinality(0..(c.period - 1)) = c.period
  <2>1. 0 \in Int /\ c.period - 1 \in Int /\ ~(0 > c.period - 1) /\ (c.period - 1) - 0 + 1 = c.period
    BY <1>1
  <2> QED
    BY <2>1, FS_Interval
<1>3. \A s \in 0..(c.period - 1) : c.key[s] \in Byte
  BY <1>1 DEF Candidate, Whole, KnownSlots
<1>4. c.key \in [0..(c.period - 1) -> Byte]
  BY <1>1, <1>3 DEF Candidate
<1>5. 0 \in DOMAIN c.key
  BY <1>1
<1> QED
  BY <1>1, <1>2, <1>4, <1>5 DEF IsKey

\* The copies of an entry before and after each candidate.
Copies(entry, best, copy) ==
  copy = [n \in 0..Len(best) |->
            IF n = 0 THEN entry.stream
            ELSE IF Whole(best[n]) THEN Decrypted(Decrypted(copy[n - 1], best[n].key), best[n].key)
            ELSE copy[n - 1]]

(* Every candidate finds the entry as it was: laid over the copy twice,    *)
(* none changes it.                                                        *)
LEMMA CheckedIs ==
  ASSUME NEW entry, entry.stream \in Seq(Byte), NEW best, Len(best) \in Nat,
         \A n \in 1..Len(best) : Candidate(best[n])
  PROVE  Checked(entry, best) =
           {n \in 1..Len(best) : Whole(best[n]) /\ Adler(Decrypted(entry.stream, best[n].key)) = entry.adler}
<1> DEFINE k == Len(best)
           copy == CHOOSE f : Copies(entry, best, f)
           same == [n \in 0..k |-> entry.stream]
<1>1. \A n \in 1..k : Whole(best[n]) =>
        Decrypted(Decrypted(entry.stream, best[n].key), best[n].key) = entry.stream
  BY WholeIsKey, Undone
<1>2. Copies(entry, best, same)
  <2>1. ASSUME NEW n \in 0..k
        PROVE  entry.stream =
                 IF n = 0 THEN entry.stream
                 ELSE IF Whole(best[n]) THEN Decrypted(Decrypted(same[n - 1], best[n].key), best[n].key)
                 ELSE same[n - 1]
    <3>1. CASE n = 0
      BY <3>1
    <3>2. CASE n # 0
      <4>1. n \in 1..k /\ n - 1 \in 0..k
        BY <3>2
      <4> QED
        BY <1>1, <3>2, <4>1
    <3> QED
      BY <3>1, <3>2
  <2> QED
    BY <2>1 DEF Copies
<1>3. Copies(entry, best, copy)
  BY <1>2
<1>4. Checked(entry, best) =
        {n \in 1..k : Whole(best[n]) /\ Adler(Decrypted(copy[n - 1], best[n].key)) = entry.adler}
  BY DEF Checked, Copies
<1> HIDE DEF copy
<1>5. \A n \in 0..k : copy[n] = IF n = 0 THEN entry.stream
                               ELSE IF Whole(best[n]) THEN Decrypted(Decrypted(copy[n - 1], best[n].key), best[n].key)
                               ELSE copy[n - 1]
  BY <1>3 DEF Copies
<1> DEFINE Not == {n \in 0..k : copy[n] # entry.stream}
<1>6. Not = {}
  <2> SUFFICES ASSUME Not # {}
               PROVE  FALSE
    OBVIOUS
  <2>1. PICK n \in Not : \A l \in Not : n <= l
    <3>1. Not \subseteq Nat
      OBVIOUS
    <3> HIDE DEF Not
    <3> QED
      BY <3>1, HasLeast
  <2>2. n # 0
    BY <1>5, <2>1
  <2>3. n \in 1..k /\ n - 1 \in 0..k /\ ~(n <= n - 1)
    BY <2>1, <2>2
  <2>4. copy[n - 1] = entry.stream
    BY <2>1, <2>3
  <2>5. copy[n] = entry.stream
    BY <1>1, <1>5, <2>2, <2>3, <2>4
  <2> QED
    BY <2>1, <2>5
<1>7. \A n \in 1..k : copy[n - 1] = entry.stream
  <2> SUFFICES ASSUME NEW n \in 1..k
               PROVE  copy[n - 1] = entry.stream
    OBVIOUS
  <2>1. n - 1 \in 0..k
    OBVIOUS
  <2> QED
    BY <1>6, <2>1
<1> QED
  BY <1>4, <1>7

LEMMA CountsAre ==
  ASSUME NEW entries \in Seq(Entries), NEW best, Len(best) \in Nat,
         \A n \in 1..Len(best) : Candidate(best[n]),
         NEW n \in 1..Len(best), Whole(best[n])
  PROVE  /\ Counts(entries, best)[n].cand = best[n]
         /\ Counts(entries, best)[n].tested = Cardinality(Tested(entries))
         /\ Counts(entries, best)[n].matches = Cardinality(AdlerMatches(entries, best[n].key))
<1>1. Counts(entries, best)[n] =
        [cand |-> best[n],
         matches |-> Cardinality({i \in Tested(entries) : n \in Checked(entries[i], best)}),
         tested |-> Cardinality(Tested(entries))]
  BY DEF Counts
<1>2. {i \in Tested(entries) : n \in Checked(entries[i], best)} = AdlerMatches(entries, best[n].key)
  <2>1. ASSUME NEW i \in Tested(entries)
        PROVE  n \in Checked(entries[i], best) <=>
                 Adler(Decrypted(entries[i].stream, best[n].key)) = entries[i].adler
    <3>1. entries[i] \in Entries
      BY DEF Tested, Readable
    <3>2. entries[i].stream \in Seq(Byte)
      BY <3>1 DEF Entries
    <3> QED
      BY <3>2, CheckedIs
  <2> QED
    BY <2>1 DEF AdlerMatches
<1> DEFINE matching == {i \in Tested(entries) : n \in Checked(entries[i], best)}
<1> HIDE DEF matching
<1>3. Counts(entries, best)[n] =
        [cand |-> best[n], matches |-> Cardinality(matching), tested |-> Cardinality(Tested(entries))]
  BY <1>1 DEF matching
<1>4. matching = AdlerMatches(entries, best[n].key)
  BY <1>2 DEF matching
<1> QED
  BY <1>3, <1>4

LEMMA ReportIs ==
  ASSUME NEW entries \in Seq(Entries)
  PROVE  \A i \in {j \in DOMAIN ProbeReport(entries, ReportTop) : Whole(ProbeReport(entries, ReportTop)[j].cand)} :
           /\ ProbeReport(entries, ReportTop)[i].tested = Cardinality(Tested(entries))
           /\ ProbeReport(entries, ReportTop)[i].matches =
                Cardinality(AdlerMatches(entries, ProbeReport(entries, ReportTop)[i].cand.key))
<1> DEFINE ranked == RankSharedPeriods(Samples(entries), MinPeriod, MaxPeriod)
           best == Leading(ranked, ReportTop)
<1>1. /\ IsFiniteSet(ranked)
      /\ \A t \in ranked : Candidate(t.cand)
      /\ \A n \in 0..(Cardinality(ranked) - 1) : \E t \in ranked : t.at = n
  BY SharedRanking
<1>2. ProbeReport(entries, ReportTop) = Counts(entries, best)
  BY DEF ProbeReport
<1> HIDE DEF ranked
<1>3. Len(best) \in Nat /\ \A n \in 1..Len(best) : Candidate(best[n])
  BY <1>1, LeadingTyped, ReportAssumption
<1> HIDE DEF best
<1>4. DOMAIN Counts(entries, best) = 1..Len(best) /\ \A n \in 1..Len(best) : Counts(entries, best)[n].cand = best[n]
  BY DEF Counts
<1>5. ASSUME NEW i \in 1..Len(best), Whole(Counts(entries, best)[i].cand)
      PROVE  /\ Counts(entries, best)[i].tested = Cardinality(Tested(entries))
             /\ Counts(entries, best)[i].matches =
                  Cardinality(AdlerMatches(entries, Counts(entries, best)[i].cand.key))
  <2>1. Counts(entries, best)[i].cand = best[i] /\ Whole(best[i])
    BY <1>4, <1>5
  <2> QED
    BY <1>3, <2>1, CountsAre
<1> QED
  BY <1>2, <1>4, <1>5

\* What a key of the whole archive must satisfy.
FitsAll(entries, key) ==
  /\ \A i \in Tested(entries) : Adler(Decrypted(entries[i].stream, key)) = entries[i].adler
  /\ \E i \in Readable(entries) : Strong(entries[i].format, Decrypted(entries[i].stream, key))

LEMMA FitsFrom ==
  ASSUME NEW entries, NEW key, AdlerMatches(entries, key) = Tested(entries),
         StrongMatches(entries, key) # {}
  PROVE  FitsAll(entries, key)
BY DEF AdlerMatches, StrongMatches, FitsAll

LEMMA SpecialFits ==
  ASSUME NEW entries, NEW key, SpecialKeyAccepted(entries, key)
  PROVE  FitsAll(entries, key)
<1>1. CASE Tested(entries) # {}
  BY <1>1, FitsFrom DEF SpecialKeyAccepted
<1>2. CASE Tested(entries) = {}
  <2>1. Cardinality(StrongMatches(entries, key)) >= 2
    BY <1>2 DEF SpecialKeyAccepted
  <2>2. StrongMatches(entries, key) # {}
    BY <2>1, FS_EmptySet
  <2>3. AdlerMatches(entries, key) = Tested(entries)
    BY <1>2 DEF AdlerMatches
  <2> QED
    BY <2>2, <2>3, FitsFrom
<1> QED
  BY <1>1, <1>2

LEMMA SharedFits ==
  ASSUME NEW entries \in Seq(Entries), FindSharedKey(entries) # None
  PROVE  FitsAll(entries, FindSharedKey(entries))
<1> DEFINE ranked == RankSharedPeriods(Samples(entries), MinPeriod, MaxPeriod)
           good == {t \in ranked : Whole(t.cand) /\ SharedKeyAccepted(entries, t.cand.key)}
           first == CHOOSE t \in good : \A u \in good : t.at <= u.at
<1>1. good # {} /\ FindSharedKey(entries) = first.cand.key
  BY DEF FindSharedKey
<1>2. \A t \in ranked : t.at \in Nat
  BY SharedRanking
<1> HIDE DEF ranked
<1>3. \E t \in good : \A u \in good : t.at <= u.at
  <2> DEFINE places == {t.at : t \in good}
  <2>1. places \subseteq Nat /\ places # {}
    BY <1>1, <1>2
  <2>2. PICK n \in places : \A l \in places : n <= l
    <3> HIDE DEF places
    <3> QED
      BY <2>1, HasLeast
  <2>3. PICK t \in good : t.at = n
    BY <2>2
  <2>4. \A u \in good : t.at <= u.at
    BY <2>2, <2>3
  <2> QED
    BY <2>4
<1>4. first \in good
  BY <1>3
<1>5. SharedKeyAccepted(entries, first.cand.key)
  BY <1>4
<1> HIDE DEF first
<1>6. /\ AdlerMatches(entries, first.cand.key) = Tested(entries)
      /\ Cardinality(StrongMatches(entries, first.cand.key)) >= 2
  BY <1>5 DEF SharedKeyAccepted
<1>7. StrongMatches(entries, first.cand.key) # {}
  <2> HIDE DEF good
  <2>1. Cardinality({}) = 0 /\ ~(0 >= 2)
    BY FS_EmptySet
  <2> QED
    BY <1>6, <2>1
<1> DEFINE key == first.cand.key
<1> HIDE DEF key
<1>8. /\ AdlerMatches(entries, key) = Tested(entries) /\ StrongMatches(entries, key) # {}
      /\ FindSharedKey(entries) = key
  BY <1>1, <1>6, <1>7 DEF key
<1>9. FitsAll(entries, key)
  BY <1>8, FitsFrom
<1> QED
  BY <1>8, <1>9

(* --- the key of the whole archive --- *)

\* ContentKeyFitsAll, and where a shared-probe can be.
ContentInv ==
  /\ problem \in Problems
  /\ ContentKeyFitsAll
  /\ command = "shared-probe" => stage \in {"content", "done", "failed"}

LEMMA ContentKeptStep ==
  ASSUME ContentInv, UNCHANGED <<problem, command, content>>,
         command = "shared-probe" => UNCHANGED <<stage, report>>
  PROVE  ContentInv'
BY DEF ContentInv, ContentKeyFitsAll

LEMMA ContentKeyStep ==
  ASSUME ContentInv, ContentKey
  PROVE  ContentInv'
<1>1. UNCHANGED <<problem, command>> /\ command # "shared-probe"
  BY DEF ContentKey
<1>2. problem.entries \in Seq(Entries)
  BY ProblemAssumption DEF ContentInv
<1>3. content' # None => FitsAll(problem.entries, content')
  <2>1. \/ /\ content' = problem.special
           /\ SpecialKeyAccepted(problem.entries, problem.special)
        \/ content' = FindSharedKey(problem.entries)
    BY DEF ContentKey
  <2>2. CASE /\ content' = problem.special
             /\ SpecialKeyAccepted(problem.entries, problem.special)
    BY <2>2, SpecialFits
  <2>3. CASE content' = FindSharedKey(problem.entries)
    BY <1>2, <2>3, SharedFits
  <2> QED
    BY <2>1, <2>2, <2>3
<1> QED
  BY <1>1, <1>3 DEF ContentInv, ContentKeyFitsAll, FitsAll

LEMMA SharedProbeStep ==
  ASSUME ContentInv, SharedProbe
  PROVE  ContentInv'
<1>1. /\ UNCHANGED <<problem, command, content>> /\ stage' \in {"done", "failed"}
      /\ report' = report \/ report' = ProbeReport(problem.entries, ReportTop)
  BY DEF SharedProbe
<1>2. problem.entries \in Seq(Entries)
  BY ProblemAssumption DEF ContentInv
<1>3. CASE report' = report
  BY <1>1, <1>3 DEF ContentInv, ContentKeyFitsAll
<1>4. CASE report' = ProbeReport(problem.entries, ReportTop)
  <2>1. \A i \in {j \in DOMAIN report' : Whole(report'[j].cand)} :
          /\ report'[i].tested = Cardinality(Tested(problem.entries))
          /\ report'[i].matches = Cardinality(AdlerMatches(problem.entries, report'[i].cand.key))
    BY <1>2, <1>4, ReportIs
  <2> QED
    BY <1>1, <2>1 DEF ContentInv, ContentKeyFitsAll
<1> QED
  BY <1>1, <1>3, <1>4

(* In every reachable state the key of the whole archive fits it, and what *)
(* shared-probe reports of a key is how many checksums the key fits.       *)
THEOREM ContentKeyInvariant == Spec => []ContentInv
<1>1. Init => ContentInv
  BY DEF Init, ContentInv, ContentKeyFitsAll
<1>2. ContentInv /\ [Next]_vars => ContentInv'
  <2> SUFFICES ASSUME ContentInv, [Next]_vars
               PROVE  ContentInv'
    OBVIOUS
  <2>1. CASE BeginHypothesis \/ NextPeriod \/ EndHypothesis \/ RefineRound \/ HistogramRound
    <3>1. UNCHANGED <<problem, command, content>>
      BY <2>1 DEF BeginHypothesis, NextPeriod, EndHypothesis, RefineRound, HistogramRound
    <3>2. stage \notin {"content", "done", "failed"}
      BY <2>1 DEF BeginHypothesis, NextPeriod, EndHypothesis, RefineRound, HistogramRound
    <3> QED
      BY <3>1, <3>2, ContentKeptStep DEF ContentInv
  <2>2. CASE Guess \/ Complete \/ SearchCpu \/ SearchGpu \/ Report
    <3>1. UNCHANGED <<problem, command, content>> /\ stage \notin {"content", "done", "failed"}
      BY <2>2 DEF Guess, Complete, SearchCpu, SearchGpu, SearchDone, Report
    <3> QED
      BY <3>1, ContentKeptStep DEF ContentInv
  <2>3. CASE SearchGpuOnly
    <3>1. UNCHANGED <<problem, command, content>> /\ stage \notin {"content", "done", "failed"}
      BY <2>3 DEF SearchGpuOnly, SearchDone
    <3> QED
      BY <3>1, ContentKeptStep DEF ContentInv
  <2>4. CASE Finish \/ FinishProbe
    <3>1. UNCHANGED <<problem, command, content>> /\ stage \notin {"content", "done", "failed"}
      BY <2>4 DEF Finish, FinishProbe
    <3> QED
      BY <3>1, ContentKeptStep DEF ContentInv
  <2>5. CASE UNCHANGED vars
    BY <2>5, ContentKeptStep DEF vars
  <2> QED
    BY <2>1, <2>2, <2>3, <2>4, <2>5, ContentKeyStep, SharedProbeStep DEF Next
<1> QED
  BY <1>1, <1>2, PTL DEF Spec

THEOREM ContentKeySound == Spec => []ContentKeyFitsAll
<1>1. ContentInv => ContentKeyFitsAll
  BY DEF ContentInv
<1> QED
  BY <1>1, ContentKeyInvariant, PTL

====
