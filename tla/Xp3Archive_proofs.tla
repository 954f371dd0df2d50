-------------------------- MODULE Xp3Archive_proofs --------------------------
(***************************************************************************)
(* Proofs about Xp3Archive, for any file and any number of threads: types, *)
(* that the file handle and the cell of the special index belong to one    *)
(* thread at a time, that an open archive is what the file says, and that  *)
(* every reader gets its own bytes.                                        *)
(***************************************************************************)
EXTENDS Xp3Archive, FiniteSetTheorems, TLAPS, WellFoundedInduction

(* Between seek and read_exact a thread holds the mutex, and the position  *)
(* is that of its own segment; nobody else holds it.                       *)
HandleOwned ==
  /\ \A t \in Readers : reader[t].pc = "read" => holder = t /\ cursor = Head(reader[t].left).at
  /\ holder # None => reader[holder].pc = "read"

(* get_or_init: while one thread fills the cell, the others wait for it.   *)
Fills(t) == reader[t].entry = 0 /\ reader[t].pc \in {"next", "read"}
CellFilledByOne ==
  /\ \A t, u \in Readers : Fills(t) /\ Fills(u) => t = u
  /\ \A t \in Readers : Fills(t) => blob = "busy"

(* Another block is only read where one more is allowed.                   *)
ChainRoom == phase \in {"locate", "block"} => Len(blocks) < MaxBlocks

(* The blocks read so far are linked, and `at` goes on where they end.      *)
LinkedTo(k, p) == file.block[blocks[k]].more /\ p = file.block[blocks[k]].next
ChainLinked ==
  /\ phase = "locate" => blocks = <<>>
  /\ blocks # <<>> => blocks[1] = file.first
  /\ \A k \in DOMAIN blocks : k + 1 \in DOMAIN blocks => LinkedTo(k, blocks[k + 1])
  /\ phase = "block" => IF blocks = <<>> THEN at = file.first ELSE LinkedTo(Len(blocks), at)
  /\ phase = "walk" => blocks # <<>> /\ at = blocks[Len(blocks)]
  /\ phase \in {"prune", "open"} => blocks # <<>> /\ ~file.block[blocks[Len(blocks)]].more

IInv == TypeOK /\ ChainRoom /\ ChainLinked /\ HandleOwned /\ CellFilledByOne

----------------------------------------------------------------------------
LEMMA ArchiveInit == Init => IInv
<1> SUFFICES ASSUME Init
             PROVE  IInv
  OBVIOUS
<1>1. reader = [t \in Readers |-> Idle] /\ \A t \in Readers : reader[t] = Idle
  BY DEF Init
<1>2. <<>> \in Seq({}) /\ Len(<<>>) = 0
  OBVIOUS
<1>3. TypeOK
  BY <1>1, <1>2, ArchiveAssumption DEF Init, TypeOK, IsJob, Idle, Phases
<1>4. HandleOwned /\ CellFilledByOne
  BY <1>1 DEF Init, HandleOwned, CellFilledByOne, Fills, Idle
<1>5. ChainRoom /\ ChainLinked
  BY <1>2, ArchiveAssumption DEF Init, ChainRoom, ChainLinked
<1> QED
  BY <1>3, <1>4, <1>5 DEF IInv

----------------------------------------------------------------------------
(* Parsing *)

(* A set of numbers that is not empty has a least element. *)
Less == {p \in Nat \X Nat : p[1] < p[2]}

LEMMA LessWellFounded == IsWellFoundedOn(Less, Nat)
<1>1. Less = OpToRel(<, Nat)
  BY DEF Less, OpToRel
<1> QED
  BY <1>1, NatLessThanWellFounded

LEMMA HasLeast ==
  ASSUME NEW S, S \subseteq Nat, S # {}
  PROVE  MinOf(S) \in S /\ \A y \in S : MinOf(S) <= y
<1>1. PICK x \in S : \A y \in S : ~(<<y, x>> \in Less)
  BY LessWellFounded, WFMin
<1>2. ASSUME NEW y \in S
      PROVE  x <= y
  <2>1. ~(<<y, x>> \in Less)
    BY <1>1
  <2>2. y \in Nat /\ x \in Nat
    OBVIOUS
  <2>3. <<y, x>> \in Nat \X Nat
    BY <2>2
  <2>4. ~(y < x)
    BY <2>1, <2>3 DEF Less
  <2> QED
    BY <2>2, <2>4
<1> QED
  BY <1>2 DEF MinOf

(* A sequence of any kind of elements, appended to. *)
LEMMA Grown ==
  ASSUME NEW s, NEW S, s \in Seq(S), NEW x
  PROVE  /\ \E T : Append(s, x) \in Seq(T)
         /\ Len(Append(s, x)) = Len(s) + 1 /\ Len(s) \in Nat
         /\ DOMAIN s = 1 .. Len(s)
         /\ DOMAIN Append(s, x) = 1 .. Len(s) + 1
         /\ \A i \in 1 .. Len(s) : Append(s, x)[i] = s[i]
         /\ Append(s, x)[Len(s) + 1] = x
<1>1. s \in Seq(S \cup {x})
  OBVIOUS
<1>2. Append(s, x) \in Seq(S \cup {x})
  BY <1>1
<1> QED
  BY <1>1, <1>2

LEMMA RootKind == ASSUME NEW c PROVE Root(c).kind \in RootKinds
<1>1. Classify(c) \in RootKinds
  BY DEF Classify, RootKinds
<1> QED
  BY <1>1 DEF Root, RootKinds

(* One root becomes a warning. *)
LEMMA Marked ==
  ASSUME NEW S, NEW s \in Seq(S), \A r \in DOMAIN s : s[r].kind \in RootKinds, NEW m
  PROVE  /\ \E T : [s EXCEPT ![m].kind = "ProtectedFile"] \in Seq(T)
         /\ Len([s EXCEPT ![m].kind = "ProtectedFile"]) = Len(s)
         /\ \A r \in DOMAIN s : [s EXCEPT ![m].kind = "ProtectedFile"][r].kind \in RootKinds
         /\ DOMAIN [s EXCEPT ![m].kind = "ProtectedFile"] = DOMAIN s
<1> DEFINE x == [s[m] EXCEPT !.kind = "ProtectedFile"]
           q == [s EXCEPT ![m] = x]
<1>1. m \in DOMAIN s => x.kind \in RootKinds
  <2>1. x.kind = "ProtectedFile" \/ x.kind = s[m].kind
    OBVIOUS
  <2> QED
    BY <2>1 DEF RootKinds
<1> HIDE DEF x
<1>2. DOMAIN s = 1 .. Len(s) /\ Len(s) \in Nat
  OBVIOUS
<1>3. q \in [1 .. Len(s) -> S \cup {x}]
  <2>1. s \in [1 .. Len(s) -> S]
    BY <1>2
  <2>2. s \in [1 .. Len(s) -> S \cup {x}]
    BY <2>1
  <2> QED
    BY <2>2
<1>4. q \in Seq(S \cup {x}) /\ Len(q) = Len(s)
  BY <1>2, <1>3
<1>5. \A r \in DOMAIN s : q[r].kind \in RootKinds
  BY <1>1
<1> QED
  BY <1>3, <1>4, <1>5 DEF x

(* The list of entries stays a list when the warning is taken out of it    *)
(* and the startup script is named.                                        *)
LEMMA AnchoredSeq ==
  ASSUME NEW S, NEW es \in Seq(S)
  PROVE  \E T : Anchored(es) \in Seq(T)
<1> DEFINE named(i) == IF es[i].id = NoId THEN [es[i] EXCEPT !.name = "startup"] ELSE es[i]
           T == {named(i) : i \in DOMAIN es} \cup S
           q == [i \in DOMAIN es |-> named(i)]
<1>1. DOMAIN es = 1 .. Len(es) /\ Len(es) \in Nat /\ \A i \in DOMAIN es : es[i] \in S
  OBVIOUS
<1>2. q \in Seq(T)
  <2> HIDE DEF named
  <2>1. q \in [1 .. Len(es) -> T]
    BY <1>1
  <2> QED
    BY <1>1, <2>1
<1>3. Anchored(es) = q \/ Anchored(es) = es
  <2>1. [i \in DOMAIN es |-> IF i \in {k \in DOMAIN es : es[k].id = NoId} THEN [es[i] EXCEPT !.name = "startup"] ELSE es[i]] = q
    OBVIOUS
  <2> QED
    BY <2>1 DEF Anchored
<1> QED
  BY <1>2, <1>3

LEMMA PruneEntries ==
  ASSUME NEW S, entries \in Seq(S), Prune
  PROVE  \E T : entries' \in Seq(T)
<1>1. DOMAIN entries = 1 .. Len(entries) /\ Len(entries) \in Nat
  OBVIOUS
<1>2. Suspects # {} => MinOf(Suspects) \in 1 .. Len(entries)
  <2>1. Suspects \subseteq 1 .. Len(entries) /\ 1 .. Len(entries) \subseteq Nat
    BY <1>1 DEF Suspects
  <2>2. Suspects \subseteq Nat
    BY <2>1
  <2> QED
    BY <2>1, <2>2, HasLeast
<1>3. \A m \in 1 .. Len(entries) : RemoveAt(entries, m) \in Seq(S)
  BY <1>1 DEF RemoveAt
<1>4. entries' = entries \/ entries' = Anchored(entries)
        \/ (Suspects # {} /\ entries' = Anchored(RemoveAt(entries, MinOf(Suspects))))
  BY DEF Prune
<1> QED
  BY <1>2, <1>3, <1>4, AnchoredSeq

LEMMA ParseTypes ==
  ASSUME TypeOK, ChainRoom, Parse
  PROVE  TypeOK' /\ ChainRoom'
<1> USE ArchiveAssumption DEF Phases, ChainRoom
<1>1. CASE Locate
  BY <1>1 DEF Locate, TypeOK, readVars
<1>2. CASE ReadBlock
  <2>1. blocks' = Append(blocks, at) \/ blocks' = blocks
    BY <1>2 DEF ReadBlock
  <2>2. (\E S : blocks' \in Seq(S)) /\ (Len(blocks') = Len(blocks) + 1 \/ blocks' = blocks) /\ Len(blocks) \in Nat
    <3>1. PICK S : blocks \in Seq(S)
      BY DEF TypeOK
    <3>2. (\E T : Append(blocks, at) \in Seq(T)) /\ Len(Append(blocks, at)) = Len(blocks) + 1 /\ Len(blocks) \in Nat
      BY <3>1, Grown
    <3> QED
      BY <2>1, <3>1, <3>2
  <2> QED
    BY <1>2, <2>2 DEF ReadBlock, TypeOK, readVars
<1>3. CASE WalkChunk
  <2>5. \E S : entries' \in Seq(S)
    <3>1. PICK S : entries \in Seq(S)
      BY DEF TypeOK
    <3>2. PICK x : entries' = entries \/ entries' = Append(entries, x)
      BY <1>3 DEF WalkChunk
    <3>3. \E T : Append(entries, x) \in Seq(T)
      BY <3>1, Grown
    <3> QED
      BY <3>1, <3>2, <3>3
  <2>1. ASSUME UNCHANGED <<roots, hxv4>>, phase' \in {"walk", "error"}
        PROVE  TypeOK' /\ ChainRoom'
    BY <1>3, <2>1, <2>5 DEF WalkChunk, TypeOK, readVars
  <2>2. ASSUME NEW c, phase' = phase, roots' = Append(roots, Root(c)), hxv4' \in {hxv4, Len(roots) + 1}
        PROVE  TypeOK' /\ ChainRoom'
    <3>1. PICK S : roots \in Seq(S)
      BY DEF TypeOK
    <3>2. /\ \E T : roots' \in Seq(T)
          /\ Len(roots') = Len(roots) + 1 /\ Len(roots) \in Nat
          /\ DOMAIN roots = 1 .. Len(roots)
          /\ DOMAIN roots' = 1 .. Len(roots) + 1
          /\ \A i \in 1 .. Len(roots) : roots'[i] = roots[i]
          /\ roots'[Len(roots) + 1] = Root(c)
      BY <2>2, <3>1, Grown
    <3>3. \A r \in DOMAIN roots' : roots'[r].kind \in RootKinds
      <4>1. Root(c).kind \in RootKinds
        BY RootKind
      <4>2. \A r \in 1 .. Len(roots) : roots[r].kind \in RootKinds
        BY <3>2 DEF TypeOK
      <4>3. \A r \in 1 .. Len(roots) : roots'[r].kind \in RootKinds
        BY <3>2, <4>2
      <4>4. \A r \in 1 .. Len(roots) + 1 : r \in 1 .. Len(roots) \/ r = Len(roots) + 1
        BY <3>2
      <4> QED
        BY <3>2, <4>1, <4>3, <4>4
    <3>4. hxv4' \in 0 .. Len(roots')
      BY <2>2, <3>2 DEF TypeOK
    <3> QED
      BY <1>3, <2>2, <2>5, <3>2, <3>3, <3>4 DEF WalkChunk, TypeOK, readVars
  <2>3. CASE UNCHANGED <<roots, hxv4>> /\ phase' \in {"walk", "error"}
    BY <2>1, <2>3
  <2>4. CASE ~(UNCHANGED <<roots, hxv4>> /\ phase' \in {"walk", "error"})
    <3>1. phase' = phase /\ roots' = Append(roots, Root(Head(walk))) /\ hxv4' \in {hxv4, Len(roots) + 1}
      BY <1>3, <2>4 DEF WalkChunk
    <3> QED
      BY <2>2, <3>1
  <2> QED
    BY <2>3, <2>4
<1>4. CASE EndBlock
  BY <1>4 DEF EndBlock, TypeOK, readVars
<1>5. CASE Prune
  <2>1. PICK m : roots' = roots \/ roots' = [roots EXCEPT ![m].kind = "ProtectedFile"]
    BY <1>5 DEF Prune
  <2>2. PICK S : roots \in Seq(S)
    BY DEF TypeOK
  <2>3. /\ \E T : roots' \in Seq(T)
        /\ Len(roots') = Len(roots)
        /\ \A r \in DOMAIN roots' : roots'[r].kind \in RootKinds
    <3>1. \A r \in DOMAIN roots : roots[r].kind \in RootKinds
      BY DEF TypeOK
    <3> DEFINE q == [roots EXCEPT ![m].kind = "ProtectedFile"]
    <3>2. /\ \E T : q \in Seq(T)
          /\ Len(q) = Len(roots)
          /\ \A r \in DOMAIN roots : q[r].kind \in RootKinds
          /\ DOMAIN q = DOMAIN roots
      BY <2>2, <3>1, Marked
    <3> HIDE DEF q
    <3>3. roots' = roots \/ roots' = q
      BY <2>1 DEF q
    <3> QED
      BY <2>2, <3>1, <3>2, <3>3
  <2>4. \E T : entries' \in Seq(T)
    BY <1>5, PruneEntries DEF Prune, TypeOK
  <2> QED
    BY <1>5, <2>3, <2>4 DEF Prune, TypeOK, readVars
<1> QED
  BY <1>1, <1>2, <1>3, <1>4, <1>5 DEF Parse

(* What the parser does to the chain. *)
LEMMA LinkStep ==
  ASSUME TypeOK, ChainLinked, Parse
  PROVE  ChainLinked'
<1> USE DEF LinkedTo
<1>1. CASE Locate
  BY <1>1 DEF Locate, ChainLinked
<1>2. CASE ReadBlock
  <2>1. CASE at \in DOMAIN file.block
    <3>1. PICK S : blocks \in Seq(S)
      BY DEF TypeOK
    <3>2. blocks' = Append(blocks, at) /\ phase = "block" /\ phase' = "walk" /\ file' = file /\ at' = at
      BY <1>2, <2>1 DEF ReadBlock
    <3>3. /\ Len(blocks') = Len(blocks) + 1 /\ Len(blocks) \in Nat
          /\ DOMAIN blocks = 1 .. Len(blocks)
          /\ DOMAIN blocks' = 1 .. Len(blocks) + 1
          /\ \A i \in 1 .. Len(blocks) : blocks'[i] = blocks[i]
          /\ blocks'[Len(blocks) + 1] = at
      BY <3>1, <3>2, Grown
    <3>4. blocks # <<>> => 1 \in DOMAIN blocks
      BY <3>1, <3>3
    <3>5. blocks = <<>> => Len(blocks) = 0
      OBVIOUS
    <3>6. blocks' # <<>> /\ blocks'[1] = file.first
      BY <3>2, <3>3, <3>4, <3>5 DEF ChainLinked
    <3>7. ASSUME NEW k \in DOMAIN blocks', k + 1 \in DOMAIN blocks'
          PROVE  LinkedTo(k, blocks[k + 1])'
      <4>1. k \in 1 .. Len(blocks) /\ (k + 1 \in 1 .. Len(blocks) \/ k = Len(blocks))
        BY <3>3, <3>7
      <4>2. blocks # <<>> /\ blocks'[k] = blocks[k]
        BY <3>3, <3>5, <4>1
      <4>3. CASE k + 1 \in 1 .. Len(blocks)
        BY <3>2, <3>3, <4>1, <4>2, <4>3 DEF ChainLinked
      <4>4. CASE k = Len(blocks)
        BY <3>2, <3>3, <4>1, <4>2, <4>4 DEF ChainLinked
      <4> QED
        BY <4>1, <4>3, <4>4
    <3> QED
      BY <3>2, <3>3, <3>6, <3>7 DEF ChainLinked
  <2>2. CASE at \notin DOMAIN file.block
    BY <1>2, <2>2 DEF ReadBlock, ChainLinked
  <2> QED
    BY <2>1, <2>2
<1>3. CASE WalkChunk
  BY <1>3 DEF WalkChunk, ChainLinked
<1>4. CASE EndBlock
  BY <1>4 DEF EndBlock, ChainLinked
<1>5. CASE Prune
  BY <1>5 DEF Prune, ChainLinked
<1> QED
  BY <1>1, <1>2, <1>3, <1>4, <1>5 DEF Parse

LEMMA Earlier == ASSUME NEW n \in Nat, NEW k \in 1 .. n, k # n PROVE k \in 1 .. n - 1
OBVIOUS

(* A chain that is complete has no block twice: what follows a block is    *)
(* told by the block, so the last repeated block would be followed by a    *)
(* repeated one.                                                           *)
LEMMA LinkedOnce ==
  ASSUME TypeOK, ChainLinked, phase = "open"
  PROVE  ChainComplete
<1> USE DEF LinkedTo
<1>1. DOMAIN blocks = 1 .. Len(blocks) /\ Len(blocks) \in Nat /\ blocks # <<>> /\ Len(blocks) # 0
  BY DEF TypeOK, ChainLinked
<1> DEFINE n == Len(blocks)
           next(p) == file.block[p].next
<1>2. ~file.block[blocks[n]].more
  BY DEF ChainLinked
<1>3. \A k \in 1 .. n - 1 : file.block[blocks[k]].more /\ blocks[k + 1] = next(blocks[k])
  <2>1. \A k \in 1 .. n - 1 : k \in DOMAIN blocks /\ k + 1 \in DOMAIN blocks
    BY <1>1
  <2> QED
    BY <2>1 DEF ChainLinked
<1>4. ASSUME NEW i \in 1 .. n, NEW j \in 1 .. n, i < j, blocks[i] = blocks[j]
      PROVE  FALSE
  <2> DEFINE Twice == {m \in Nat : \E k \in 1 .. n : \E l \in 1 .. n : k < l /\ blocks[k] = blocks[l] /\ m = n - l}
  <2>1. n - j \in Twice /\ Twice \subseteq Nat
    <3>1. n - j \in Nat
      BY <1>1
    <3> QED
      BY <1>4, <3>1
  <2>2. PICK m \in Twice : \A o \in Twice : m <= o
    BY <2>1, HasLeast
  <2>3. PICK k \in 1 .. n, l \in 1 .. n : k < l /\ blocks[k] = blocks[l] /\ m = n - l
    OBVIOUS
  <2>4. k \in 1 .. n - 1
    BY <1>1, <2>3
  <2>5. l # n
    BY <1>2, <1>3, <2>3, <2>4
  <2>6. l \in 1 .. n - 1
    BY <1>1, <2>3, <2>5, Earlier
  <2>7. blocks[k + 1] = blocks[l + 1]
    BY <1>3, <2>3, <2>4, <2>6
  <2>8. n - (l + 1) \in Nat /\ k + 1 \in 1 .. n /\ l + 1 \in 1 .. n /\ k + 1 < l + 1
    BY <1>1, <2>3, <2>4, <2>6
  <2>9. n - (l + 1) \in Twice
    BY <2>7, <2>8
  <2>10. n - l <= n - (l + 1)
    BY <2>2, <2>3, <2>9
  <2> HIDE DEF Twice
  <2> QED
    BY <1>1, <2>3, <2>10
<1>5. ASSUME NEW i \in 1 .. n, NEW j \in 1 .. n, blocks[i] = blocks[j]
      PROVE  i = j
  <2>1. i < j \/ j < i \/ i = j
    BY <1>1
  <2> QED
    BY <1>4, <1>5, <2>1
<1>6. \A k \in 1 .. n : k = n \/ k \in 1 .. n - 1
  BY <1>1, Earlier
<1> QED
  BY <1>1, <1>2, <1>3, <1>5, <1>6 DEF ChainComplete, ChainLinked

----------------------------------------------------------------------------
(* Reading *)

Pcs == {"idle", "next", "read", "done", "error"}

(* Thread t gets another job record; the others keep theirs. *)
LEMMA JobUpdate ==
  ASSUME TypeOK, NEW t \in Readers, NEW p \in Pcs, NEW e, NEW l, NEW g,
         reader' = [reader EXCEPT ![t] = [pc |-> p, entry |-> e, left |-> l, got |-> g]]
  PROVE  /\ reader' = [u \in Readers |-> reader'[u]]
         /\ \A u \in Readers : IsJob(reader'[u]) /\ reader'[u].pc \in Pcs
         /\ reader'[t].pc = p /\ reader'[t].entry = e /\ reader'[t].left = l
         /\ \A u \in Readers \ {t} : reader'[u] = reader[u]
<1> DEFINE r == [pc |-> p, entry |-> e, left |-> l, got |-> g]
<1>1. r.pc = p /\ r.entry = e /\ r.left = l /\ IsJob(r)
  BY DEF IsJob
<1> HIDE DEF r
<1>2. reader' = [reader EXCEPT ![t] = r]
  BY DEF r
<1>3. reader = [u \in Readers |-> reader[u]]
  BY DEF TypeOK
<1>4. reader' = [u \in Readers |-> IF u = t THEN r ELSE reader[u]]
  BY <1>2, <1>3
<1> QED
  BY <1>1, <1>4 DEF TypeOK, Pcs

LEMMA Going ==
  ASSUME TypeOK, NEW t \in Readers, NEW p \in Pcs, NEW l, NEW g, Goes(t, p, l, g)
  PROVE  /\ reader' = [u \in Readers |-> reader'[u]]
         /\ \A u \in Readers : IsJob(reader'[u]) /\ reader'[u].pc \in Pcs
         /\ reader'[t].pc = p /\ reader'[t].entry = reader[t].entry /\ reader'[t].left = l
         /\ \A u \in Readers \ {t} : reader'[u] = reader[u]
<1>1. reader' = [reader EXCEPT ![t] = [pc |-> p, entry |-> reader[t].entry, left |-> l, got |-> g]]
  BY DEF Goes, TypeOK
<1> QED
  BY <1>1, JobUpdate

LEMMA ReadStep ==
  ASSUME IInv, NEW t \in Readers, Read(t)
  PROVE  IInv'
<1> USE DEF IInv
<1>1. UNCHANGED parseVars
  BY DEF Read, BeginEntry, BeginBlob, Refuse, ReadMemory, Seek, ReadExact, FillBlob, FinishEntry
<1>2. ChainRoom' /\ ChainLinked'
  BY <1>1 DEF ChainRoom, ChainLinked, LinkedTo, parseVars
<1>3. ASSUME reader' = [u \in Readers |-> reader'[u]],
             \A u \in Readers : IsJob(reader'[u]) /\ reader'[u].pc \in Pcs,
             holder' \in Readers \cup {None}, blob' \in {"empty", "busy", "filled", "failed"}
      PROVE  TypeOK'
  BY <1>1, <1>3 DEF TypeOK, parseVars, Pcs
<1> DEFINE Others == \A u \in Readers \ {t} : reader'[u] = reader[u]
<1>4. holder \in Readers \cup {None} /\ blob \in {"empty", "busy", "filled", "failed"} /\ None \notin Readers
  BY ArchiveAssumption DEF TypeOK
<1>5. ASSUME Others, reader[t].pc # "read", reader'[t].pc # "read", UNCHANGED <<holder, cursor>>
      PROVE  HandleOwned'
  BY <1>4, <1>5 DEF HandleOwned
<1>6. ASSUME Others, ~Fills(t)', UNCHANGED blob
      PROVE  CellFilledByOne'
  BY <1>6 DEF CellFilledByOne, Fills
<1>7. ASSUME Others, Fills(t), ~Fills(t)'
      PROVE  CellFilledByOne'
  BY <1>7 DEF CellFilledByOne, Fills
<1>8. ASSUME Others, reader'[t].entry = reader[t].entry, {reader[t].pc, reader'[t].pc} \subseteq {"next", "read"}, UNCHANGED blob
      PROVE  CellFilledByOne'
  BY <1>8 DEF CellFilledByOne, Fills
<1>9. CASE BeginEntry(t)
  <2>1. PICK i \in DOMAIN entries : \E l :
          reader' = [reader EXCEPT ![t] = [pc |-> "next", entry |-> i, left |-> l, got |-> <<>>]]
    BY <1>9 DEF BeginEntry
  <2>2. PICK l : reader' = [reader EXCEPT ![t] = [pc |-> "next", entry |-> i, left |-> l, got |-> <<>>]]
    BY <2>1
  <2>3. i # 0 /\ "next" \in Pcs
    BY DEF TypeOK, Pcs
  <2>4. /\ reader' = [u \in Readers |-> reader'[u]] /\ \A u \in Readers : IsJob(reader'[u]) /\ reader'[u].pc \in Pcs
        /\ reader'[t].pc = "next" /\ reader'[t].entry = i /\ Others
    BY <2>2, <2>3, JobUpdate
  <2>5. reader[t].pc = "idle" /\ UNCHANGED <<holder, cursor, blob>>
    BY <1>9 DEF BeginEntry, Idle
  <2>6. ~Fills(t)'
    BY <2>3, <2>4 DEF Fills
  <2> HIDE DEF Others
  <2>7. TypeOK'
    BY <1>3, <1>4, <2>4, <2>5
  <2>8. HandleOwned'
    BY <1>5, <2>4, <2>5
  <2>9. CellFilledByOne'
    BY <1>6, <2>4, <2>5, <2>6
  <2> QED
    BY <1>2, <2>7, <2>8, <2>9
<1>10. CASE BeginBlob(t)
  <2>1. reader[t].pc = "idle" /\ UNCHANGED <<holder, cursor>>
    BY <1>10 DEF BeginBlob, Idle
  <2>2. CASE blob = "empty"
    <3>1. PICK l : reader' = [reader EXCEPT ![t] = [pc |-> "next", entry |-> 0, left |-> l, got |-> <<>>]]
      BY <1>10, <2>2 DEF BeginBlob
    <3>2. /\ reader' = [u \in Readers |-> reader'[u]] /\ \A u \in Readers : IsJob(reader'[u]) /\ reader'[u].pc \in Pcs
          /\ reader'[t].pc = "next" /\ Others
      BY <3>1, JobUpdate DEF Pcs
    <3>3. blob' = "busy"
      BY <1>10, <2>2 DEF BeginBlob
    <3>4. CellFilledByOne'
      BY <2>2, <3>2, <3>3 DEF CellFilledByOne, Fills
    <3> HIDE DEF Others
    <3> QED
      BY <1>2, <1>3, <1>4, <1>5, <2>1, <3>2, <3>3, <3>4
  <2>3. CASE blob # "empty"
    <3>1. PICK p \in {"error", "done"} : \E g : Goes(t, p, <<>>, g)
      BY <1>10, <2>3 DEF BeginBlob
    <3>2. PICK g : Goes(t, p, <<>>, g)
      BY <3>1
    <3>3. p \in Pcs
      BY DEF Pcs
    <3>4. /\ reader' = [u \in Readers |-> reader'[u]] /\ \A u \in Readers : IsJob(reader'[u]) /\ reader'[u].pc \in Pcs
          /\ reader'[t].pc = p /\ Others
      BY <3>2, <3>3, Going
    <3>5. UNCHANGED blob
      BY <1>10, <2>3 DEF BeginBlob
    <3>6. ~Fills(t)'
      BY <3>4 DEF Fills
    <3> HIDE DEF Others
    <3> QED
      BY <1>2, <1>3, <1>4, <1>5, <1>6, <2>1, <3>4, <3>5, <3>6
  <2> QED
    BY <2>2, <2>3
<1>11. ASSUME Stop(t), reader[t].pc \in {"next", "read"}
       PROVE  /\ reader' = [u \in Readers |-> reader'[u]] /\ \A u \in Readers : IsJob(reader'[u]) /\ reader'[u].pc \in Pcs
              /\ reader'[t].pc = "error" /\ Others /\ blob' \in {"empty", "busy", "filled", "failed"}
              /\ CellFilledByOne'
  <2>1. Goes(t, "error", <<>>, Job(t).got)
    BY <1>11 DEF Stop
  <2>2. /\ reader' = [u \in Readers |-> reader'[u]] /\ \A u \in Readers : IsJob(reader'[u]) /\ reader'[u].pc \in Pcs
        /\ reader'[t].pc = "error" /\ Others
    BY <2>1, Going DEF Pcs
  <2>3. ~Fills(t)'
    BY <2>2 DEF Fills
  <2>4. blob' = IF reader[t].entry = 0 THEN "failed" ELSE blob
    BY <1>11 DEF Stop, Job
  <2>5. CASE reader[t].entry = 0
    <3>1. Fills(t)
      BY <1>11, <2>5 DEF Fills
    <3> HIDE DEF Others
    <3> QED
      BY <1>7, <2>2, <2>3, <2>4, <2>5, <3>1
  <2>6. CASE reader[t].entry # 0
    <3> HIDE DEF Others
    <3> QED
      BY <1>4, <1>6, <2>2, <2>3, <2>4, <2>6
  <2> QED
    BY <2>5, <2>6
<1>12. CASE Refuse(t)
  <2>1. Stop(t) /\ reader[t].pc = "next" /\ UNCHANGED <<holder, cursor>>
    BY <1>12 DEF Refuse, Job
  <2> HIDE DEF Others
  <2> QED
    BY <1>2, <1>3, <1>4, <1>5, <1>11, <2>1
<1>13. CASE ReadMemory(t)
  <2>1. PICK l, g : Goes(t, "next", l, g)
    BY <1>13 DEF ReadMemory
  <2>2. /\ reader' = [u \in Readers |-> reader'[u]] /\ \A u \in Readers : IsJob(reader'[u]) /\ reader'[u].pc \in Pcs
        /\ reader'[t].pc = "next" /\ reader'[t].entry = reader[t].entry /\ Others
    BY <2>1, Going DEF Pcs
  <2>3. reader[t].pc = "next" /\ UNCHANGED <<holder, cursor, blob>>
    BY <1>13 DEF ReadMemory, Job
  <2> HIDE DEF Others
  <2> QED
    BY <1>2, <1>3, <1>4, <1>5, <1>8, <2>2, <2>3
<1>14. CASE Seek(t)
  <2>1. Goes(t, "read", reader[t].left, reader[t].got)
    BY <1>14 DEF Seek, Job
  <2>2. /\ reader' = [u \in Readers |-> reader'[u]] /\ \A u \in Readers : IsJob(reader'[u]) /\ reader'[u].pc \in Pcs
        /\ reader'[t].pc = "read" /\ reader'[t].entry = reader[t].entry /\ reader'[t].left = reader[t].left /\ Others
    BY <2>1, Going DEF Pcs
  <2>3. reader[t].pc = "next" /\ holder = None /\ holder' = t /\ cursor' = Head(reader[t].left).at /\ UNCHANGED blob
    BY <1>14 DEF Seek, Job
  <2>4. HandleOwned'
    BY <1>4, <2>2, <2>3 DEF HandleOwned
  <2> HIDE DEF Others
  <2> QED
    BY <1>2, <1>3, <1>4, <1>8, <2>2, <2>3, <2>4
<1>15. CASE ReadExact(t)
  <2>1. reader[t].pc = "read" /\ holder' = None
    BY <1>15 DEF ReadExact, Job
  <2>2. ASSUME Others, reader'[t].pc # "read"
        PROVE  HandleOwned'
    BY <1>4, <2>1, <2>2 DEF HandleOwned
  <2>3. CASE Stop(t)
    <3> HIDE DEF Others
    <3> QED
      BY <1>2, <1>3, <1>11, <2>1, <2>2, <2>3
  <2>4. CASE ~Stop(t)
    <3>1. PICK l, g : Goes(t, "next", l, g)
      BY <1>15, <2>4 DEF ReadExact
    <3>2. /\ reader' = [u \in Readers |-> reader'[u]] /\ \A u \in Readers : IsJob(reader'[u]) /\ reader'[u].pc \in Pcs
          /\ reader'[t].pc = "next" /\ reader'[t].entry = reader[t].entry /\ Others
      BY <3>1, Going DEF Pcs
    <3>3. UNCHANGED blob
      BY <1>15, <2>4 DEF ReadExact
    <3> HIDE DEF Others
    <3> QED
      BY <1>2, <1>3, <1>4, <1>8, <2>1, <2>2, <3>2, <3>3
  <2> QED
    BY <2>3, <2>4
<1>16. CASE FillBlob(t)
  <2>1. Goes(t, "done", <<>>, Job(t).got)
    BY <1>16 DEF FillBlob
  <2>2. /\ reader' = [u \in Readers |-> reader'[u]] /\ \A u \in Readers : IsJob(reader'[u]) /\ reader'[u].pc \in Pcs
        /\ reader'[t].pc = "done" /\ Others
    BY <2>1, Going DEF Pcs
  <2>3. reader[t].pc = "next" /\ reader[t].entry = 0 /\ UNCHANGED <<holder, cursor>> /\ blob' = "filled"
    BY <1>16 DEF FillBlob, Job
  <2>4. Fills(t) /\ ~Fills(t)'
    BY <2>2, <2>3 DEF Fills
  <2> HIDE DEF Others
  <2> QED
    BY <1>2, <1>3, <1>4, <1>5, <1>7, <2>2, <2>3, <2>4
<1>17. CASE FinishEntry(t)
  <2>1. PICK p \in {"done", "error"} : \E g : Goes(t, p, <<>>, g)
    BY <1>17 DEF FinishEntry
  <2>2. PICK g : Goes(t, p, <<>>, g)
    BY <2>1
  <2>3. p \in Pcs
    BY DEF Pcs
  <2>4. /\ reader' = [u \in Readers |-> reader'[u]] /\ \A u \in Readers : IsJob(reader'[u]) /\ reader'[u].pc \in Pcs
        /\ reader'[t].pc = p /\ Others
    BY <2>2, <2>3, Going
  <2>5. reader[t].pc = "next" /\ UNCHANGED <<holder, cursor, blob>>
    BY <1>17 DEF FinishEntry, Job
  <2>6. ~Fills(t)'
    BY <2>4 DEF Fills
  <2> HIDE DEF Others
  <2> QED
    BY <1>2, <1>3, <1>4, <1>5, <1>6, <2>4, <2>5, <2>6
<1> QED
  BY <1>9, <1>10, <1>12, <1>13, <1>14, <1>15, <1>16, <1>17 DEF Read

----------------------------------------------------------------------------
(* Theorems *)

LEMMA ArchiveStep == IInv /\ [Next]_vars => IInv'
<1> SUFFICES ASSUME IInv, [Next]_vars
             PROVE  IInv'
  OBVIOUS
<1>1. CASE Parse
  <2>1. TypeOK' /\ ChainRoom' /\ ChainLinked'
    BY <1>1, ParseTypes, LinkStep DEF IInv
  <2>2. UNCHANGED readVars
    BY <1>1 DEF Parse, Locate, ReadBlock, WalkChunk, EndBlock, Prune
  <2>3. HandleOwned' /\ CellFilledByOne'
    BY <2>2 DEF IInv, readVars, HandleOwned, CellFilledByOne, Fills
  <2> QED
    BY <2>1, <2>3 DEF IInv
<1>2. CASE \E t \in Readers : Read(t)
  BY <1>2, ReadStep
<1>3. CASE UNCHANGED vars
  BY <1>3 DEF vars, parseVars, readVars, IInv, TypeOK, ChainRoom, ChainLinked, LinkedTo, HandleOwned, CellFilledByOne, Fills
<1> QED
  BY <1>1, <1>2, <1>3 DEF Next

(* The conditions the proofs rest on, together. *)
THEOREM ArchiveInductive == Spec => []IInv
  BY ArchiveInit, ArchiveStep, PTL DEF Spec

(* The state of the parser and of the readers keeps its types: index       *)
(* blocks are at most as many as xp3.rs allows, and an Hxv4 descriptor is  *)
(* one of the root chunks.                                                 *)
THEOREM ArchiveTypeCorrect == Spec => []TypeOK
<1>1. IInv => TypeOK
  BY DEF IInv
<1> QED
  BY <1>1, ArchiveInductive, PTL

(* Between seek and read_exact the handle is of one thread and stands at   *)
(* the segment this thread reads, however many threads read.               *)
THEOREM HandleCorrect == Spec => []HandleOwned
<1>1. IInv => HandleOwned
  BY DEF IInv
<1> QED
  BY <1>1, ArchiveInductive, PTL

(* The blob of a special index is read by one thread, while the others     *)
(* wait at get_or_init.                                                    *)
THEOREM CellCorrect == Spec => []CellFilledByOne
<1>1. IInv => CellFilledByOne
  BY DEF IInv
<1> QED
  BY <1>1, ArchiveInductive, PTL

(* An archive that is open has its whole chain, from the first block to    *)
(* one that does not continue, and no block twice: a chain that leads back *)
(* into itself never gets that far, for any file.                          *)
THEOREM ChainCorrect == Spec => [](phase = "open" => ChainComplete)
<1>1. IInv => (phase = "open" => ChainComplete)
  BY LinkedOnce DEF IInv
<1> QED
  BY <1>1, ArchiveInductive, PTL

----------------------------------------------------------------------------
(* The two scans for a signature *)

LEMMA MultipleStep ==
  ASSUME NEW a \in Nat, NEW b \in Nat, NEW w \in Nat, a < b
  PROVE  a * w + w <= b * w
<1>1. b = a + 1 + (b - a - 1) /\ b - a - 1 \in Nat
  OBVIOUS
<1> DEFINE d == b - a - 1
<1>2. d * w \in Nat
  BY <1>1
<1>3. b * w = a * w + w + d * w
  BY <1>1
<1> QED
  BY <1>2, <1>3

LEMMA InMultiple ==
  ASSUME NEW m \in Nat, NEW w \in Nat \ {0}
  PROVE  \E k \in 0 .. m : k * w <= m /\ m < k * w + w
<1> DEFINE Over == {k \in Nat : m < k * w}
<1>1. m < (m + 1) * w
  <2>1. m * w >= m
    BY Z3
  <2> QED
    BY <2>1
<1>2. m + 1 \in Over
  BY <1>1
<1>3. PICK k \in Over : \A o \in Over : k <= o
  BY <1>2, HasLeast
<1>4. k # 0 /\ k - 1 \in Nat
  <2>1. 0 * w = 0
    OBVIOUS
  <2> QED
    BY <2>1
<1>5. k - 1 \notin Over
  BY <1>3, <1>4
<1>6. (k - 1) * w <= m
  BY <1>4, <1>5
<1>7. (k - 1) * w + w = k * w
  BY <1>4
<1>8. k - 1 \in 0 .. m
  BY <1>2, <1>3, <1>4
<1> QED
  BY <1>6, <1>7, <1>8

(* A window holds the aligned signatures that begin in it, those that end  *)
(* in the next one included.                                               *)
SignaturesOf(f) == {p \in f.magics : p >= Para /\ p % Para = 0 /\ p + MagicLen <= f.len}

LEMMA WindowHolds ==
  ASSUME NEW f \in Files, NEW b \in Nat, b < f.len
  PROVE  InWindow(f, b) = {p \in SignaturesOf(f) : b <= p /\ p < b + Window}
<1> USE ArchiveAssumption, FileAssumption
<1> DEFINE W == Window + MagicLen - 1
           want == MinOf({f.len - b, W})
<1>1. {f.len - b, W} \subseteq Nat
  OBVIOUS
<1>2. want \in {f.len - b, W} /\ want <= f.len - b /\ want <= W
  BY <1>1, HasLeast
<1> HIDE DEF want
<1>3. InWindow(f, b) = {p \in f.magics : p >= (IF b < Para THEN Para ELSE b) /\ p % Para = 0 /\ p + MagicLen <= b + want}
  BY DEF InWindow, want
<1>4. ASSUME NEW p \in f.magics
      PROVE  /\ p >= (IF b < Para THEN Para ELSE b) <=> p >= Para /\ p >= b
             /\ p + MagicLen <= b + want <=> p + MagicLen <= f.len /\ p < b + Window
  BY <1>2
<1> QED
  BY <1>3, <1>4 DEF SignaturesOf

(* find_xp3_storage finds in windows what find_xp3 finds in the whole file.*)
THEOREM ScansAgree ==
  ASSUME NEW f \in Files
  PROVE  ScanFile(f) = ScanMemory(f)
<1> USE ArchiveAssumption, FileAssumption
<1> DEFINE hit == {b \in {k * Window : k \in 0 .. f.len} : b < f.len /\ InWindow(f, b) # {}}
           S == SignaturesOf(f)
<1>1. S \subseteq Nat /\ \A p \in S : p < f.len /\ f.len >= MagicLen
  BY DEF SignaturesOf
<1>2. hit \subseteq Nat
  OBVIOUS
<1>3. \A b \in hit : b < f.len /\ InWindow(f, b) # {} /\ \E k \in Nat : b = k * Window
  OBVIOUS
<1>4. \A k \in 0 .. f.len : k * Window < f.len /\ InWindow(f, k * Window) # {} => k * Window \in hit
  OBVIOUS
<1>5. ScanFile(f) = IF f.len < MagicLen THEN Nowhere
                    ELSE IF 0 \in f.magics THEN 0
                    ELSE IF f.mz /\ hit # {} THEN MinOf(InWindow(f, MinOf(hit))) ELSE Nowhere
  BY DEF ScanFile
<1>6. ScanMemory(f) = IF 0 \in f.magics THEN 0 ELSE IF f.mz /\ S # {} THEN MinOf(S) ELSE Nowhere
  BY DEF ScanMemory, SignaturesOf
<1> HIDE DEF hit
<1>7. S = {} => hit = {}
  BY <1>2, <1>3, WindowHolds
<1>8. ASSUME S # {}
      PROVE  hit # {} /\ MinOf(InWindow(f, MinOf(hit))) = MinOf(S)
  <2> DEFINE m == MinOf(S)
  <2>1. m \in S /\ m \in Nat /\ \A p \in S : m <= p
    BY <1>1, <1>8, HasLeast
  <2> HIDE DEF m, S
  <2>2. m < f.len
    BY <1>1, <2>1
  <2>3. PICK k \in 0 .. m : k * Window <= m /\ m < k * Window + Window
    BY <2>1, InMultiple
  <2>4. k \in 0 .. f.len /\ k \in Nat
    BY <2>1, <2>2, <2>3
  <2> DEFINE b == k * Window
  <2>5. b \in Nat /\ b < f.len /\ b <= m /\ m < b + Window
    BY <2>1, <2>2, <2>3, <2>4
  <2>6. InWindow(f, b) = {p \in S : b <= p /\ p < b + Window}
    <3> HIDE DEF b
    <3> QED
      BY <2>5, WindowHolds DEF S
  <2>7. m \in InWindow(f, b)
    BY <2>1, <2>5, <2>6
  <2>8. b \in hit
    BY <1>4, <2>4, <2>5, <2>7
  <2>9. ASSUME NEW c \in hit
        PROVE  b <= c
    <3>1. PICK j \in Nat : c = j * Window
      BY <1>3
    <3>2. c \in Nat /\ c < f.len /\ InWindow(f, c) # {}
      BY <1>2, <1>3
    <3>3. PICK p \in S : c <= p /\ p < c + Window
      BY <3>2, WindowHolds DEF S
    <3>4. m <= p /\ p \in Nat
      BY <1>1, <2>1
    <3>5. CASE j < k
      <4>1. j * Window + Window <= b
        BY <2>4, <3>5, MultipleStep
      <4> HIDE DEF b
      <4> QED
        BY <2>1, <2>5, <3>1, <3>2, <3>3, <3>4, <4>1
    <3>6. CASE k <= j
      <4>1. CASE k = j
        BY <2>5, <3>1, <4>1
      <4>2. CASE k < j
        <5>1. b + Window <= j * Window
          BY <2>4, <4>2, MultipleStep
        <5> HIDE DEF b
        <5> QED
          BY <2>5, <3>1, <3>2, <5>1
      <4> QED
        BY <2>4, <3>1, <3>6, <4>1, <4>2
    <3> QED
      BY <2>4, <3>1, <3>5, <3>6
  <2> HIDE DEF b
  <2>10. MinOf(hit) = b
    <3>1. MinOf(hit) \in hit /\ MinOf(hit) <= b
      BY <1>2, <2>8, HasLeast
    <3>2. b <= MinOf(hit) /\ MinOf(hit) \in Nat
      BY <1>2, <2>9, <3>1
    <3> QED
      BY <2>5, <3>1, <3>2
  <2>11. MinOf(InWindow(f, b)) = m
    <3>1. InWindow(f, b) \subseteq Nat
      BY <1>1, <2>6
    <3> DEFINE q == MinOf(InWindow(f, b))
    <3>2. q \in InWindow(f, b) /\ q <= m
      BY <2>7, <3>1, HasLeast
    <3>3. q \in S /\ q \in Nat
      BY <2>6, <3>1, <3>2
    <3> HIDE DEF q
    <3>4. q = m
      BY <2>1, <3>2, <3>3
    <3> QED
      BY <3>4 DEF q
  <2> QED
    BY <2>8, <2>10, <2>11 DEF m
<1> HIDE DEF S
<1>9. f.len < MagicLen => S = {} /\ 0 \notin f.magics
  BY <1>1 DEF S
<1> QED
  BY <1>5, <1>6, <1>7, <1>8, <1>9

----------------------------------------------------------------------------
(* Names *)

IsRoot(x) == x = [kind |-> x.kind, name |-> x.name, id |-> x.id, range |-> x.range]
IsEntry(e) ==
  e = [root |-> e.root, name |-> e.name, alt |-> e.alt, id |-> e.id,
       orig |-> e.orig, arch |-> e.arch, layer |-> e.layer, segs |-> e.segs]

(* The alternate name that root chunk r is given, if there is one.         *)
AltBefore(r) ==
  IF Meets(r) # {} /\ roots[Before(r)].kind = "AlternateName" THEN roots[Before(r)].name ELSE None

Belongs(e) ==
  /\ IsEntry(e) /\ e.segs \in Seq(Segment)
  /\ e.root \in 1 .. Len(roots)
  /\ e.alt = AltBefore(e.root)
  /\ ~IsDummy(IF e.alt # None THEN e.alt ELSE e.name)
  /\ e.id # NoId => hxv4 # 0 /\ hxv4 < e.root

(* Until the warning is looked for, entries stand for File chunks of their *)
(* own, and have their ids.                                                *)
OwnRoots ==
  /\ \A i \in DOMAIN entries : roots[entries[i].root].kind = "File" /\ roots[entries[i].root].id = entries[i].id
  /\ \A i, j \in DOMAIN entries : entries[i].root = entries[j].root => i = j

IsDescriptor(segs) == segs \in Seq(Segment) /\ Len(segs) = 1 /\ segs[1].method = "raw"

OneWarning == Cardinality({r \in DOMAIN roots : roots[r].id = 0}) <= 1

NamesInv ==
  /\ file \in Files
  /\ phase \in {"block", "walk", "prune", "open"} => base = ScanMemory(file)
  /\ IsBlock(walk)
  /\ \A r \in DOMAIN roots : IsRoot(roots[r]) /\ (roots[r].range # <<>> => IsDescriptor(roots[r].range))
  /\ phase \notin {"open", "error"} => pending = AltBefore(Len(roots) + 1) /\ OwnRoots
  /\ phase = "open" /\ OneWarning => \A i \in DOMAIN entries : roots[entries[i].root].kind = "File"
  /\ \A i \in DOMAIN entries : Belongs(entries[i])

LEMMA LastBefore ==
  ASSUME NEW r \in Nat, Meets(r) # {}
  PROVE  Before(r) \in Meets(r) /\ Before(r) \in 1 .. r - 1
<1> DEFINE Away == {r - q : q \in Meets(r)}
<1>1. Meets(r) \subseteq 1 .. r - 1
  BY DEF Meets
<1>2. Away \subseteq Nat /\ Away # {}
  BY <1>1
<1>3. PICK a \in Away : \A b \in Away : a <= b
  BY <1>2, HasLeast
<1>4. PICK q \in Meets(r) : a = r - q
  OBVIOUS
<1>5. \A p \in Meets(r) : r - q <= r - p
  BY <1>3, <1>4
<1> HIDE DEF Away
<1>6. \A p \in Meets(r) : p <= q
  BY <1>1, <1>5
<1> QED
  BY <1>1, <1>6 DEF Before

(* A root chunk that becomes a warning still ends an alternate name.       *)
Alike(x, y) ==
  /\ x.name = y.name
  /\ x.kind = y.kind \/ {x.kind, y.kind} \subseteq {"File", "ProtectedFile"}

LEMMA SameBefore ==
  ASSUME NEW r \in Nat, \A q \in 1 .. r - 1 : Alike(roots'[q], roots[q])
  PROVE  Meets(r)' = Meets(r) /\ AltBefore(r)' = AltBefore(r)
<1>1. Meets(r)' = Meets(r)
  BY DEF Meets, Alike
<1>2. Before(r)' = Before(r)
  BY <1>1 DEF Before
<1>3. CASE Meets(r) = {}
  BY <1>1, <1>3 DEF AltBefore
<1>4. CASE Meets(r) # {}
  <2>1. Alike(roots'[Before(r)], roots[Before(r)])
    BY <1>4, LastBefore
  <2> QED
    BY <1>1, <1>2, <2>1 DEF AltBefore, Alike
<1> QED
  BY <1>1, <1>3, <1>4

LEMMA BelongsKept ==
  ASSUME NEW e, Belongs(e), Len(roots) \in Nat, Len(roots') \in Nat, Len(roots) <= Len(roots'),
         \A q \in 1 .. Len(roots) : Alike(roots'[q], roots[q]),
         hxv4 # 0 => hxv4' = hxv4
  PROVE  Belongs(e)'
<1>1. e.root \in Nat /\ e.root \in 1 .. Len(roots) /\ e.root \in 1 .. Len(roots')
  BY DEF Belongs
<1>2. AltBefore(e.root)' = AltBefore(e.root)
  BY <1>1, SameBefore
<1> QED
  BY <1>1, <1>2 DEF Belongs

LEMMA BlockTail ==
  ASSUME NEW cs, IsBlock(cs), cs # <<>>
  PROVE  IsBlock(Tail(cs)) /\ IsChunk(Head(cs))
<1>1. cs \in Seq(Range(cs)) /\ DOMAIN cs = 1 .. Len(cs) /\ Len(cs) \in Nat /\ Len(cs) # 0
  BY DEF IsBlock
<1>2. DOMAIN Tail(cs) = 1 .. Len(cs) - 1 /\ Len(Tail(cs)) = Len(cs) - 1 /\ \A k \in 1 .. Len(cs) - 1 : Tail(cs)[k] = cs[k + 1] /\ k + 1 \in DOMAIN cs
  BY <1>1
<1> DEFINE t == Tail(cs)
           n == Len(cs) - 1
<1>3. t \in [1 .. n -> Range(cs)] /\ n \in Nat
  <2>1. t \in Seq(Range(cs))
    BY <1>1
  <2>2. Len(t) = n /\ n \in Nat
    BY <1>1, <1>2
  <2> HIDE DEF t, n
  <2>3. t \in [1 .. Len(t) -> Range(cs)]
    BY <2>1
  <2> QED
    BY <2>2, <2>3
<1>4. \A k \in 1 .. n : t[k] \in Range(t)
  BY <1>2 DEF Range
<1> HIDE DEF t, n
<1>5. t \in [1 .. n -> Range(t)]
  BY <1>3, <1>4
<1>6. t \in Seq(Range(t))
  BY <1>3, <1>5
<1>7. Head(cs) = cs[1] /\ 1 \in DOMAIN cs
  BY <1>1
<1> QED
  BY <1>2, <1>6, <1>7 DEF IsBlock, t

LEMMA NamesInit == Init => NamesInv
<1> SUFFICES ASSUME Init
             PROVE  NamesInv
  OBVIOUS
<1>1. Len(<<>>) = 0 /\ DOMAIN <<>> = {} /\ <<>> \in Seq(Range(<<>>))
  OBVIOUS
<1>2. Meets(1) = {}
  BY DEF Meets
<1>3. AltBefore(Len(roots) + 1) = None
  BY <1>1, <1>2 DEF Init, AltBefore
<1> QED
  BY <1>1, <1>3 DEF Init, NamesInv, OwnRoots, IsBlock

(* What one chunk of the index changes: the roots get one more.            *)
LEMMA RootShape ==
  ASSUME NEW c
  PROVE  /\ IsRoot(Root(c))
         /\ Classify(c) = "File" <=> Root(c).kind \in {"File", "ProtectedFile"}
         /\ Classify(c) # "File" => Root(c).kind = Classify(c) /\ Root(c).name = c.name
         /\ MakesEntry(c) => Root(c).kind = "File"
         /\ Root(c).id # NoId => hxv4 # 0
         /\ Root(c).range # <<>> => Root(c).range = c.segs /\ (c.tag = "Hxv4" \/ c.form = "range")
<1>1. Classify(c) \in {"File", "SpecialIndex", "Hxv4SpecialIndex"} \/ Classify(c) \in {"AlternateName", "Unknown"}
  BY RootKind DEF Classify
<1>2. Classify(c) = "Hxv4SpecialIndex" => c.tag = "Hxv4"
  BY DEF Classify
<1>3. Classify(c) = "SpecialIndex" => c.form = "range"
  BY DEF Classify
<1> QED
  BY <1>1, <1>2, <1>3 DEF Root, IsRoot, MakesEntry

LEMMA PendingStep ==
  ASSUME NEW S, roots \in Seq(S), NEW c, roots' = Append(roots, Root(c)),
         pending = AltBefore(Len(roots) + 1)
  PROVE  NextPending(c) = AltBefore(Len(roots) + 1)'
<1> PICK n \in Nat : n = Len(roots)
  OBVIOUS
<1> DEFINE Ends == {"AlternateName", "File", "ProtectedFile", "Hxv4SpecialIndex"}
<1>1. /\ Len(roots') = n + 1
      /\ \A i \in 1 .. n : roots'[i] = roots[i]
      /\ roots'[n + 1] = Root(c)
  BY Grown
<1>2. \A i \in 1 .. n + 1 : i \in 1 .. n \/ i = n + 1
  BY <1>1
<1>3. Meets(n + 2)' = {q \in 1 .. n + 1 : roots'[q].kind \in Ends}
  BY <1>1 DEF Meets
<1>4. Meets(n + 1) = {q \in 1 .. n : roots[q].kind \in Ends}
  BY <1>1 DEF Meets
<1>5. Classify(c) \in RootKinds
  BY DEF Classify, RootKinds
<1>6. CASE Root(c).kind \in Ends
  <2>1. n + 1 \in Meets(n + 2)'
    BY <1>1, <1>3, <1>6
  <2>2. \A q \in Meets(n + 2)' : q <= n + 1 /\ q \in Nat
    BY <1>1, <1>3
  <2>3. Before(n + 2)' = n + 1
    <3> DEFINE M == Meets(n + 2)'
    <3>1. \A x \in M : (\A p \in M : p <= x) => x = n + 1
      BY <1>1, <2>1, <2>2
    <3>2. \A p \in M : p <= n + 1
      BY <2>2
    <3> QED
      BY <2>1, <3>1, <3>2 DEF Before
  <2>4. AltBefore(n + 2)' = IF Root(c).kind = "AlternateName" THEN Root(c).name ELSE None
    BY <1>1, <2>1, <2>3 DEF AltBefore
  <2> QED
    BY <1>1, <1>6, <2>4, RootShape DEF NextPending
<1>7. CASE Root(c).kind \notin Ends
  <2>1. Meets(n + 2)' = Meets(n + 1)
    <3>1. n + 1 \notin Meets(n + 2)'
      BY <1>1, <1>3, <1>7
    <3> HIDE DEF Ends
    <3>2. \A q \in 1 .. n : q \in 1 .. n + 1 /\ roots'[q].kind = roots[q].kind
      BY <1>1
    <3>3. ASSUME NEW q \in Meets(n + 2)'
          PROVE  q \in Meets(n + 1)
      BY <1>2, <1>3, <1>4, <3>1, <3>2
    <3>4. ASSUME NEW q \in Meets(n + 1)
          PROVE  q \in Meets(n + 2)'
      BY <1>3, <1>4, <3>2
    <3> QED
      BY <3>3, <3>4
  <2>2. Before(n + 2)' = Before(n + 1)
    BY <2>1 DEF Before
  <2>3. Meets(n + 1) # {} => Before(n + 1) \in 1 .. n
    <3>1. n + 1 \in Nat /\ n + 1 - 1 = n
      BY <1>1
    <3> QED
      BY <3>1, LastBefore
  <2>4. AltBefore(n + 2)' = AltBefore(n + 1)
    BY <1>1, <2>1, <2>2, <2>3 DEF AltBefore
  <2>5. NextPending(c) = pending
    BY <1>7, RootShape DEF NextPending
  <2> QED
    BY <1>1, <2>4, <2>5
<1> QED
  BY <1>6, <1>7

LEMMA WalkNames ==
  ASSUME TypeOK, NamesInv, WalkChunk
  PROVE  NamesInv'
<1>1. IsBlock(Tail(walk)) /\ IsChunk(Head(walk))
  BY BlockTail DEF WalkChunk, NamesInv
<1>2. PICK c : c = Head(walk)
  OBVIOUS
<1>3. UNCHANGED <<file, base>> /\ phase = "walk" /\ phase' \in {"walk", "error"} /\ walk' \in {walk, Tail(walk)}
  BY DEF WalkChunk
<1>4. IsBlock(walk')
  BY <1>1, <1>3 DEF NamesInv
<1>5. CASE UNCHANGED <<roots, hxv4, entries, pending>>
  <2>1. \A r \in Nat : AltBefore(r)' = AltBefore(r)
    BY <1>5 DEF AltBefore, Before, Meets
  <2>2. Len(roots) + 1 \in Nat
    BY DEF TypeOK
  <2>3. AltBefore(Len(roots) + 1)' = AltBefore(Len(roots) + 1)
    BY <1>5 DEF AltBefore, Before, Meets
  <2>4. \A e : Belongs(e) => Belongs(e)'
    BY <1>5 DEF Belongs, AltBefore, Before, Meets
  <2>5. OwnRoots => OwnRoots'
    BY <1>5 DEF OwnRoots
  <2> QED
    BY <1>3, <1>4, <1>5, <2>3, <2>4, <2>5 DEF NamesInv
<1>6. CASE ~ UNCHANGED <<roots, hxv4, entries, pending>>
  <2>1. /\ phase' = "walk"
        /\ roots' = Append(roots, Root(c))
        /\ hxv4' = IF Classify(c) = "Hxv4SpecialIndex" /\ hxv4 = 0 THEN Len(roots) + 1 ELSE hxv4
        /\ entries' = IF MakesEntry(c) THEN Append(entries, EntryOf(c)) ELSE entries
        /\ pending' = NextPending(c)
    BY <1>2, <1>3, <1>6 DEF WalkChunk
  <2>2. PICK S : roots \in Seq(S)
    BY DEF TypeOK
  <2>3. PICK T : entries \in Seq(T)
    BY DEF TypeOK
  <2>4. PICK n \in Nat : n = Len(roots)
    BY <2>2
  <2>5. /\ Len(roots') = n + 1 /\ DOMAIN roots = 1 .. n /\ DOMAIN roots' = 1 .. n + 1
        /\ \A i \in 1 .. n : roots'[i] = roots[i]
        /\ roots'[n + 1] = Root(c)
    BY <2>1, <2>2, <2>4, Grown
  <2>6. pending = AltBefore(n + 1) /\ OwnRoots
    BY <1>3, <2>4 DEF NamesInv
  <2>7. pending' = AltBefore(Len(roots) + 1)'
    BY <2>1, <2>2, <2>4, <2>6, PendingStep
  <2>8. \A q \in 1 .. n : Alike(roots'[q], roots[q])
    BY <2>5 DEF Alike
  <2>9. hxv4 \in 0 .. n /\ (hxv4 # 0 => hxv4' = hxv4)
    BY <2>1, <2>4 DEF TypeOK
  <2>10. ASSUME NEW e, Belongs(e)
         PROVE  Belongs(e)' /\ e.root \in 1 .. n
    <3>1. n <= n + 1 /\ n + 1 \in Nat
      OBVIOUS
    <3>2. Belongs(e)'
      BY <2>4, <2>5, <2>8, <2>9, <2>10, <3>1, BelongsKept
    <3> QED
      BY <2>4, <2>10, <3>2 DEF Belongs
  <2>11. ASSUME MakesEntry(c), NEW e, e = EntryOf(c)
         PROVE  Belongs(e)' /\ e.root = n + 1 /\ e.id = Root(c).id
    <3>2. /\ IsEntry(e) /\ e.root = n + 1 /\ e.alt = pending /\ e.id = Root(c).id /\ e.segs = c.segs /\ e.name = c.name
      BY <2>4, <2>11 DEF EntryOf, IsEntry
    <3>3. e.segs \in Seq(Segment)
      BY <1>1, <1>2, <3>2 DEF IsChunk
    <3>4. AltBefore(e.root)' = e.alt
      <4>1. n + 1 \in Nat /\ \A q \in 1 .. n + 1 - 1 : Alike(roots'[q], roots[q])
        BY <2>8
      <4>2. AltBefore(n + 1)' = AltBefore(n + 1)
        BY <4>1, SameBefore
      <4> QED
        BY <2>6, <3>2, <4>2
    <3>5. ~IsDummy(IF e.alt # None THEN e.alt ELSE e.name)
      BY <2>11, <3>2 DEF MakesEntry, ShownName
    <3>6. e.id # NoId => hxv4' # 0 /\ hxv4' < e.root
      BY <2>9, <3>2, RootShape
    <3>7. e.root \in 1 .. Len(roots')
      BY <2>5, <3>2
    <3>8. Belongs(e)'
      BY <3>2, <3>3, <3>4, <3>5, <3>6, <3>7 DEF Belongs
    <3> QED
      BY <3>2, <3>8
  <2>12. \A r \in DOMAIN roots' : IsRoot(roots'[r]) /\ (roots'[r].range # <<>> => IsDescriptor(roots'[r].range))
    <3>1. IsRoot(Root(c)) /\ (Root(c).range # <<>> => IsDescriptor(Root(c).range))
      BY <1>1, <1>2, RootShape DEF IsChunk, IsDescriptor
    <3>2. \A r \in 1 .. n + 1 : r \in 1 .. n \/ r = n + 1
      OBVIOUS
    <3>3. \A r \in 1 .. n : IsRoot(roots[r]) /\ (roots[r].range # <<>> => IsDescriptor(roots[r].range))
      BY <2>5 DEF NamesInv
    <3> QED
      BY <2>5, <3>1, <3>2, <3>3
  <2>13. CASE ~MakesEntry(c)
    <3>1. entries' = entries
      BY <2>1, <2>13
    <3>2. \A i \in DOMAIN entries : entries[i].root \in 1 .. n
      BY <2>10 DEF NamesInv
    <3>3. OwnRoots'
      BY <2>5, <2>6, <3>1, <3>2 DEF OwnRoots
    <3>4. \A i \in DOMAIN entries' : Belongs(entries[i])'
      <4>1. ASSUME NEW i \in DOMAIN entries
            PROVE  Belongs(entries[i])'
        <5>1. PICK e : e = entries[i]
          OBVIOUS
        <5>2. Belongs(e)'
          BY <2>10, <5>1 DEF NamesInv
        <5> QED
          BY <3>1, <5>1, <5>2
      <4> QED
        BY <3>1, <4>1
    <3> QED
      BY <1>3, <1>4, <2>1, <2>7, <2>12, <3>3, <3>4 DEF NamesInv
  <2>14. CASE MakesEntry(c)
    <3>1. entries' = Append(entries, EntryOf(c))
      BY <2>1, <2>14
    <3>2. PICK x : x = EntryOf(c)
      OBVIOUS
    <3>3. PICK m \in Nat : m = Len(entries)
      BY <2>3
    <3>4. /\ DOMAIN entries = 1 .. m /\ DOMAIN entries' = 1 .. m + 1
          /\ \A i \in 1 .. m : entries'[i] = entries[i]
          /\ entries'[m + 1] = x
      BY <2>3, <3>1, <3>2, <3>3, Grown
    <3>5. \A i \in 1 .. m + 1 : i \in 1 .. m \/ i = m + 1
      OBVIOUS
    <3>6. Belongs(x)' /\ x.root = n + 1 /\ x.id = Root(c).id /\ Root(c).kind = "File"
      BY <2>11, <2>14, <3>2, RootShape
    <3>7. \A i \in 1 .. m : entries[i].root \in 1 .. n
      BY <2>10, <3>4 DEF NamesInv
    <3>8. OwnRoots'
      <4>1. \A i \in 1 .. m + 1 : roots'[entries'[i].root].kind = "File" /\ roots'[entries'[i].root].id = entries'[i].id
        BY <2>5, <2>6, <3>4, <3>5, <3>6, <3>7 DEF OwnRoots
      <4>2. \A i, j \in 1 .. m + 1 : entries'[i].root = entries'[j].root => i = j
        <5>1. n + 1 \notin 1 .. n
          OBVIOUS
        <5> QED
          BY <2>6, <3>4, <3>5, <3>6, <3>7, <5>1 DEF OwnRoots
      <4> QED
        BY <3>4, <4>1, <4>2 DEF OwnRoots
    <3>9. \A i \in DOMAIN entries' : Belongs(entries[i])'
      <4>1. ASSUME NEW i \in DOMAIN entries'
            PROVE  Belongs(entries[i])'
        <5>1. PICK e : e = entries'[i]
          OBVIOUS
        <5>2. Belongs(e)'
          <6>1. CASE i \in 1 .. m
            BY <2>10, <3>4, <5>1, <6>1 DEF NamesInv
          <6>2. CASE i = m + 1
            BY <3>4, <3>6, <5>1, <6>2
          <6> QED
            BY <3>4, <3>5, <6>1, <6>2
        <5> QED
          BY <5>1, <5>2
      <4> QED
        BY <4>1
    <3> QED
      BY <1>3, <1>4, <2>1, <2>7, <2>12, <3>8, <3>9 DEF NamesInv
  <2> QED
    BY <2>13, <2>14
<1> QED
  BY <1>5, <1>6

(* The startup name is given to an entry that stays what it is otherwise.  *)
Renamed(d, e) == d = e \/ d = [e EXCEPT !.name = "startup"]

LEMMA RenamedBelongs ==
  ASSUME NEW d, NEW e, Renamed(d, e), Belongs(e)
  PROVE  Belongs(d) /\ d.root = e.root
<1>1. IsEntry(e)
  BY DEF Belongs
<1>2. /\ IsEntry(d) /\ d.root = e.root /\ d.alt = e.alt /\ d.id = e.id /\ d.segs = e.segs
      /\ d.name \in {e.name, "startup"}
  BY <1>1 DEF Renamed, IsEntry
<1> QED
  BY <1>2 DEF Belongs, IsDummy

LEMMA AnchoredOnes ==
  ASSUME NEW es
  PROVE  \/ Anchored(es) = es
         \/ DOMAIN Anchored(es) = DOMAIN es /\ \A i \in DOMAIN es : Renamed(Anchored(es)[i], es[i])
  BY DEF Anchored, Renamed

LEMMA Removed ==
  ASSUME NEW S, NEW s \in Seq(S), NEW m \in 1 .. Len(s)
  PROVE  \A j \in DOMAIN RemoveAt(s, m) : \E k \in DOMAIN s : k # m /\ RemoveAt(s, m)[j] = s[k]
<1> PICK n \in Nat : n = Len(s)
  OBVIOUS
<1> DEFINE a == SubSeq(s, 1, m - 1)
           b == SubSeq(s, m + 1, n)
<1>1. /\ a \in Seq(S) /\ Len(a) = m - 1 /\ \A i \in 1 .. m - 1 : a[i] = s[i]
      /\ b \in Seq(S) /\ Len(b) = n - m /\ \A i \in 1 .. n - m : b[i] = s[i + m]
  OBVIOUS
<1>2. RemoveAt(s, m) = a \o b
  BY DEF RemoveAt
<1> HIDE DEF a, b
<1>3. /\ DOMAIN (a \o b) = 1 .. n - 1
      /\ \A i \in 1 .. n - 1 : (a \o b)[i] = IF i <= m - 1 THEN a[i] ELSE b[i - (m - 1)]
  BY <1>1
<1>4. ASSUME NEW j \in 1 .. n - 1
      PROVE  \E k \in DOMAIN s : k # m /\ (a \o b)[j] = s[k]
  <2>1. CASE j <= m - 1
    <3>1. j \in 1 .. m - 1 /\ j \in DOMAIN s /\ j # m
      BY <2>1
    <3> QED
      BY <1>1, <1>3, <2>1, <3>1
  <2>2. CASE ~(j <= m - 1)
    <3>1. j - (m - 1) \in 1 .. n - m /\ j + 1 \in DOMAIN s /\ j + 1 # m
      BY <2>2
    <3>2. (a \o b)[j] = s[j - (m - 1) + m]
      BY <1>1, <1>3, <2>2, <3>1
    <3>3. j - (m - 1) + m = j + 1
      OBVIOUS
    <3> QED
      BY <3>1, <3>2, <3>3
  <2> QED
    BY <2>1, <2>2
<1> QED
  BY <1>2, <1>3, <1>4

LEMMA AtMostOne ==
  ASSUME NEW Z, IsFiniteSet(Z), Cardinality(Z) <= 1, NEW a \in Z, NEW b \in Z
  PROVE  a = b
<1> SUFFICES ASSUME a # b
             PROVE  FALSE
  OBVIOUS
<1>1. Cardinality({a}) = 1 /\ IsFiniteSet({a})
  BY FS_Singleton
<1>2. {a} \cup {b} \in SUBSET Z /\ b \notin {a}
  OBVIOUS
<1>3. Cardinality({a} \cup {b}) = Cardinality({a}) + 1
  BY <1>1, <1>2, FS_AddElement, Zenon
<1>4. Cardinality({a} \cup {b}) <= Cardinality(Z) /\ Cardinality(Z) \in Nat
  BY <1>2, FS_Subset, FS_CardinalityType
<1> QED
  BY <1>1, <1>3, <1>4

LEMMA PruneNames ==
  ASSUME TypeOK, NamesInv, Prune
  PROVE  NamesInv'
<1> DEFINE Marks == {r \in DOMAIN roots : roots[r].kind = "File" /\ roots[r].id = 0}
<1>1. UNCHANGED <<file, base, walk, hxv4>> /\ phase = "prune" /\ phase' \in {"open", "error"}
  BY DEF Prune
<1>2. PICK S : roots \in Seq(S)
  BY DEF TypeOK
<1>3. PICK n \in Nat : n = Len(roots) /\ DOMAIN roots = 1 .. n
  BY <1>2
<1>4. OwnRoots /\ \A i \in DOMAIN entries : Belongs(entries[i]) /\ entries[i].root \in 1 .. n
  BY <1>1, <1>3 DEF NamesInv, Belongs
<1>5. \A r \in DOMAIN roots : IsRoot(roots[r]) /\ (roots[r].range # <<>> => IsDescriptor(roots[r].range))
  BY DEF NamesInv
<1>6. CASE phase' = "error"
  <2>1. UNCHANGED <<entries, roots>>
    BY <1>6 DEF Prune
  <2>2. \A e : Belongs(e) => Belongs(e)'
    BY <1>1, <2>1 DEF Belongs, AltBefore, Before, Meets
  <2>3. \A i \in DOMAIN entries : Belongs(entries[i])'
    BY <2>1, <2>2 DEF NamesInv
  <2> QED
    BY <1>1, <1>6, <2>1, <2>3 DEF NamesInv
<1>7. CASE phase' = "open" /\ UNCHANGED roots /\ entries' = Anchored(entries)
  <2>1. \A e : Belongs(e) => Belongs(e)'
    BY <1>1, <1>7 DEF Belongs, AltBefore, Before, Meets
  <2>2. ASSUME NEW i \in DOMAIN entries'
        PROVE  Belongs(entries[i])' /\ roots'[entries'[i].root].kind = "File"
    <3>1. i \in DOMAIN entries /\ Renamed(entries'[i], entries[i])
      BY <1>7, AnchoredOnes DEF Renamed
    <3>2. PICK d : d = entries'[i]
      OBVIOUS
    <3>3. Belongs(d) /\ d.root = entries[i].root
      BY <1>4, <3>1, <3>2, RenamedBelongs
    <3> QED
      BY <1>4, <1>7, <2>1, <3>1, <3>2, <3>3 DEF OwnRoots
  <2> QED
    BY <1>1, <1>5, <1>7, <2>2 DEF NamesInv
<1>8. CASE /\ phase' = "open" /\ Suspects # {}
           /\ entries' = Anchored(RemoveAt(entries, MinOf(Suspects)))
           /\ roots' = IF Marks = {} THEN roots ELSE [roots EXCEPT ![MinOf(Marks)].kind = "ProtectedFile"]
  <2>1. PICK T : entries \in Seq(T)
    BY DEF TypeOK
  <2>2. PICK s : s = MinOf(Suspects)
    OBVIOUS
  <2>3. s \in Suspects /\ s \in DOMAIN entries /\ s \in 1 .. Len(entries) /\ entries[s].id = 0
    <3>1. Suspects \subseteq 1 .. Len(entries) /\ 1 .. Len(entries) \subseteq Nat /\ DOMAIN entries = 1 .. Len(entries)
      BY <2>1 DEF Suspects
    <3>2. Suspects \subseteq Nat
      BY <3>1
    <3>3. s \in Suspects
      BY <1>8, <2>2, <3>2, HasLeast
    <3> QED
      BY <3>1, <3>3 DEF Suspects
  <2>4. entries[s].root \in Marks
    BY <1>3, <1>4, <2>3 DEF OwnRoots
  <2>5. PICK m : m = MinOf(Marks)
    OBVIOUS
  <2>6. m \in Marks /\ m \in 1 .. n
    <3>1. Marks \subseteq Nat
      BY <1>3
    <3>2. m \in Marks
      BY <2>4, <2>5, <3>1, HasLeast
    <3> QED
      BY <1>3, <3>2
  <2>7. roots' = [roots EXCEPT ![m].kind = "ProtectedFile"]
    BY <1>8, <2>4, <2>5
  <2>8. /\ DOMAIN roots' = DOMAIN roots
        /\ \A r \in DOMAIN roots : r # m => roots'[r] = roots[r]
        /\ roots'[m] = [roots[m] EXCEPT !.kind = "ProtectedFile"]
    BY <1>3, <2>6, <2>7
  <2>9. roots[m].kind = "File" /\ roots[m].id = 0 /\ IsRoot(roots[m])
    BY <1>5, <2>6
  <2>10. /\ roots'[m].name = roots[m].name /\ roots'[m].id = roots[m].id /\ roots'[m].range = roots[m].range
         /\ roots'[m].kind = "ProtectedFile" /\ IsRoot(roots'[m])
    BY <2>8, <2>9 DEF IsRoot
  <2>11. \A r \in 1 .. n : Alike(roots'[r], roots[r]) /\ roots'[r].id = roots[r].id /\ IsRoot(roots'[r]) /\ roots'[r].range = roots[r].range
    <3>1. \A r \in 1 .. n : r = m \/ roots'[r] = roots[r]
      BY <1>3, <2>8
    <3>2. Alike(roots'[m], roots[m])
      BY <2>9, <2>10 DEF Alike
    <3> QED
      BY <1>3, <1>5, <2>10, <3>1, <3>2 DEF Alike
  <2>12. Len(roots') = n
    <3>1. \A r \in DOMAIN roots : roots[r].kind \in RootKinds
      BY DEF TypeOK
    <3> QED
      BY <1>2, <1>3, <2>7, <3>1, Marked
  <2>13. ASSUME NEW e, Belongs(e)
         PROVE  Belongs(e)'
    BY <1>1, <1>3, <2>11, <2>12, <2>13, BelongsKept
  <2> DEFINE es == RemoveAt(entries, s)
  <2>14. ASSUME NEW i \in DOMAIN entries'
         PROVE  /\ Belongs(entries[i])'
                /\ \E k \in DOMAIN entries : k # s /\ entries'[i].root = entries[k].root
    <3>1. i \in DOMAIN es /\ Renamed(entries'[i], es[i])
      BY <1>8, <2>2, AnchoredOnes DEF Renamed
    <3>2. PICK k \in DOMAIN entries : k # s /\ es[i] = entries[k]
      BY <2>1, <2>3, <3>1, Removed
    <3>3. PICK d : d = entries'[i]
      OBVIOUS
    <3> HIDE DEF es
    <3>4. Renamed(d, entries[k]) /\ Belongs(entries[k])
      BY <1>4, <3>1, <3>2, <3>3
    <3>5. Belongs(d) /\ d.root = entries[k].root
      BY <3>4, RenamedBelongs
    <3>6. Belongs(d)'
      BY <2>13, <3>5
    <3> QED
      BY <3>2, <3>3, <3>5, <3>6
  <2>15. ASSUME OneWarning', NEW i \in DOMAIN entries'
         PROVE  roots'[entries'[i].root].kind = "File"
    <3> DEFINE Z == {r \in 1 .. n : roots'[r].id = 0}
    <3>1. IsFiniteSet(Z) /\ Cardinality(Z) <= 1
      <4>1. IsFiniteSet(1 .. n)
        BY FS_Interval
      <4>2. Z \subseteq 1 .. n
        OBVIOUS
      <4>3. IsFiniteSet(Z)
        BY <4>1, <4>2, FS_Subset
      <4> QED
        BY <1>3, <2>8, <2>15, <4>3 DEF OneWarning
    <3>2. m \in Z /\ entries[s].root \in Z
      BY <1>3, <2>4, <2>6, <2>11
    <3> HIDE DEF Z
    <3>3. entries[s].root = m
      BY <3>1, <3>2, AtMostOne
    <3>4. PICK k \in DOMAIN entries : k # s /\ entries'[i].root = entries[k].root
      BY <2>14
    <3>5. entries[k].root # m /\ entries[k].root \in 1 .. n /\ roots[entries[k].root].kind = "File"
      BY <1>4, <2>3, <3>3, <3>4 DEF OwnRoots
    <3> QED
      BY <1>3, <2>8, <3>4, <3>5
  <2> QED
    BY <1>1, <1>3, <1>5, <1>8, <2>8, <2>11, <2>14, <2>15 DEF NamesInv
<1> QED
  BY <1>6, <1>7, <1>8 DEF Prune

LEMMA NamesStep ==
  ASSUME TypeOK, NamesInv, [Next]_vars
  PROVE  NamesInv'
<1>1. ASSUME UNCHANGED <<roots, hxv4, entries, pending>>
      PROVE  /\ AltBefore(Len(roots) + 1)' = AltBefore(Len(roots) + 1)
             /\ OwnRoots' <=> OwnRoots
             /\ \A e : Belongs(e) => Belongs(e)'
  BY <1>1 DEF Belongs, OwnRoots, AltBefore, Before, Meets
<1>2. ASSUME UNCHANGED <<file, roots, hxv4, entries, pending>>, IsBlock(walk'),
             phase' \in {"block", "walk", "prune", "open"} => base' = ScanMemory(file),
             phase \in {"open", "error"} => phase' = phase, phase' = "open" => phase = "open"
      PROVE  NamesInv'
  <2>1. \A i \in DOMAIN entries : Belongs(entries[i])'
    BY <1>1, <1>2 DEF NamesInv
  <2> QED
    BY <1>1, <1>2, <2>1 DEF NamesInv, OneWarning
<1>3. CASE Locate
  <2>1. base' = ScanMemory(file)
    BY <1>3, ScansAgree DEF Locate, NamesInv
  <2>2. UNCHANGED <<file, roots, hxv4, entries, pending, walk>> /\ phase = "locate" /\ phase' \in {"block", "error"}
    BY <1>3 DEF Locate
  <2> QED
    BY <1>2, <2>1, <2>2 DEF NamesInv
<1>4. CASE ReadBlock
  <2>1. UNCHANGED <<file, base, roots, hxv4, entries, pending>> /\ phase = "block" /\ phase' \in {"walk", "error"}
    BY <1>4 DEF ReadBlock
  <2>2. IsBlock(walk')
    BY <1>4, FileAssumption DEF ReadBlock, NamesInv
  <2> QED
    BY <1>2, <2>1, <2>2 DEF NamesInv
<1>5. CASE EndBlock
  <2>1. UNCHANGED <<file, base, roots, hxv4, entries, pending, walk>> /\ phase = "walk" /\ phase' \in {"block", "prune", "error"}
    BY <1>5 DEF EndBlock
  <2> QED
    BY <1>2, <2>1 DEF NamesInv
<1>6. CASE UNCHANGED parseVars
  BY <1>2, <1>6 DEF parseVars, NamesInv
<1>7. ASSUME NEW t \in Readers, Read(t)
      PROVE  UNCHANGED parseVars
  BY <1>7 DEF Read, BeginEntry, BeginBlob, Refuse, ReadMemory, Seek, ReadExact, FillBlob, FinishEntry
<1> QED
  BY <1>3, <1>4, <1>5, <1>6, <1>7, WalkNames, PruneNames DEF Next, Parse, vars

LEMMA NamesFollow ==
  ASSUME IInv, NamesInv
  PROVE  OpenedAsRead
<1>1. ASSUME phase = "open", NEW i \in DOMAIN entries
      PROVE  /\ entries[i].alt = AltBefore(entries[i].root)
             /\ ~IsDummy(IF entries[i].alt # None THEN entries[i].alt ELSE entries[i].name)
             /\ entries[i].id # NoId => hxv4 # 0 /\ hxv4 < entries[i].root
             /\ OneWarning => roots[entries[i].root].kind = "File"
  BY <1>1 DEF NamesInv, Belongs
<1>2. phase = "open" => NamesBelong
  BY <1>1 DEF NamesBelong, AltBefore, OneWarning
<1>3. phase = "open" => base = ScanMemory(file) /\ ChainComplete
  BY LinkedOnce DEF NamesInv, IInv
<1> QED
  BY <1>2, <1>3 DEF OpenedAsRead

(* Where the names of the entries stand while the index is walked.         *)
THEOREM NamesInductive == Spec => [](IInv /\ NamesInv)
<1>1. Init => IInv /\ NamesInv
  BY ArchiveInit, NamesInit
<1>2. IInv /\ NamesInv /\ [Next]_vars => (IInv /\ NamesInv)'
  BY ArchiveStep, NamesStep DEF IInv
<1> QED
  BY <1>1, <1>2, PTL DEF Spec

(* An archive that is open was found where a parse in memory finds it, has *)
(* its whole chain, and its names stand on the entries they precede, with  *)
(* or without a warning among them, for any file.                          *)
THEOREM OpeningCorrect == Spec => []OpenedAsRead
  BY NamesInductive, NamesFollow, PTL

----------------------------------------------------------------------------
(* Pieces put together: FlattenSeq joins the pieces one by one, so what    *)
(* has been joined before piece i is known when it comes.                  *)

Joining(s) ==
  LET flatten[i \in 1 .. Len(s)] == IF i = 1 THEN s[i] ELSE flatten[i-1] \o s[i]
  IN  flatten

LEMMA FlattenIsJoining ==
  ASSUME NEW s PROVE FlattenSeq(s) = IF Len(s) = 0 THEN s ELSE Joining(s)[Len(s)]
BY DEF FlattenSeq, Joining

(* f joins the first n pieces of s, from the left.                        *)
Joins(s, n, f) == f = [i \in 1 .. n |-> IF i = 1 THEN s[i] ELSE f[i-1] \o s[i]]

LEMMA Joinable ==
  ASSUME NEW s
  PROVE  \A n \in Nat : \E f : Joins(s, n, f)
<1> DEFINE Not == {n \in Nat : ~ \E f : Joins(s, n, f)}
<1> SUFFICES ASSUME Not # {}
             PROVE  FALSE
  OBVIOUS
<1>1. PICK n \in Not : \A m \in Not : n <= m
  BY HasLeast
<1>2. CASE n = 0
  <2>1. Joins(s, 0, [i \in 1 .. 0 |-> 0])
    BY DEF Joins
  <2> QED
    BY <1>1, <1>2, <2>1
<1>3. CASE n # 0
  <2>1. n - 1 \in Nat /\ n - 1 \notin Not
    BY <1>1, <1>3
  <2>2. PICK f : Joins(s, n - 1, f)
    BY <2>1
  <2> DEFINE g == [i \in 1 .. n |-> IF i \in 1 .. n - 1 THEN f[i] ELSE IF i = 1 THEN s[i] ELSE f[i-1] \o s[i]]
  <2>3. \A i \in 1 .. n - 1 : f[i] = IF i = 1 THEN s[i] ELSE f[i-1] \o s[i]
    BY <2>2 DEF Joins
  <2>4. ASSUME NEW i \in 1 .. n
        PROVE  g[i] = IF i = 1 THEN s[i] ELSE g[i-1] \o s[i]
    <3>1. i = 1 \/ i - 1 \in 1 .. n - 1
      BY <2>1
    <3>2. i - 1 \in 1 .. n - 1 => g[i - 1] = f[i - 1]
      BY <2>1
    <3>3. g[i] = IF i \in 1 .. n - 1 THEN f[i] ELSE IF i = 1 THEN s[i] ELSE f[i-1] \o s[i]
      OBVIOUS
    <3>4. g[i] = IF i = 1 THEN s[i] ELSE f[i-1] \o s[i]
      <4> HIDE DEF g
      <4> QED BY <2>3, <3>3
    <3> HIDE DEF g
    <3> QED
      BY <3>1, <3>2, <3>4
  <2>5. g = [i \in 1 .. n |-> g[i]]
    OBVIOUS
  <2> HIDE DEF g
  <2>6. Joins(s, n, g)
    BY <2>4, <2>5 DEF Joins
  <2> QED
    BY <1>1, <2>6
<1> QED
  BY <1>2, <1>3

LEMMA JoiningStep ==
  ASSUME NEW s, Len(s) \in Nat
  PROVE  \A i \in 1 .. Len(s) : Joining(s)[i] = IF i = 1 THEN s[i] ELSE Joining(s)[i-1] \o s[i]
<1>1. Joins(s, Len(s), Joining(s))
  <2>1. Joining(s) = CHOOSE f : Joins(s, Len(s), f)
    BY DEF Joining, Joins
  <2> QED
    BY <2>1, Joinable
<1> DEFINE f == Joining(s)
<1>2. f = [i \in 1 .. Len(s) |-> IF i = 1 THEN s[i] ELSE f[i-1] \o s[i]]
  BY <1>1 DEF Joins
<1> HIDE DEF f
<1>3. \A i \in 1 .. Len(s) : f[i] = IF i = 1 THEN s[i] ELSE f[i-1] \o s[i]
  BY <1>2
<1> QED
  BY <1>3 DEF f

Upto(s, k) == IF k = 0 THEN <<>> ELSE Joining(s)[k]

LEMMA UptoStep ==
  ASSUME NEW s \in Seq(Seq(Int))
  PROVE  /\ \A k \in 1 .. Len(s) : Upto(s, k) = Upto(s, k - 1) \o s[k]
         /\ FlattenSeq(s) = Upto(s, Len(s))
<1>1. Len(s) \in Nat /\ \A k \in 1 .. Len(s) : s[k] \in Seq(Int)
  OBVIOUS
<1>2. \A k \in 1 .. Len(s) : Joining(s)[k] = IF k = 1 THEN s[k] ELSE Joining(s)[k - 1] \o s[k]
  BY <1>1, JoiningStep
<1>3. ASSUME NEW k \in 1 .. Len(s)
      PROVE  Upto(s, k) = Upto(s, k - 1) \o s[k]
  <2>1. CASE k = 1
    <3>1. <<>> \o s[k] = s[k]
      BY <1>1
    <3> QED
      BY <1>2, <2>1, <3>1 DEF Upto
  <2>2. CASE k # 1
    <3>1. k # 0 /\ k - 1 # 0
      BY <2>2
    <3> QED
      BY <1>2, <2>2, <3>1 DEF Upto
  <2> QED
    BY <2>1, <2>2
<1>4. Len(s) = 0 => s = <<>>
  OBVIOUS
<1> QED
  BY <1>3, <1>4, FlattenIsJoining DEF Upto

----------------------------------------------------------------------------
(* What has been read *)

PiecesOf(e) == [k \in DOMAIN e.segs |-> Decoded(e.segs[k], e.segs[k].at)]
BlobRange == roots[MinOf(Special)].range

(* A reader has the pieces before the segment it is to read next.          *)
Progress(r) ==
  IF r.entry = 0
  THEN \/ r.left = BlobRange /\ r.got = <<>>
       \/ r.left = <<>> /\ r.got = Raw(BlobRange[1])
  ELSE /\ r.entry \in DOMAIN entries
       /\ \E k \in 0 .. Len(entries[r.entry].segs) :
            /\ r.left = SubSeq(entries[r.entry].segs, k + 1, Len(entries[r.entry].segs))
            /\ r.got = Upto(PiecesOf(entries[r.entry]), k)

Right(r) ==
  IF r.entry = 0 THEN r.got = Raw(BlobRange[1])
  ELSE LET e == entries[r.entry]
           whole == FlattenSeq(PiecesOf(e))
       IN  \/ r.got = whole /\ Len(whole) = e.orig
           \/ r.got = Inflated(file.len, e.orig) /\ Len(whole) = e.arch /\ e.arch # e.orig

Reads(r) ==
  /\ r.pc # "idle" => phase = "open"
  /\ r.entry = 0 /\ r.pc \in {"next", "read"} => IsDescriptor(BlobRange)
  /\ r.pc \in {"next", "read"} => Progress(r)
  /\ r.pc = "read" => r.left # <<>> /\ ~Broken(Head(r.left))
  /\ r.pc = "done" => Right(r)

ReadsInv == \A t \in Readers : Reads(reader[t])

LEMMA DecodedPiece ==
  ASSUME NEW s \in Segment
  PROVE  /\ Decoded(s, s.at) \in Seq(Int)
         /\ s.method = "raw" => Decoded(s, s.at) = Raw(s)
<1>1. s.at \in Nat /\ s.orig \in Nat /\ s.stored \in Nat
  BY DEF Segment
<1>2. [s EXCEPT !.at = s.at] = s
  BY DEF Segment
<1>3. Raw(s) \in Seq(Int)
  <2>1. Raw(s) \in [1 .. s.stored -> Int]
    BY <1>1 DEF Raw
  <2> QED
    BY <1>1, <2>1
<1>4. Inflated(s.at, s.orig) \in Seq(Int)
  <2>1. Inflated(s.at, s.orig) \in [1 .. s.orig -> Int]
    BY <1>1 DEF Inflated
  <2> QED
    BY <1>1, <2>1
<1> QED
  BY <1>2, <1>3, <1>4 DEF Decoded

LEMMA PiecesTyped ==
  ASSUME NEW e, e.segs \in Seq(Segment)
  PROVE  PiecesOf(e) \in Seq(Seq(Int)) /\ Len(PiecesOf(e)) = Len(e.segs)
<1> PICK n \in Nat : n = Len(e.segs) /\ DOMAIN e.segs = 1 .. n
  OBVIOUS
<1>1. \A k \in 1 .. n : e.segs[k] \in Segment
  OBVIOUS
<1>2. \A k \in 1 .. n : Decoded(e.segs[k], e.segs[k].at) \in Seq(Int)
  BY <1>1, DecodedPiece
<1>3. PiecesOf(e) \in [1 .. n -> Seq(Int)]
  BY <1>2 DEF PiecesOf
<1> QED
  BY <1>3

LEMMA OnePiece ==
  ASSUME NEW d, IsDescriptor(d)
  PROVE  /\ d # <<>> /\ d[1] \in Segment /\ Head(d) = d[1] /\ Tail(d) = <<>>
         /\ <<>> \o Decoded(Head(d), Head(d).at) = Raw(d[1])
<1>1. d \in Seq(Segment) /\ Len(d) = 1 /\ d[1].method = "raw"
  BY DEF IsDescriptor
<1>2. d[1] \in Segment /\ Head(d) = d[1] /\ Tail(d) \in Seq(Segment) /\ Len(Tail(d)) = 0 /\ d # <<>>
  BY <1>1
<1>3. Tail(d) = <<>>
  <2>1. \A t \in Seq(Segment) : Len(t) = 0 => t = <<>>
    OBVIOUS
  <2> QED
    BY <1>2, <2>1
<1>4. PICK q \in Seq(Int) : q = Decoded(d[1], d[1].at)
  BY <1>2, DecodedPiece
<1>5. <<>> \o q = q
  OBVIOUS
<1>6. q = Raw(d[1])
  BY <1>1, <1>2, <1>4, DecodedPiece
<1> QED
  BY <1>2, <1>3, <1>4, <1>5, <1>6

(* One segment more. *)
LEMMA Advance ==
  ASSUME NamesInv, NEW r, Progress(r), r.entry = 0 => IsDescriptor(BlobRange),
         r.left # <<>>, ~Broken(Head(r.left)),
         NEW x, x.entry = r.entry, x.left = Tail(r.left), x.got = r.got \o Decoded(Head(r.left), Head(r.left).at)
  PROVE  Progress(x)
<1>1. CASE r.entry = 0
  <2>1. r.left = BlobRange /\ r.got = <<>>
    BY <1>1 DEF Progress
  <2>2. Tail(BlobRange) = <<>> /\ <<>> \o Decoded(Head(BlobRange), Head(BlobRange).at) = Raw(BlobRange[1])
    BY <1>1, OnePiece
  <2>3. x.left = <<>> /\ x.got = Raw(BlobRange[1])
    BY <2>1, <2>2
  <2> QED
    BY <1>1, <2>3 DEF Progress
<1>2. CASE r.entry # 0
  <2>1. PICK e : e = entries[r.entry]
    OBVIOUS
  <2>2. r.entry \in DOMAIN entries
    BY <1>2 DEF Progress
  <2>3. e.segs \in Seq(Segment)
    BY <2>1, <2>2 DEF NamesInv, Belongs
  <2>4. PICK n \in Nat : n = Len(e.segs) /\ DOMAIN e.segs = 1 .. n
    BY <2>3
  <2>5. PICK k \in 0 .. n : r.left = SubSeq(e.segs, k + 1, n) /\ r.got = Upto(PiecesOf(e), k)
    BY <1>2, <2>1, <2>4 DEF Progress
  <2>6. k # n
    <3>1. SubSeq(e.segs, n + 1, n) = <<>>
      BY <2>3, <2>4
    <3> QED
      BY <2>5, <3>1
  <2>7. k + 1 \in 1 .. n /\ k + 1 \in 0 .. n /\ k + 1 - 1 = k
    BY <2>6
  <2>8. Head(r.left) = e.segs[k + 1] /\ Tail(r.left) = SubSeq(e.segs, k + 1 + 1, n)
    BY <2>3, <2>4, <2>5, <2>7
  <2>9. Decoded(Head(r.left), Head(r.left).at) = PiecesOf(e)[k + 1]
    BY <2>4, <2>7, <2>8 DEF PiecesOf
  <2>10. Upto(PiecesOf(e), k + 1) = Upto(PiecesOf(e), k) \o PiecesOf(e)[k + 1]
    <3>1. PICK p \in Seq(Seq(Int)) : p = PiecesOf(e) /\ Len(p) = n
      BY <2>3, <2>4, PiecesTyped
    <3>2. \A j \in 1 .. n : Upto(p, j) = Upto(p, j - 1) \o p[j]
      BY <3>1, UptoStep
    <3>3. PICK j \in 1 .. n : j = k + 1 /\ j - 1 = k
      BY <2>7
    <3>4. Upto(p, j) = Upto(p, j - 1) \o p[j]
      BY <3>2
    <3> QED
      BY <3>1, <3>3, <3>4
  <2>11. x.left = SubSeq(e.segs, k + 1 + 1, n) /\ x.got = Upto(PiecesOf(e), k + 1)
    BY <2>5, <2>8, <2>9, <2>10
  <2> QED
    BY <1>2, <2>1, <2>2, <2>4, <2>7, <2>11 DEF Progress
<1> QED
  BY <1>1, <1>2

LEMMA ReadsSame ==
  ASSUME UNCHANGED parseVars, NEW r, Reads(r)
  PROVE  Reads(r)'
  BY DEF parseVars, Reads, Progress, Right, BlobRange, Special, Broken, InFile

(* It is enough to look at the one reader that steps.                      *)
LEMMA OneReads ==
  ASSUME TypeOK, ReadsInv, UNCHANGED parseVars, NEW t \in Readers, NEW x, Reads(x), reader' = [reader EXCEPT ![t] = x]
  PROVE  ReadsInv'
<1>1. reader = [u \in Readers |-> reader[u]]
  BY DEF TypeOK
<1>2. \A u \in Readers : reader'[u] = IF u = t THEN x ELSE reader[u]
  BY <1>1
<1>3. ASSUME NEW u \in Readers
      PROVE  Reads(reader[u])'
  <2>1. PICK r : r = reader'[u]
    OBVIOUS
  <2>2. Reads(r)
    BY <1>2, <2>1 DEF ReadsInv
  <2>3. Reads(r)'
    BY <2>2, ReadsSame
  <2> QED
    BY <2>1, <2>3
<1> QED
  BY <1>3 DEF ReadsInv

LEMMA GoesReads ==
  ASSUME TypeOK, ReadsInv, UNCHANGED parseVars, NEW t \in Readers, NEW p, NEW l, NEW g,
         Goes(t, p, l, g), Reads([pc |-> p, entry |-> reader[t].entry, left |-> l, got |-> g])
  PROVE  ReadsInv'
<1>1. reader' = [reader EXCEPT ![t] = [pc |-> p, entry |-> reader[t].entry, left |-> l, got |-> g]]
  BY DEF Goes, TypeOK
<1> QED
  BY <1>1, OneReads

LEMMA StopReads ==
  ASSUME TypeOK, ReadsInv, UNCHANGED parseVars, NEW t \in Readers, Stop(t), reader[t].pc # "idle"
  PROVE  ReadsInv'
<1>1. Reads([pc |-> "error", entry |-> reader[t].entry, left |-> <<>>, got |-> reader[t].got])
  BY DEF Reads, ReadsInv
<1> QED
  BY <1>1, GoesReads DEF Stop, Job

(* The next segment, read where it stands. *)
LEMMA PieceReads ==
  ASSUME TypeOK, NamesInv, ReadsInv, UNCHANGED parseVars, NEW t \in Readers,
         reader[t].pc \in {"next", "read"}, reader[t].left # <<>>, ~Broken(Head(reader[t].left)),
         Goes(t, "next", Tail(reader[t].left), reader[t].got \o Decoded(Head(reader[t].left), Head(reader[t].left).at))
  PROVE  ReadsInv'
<1> PICK r : r = reader[t]
  OBVIOUS
<1> PICK x : x = [pc |-> "next", entry |-> r.entry, left |-> Tail(r.left), got |-> r.got \o Decoded(Head(r.left), Head(r.left).at)]
  OBVIOUS
<1>1. phase = "open" /\ Progress(r) /\ (r.entry = 0 => IsDescriptor(BlobRange))
  BY DEF ReadsInv, Reads
<1>2. x.pc = "next" /\ x.entry = r.entry /\ x.left = Tail(r.left) /\ x.got = r.got \o Decoded(Head(r.left), Head(r.left).at)
  OBVIOUS
<1>3. Progress(x)
  BY <1>1, <1>2, Advance
<1>4. Reads(x)
  BY <1>1, <1>2, <1>3 DEF Reads
<1> QED
  BY <1>4, GoesReads

LEMMA SpecialRange ==
  ASSUME TypeOK, NamesInv, Special # {}
  PROVE  IsDescriptor(BlobRange)
<1>1. Special \subseteq DOMAIN roots /\ \A r \in Special : roots[r].range # <<>>
  BY DEF Special
<1>2. DOMAIN roots \subseteq Nat
  BY DEF TypeOK
<1>3. MinOf(Special) \in Special
  BY <1>1, <1>2, HasLeast
<1>4. MinOf(Special) \in DOMAIN roots /\ BlobRange # <<>>
  BY <1>1, <1>3 DEF BlobRange
<1> QED
  BY <1>4 DEF NamesInv, BlobRange

LEMMA ReaderReads ==
  ASSUME IInv, NamesInv, ReadsInv, NEW t \in Readers, Read(t)
  PROVE  ReadsInv'
<1> USE DEF Job
<1>1. UNCHANGED parseVars
  BY DEF Read, BeginEntry, BeginBlob, Refuse, ReadMemory, Seek, ReadExact, FillBlob, FinishEntry
<1>2. TypeOK
  BY DEF IInv
<1>3. CASE BeginEntry(t)
  <2>1. PICK i \in DOMAIN entries :
          reader' = [reader EXCEPT ![t] = [pc |-> "next", entry |-> i, left |-> entries[i].segs, got |-> <<>>]]
    BY <1>3 DEF BeginEntry
  <2>2. PICK x : x = [pc |-> "next", entry |-> i, left |-> entries[i].segs, got |-> <<>>]
    OBVIOUS
  <2>3. i # 0 /\ phase = "open"
    BY <1>2, <1>3 DEF TypeOK, BeginEntry
  <2>4. PICK s \in Seq(Segment) : s = entries[i].segs
    BY DEF NamesInv, Belongs
  <2>5. SubSeq(s, 0 + 1, Len(s)) = s /\ 0 \in 0 .. Len(s)
    OBVIOUS
  <2>6. Progress(x)
    BY <2>2, <2>3, <2>4, <2>5 DEF Progress, Upto
  <2>7. Reads(x)
    BY <2>2, <2>3, <2>6 DEF Reads
  <2> QED
    BY <1>1, <1>2, <2>1, <2>2, <2>7, OneReads
<1>4. CASE BeginBlob(t)
  <2>1. phase = "open" /\ reader[t].entry = 0 /\ IsDescriptor(BlobRange)
    BY <1>2, <1>4, SpecialRange DEF BeginBlob, Idle
  <2>2. CASE reader' = [reader EXCEPT ![t] = [pc |-> "next", entry |-> 0, left |-> BlobRange, got |-> <<>>]]
    <3>1. Reads([pc |-> "next", entry |-> 0, left |-> BlobRange, got |-> <<>>])
      BY <2>1 DEF Reads, Progress
    <3> QED
      BY <1>1, <1>2, <2>2, <3>1, OneReads
  <2>3. CASE Goes(t, "error", <<>>, <<>>)
    <3>1. Reads([pc |-> "error", entry |-> reader[t].entry, left |-> <<>>, got |-> <<>>])
      BY <2>1 DEF Reads
    <3> QED
      BY <1>1, <1>2, <2>3, <3>1, GoesReads
  <2>4. CASE Goes(t, "done", <<>>, Raw(BlobRange[1]))
    <3>1. Reads([pc |-> "done", entry |-> reader[t].entry, left |-> <<>>, got |-> Raw(BlobRange[1])])
      BY <2>1 DEF Reads, Right
    <3> QED
      BY <1>1, <1>2, <2>4, <3>1, GoesReads
  <2> QED
    BY <1>4, <2>2, <2>3, <2>4 DEF BeginBlob, BlobRange
<1>5. CASE Refuse(t)
  <2>1. Stop(t) /\ reader[t].pc # "idle"
    BY <1>5 DEF Refuse
  <2> QED
    BY <1>1, <1>2, <2>1, StopReads
<1>6. CASE ReadMemory(t)
  BY <1>1, <1>2, <1>6, PieceReads DEF ReadMemory
<1>7. CASE Seek(t)
  <2>1. /\ reader[t].pc = "next" /\ reader[t].left # <<>> /\ ~Broken(Head(reader[t].left))
        /\ Goes(t, "read", reader[t].left, reader[t].got)
    BY <1>7 DEF Seek
  <2>2. Reads(reader[t])
    BY DEF ReadsInv
  <2>3. PICK r : r = reader[t]
    OBVIOUS
  <2>4. PICK x : x = [pc |-> "read", entry |-> r.entry, left |-> r.left, got |-> r.got]
    OBVIOUS
  <2>5. x.entry = r.entry /\ x.left = r.left /\ x.got = r.got /\ x.pc = "read"
    BY <2>4
  <2>6. Progress(x)
    BY <2>1, <2>2, <2>3, <2>5 DEF Reads, Progress
  <2>7. Reads(x)
    BY <2>1, <2>2, <2>3, <2>5, <2>6 DEF Reads
  <2> QED
    BY <1>1, <1>2, <2>1, <2>3, <2>4, <2>7, GoesReads
<1>8. CASE ReadExact(t)
  <2>1. reader[t].pc = "read"
    BY <1>8 DEF ReadExact
  <2>2. cursor = Head(reader[t].left).at
    BY <2>1 DEF IInv, HandleOwned
  <2>3. reader[t].left # <<>> /\ ~Broken(Head(reader[t].left))
    BY <2>1 DEF ReadsInv, Reads
  <2>4. CASE Stop(t)
    BY <1>1, <1>2, <2>1, <2>4, StopReads
  <2>5. CASE ~Stop(t)
    <3>1. Goes(t, "next", Tail(reader[t].left), reader[t].got \o Decoded(Head(reader[t].left), Head(reader[t].left).at))
      BY <1>8, <2>2, <2>5 DEF ReadExact
    <3> QED
      BY <1>1, <1>2, <2>1, <2>3, <3>1, PieceReads
  <2> QED
    BY <2>4, <2>5
<1>9. CASE FillBlob(t)
  <2>1. reader[t].pc = "next" /\ reader[t].left = <<>> /\ reader[t].entry = 0 /\ Goes(t, "done", <<>>, reader[t].got)
    BY <1>9 DEF FillBlob
  <2>2. phase = "open" /\ IsDescriptor(BlobRange) /\ Progress(reader[t])
    BY <2>1 DEF ReadsInv, Reads
  <2>3. BlobRange # <<>>
    BY <2>2, OnePiece
  <2>4. reader[t].got = Raw(BlobRange[1])
    BY <2>1, <2>2, <2>3 DEF Progress
  <2>5. Reads([pc |-> "done", entry |-> reader[t].entry, left |-> <<>>, got |-> reader[t].got])
    BY <2>1, <2>2, <2>4 DEF Reads, Right
  <2> QED
    BY <1>1, <1>2, <2>1, <2>5, GoesReads
<1>10. CASE FinishEntry(t)
  <2>1. PICK r : r = reader[t]
    OBVIOUS
  <2>2. PICK e : e = entries[r.entry]
    OBVIOUS
  <2>3. r.pc = "next" /\ r.left = <<>> /\ r.entry # 0
    BY <1>10, <2>1 DEF FinishEntry
  <2>4. phase = "open" /\ Progress(r) /\ r.entry \in DOMAIN entries
    BY <2>1, <2>3 DEF ReadsInv, Reads, Progress
  <2>5. e.segs \in Seq(Segment)
    BY <2>2, <2>4 DEF NamesInv, Belongs
  <2>6. PICK n \in Nat : n = Len(e.segs)
    BY <2>5
  <2>7. PICK k \in 0 .. n : r.left = SubSeq(e.segs, k + 1, n) /\ r.got = Upto(PiecesOf(e), k)
    BY <2>2, <2>3, <2>4, <2>6 DEF Progress
  <2>8. k = n
    <3>1. Len(SubSeq(e.segs, k + 1, n)) = n - k
      BY <2>5, <2>6
    <3>2. n - k = 0
      BY <2>3, <2>7, <3>1
    <3> QED
      BY <3>2
  <2>9. r.got = FlattenSeq(PiecesOf(e))
    <3>1. PICK q \in Seq(Seq(Int)) : q = PiecesOf(e) /\ Len(q) = n
      BY <2>5, <2>6, PiecesTyped
    <3>2. FlattenSeq(q) = Upto(q, Len(q))
      BY UptoStep
    <3> QED
      BY <2>7, <2>8, <3>1, <3>2
  <2> DEFINE layered == Len(r.got) # e.orig /\ Len(r.got) = e.arch /\ e.layer
             p == IF Len(r.got) = e.orig \/ layered THEN "done" ELSE "error"
             g == IF layered THEN Inflated(file.len, e.orig) ELSE r.got
  <2>10. Goes(t, p, <<>>, g)
    BY <1>10, <2>1, <2>2 DEF FinishEntry
  <2>11. Reads([pc |-> p, entry |-> r.entry, left |-> <<>>, got |-> g])
    <3>1. PICK x : x = [pc |-> p, entry |-> r.entry, left |-> <<>>, got |-> g]
      OBVIOUS
    <3>2. x.entry = r.entry /\ x.got = g /\ x.pc = p
      BY <3>1
    <3>3. p = "done" => Right(x)
      BY <2>2, <2>3, <2>9, <3>2 DEF Right
    <3>4. p \in {"done", "error"}
      OBVIOUS
    <3> HIDE DEF p, g
    <3>5. Reads(x)
      BY <2>4, <3>2, <3>3, <3>4 DEF Reads
    <3> QED
      BY <3>1, <3>5
  <2> HIDE DEF p, g
  <2> QED
    BY <1>1, <1>2, <2>1, <2>10, <2>11, GoesReads
<1> QED
  BY <1>3, <1>4, <1>5, <1>6, <1>7, <1>8, <1>9, <1>10 DEF Read

LEMMA ReadsInit == Init => ReadsInv
  BY DEF Init, ReadsInv, Reads, Idle

LEMMA ReadsStep ==
  ASSUME IInv, NamesInv, ReadsInv, [Next]_vars
  PROVE  ReadsInv'
<1>1. CASE Parse
  <2>1. phase # "open" /\ UNCHANGED reader
    BY <1>1 DEF Parse, Locate, ReadBlock, WalkChunk, EndBlock, Prune, readVars
  <2>2. \A t \in Readers : reader'[t].pc = "idle"
    BY <2>1 DEF ReadsInv, Reads
  <2> QED
    BY <2>2 DEF ReadsInv, Reads
<1>2. CASE \E t \in Readers : Read(t)
  BY <1>2, ReaderReads
<1>3. CASE UNCHANGED vars
  <2>1. UNCHANGED parseVars /\ reader' = reader
    BY <1>3 DEF vars, readVars
  <2>2. ASSUME NEW t \in Readers
        PROVE  Reads(reader[t])'
    <3>1. PICK r : r = reader[t]
      OBVIOUS
    <3>2. Reads(r)'
      BY <2>1, <3>1, ReadsSame DEF ReadsInv
    <3> QED
      BY <2>1, <3>1, <3>2
  <2> QED
    BY <2>2 DEF ReadsInv
<1> QED
  BY <1>1, <1>2, <1>3 DEF Next

(* However many threads share the handle, a reader that is done has the    *)
(* bytes of its own segments, joined in order, of the length that the      *)
(* index promises (or one layer more); a blob is the range of its root.    *)
THEOREM ReadingCorrect == Spec => []ReadsOwnRange
<1>1. Init => IInv /\ NamesInv /\ ReadsInv
  BY ArchiveInit, NamesInit, ReadsInit
<1>2. IInv /\ NamesInv /\ ReadsInv /\ [Next]_vars => (IInv /\ NamesInv /\ ReadsInv)'
  BY ArchiveStep, NamesStep, ReadsStep DEF IInv
<1>3. ReadsInv => ReadsOwnRange
  BY DEF ReadsInv, Reads, Right, ReadsOwnRange, BlobRange, PiecesOf
<1> QED
  BY <1>1, <1>2, <1>3, PTL DEF Spec
=============================================================================
