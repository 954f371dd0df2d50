-------------------------- MODULE Xp3Unpack_proofs --------------------------
(***************************************************************************)
(* Proofs about Xp3Unpack, for any archive and any limits: what is         *)
(* recorded is verified, guessing is the last resort, and the batches      *)
(* implement the sequential loop of UnpackOrder.                           *)
(***************************************************************************)
EXTENDS Xp3Unpack, OperationProgress, FiniteSetTheorems, TLAPS

Choosing == pc \in {"index", "special", "native", "shared"}

(* Nothing is solved while the filters are chosen; the choice is exclusive *)
(* and an archive-wide key agrees with every checksum.                     *)
Chosen ==
  /\ Choosing => at = 1 /\ \A e \in Entries : held[e] = Blank /\ meta[e] = Blank
  /\ pc \in {"index", "special"} => key = "none"
  /\ pc \in {"index", "special", "native"} => tool = "none"
  /\ pc = "stream" => key # "none"
  /\ tool # "none" => key = "none"
  /\ key = "shared" => ~game.hx
  /\ key # "none" => \A e \in Tested : Right(e, "common")

(* A result in memory is verified, and guessed only where that is allowed. *)
Sound(e, r) ==
  /\ r.how # "none" => Matches(e, r.how)
  /\ r.status = "per-file-repeating-xor" => ~(ByTool(e) /\ Verified(e, "native")) /\ ~ByManager(e)

HeldSound ==
  \A e \in Entries : Sound(e, held[e]) /\ held[e].status # "global-repeating-xor"

(* The batch that is written has all its results. *)
BatchComplete == pc = "record" => \A e \in Batch : held[e] # Blank

IInv ==
  /\ TypeOK
  /\ Chosen
  /\ HeldSound
  /\ BatchComplete
  /\ AcceptedIsVerified
  /\ GuessIsLast

----------------------------------------------------------------------------
(* Writing an entry keeps the tree's type and touches only its own paths. *)
LEMMA PutFacts ==
  ASSUME TypeOK, NEW e \in Entries, NEW how \in Methods
  PROVE  /\ Put(disk, e, how) \in [Paths -> Files]
         /\ \A p \in Paths \ {entry[e].path, entry[e].image} : Put(disk, e, how)[p] = disk[p]
<1>1. entry[e].path \in Paths /\ entry[e].image \in Paths
  BY UnpackAssumption DEF TypeOK, Shape
<1>2. <<e, how>> \in Files
  BY DEF Files
<1>3. disk \in [Paths -> Files]
  BY DEF TypeOK
<1>. QED
  BY <1>1, <1>2, <1>3 DEF Put, Target, Files

(* Recording a result keeps the types of the tree. *)
LEMMA RecordedTypes ==
  ASSUME TypeOK, at \in Entries, NEW r \in Result \cup {Blank}, r.status # "error", Recorded(at, r)
  PROVE  /\ at' \in 1 .. N + 1
         /\ disk' \in [Paths -> Files]
         /\ meta' \in [Entries -> (Result \ [status : {"error"}, how : Methods \cup {"none"}]) \cup {Blank}]
         /\ \A p \in Paths \ {entry[at].path, entry[at].image} : disk'[p] = disk[p]
<1>1. at' \in 1 .. N + 1
  BY UnpackAssumption DEF Recorded, Entries
<1>2. r \in (Result \ [status : {"error"}, how : Methods \cup {"none"}]) \cup {Blank}
  BY DEF Result
<1>3. meta' \in [Entries -> (Result \ [status : {"error"}, how : Methods \cup {"none"}]) \cup {Blank}]
  BY <1>2 DEF Recorded, TypeOK
<1>4. CASE r.how = "none"
  BY <1>1, <1>3, <1>4 DEF Recorded, TypeOK
<1>5. CASE r.how # "none"
  <2>1. r.how \in Methods
    BY <1>5 DEF Result, Blank
  <2>2. disk' = Put(disk, at, r.how)
    BY <1>5 DEF Recorded
  <2>. QED
    BY <1>1, <1>3, <2>1, <2>2, PutFacts
<1>. QED
  BY <1>4, <1>5

(* A failing write touches only the files of its entry. *)
LEMMA FailFacts ==
  ASSUME TypeOK, Fail
  PROVE  /\ at \in Entries
         /\ disk' \in [Paths -> Files]
         /\ \A p \in Paths \ {entry[at].path, entry[at].image} : disk'[p] = disk[p]
<1>1. at \in Entries
  BY UnpackAssumption DEF Fail, TypeOK, Entries
<1>2. entry[at].path \in Paths /\ entry[at].image \in Paths
  BY <1>1, UnpackAssumption DEF TypeOK, Shape
<1>3. <<at, "cut">> \in Files
  BY <1>1 DEF Files
<1>4. \A how : Target(at, how) \in {entry[at].path, entry[at].image}
  BY DEF Target
<1>5. disk' = disk \/ \E how : disk' = [disk EXCEPT ![Target(at, how)] = <<at, "cut">>]
  BY DEF Fail
<1>. QED
  BY <1>1, <1>2, <1>3, <1>4, <1>5 DEF TypeOK

(* The archive-wide key's outcome is typed and sound. *)
LEMMA StreamFacts ==
  ASSUME IInv, pc = "stream", NEW e \in Entries
  PROVE  /\ StreamOutcome(e) \in Result
         /\ StreamOutcome(e).status \notin {"error", "pending", "per-file-repeating-xor"}
         /\ StreamOutcome(e).how # "none" => Matches(e, StreamOutcome(e).how)
<1>1. StreamOutcome(e) \in Result /\ StreamOutcome(e).status \notin {"error", "pending", "per-file-repeating-xor"}
  BY DEF StreamOutcome, Outcome, Result, Statuses, Methods
<1>2. ASSUME StreamOutcome(e).how # "none"
      PROVE  Matches(e, StreamOutcome(e).how)
  <2>1. entry[e].readable /\ StreamOutcome(e).how = "common"
    BY <1>2 DEF StreamOutcome, Outcome
  <2>2. entry[e].adlr => e \in Tested
    BY <2>1 DEF Tested, Readable
  <2>3. key # "none"
    BY DEF IInv, Chosen
  <2>. QED
    BY <2>1, <2>2, <2>3 DEF IInv, Chosen, Matches
<1>. QED
  BY <1>1, <1>2

Unsolved == UNCHANGED <<archive, pc, key, tool, at, end, tree>>

(* Whatever way an entry of the batch is solved, its result is sound. *)
LEMMA SolveFacts ==
  ASSUME TypeOK, NEW e \in Entries, SolveEntry(e)
  PROVE  /\ Turn(e) /\ Unsolved
         /\ \E r \in Result :
              /\ held' = [held EXCEPT ![e] = r]
              /\ r # Blank /\ r.status # "global-repeating-xor"
              /\ Sound(e, r)
<1> DEFINE SolvedAs(status, how) ==
      /\ Turn(e) /\ Unsolved
      /\ held' = [held EXCEPT ![e] = Outcome(status, how)]
<1>1. ASSUME NEW status \in Statuses, NEW how \in Methods \cup {"none"}, SolvedAs(status, how),
             status # "global-repeating-xor", how # "none" => Matches(e, how),
             status = "per-file-repeating-xor" => Guessable(e)
      PROVE  /\ Turn(e) /\ Unsolved
             /\ \E r \in Result :
                  /\ held' = [held EXCEPT ![e] = r]
                  /\ r # Blank /\ r.status # "global-repeating-xor"
                  /\ Sound(e, r)
  <2>1. Outcome(status, how) \in Result /\ Outcome(status, how) # Blank
    BY <1>1 DEF Outcome, Result, Blank, Statuses
  <2>2. Sound(e, Outcome(status, how)) /\ Outcome(status, how).status # "global-repeating-xor"
    BY <1>1 DEF Sound, Outcome, Guessable
  <2>. QED
    BY <1>1, <2>1, <2>2
<1> USE DEF Solve, Unsolved, Statuses, Methods
<1>2. CASE SolveNode(e)
  <2>1. \E status \in {"ignored-protected-dummy", "unresolved", "reconstruct-failed"} : SolvedAs(status, "none")
    BY <1>2 DEF SolveNode
  <2>. QED
    BY <1>1, <2>1
<1>3. CASE SolvePlain(e)
  <2>1. SolvedAs("plain", "raw")
    BY <1>3 DEF SolvePlain
  <2>2. Matches(e, "raw")
    BY <1>3 DEF SolvePlain, IsPlain, Matches
  <2>. QED
    BY <1>1, <2>1, <2>2
<1>4. CASE SolveByTool(e)
  <2>1. \/ SolvedAs(Status(tool), "native") /\ Verified(e, "native")
        \/ SolvedAs("error", "none")
    BY <1>4 DEF SolveByTool
  <2>2. Status(tool) \in {"native-cxdec", "x86-emulated-filter"}
    BY DEF Status
  <2>3. Verified(e, "native") => Matches(e, "native")
    BY DEF Verified, Matches
  <2>. QED
    BY <1>1, <2>1, <2>2, <2>3
<1>5. CASE SolveByManager(e)
  <2>1. \/ SolvedAs("hxv4-native", "native") /\ Matches(e, "native")
        \/ \E status \in {"unresolved", "hxv4-native-mismatch"} : SolvedAs(status, "none")
    BY <1>5 DEF SolveByManager
  <2>. QED
    BY <1>1, <2>1
<1>6. CASE SolveEffective(e)
  <2>1. \/ SolvedAs("hxv4-effective-fallback", "native") /\ Matches(e, "native")
        \/ SolvedAs("error", "none")
    BY <1>6 DEF SolveEffective, Guessable
  <2>. QED
    BY <1>1, <2>1
<1>7. CASE Search(e)
  <2>1. \/ \E how \in {"common", "own"} : SolvedAs("per-file-repeating-xor", how) /\ Matches(e, how)
        \/ \E status \in {"unresolved", "error"} : SolvedAs(status, "none")
    BY <1>7 DEF Search, Guessable
  <2>2. Guessable(e)
    BY <1>7 DEF Search
  <2>. QED
    BY <1>1, <2>1, <2>2
<1>. QED
  BY <1>2, <1>3, <1>4, <1>5, <1>6, <1>7 DEF SolveEntry

----------------------------------------------------------------------------
(* The steps, in the groups the invariant tells apart *)

Choose == SpecialGate \/ NamesMissing \/ SpecialKey \/ NativeEngine \/ SharedProbe \/ ProbeError
Advance == FormBatch \/ Collect \/ NextBatch \/ Fail \/ Finish

(* A step that records an entry, by key or from the batch. *)
Records(r) ==
  /\ at \in Entries /\ r \in Result /\ r.status \notin {"error", "pending"}
  /\ Recorded(at, r)
  /\ UNCHANGED <<archive, pc, key, tool, end, manifest>>

LEMMA RecordSteps ==
  ASSUME IInv, StreamEntry \/ RecordResult
  PROVE  /\ pc \in {"stream", "record"}
         /\ \E r \in Result :
              /\ Records(r)
              /\ r.how # "none" => Matches(at, r.how)
              /\ r.status = "global-repeating-xor" => pc = "stream"
              /\ r.status = "per-file-repeating-xor" =>
                   ~(ByTool(at) /\ Verified(at, "native")) /\ ~ByManager(at)
         /\ held' = held \/ held' = [held EXCEPT ![at] = Blank]
<1>1. CASE StreamEntry
  <2>1. at \in Entries /\ pc = "stream"
    BY <1>1, UnpackAssumption DEF StreamEntry, IInv, TypeOK, Entries
  <2>. QED
    BY <1>1, <2>1, StreamFacts DEF StreamEntry, Records
<1>2. CASE RecordResult
  <2>1. pc = "record" /\ at \in Entries /\ at \in Batch
    BY <1>2, UnpackAssumption DEF RecordResult, IInv, TypeOK, Entries, Batch
  <2>2. held[at] \in Result \cup {Blank} /\ held[at] # Blank
    BY <2>1 DEF IInv, TypeOK, BatchComplete
  <2>3. held[at].status # "pending"
    BY <2>2 DEF Result, Statuses
  <2>. QED
    BY <1>2, <2>1, <2>2, <2>3 DEF RecordResult, Records, IInv, HeldSound, Sound
<1>. QED
  BY <1>1, <1>2

LEMMA InitHolds == Init => IInv
<1> SUFFICES ASSUME Init PROVE IInv
  OBVIOUS
<1>1. game \in Games
  BY DEF Init
<1>2. at \in 1 .. N + 1 /\ end \in 1 .. N + 1
  BY UnpackAssumption DEF Init
<1>3. disk \in [Paths -> Files]
  BY DEF Init, Files
<1>4. TypeOK
  BY <1>1, <1>2, <1>3 DEF Init, TypeOK
<1>. QED
  BY <1>4 DEF Init, IInv, Chosen, Choosing, HeldSound, Sound, BatchComplete, AcceptedIsVerified,
              GuessIsLast, Guessed, Blank

LEMMA ChooseKeeps == IInv /\ Choose => IInv'
<1> SUFFICES ASSUME IInv, Choose PROVE IInv'
  OBVIOUS
<1>1. Choosing /\ Quiet
  BY DEF Choose, Choosing, SpecialGate, NamesMissing, SpecialKey, NativeEngine, SharedProbe, ProbeError
<1>2. at = 1 /\ \A e \in Entries : held[e] = Blank /\ meta[e] = Blank
  BY <1>1 DEF IInv, Chosen
<1>3. TypeOK'
  BY DEF Choose, IInv, TypeOK, Quiet, archive,
         SpecialGate, NamesMissing, SpecialKey, NativeEngine, SharedProbe, ProbeError
<1>4. entry' = entry /\ game' = game
  BY <1>1 DEF Quiet, archive
<1>5. Chosen'
  <2> DEFINE Agreed == \A e \in Tested : Right(e, "common")
             Filter == /\ pc \in {"index", "special"} => key = "none"
                       /\ pc \in {"index", "special", "native"} => tool = "none"
                       /\ pc = "stream" => key # "none"
                       /\ tool # "none" => key = "none"
                       /\ key = "shared" => ~game.hx
  <2>1. Agreed <=> Agreed'
    BY <1>4 DEF Tested, Readable, Right
  <2>2. Filter /\ (key # "none" => Agreed)
    BY DEF IInv, Chosen
  <2>3. at' = 1 /\ \A e \in Entries : held'[e] = Blank /\ meta'[e] = Blank
    BY <1>1, <1>2 DEF Quiet
  <2>4. key' # "none" => key # "none" \/ Agreed
    BY DEF Choose, SpecialGate, NamesMissing, SpecialKey, NativeEngine, SharedProbe, ProbeError,
           SpecialProves, SharedProves
  <2>5. Filter'
    <3> HIDE DEF Agreed
    <3>1. game' = game
      BY <1>4
    <3>2. CASE SpecialGate
      BY <2>2, <3>1, <3>2 DEF SpecialGate
    <3>3. CASE NamesMissing
      BY <2>2, <3>1, <3>3 DEF NamesMissing
    <3>4. CASE SpecialKey
      BY <2>2, <3>1, <3>4 DEF SpecialKey
    <3>5. CASE NativeEngine
      BY <2>2, <3>1, <3>5 DEF NativeEngine
    <3>6. CASE SharedProbe
      BY <2>2, <3>1, <3>6 DEF SharedProbe, MayProbe
    <3>7. CASE ProbeError
      BY <2>2, <3>1, <3>7 DEF ProbeError
    <3>. QED
      BY <3>2, <3>3, <3>4, <3>5, <3>6, <3>7 DEF Choose
  <2>6. key' # "none" => Agreed'
    BY <2>1, <2>2, <2>4
  <2>. QED
    BY <2>3, <2>5, <2>6 DEF Chosen
<1>6. pc' # "record"
  BY DEF Choose, SpecialGate, NamesMissing, SpecialKey, NativeEngine, SharedProbe, ProbeError
<1>7. \A e \in Entries : held'[e] = Blank /\ meta'[e] = Blank
  BY <1>1, <1>2 DEF Quiet
<1>8. HeldSound' /\ AcceptedIsVerified' /\ GuessIsLast'
  BY <1>7 DEF HeldSound, Sound, AcceptedIsVerified, GuessIsLast, Guessed, Blank
<1>. QED
  BY <1>3, <1>5, <1>6, <1>8 DEF IInv, BatchComplete

LEMMA AdvanceKeeps == IInv /\ Advance => IInv'
<1> SUFFICES ASSUME IInv, Advance PROVE IInv'
  OBVIOUS
<1>1. UNCHANGED <<entry, game, key, tool, at, meta>>
  BY DEF Advance, FormBatch, Forms, Collect, NextBatch, Fail, Finish, archive, tree
<1>2. pc' \in {"solve", "record", "form", "failed", "done"} /\ ~Choosing
  BY DEF Advance, FormBatch, Forms, Collect, NextBatch, Fail, Finish, Choosing
<1>3. held' = held \/ (held' = [e \in Entries |-> Blank] /\ pc' = "failed")
  BY DEF Advance, FormBatch, Forms, Collect, NextBatch, Fail, Finish
<1>4. TypeOK'
  <2>1. end' \in 1 .. N + 1
    <3>1. CASE FormBatch
      BY <3>1, UnpackAssumption DEF FormBatch, Forms, IInv, TypeOK
    <3>2. CASE ~FormBatch
      BY <3>2 DEF Advance, Collect, NextBatch, Fail, Finish, IInv, TypeOK
    <3>. QED
      BY <3>1, <3>2
  <2>2. held' \in [Entries -> Result \cup {Blank}]
    BY <1>3 DEF IInv, TypeOK
  <2>3. manifest' \in BOOLEAN
    BY DEF Advance, FormBatch, Forms, Collect, NextBatch, Fail, Finish, tree, IInv, TypeOK
  <2>4. disk' \in [Paths -> Files]
    <3>1. CASE Fail
      BY <3>1, FailFacts DEF IInv
    <3>2. CASE ~Fail
      BY <3>2 DEF Advance, FormBatch, Forms, Collect, NextBatch, Finish, tree, IInv, TypeOK
    <3>. QED
      BY <3>1, <3>2
  <2>. QED
    BY <1>1, <1>2, <2>1, <2>2, <2>3, <2>4 DEF IInv, TypeOK
<1>5. Chosen'
  BY <1>1, <1>2 DEF IInv, Chosen, Choosing, Tested, Readable, Right
<1>6. BatchComplete'
  <2>1. SUFFICES ASSUME pc' = "record" PROVE Collect
    BY <2>1 DEF BatchComplete, Collect, Solved, Batch
  <2>. QED
    BY <2>1 DEF Advance, FormBatch, Forms, NextBatch, Fail, Finish
<1>7. HeldSound'
  BY <1>1, <1>3 DEF IInv, HeldSound, Sound, Blank, Matches, Right, ByTool, ByManager, Verified, Strong
<1>8. AcceptedIsVerified' /\ GuessIsLast'
  BY <1>1 DEF IInv, AcceptedIsVerified, GuessIsLast, Guessed, Matches, Right, ByTool, ByManager, Verified, Strong
<1>. QED
  BY <1>4, <1>5, <1>6, <1>7, <1>8 DEF IInv

LEMMA SolveKeeps == IInv /\ (\E e \in Entries : SolveEntry(e)) => IInv'
<1> SUFFICES ASSUME IInv, NEW e \in Entries, SolveEntry(e) PROVE IInv'
  OBVIOUS
<1>1. PICK r \in Result : /\ held' = [held EXCEPT ![e] = r]
                          /\ r # Blank /\ r.status # "global-repeating-xor"
                          /\ Sound(e, r)
  BY SolveFacts DEF IInv
<1>2. UNCHANGED <<entry, game, pc, key, tool, at, end, disk, meta, manifest>> /\ pc = "solve"
  BY SolveFacts DEF IInv, Unsolved, archive, tree, Turn
<1>3. TypeOK'
  BY <1>1, <1>2 DEF IInv, TypeOK
<1>4. Chosen'
  BY <1>2 DEF IInv, Chosen, Choosing, Tested, Readable, Right
<1>5. HeldSound'
  <2>1. \A f \in Entries : held'[f] = held[f] \/ (f = e /\ held'[f] = r)
    BY <1>1 DEF IInv, TypeOK
  <2>. QED
    BY <1>1, <1>2, <2>1 DEF IInv, HeldSound, Sound, Matches, Right, ByTool, ByManager, Verified, Strong
<1>6. AcceptedIsVerified' /\ GuessIsLast'
  BY <1>2 DEF IInv, AcceptedIsVerified, GuessIsLast, Guessed, Matches, Right, ByTool, ByManager, Verified, Strong
<1>. QED
  BY <1>2, <1>3, <1>4, <1>5, <1>6 DEF IInv, BatchComplete

LEMMA RecordKeeps == IInv /\ (StreamEntry \/ RecordResult) => IInv'
<1> SUFFICES ASSUME IInv, StreamEntry \/ RecordResult PROVE IInv'
  OBVIOUS
<1>1. PICK r \in Result :
        /\ Records(r)
        /\ r.how # "none" => Matches(at, r.how)
        /\ r.status = "global-repeating-xor" => pc = "stream"
        /\ r.status = "per-file-repeating-xor" => ~(ByTool(at) /\ Verified(at, "native")) /\ ~ByManager(at)
  BY RecordSteps
<1>2. UNCHANGED <<entry, game, pc, key, tool, end, manifest>> /\ pc \in {"stream", "record"}
  BY <1>1, RecordSteps DEF Records, archive
<1>3. \A e \in Entries : held'[e] \in {held[e], Blank}
  BY RecordSteps DEF IInv, TypeOK
<1>4. held' \in [Entries -> Result \cup {Blank}]
  BY RecordSteps DEF IInv, TypeOK
<1>5. TypeOK'
  BY <1>1, <1>2, <1>4, RecordedTypes DEF Records, IInv, TypeOK
<1>6. Chosen'
  BY <1>2 DEF IInv, Chosen, Choosing, Tested, Readable, Right
<1>7. HeldSound'
  BY <1>2, <1>3 DEF IInv, HeldSound, Sound, Blank, Matches, Right, ByTool, ByManager, Verified, Strong
<1>8. BatchComplete'
  <2>1. SUFFICES ASSUME pc' = "record", NEW e \in Batch' PROVE held'[e] # Blank
    BY DEF BatchComplete
  <2>2. at' = at + 1 /\ at \in Nat /\ end' = end /\ end \in Nat
    BY <1>1, <1>2, UnpackAssumption DEF Records, Recorded, Entries, IInv, TypeOK
  <2>3. e \in Batch /\ e # at
    BY <2>2 DEF Batch
  <2>4. e \in Entries
    BY <2>3, UnpackAssumption DEF Batch, Entries, IInv, TypeOK
  <2>5. held'[e] = held[e]
    BY <2>3, <2>4, RecordSteps DEF IInv, TypeOK
  <2>. QED
    BY <1>2, <2>1, <2>3, <2>5 DEF IInv, BatchComplete
<1>9. \A e \in Entries : meta'[e] = meta[e] \/ (e = at /\ meta'[e] = r)
  BY <1>1 DEF Records, Recorded, IInv, TypeOK
<1>10. AcceptedIsVerified'
  BY <1>1, <1>2, <1>9 DEF IInv, AcceptedIsVerified, Matches, Right
<1>11. GuessIsLast'
  <2>1. SUFFICES ASSUME NEW e \in Entries, Guessed(e)'
                 PROVE  ~(ByTool(e) /\ Verified(e, "native")) /\ ~ByManager(e)
    BY <1>2 DEF GuessIsLast, ByTool, ByManager, Verified, Right, Strong
  <2>2. CASE meta'[e] = meta[e]
    BY <1>2, <2>1, <2>2 DEF IInv, GuessIsLast, Guessed
  <2>3. CASE e = at /\ meta'[e] = r /\ r.status = "per-file-repeating-xor"
    BY <1>1, <2>3
  <2>4. CASE e = at /\ meta'[e] = r /\ r.status = "global-repeating-xor" /\ key = "shared"
    BY <2>4 DEF IInv, Chosen, ByTool, ByManager
  <2>. QED
    BY <1>2, <1>9, <2>1, <2>2, <2>3, <2>4 DEF Guessed
<1>. QED
  BY <1>5, <1>6, <1>7, <1>8, <1>10, <1>11 DEF IInv

LEMMA StutterKeeps == IInv /\ UNCHANGED vars => IInv'
<1> SUFFICES ASSUME IInv, UNCHANGED vars PROVE IInv'
  OBVIOUS
<1>1. UNCHANGED <<entry, game, pc, key, tool, at, end, held, disk, meta, manifest>>
  BY DEF vars
<1>. QED
  BY <1>1 DEF IInv, TypeOK, Chosen, Choosing, HeldSound, Sound, BatchComplete, Batch, AcceptedIsVerified,
              GuessIsLast, Guessed, Matches, Right, ByTool, ByManager, Verified, Strong, Tested, Readable

(* Types, soundness of what is in memory and of what is recorded, and the  *)
(* exclusive choice of filters hold of every archive.                      *)
THEOREM UnpackInductive == Spec => []IInv
<1>1. IInv /\ [Next]_vars => IInv'
  BY ChooseKeeps, AdvanceKeeps, SolveKeeps, RecordKeeps, StutterKeeps DEF Next, Choose, Advance
<1>. QED
  BY <1>1, InitHolds, PTL DEF Spec

(* Files, results and records keep their types. *)
THEOREM UnpackTypeCorrect == Spec => []TypeOK
<1>1. IInv => TypeOK
  BY DEF IInv
<1>. QED
  BY <1>1, UnpackInductive, PTL

(* No plaintext that contradicts its entry's checksum is ever recorded,    *)
(* with whichever filter and for any archive.                              *)
THEOREM AcceptanceCorrect == Spec => []AcceptedIsVerified
<1>1. IInv => AcceptedIsVerified
  BY DEF IInv
<1>. QED
  BY <1>1, UnpackInductive, PTL

(* No entry is guessed that a native engine at hand restores.              *)
THEOREM GuessCorrect == Spec => []GuessIsLast
<1>1. IInv => GuessIsLast
  BY DEF IInv
<1>. QED
  BY <1>1, UnpackInductive, PTL

----------------------------------------------------------------------------
(* Refinement *)

LEMMA RefinesInit == Init => Order!Init
BY DEF Init, Order!Init, Entries

LEMMA RefinesStep == IInv /\ [Next]_vars => [Order!Next]_Order!vars
<1> SUFFICES ASSUME IInv, [Next]_vars PROVE [Order!Next]_Order!vars
  OBVIOUS
<1> USE DEF Order!vars
<1>1. CASE Choose
  <2>1. UNCHANGED <<Own, at, disk, meta>> /\ pc \notin {"done", "failed"}
    BY <1>1 DEF Choose, Quiet, Own, archive, SpecialGate, NamesMissing, SpecialKey, NativeEngine,
                SharedProbe, ProbeError
  <2>2. CASE pc' = "done"
    <3>1. manifest' = TRUE /\ Choosing
      BY <1>1, <2>2 DEF Choose, Choosing, SpecialGate, NamesMissing, SpecialKey, NativeEngine, SharedProbe,
                        ProbeError
    <3>2. Order!Fresh
      BY <3>1 DEF IInv, Chosen, TypeOK, Order!Fresh
    <3>. QED
      BY <2>1, <2>2, <3>1, <3>2 DEF Order!Next, Order!Finish
  <2>3. CASE pc' # "done"
    <3>1. manifest' = manifest
      BY <1>1, <2>3 DEF Choose, SpecialGate, NamesMissing, SpecialKey, NativeEngine, SharedProbe, ProbeError
    <3>. QED
      BY <2>1, <2>3, <3>1 DEF Order!Next, Order!Fail, Order!Touches
  <2>. QED
    BY <2>2, <2>3
<1>2. CASE StreamEntry \/ RecordResult
  <2>1. PICK r \in Result : Records(r)
    BY <1>2, RecordSteps
  <2>2. pc \in {"stream", "record"} /\ UNCHANGED <<Own, pc, manifest>>
    BY <1>2, <2>1, RecordSteps DEF Records, archive, Own
  <2>3. at <= N /\ at' = at + 1
    BY <2>1, UnpackAssumption DEF Records, Recorded, Entries
  <2>4. meta' = [meta EXCEPT ![at] = r] /\ meta'[at] = r /\ r # Blank
    BY <2>1 DEF Records, Recorded, IInv, TypeOK, Blank
  <2>5. \A p \in Paths \ Own[at] : disk'[p] = disk[p]
    BY <2>1, RecordedTypes DEF Records, Own, IInv
  <2>6. DOMAIN disk = Paths
    BY DEF IInv, TypeOK
  <2>7. DOMAIN disk' = Paths
    BY <2>1, RecordedTypes DEF Records, IInv
  <2>. QED
    BY <2>2, <2>3, <2>4, <2>5, <2>6, <2>7 DEF Order!Next, Order!Take, Order!Touches
<1>3. CASE Advance
  <2>1. UNCHANGED <<Own, at, meta>> /\ pc \notin {"done", "failed"}
    BY <1>3 DEF Advance, FormBatch, Forms, Collect, NextBatch, Fail, Finish, archive, tree, Own
  <2>2. CASE Finish
    BY <2>1, <2>2 DEF Finish, Order!Next, Order!Finish
  <2>3. CASE Fail
    <3>1. at \in Entries /\ at <= N
      BY <2>3, FailFacts DEF Fail, IInv
    <3>2. DOMAIN disk = Paths /\ DOMAIN disk' = Paths
      BY <2>3, FailFacts DEF IInv, TypeOK
    <3>3. \A p \in Paths \ Own[at] : disk'[p] = disk[p]
      BY <2>3, <3>1, FailFacts DEF Own, IInv
    <3>. QED
      BY <2>1, <2>3, <3>1, <3>2, <3>3 DEF Fail, Order!Next, Order!Fail, Order!Touches
  <2>4. CASE FormBatch \/ Collect \/ NextBatch
    BY <2>1, <2>4 DEF FormBatch, Forms, Collect, NextBatch, tree
  <2>. QED
    BY <1>3, <2>2, <2>3, <2>4 DEF Advance
<1>4. CASE \E e \in Entries : SolveEntry(e)
  BY <1>4, SolveFacts DEF IInv, Unsolved, archive, tree, Own
<1>5. CASE UNCHANGED vars
  BY <1>5 DEF vars, Own
<1>. QED
  BY <1>1, <1>2, <1>3, <1>4, <1>5 DEF Next, Choose, Advance

(* Batches solved in parallel and written in order implement the           *)
(* sequential loop of UnpackOrder.                                         *)
THEOREM OrderCorrect == Spec => InOrder
BY UnpackInductive, RefinesInit, RefinesStep, PTL DEF Spec, InOrder, Order!Spec

----------------------------------------------------------------------------
(* --- OperationProgress --- *)

InFlight(w) == place[w] \in {"draw", "position", "emit"}
Numbered(w) == place[w] \in {"position", "emit"}

(* A worker that emits holds an event of its own task; one that encodes    *)
(* has frames left.                                                        *)
WorkerInv ==
  \A w \in Workers :
    /\ InFlight(w) => event[w] \in Event /\ event[w].task = TaskOf[w]
    /\ place[w] = "encode" => frame[w] < Frames

(* Numbers are drawn once: those in the sink and those in flight differ.   *)
NumberInv ==
  /\ \A i \in DOMAIN sink : sink[i].seq < sequence
  /\ \A i, j \in DOMAIN sink : sink[i].seq = sink[j].seq => i = j
  /\ \A w \in Workers : Numbered(w) =>
       event[w].seq < sequence /\ \A i \in DOMAIN sink : event[w].seq # sink[i].seq
  /\ \A v, w \in Workers :
       Numbered(v) /\ Numbered(w) /\ v # w => event[v].seq # event[w].seq

(* A finished event, in the sink or in flight, belongs to whoever set the  *)
(* flag of its task, and there is one.                                     *)
Ending(w) == InFlight(w) /\ event[w].kind = "finished"
FinishInv ==
  /\ \A i \in DOMAIN sink : sink[i].kind = "finished" => finished[sink[i].task]
  /\ \A w \in Workers : Ending(w) => finished[TaskOf[w]]
  /\ \A i, j \in DOMAIN sink :
       sink[i].kind = "finished" /\ sink[j].kind = "finished"
         /\ sink[i].task = sink[j].task => i = j
  /\ \A w \in Workers, i \in DOMAIN sink :
       Ending(w) /\ sink[i].kind = "finished" => sink[i].task # TaskOf[w]
  /\ \A v, w \in Workers : Ending(v) /\ Ending(w) /\ v # w => TaskOf[v] # TaskOf[w]

(* A worker that is encoding began before it could see the cancellation.   *)
CancelInv ==
  \A w \in Workers :
    /\ ~cancelled \/ place[w] = "encode" => late[w] = 0
    /\ late[w] <= 1

ProgressInv == ProgressTypeOK /\ WorkerInv /\ NumberInv /\ FinishInv /\ CancelInv

----------------------------------------------------------------------------
(* What the sink holds are events. *)
LEMMA SinkEvent ==
  ASSUME ProgressTypeOK, NEW i \in DOMAIN sink
  PROVE  sink[i] \in Event /\ sink[i].task \in Tasks /\ sink[i].seq \in Nat
<1>1. sink[i] \in Event
  BY DEF ProgressTypeOK
<1> QED
  BY <1>1 DEF Event

LEMMA InitInv == ProgressInit => ProgressInv
<1> SUFFICES ASSUME ProgressInit PROVE ProgressInv
  OBVIOUS
<1>1. sink \in Seq(Event) /\ DOMAIN sink = {}
  BY DEF ProgressInit
<1>2. ProgressTypeOK
  <2>1. frame \in [Workers -> 0 .. Frames] /\ late \in [Workers -> Nat]
    BY ProgressAssumption DEF ProgressInit
  <2>2. event \in [Workers -> Event \cup {NoEvent}]
    BY DEF ProgressInit
  <2>3. /\ place \in [Workers -> {"start", "frame", "encode", "check", "add", "draw",
                                "position", "emit", "done"}]
        /\ cancelled \in BOOLEAN /\ sequence \in Nat /\ current \in [Tasks -> Nat]
        /\ finished \in [Tasks -> BOOLEAN] /\ started \subseteq Tasks
    BY DEF ProgressInit
  <2> QED
    BY <1>1, <2>1, <2>2, <2>3 DEF ProgressTypeOK
<1>3. WorkerInv /\ CancelInv
  BY DEF ProgressInit, WorkerInv, CancelInv, InFlight
<1>4. NumberInv /\ FinishInv
  BY <1>1 DEF ProgressInit, NumberInv, FinishInv, InFlight, Numbered, Ending
<1> QED
  BY <1>2, <1>3, <1>4 DEF ProgressInv

(* Steps of a worker that has no event before and none after. *)
QuietWorker(w) ==
  \/ Join(w) \/ Continue(w) \/ Encode(w) \/ Check(w)
  \/ \E outcome \in Outcomes : FinishTask(w, outcome) /\ finished[TaskOf[w]]

LEMMA QuietStep ==
  ASSUME ProgressInv, NEW w \in Workers, QuietWorker(w)
  PROVE  ProgressInv'
<1> USE DEF ProgressInv, ProgressTypeOK, Go, InFlight
<1>1. CASE Join(w)
  BY <1>1 DEF Join, WorkerInv, NumberInv, FinishInv, CancelInv, Numbered, Ending
<1>2. CASE Continue(w)
  <2>1. ProgressTypeOK' /\ WorkerInv'
    BY <1>2, ProgressAssumption DEF Continue, WorkerInv
  <2>2. NumberInv' /\ FinishInv'
    BY <1>2 DEF Continue, NumberInv, FinishInv, Numbered, Ending
  <2>3. CancelInv'
    BY <1>2 DEF Continue, CancelInv
  <2> QED
    BY <2>1, <2>2, <2>3
<1>3. CASE Encode(w)
  <2>1. frame[w] + 1 \in 0 .. Frames
    BY <1>3, ProgressAssumption DEF Encode, WorkerInv
  <2>2. late[w] = 0
    BY <1>3 DEF Encode, CancelInv
  <2>3. late' = [late EXCEPT ![w] = IF cancelled THEN 1 ELSE 0]
    BY <1>3, <2>2 DEF Encode
  <2>4. ProgressTypeOK' /\ WorkerInv'
    BY <1>3, <2>1, <2>3 DEF Encode, WorkerInv
  <2>5. NumberInv' /\ FinishInv'
    BY <1>3 DEF Encode, NumberInv, FinishInv, Numbered, Ending
  <2>6. CancelInv'
    BY <1>3, <2>3 DEF Encode, CancelInv
  <2> QED
    BY <2>4, <2>5, <2>6
<1>4. CASE Check(w)
  BY <1>4 DEF Check, WorkerInv, NumberInv, FinishInv, CancelInv, Numbered, Ending
<1>5. ASSUME NEW outcome \in Outcomes, FinishTask(w, outcome), finished[TaskOf[w]]
      PROVE  ProgressInv'
  <2>1. finished' = finished
    BY <1>5, ProgressAssumption DEF FinishTask
  <2>2. ~InFlight(w) /\ place' = [place EXCEPT ![w] = "done"]
        /\ UNCHANGED <<event, frame, cancelled, sequence, current, started, sink, late>>
    BY <1>5 DEF FinishTask, Ends
  <2>3. ProgressTypeOK' /\ WorkerInv' /\ CancelInv'
    BY <2>1, <2>2 DEF WorkerInv, CancelInv
  <2>4. \A v \in Workers : (Numbered(v)' <=> Numbered(v)) /\ (Ending(v)' <=> Ending(v))
    BY <2>2 DEF Numbered, Ending
  <2>5. NumberInv' /\ FinishInv'
    BY <2>1, <2>2, <2>4 DEF NumberInv, FinishInv
  <2> QED
    BY <2>3, <2>5
<1> QED
  BY <1>1, <1>2, <1>3, <1>4, <1>5 DEF QuietWorker

(* Steps that begin an event: the winner of the exchange ends its task.    *)
Begins(w, kind, outcome) ==
  /\ ~InFlight(w)
  /\ Prepare(w, kind, outcome)
  /\ kind = "finished" => ~finished[TaskOf[w]]
  /\ finished' = IF kind = "finished" THEN [finished EXCEPT ![TaskOf[w]] = TRUE]
                 ELSE finished
  /\ UNCHANGED <<frame, cancelled, sequence, sink, late>>

LEMMA BeginStep ==
  ASSUME ProgressInv, NEW w \in Workers, NEW kind \in Kinds,
         NEW outcome \in Outcomes \cup {None}, Begins(w, kind, outcome),
         current' \in [Tasks -> Nat], started' \subseteq Tasks
  PROVE  ProgressInv'
<1> USE DEF ProgressInv, ProgressTypeOK, Go, InFlight, Prepare, Begins
<1> DEFINE e == [task |-> TaskOf[w], kind |-> kind, outcome |-> outcome,
                 seq |-> 0, position |-> 0]
<1>1. e \in Event
  BY ProgressAssumption DEF Event, Kinds
<1>2. event' = [event EXCEPT ![w] = e] /\ place' = [place EXCEPT ![w] = "draw"]
  OBVIOUS
<1>3. ProgressTypeOK'
  <2>1. event' \in [Workers -> Event \cup {NoEvent}]
    BY <1>1, <1>2
  <2>2. finished' \in [Tasks -> BOOLEAN]
    BY ProgressAssumption
  <2>3. place' \in [Workers -> {"start", "frame", "encode", "check", "add", "draw",
                             "position", "emit", "done"}]
    BY <1>2
  <2> QED
    BY <2>1, <2>2, <2>3
<1>4. WorkerInv'
  BY <1>1, <1>2 DEF WorkerInv
<1>5. NumberInv'
  BY <1>2 DEF NumberInv, Numbered
<1>6. \A v \in Workers : Ending(v)' <=> IF v = w THEN kind = "finished" ELSE Ending(v)
  BY <1>2 DEF Ending
<1>7. FinishInv'
  <2>1. CASE kind # "finished"
    BY <1>6, <2>1 DEF FinishInv
  <2>2. CASE kind = "finished"
    <3>1. /\ \A v \in Workers : Ending(v) => TaskOf[v] # TaskOf[w]
          /\ \A i \in DOMAIN sink : sink[i].kind = "finished" => sink[i].task # TaskOf[w]
      BY <2>2 DEF FinishInv
    <3>2. /\ finished'[TaskOf[w]]
          /\ \A t \in Tasks : finished[t] => finished'[t]
      BY <2>2, ProgressAssumption
    <3>3. \A i \in DOMAIN sink : sink[i].task \in Tasks
      BY SinkEvent
    <3> QED
      BY <1>6, <3>1, <3>2, <3>3, ProgressAssumption DEF FinishInv
  <2> QED
    BY <2>1, <2>2
<1>8. CancelInv'
  BY <1>2 DEF CancelInv
<1> QED
  BY <1>3, <1>4, <1>5, <1>7, <1>8

LEMMA StartStep ==
  ASSUME ProgressInv, NEW w \in Workers, Start(w)
  PROVE  ProgressInv'
<1>1. Begins(w, "started", None) /\ current' = current
  BY DEF Start, Begins, InFlight
<1>2. started' \subseteq Tasks
  BY ProgressAssumption DEF Start, ProgressInv, ProgressTypeOK
<1> QED
  BY <1>1, <1>2, BeginStep DEF Kinds, ProgressInv, ProgressTypeOK

LEMMA AddStep ==
  ASSUME ProgressInv, NEW w \in Workers, Add(w)
  PROVE  ProgressInv'
<1>1. Begins(w, "advanced", None) /\ started' = started
  BY DEF Add, Begins, InFlight
<1>2. current' \in [Tasks -> Nat]
  BY ProgressAssumption DEF Add, ProgressInv, ProgressTypeOK
<1> QED
  BY <1>1, <1>2, BeginStep DEF Kinds, ProgressInv, ProgressTypeOK

LEMMA FinishStep ==
  ASSUME ProgressInv, NEW w \in Workers, NEW outcome \in Outcomes, FinishTask(w, outcome)
  PROVE  ProgressInv'
<1>1. CASE finished[TaskOf[w]]
  BY <1>1, QuietStep DEF QuietWorker
<1>2. CASE ~finished[TaskOf[w]]
  <2>1. Begins(w, "finished", outcome) /\ current' = current /\ started' = started
    BY <1>2 DEF FinishTask, Begins, InFlight, Ends
  <2> QED
    BY <2>1, BeginStep DEF Kinds, ProgressInv, ProgressTypeOK
<1> QED
  BY <1>1, <1>2

LEMMA DrawStep ==
  ASSUME ProgressInv, NEW w \in Workers, Draw(w)
  PROVE  ProgressInv'
<1> USE DEF ProgressInv, ProgressTypeOK, Go, InFlight
<1>1. event[w] \in Event /\ event[w].task = TaskOf[w]
  BY DEF Draw, WorkerInv
<1> DEFINE e == [event[w] EXCEPT !.seq = sequence]
<1>2. e \in Event /\ e.seq = sequence /\ e.task = event[w].task /\ e.kind = event[w].kind
  BY <1>1 DEF Event
<1>3. event' = [event EXCEPT ![w] = e] /\ place' = [place EXCEPT ![w] = "position"]
  BY DEF Draw
<1>4. ProgressTypeOK'
  BY <1>2, <1>3 DEF Draw
<1>5. WorkerInv'
  BY <1>1, <1>2, <1>3 DEF Draw, WorkerInv
<1>6. NumberInv'
  <2>1. \A i \in DOMAIN sink : sink[i].seq \in Nat
    BY SinkEvent
  <2>2. \A v \in Workers : Numbered(v) => event[v].seq \in Nat
    BY DEF WorkerInv, Numbered, Event
  <2>3. \A v \in Workers \ {w} : (Numbered(v)' <=> Numbered(v)) /\ event'[v] = event[v]
    BY <1>3 DEF Numbered
  <2>4. event'[w].seq = sequence /\ sequence' = sequence + 1 /\ sink' = sink
    BY <1>2, <1>3 DEF Draw
  <2>5. \A i \in DOMAIN sink : sink[i].seq < sequence /\ sink[i].seq < sequence'
    BY <2>1, <2>4 DEF NumberInv
  <2>6. \A v \in Workers \ {w} :
          Numbered(v)' => event'[v].seq < sequence /\ event'[v].seq < sequence'
    BY <2>2, <2>3, <2>4 DEF NumberInv
  <2>7. \A v \in Workers : Numbered(v)' =>
          event'[v].seq < sequence' /\ \A i \in DOMAIN sink : event'[v].seq # sink[i].seq
    BY <2>1, <2>3, <2>4, <2>5, <2>6 DEF NumberInv
  <2>8. \A u, v \in Workers :
          Numbered(u)' /\ Numbered(v)' /\ u # v => event'[u].seq # event'[v].seq
    <3> SUFFICES ASSUME NEW u \in Workers, NEW v \in Workers, Numbered(u)', Numbered(v)', u # v
                 PROVE  event'[u].seq # event'[v].seq
      OBVIOUS
    <3>1. CASE u = w
      BY <2>4, <2>6, <3>1
    <3>2. CASE v = w
      BY <2>4, <2>6, <3>2
    <3>3. CASE u # w /\ v # w
      BY <2>3, <3>3 DEF NumberInv
    <3> QED
      BY <3>1, <3>2, <3>3
  <2> QED
    BY <2>4, <2>5, <2>7, <2>8 DEF NumberInv
<1>7. \A v \in Workers : Ending(v)' <=> Ending(v)
  BY <1>2, <1>3 DEF Draw, Ending
<1>8. FinishInv'
  BY <1>7 DEF Draw, FinishInv
<1>9. CancelInv'
  BY <1>3 DEF Draw, CancelInv
<1> QED
  BY <1>4, <1>5, <1>6, <1>8, <1>9

LEMMA ReadPositionStep ==
  ASSUME ProgressInv, NEW w \in Workers, ReadPosition(w)
  PROVE  ProgressInv'
<1> USE DEF ProgressInv, ProgressTypeOK, Go, InFlight
<1>1. event[w] \in Event /\ event[w].task = TaskOf[w] /\ current[TaskOf[w]] \in Nat
  BY ProgressAssumption DEF ReadPosition, WorkerInv
<1> DEFINE e == [event[w] EXCEPT !.position = current[TaskOf[w]]]
<1>2. /\ e \in Event /\ e.seq = event[w].seq
      /\ e.task = event[w].task /\ e.kind = event[w].kind
  BY <1>1 DEF Event
<1>3. event' = [event EXCEPT ![w] = e] /\ place' = [place EXCEPT ![w] = "emit"]
  BY DEF ReadPosition
<1>4. ProgressTypeOK'
  BY <1>2, <1>3 DEF ReadPosition
<1>5. WorkerInv'
  BY <1>1, <1>2, <1>3 DEF ReadPosition, WorkerInv
<1>6. \A v \in Workers : /\ Numbered(v)' <=> Numbered(v)
                         /\ Numbered(v) => event'[v].seq = event[v].seq
                         /\ Ending(v)' <=> Ending(v)
  BY <1>2, <1>3 DEF ReadPosition, Numbered, Ending
<1>7. NumberInv'
  BY <1>6 DEF ReadPosition, NumberInv
<1>8. FinishInv'
  BY <1>6 DEF ReadPosition, FinishInv
<1>9. CancelInv'
  BY <1>3 DEF ReadPosition, CancelInv
<1> QED
  BY <1>4, <1>5, <1>7, <1>8, <1>9

LEMMA EmitStep ==
  ASSUME ProgressInv, NEW w \in Workers, Emit(w)
  PROVE  ProgressInv'
<1> USE DEF ProgressInv, ProgressTypeOK, Go, InFlight
<1>1. event[w] \in Event /\ event[w].task = TaskOf[w]
  BY DEF Emit, WorkerInv
<1>2. /\ sink' = Append(sink, event[w]) /\ event' = [event EXCEPT ![w] = NoEvent]
      /\ place' \in {[place EXCEPT ![w] = "done"], [place EXCEPT ![w] = "frame"]}
  BY DEF Emit
<1>3. ProgressTypeOK'
  BY <1>1, <1>2 DEF Emit
<1>4. WorkerInv'
  BY <1>2 DEF Emit, WorkerInv
<1>5. /\ DOMAIN sink' = DOMAIN sink \cup {Len(sink) + 1} /\ Len(sink) + 1 \notin DOMAIN sink
      /\ \A i \in DOMAIN sink : sink'[i] = sink[i]
      /\ sink'[Len(sink) + 1] = event[w]
  BY <1>1, <1>2
<1>6. /\ ~Numbered(w)' /\ ~Ending(w)'
      /\ \A v \in Workers \ {w} : /\ Numbered(v)' <=> Numbered(v)
                                  /\ Ending(v)' <=> Ending(v)
                                  /\ event'[v] = event[v]
  BY <1>2 DEF Numbered, Ending
<1>7. Numbered(w) /\ (event[w].kind = "finished" => Ending(w)) /\ sequence' = sequence
      /\ finished' = finished
  BY DEF Emit, Numbered, Ending
<1>8. NumberInv'
  <2> USE DEF NumberInv
  <2>1. \A i \in DOMAIN sink' : sink'[i].seq < sequence'
    BY <1>5, <1>7
  <2>2. \A i, j \in DOMAIN sink' : sink'[i].seq = sink'[j].seq => i = j
    BY <1>5, <1>7
  <2>3. \A v \in Workers : Numbered(v)' =>
          /\ event'[v].seq < sequence'
          /\ \A i \in DOMAIN sink' : event'[v].seq # sink'[i].seq
    BY <1>5, <1>6, <1>7
  <2>4. \A u, v \in Workers :
          Numbered(u)' /\ Numbered(v)' /\ u # v => event'[u].seq # event'[v].seq
    BY <1>6
  <2> QED
    BY <2>1, <2>2, <2>3, <2>4
<1>9. FinishInv'
  <2> USE DEF FinishInv
  <2>1. \A i \in DOMAIN sink' : sink'[i].kind = "finished" => finished'[sink'[i].task]
    BY <1>1, <1>5, <1>7
  <2>2. \A v \in Workers : Ending(v)' => finished'[TaskOf[v]]
    BY <1>6, <1>7
  <2>3. \A i, j \in DOMAIN sink' :
          sink'[i].kind = "finished" /\ sink'[j].kind = "finished"
            /\ sink'[i].task = sink'[j].task => i = j
    BY <1>1, <1>5, <1>7
  <2>4. \A v \in Workers, i \in DOMAIN sink' :
          Ending(v)' /\ sink'[i].kind = "finished" => sink'[i].task # TaskOf[v]
    BY <1>1, <1>5, <1>6, <1>7
  <2>5. \A u, v \in Workers : Ending(u)' /\ Ending(v)' /\ u # v => TaskOf[u] # TaskOf[v]
    BY <1>6
  <2> QED
    BY <2>1, <2>2, <2>3, <2>4, <2>5
<1>10. CancelInv'
  BY <1>2 DEF Emit, CancelInv
<1> QED
  BY <1>3, <1>4, <1>8, <1>9, <1>10

LEMMA CancelStep == ProgressInv /\ Cancel => ProgressInv'
  BY DEF Cancel, ProgressInv, ProgressTypeOK, WorkerInv, NumberInv, FinishInv, CancelInv, InFlight,
         Numbered, Ending

LEMMA StutterStep == ProgressInv /\ UNCHANGED progressVars => ProgressInv'
  BY DEF progressVars, ProgressInv, ProgressTypeOK, WorkerInv, NumberInv, FinishInv, CancelInv, InFlight,
         Numbered, Ending

(* Numbers, flags and positions stay consistent whichever workers race.    *)
THEOREM ProgressInductive == ProgressSpec => []ProgressInv
<1>1. ProgressInv /\ [ProgressNext]_progressVars => ProgressInv'
  <2> SUFFICES ASSUME ProgressInv, [ProgressNext]_progressVars PROVE ProgressInv'
    OBVIOUS
  <2>1. ASSUME NEW w \in Workers, Step(w) PROVE ProgressInv'
    BY <2>1, StartStep, QuietStep, ReadPositionStep, EmitStep, AddStep, DrawStep, FinishStep
       DEF Step, QuietWorker
  <2> QED
    BY <2>1, CancelStep, StutterStep DEF ProgressNext
<1> QED
  BY InitInv, <1>1, PTL DEF ProgressSpec

(* Every worker, task and event keeps its type. *)
THEOREM ProgressTypeCorrect == ProgressSpec => []ProgressTypeOK
<1>1. ProgressInv => ProgressTypeOK
  BY DEF ProgressInv
<1> QED
  BY ProgressInductive, <1>1, PTL

(* However many workers race to finish a task, its sink hears of one end,  *)
(* and no two events carry the same number.                                *)
THEOREM FinishCorrect == ProgressSpec => []FinishedOnce
<1>1. ProgressInv => FinishedOnce
  <2> SUFFICES ASSUME ProgressInv PROVE FinishedOnce
    OBVIOUS
  <2>1. ASSUME NEW t \in Tasks PROVE Cardinality(Events(t, "finished")) <= 1
    <3>1. \A i, j \in Events(t, "finished") : i = j
      BY DEF ProgressInv, FinishInv, Events
    <3>2. CASE Events(t, "finished") = {}
      BY <3>2, FS_EmptySet
    <3>3. CASE Events(t, "finished") # {}
      <4>1. PICK i : Events(t, "finished") = {i}
        BY <3>1, <3>3
      <4>2. Cardinality({i}) = 1
        BY FS_Singleton, Zenon
      <4> QED
        BY <4>1, <4>2, SMT
    <3> QED
      BY <3>2, <3>3
  <2> QED
    BY <2>1 DEF FinishedOnce, ProgressInv, NumberInv
<1> QED
  BY ProgressInductive, <1>1, PTL

(* No worker encodes more than the frame it had begun when the operation   *)
(* was cancelled.                                                          *)
THEOREM CancelCorrect == ProgressSpec => []CancelIsPrompt
<1>1. ProgressInv => CancelIsPrompt
  BY DEF ProgressInv, CancelInv, CancelIsPrompt
<1> QED
  BY ProgressInductive, <1>1, PTL
----------------------------------------------------------------------------
Handles(t) == {w \in Workers : TaskOf[w] = t}

(* The handles of a task with an advance begun and not yet reported. *)
Advancing(w) ==
  \/ place[w] = "add"
  \/ InFlight(w) /\ event[w].kind = "advanced"
Pending(t) == {w \in Handles(t) : Advancing(w)}

(* Once the end of a task is reported, what has been reported late and what *)
(* still can be are fewer than its handles: the handle that reported the    *)
(* end advances no more, and no other begins to.                            *)
LateInv ==
  \A t \in Tasks : Events(t, "finished") # {} =>
    Cardinality(Late(t)) + Cardinality(Pending(t)) < Cardinality(Handles(t))

(* The sets counted are finite. *)
LEMMA CountedFinite ==
  ASSUME ProgressTypeOK, NEW t \in Tasks
  PROVE  /\ IsFiniteSet(Handles(t)) /\ IsFiniteSet(Pending(t)) /\ IsFiniteSet(Late(t))
         /\ Cardinality(Handles(t)) \in Nat
         /\ Cardinality(Pending(t)) \in Nat
         /\ Cardinality(Late(t)) \in Nat
<1>1. IsFiniteSet(Handles(t)) /\ IsFiniteSet(Pending(t))
  <2>1. Handles(t) \in SUBSET Workers /\ Pending(t) \in SUBSET Workers
    BY DEF Handles, Pending
  <2> QED
    BY <2>1, FS_Subset, ProgressAssumption
<1>2. IsFiniteSet(Late(t))
  <2>1. DOMAIN sink = 1 .. Len(sink) /\ Len(sink) \in Nat
    BY DEF ProgressTypeOK
  <2>2. IsFiniteSet(DOMAIN sink)
    BY <2>1, FS_Interval
  <2>3. Late(t) \in SUBSET DOMAIN sink
    BY DEF Late, Events
  <2> QED
    BY <2>2, <2>3, FS_Subset
<1> QED
  BY <1>1, <1>2, FS_CardinalityType

(* A task of which nothing new is reported and no advance begins keeps its *)
(* bound.                                                                  *)
LEMMA FewerPending ==
  ASSUME ProgressTypeOK, NEW t \in Tasks, Late(t)' = Late(t),
         Pending(t)' \subseteq Pending(t),
         Cardinality(Late(t)) + Cardinality(Pending(t)) < Cardinality(Handles(t))
  PROVE  (Cardinality(Late(t)) + Cardinality(Pending(t)) < Cardinality(Handles(t)))'
<1>1. IsFiniteSet(Pending(t)')
      /\ Cardinality(Pending(t)') \in Nat
      /\ Cardinality(Pending(t)') <= Cardinality(Pending(t))
  <2>1. Pending(t)' \in SUBSET Pending(t) /\ IsFiniteSet(Pending(t))
    BY CountedFinite
  <2> QED
    BY <2>1, FS_Subset, FS_CardinalityType
<1>2. Handles(t)' = Handles(t)
  BY DEF Handles
<1> QED
  BY <1>1, <1>2, CountedFinite

(* A step that reports nothing lets no advance begin on a task whose end   *)
(* was reported.                                                           *)
LEMMA SilentStep ==
  ASSUME ProgressInv, LateInv, sink' = sink,
         \A w \in Workers : Advancing(w)' /\ ~Advancing(w) => ~finished[TaskOf[w]]
  PROVE  LateInv'
<1> SUFFICES ASSUME NEW t \in Tasks, Events(t, "finished")' # {}
             PROVE  (Cardinality(Late(t)) + Cardinality(Pending(t))
                       < Cardinality(Handles(t)))'
  BY DEF LateInv
<1>1. \A kind : Events(t, kind)' = Events(t, kind)
  BY DEF Events
<1>2. Late(t)' = Late(t) /\ Events(t, "finished") # {}
  BY <1>1 DEF Late
<1>3. finished[t]
  BY <1>2 DEF Events, ProgressInv, FinishInv
<1>4. Pending(t)' \subseteq Pending(t)
  BY <1>3 DEF Pending, Handles
<1> QED
  BY <1>2, <1>4, FewerPending DEF LateInv, ProgressInv

(* A worker that reports an advance moves it from those begun to those     *)
(* reported late; the one that reports the end has none begun.             *)
LEMMA EmitLate ==
  ASSUME ProgressInv, LateInv, NEW w \in Workers, Emit(w)
  PROVE  LateInv'
<1> DEFINE n == Len(sink) + 1
           tw == TaskOf[w]
<1>1. /\ event[w] \in Event /\ event[w].task = tw /\ tw \in Tasks
      /\ InFlight(w) /\ event[w].kind \in Kinds
  BY ProgressAssumption DEF Emit, ProgressInv, WorkerInv, InFlight, Event
<1>2. /\ DOMAIN sink' = DOMAIN sink \cup {n} /\ n \notin DOMAIN sink
      /\ \A i \in DOMAIN sink : sink'[i] = sink[i] /\ i < n
      /\ sink'[n] = event[w]
      /\ n \in Nat /\ DOMAIN sink \subseteq Nat
  BY <1>1 DEF Emit, ProgressInv, ProgressTypeOK
<1>3. /\ ~Advancing(w)'
      /\ \A v \in Workers \ {w} : Advancing(v)' <=> Advancing(v)
  BY DEF Emit, Go, Advancing, InFlight, ProgressInv, ProgressTypeOK
<1>4. \A t, kind : Events(t, kind)' =
        Events(t, kind) \cup {i \in {n} : tw = t /\ event[w].kind = kind}
  BY <1>1, <1>2, Zenon DEF Events
<1> SUFFICES ASSUME NEW t \in Tasks, Events(t, "finished")' # {}
             PROVE  (Cardinality(Late(t)) + Cardinality(Pending(t))
                       < Cardinality(Handles(t)))'
  BY DEF LateInv
<1>5. ASSUME t # tw \/ event[w].kind = "started"
      PROVE  (Cardinality(Late(t)) + Cardinality(Pending(t)) < Cardinality(Handles(t)))'
  <2>1. Events(t, "finished")' = Events(t, "finished")
        /\ Events(t, "advanced")' = Events(t, "advanced")
    BY <1>4, <1>5
  <2>2. Late(t)' = Late(t)
    BY <2>1 DEF Late
  <2>3. Pending(t)' \subseteq Pending(t)
    BY <1>3 DEF Pending, Handles
  <2> QED
    BY <2>1, <2>2, <2>3, FewerPending DEF LateInv, ProgressInv
<1>6. ASSUME t = tw, event[w].kind = "finished"
      PROVE  (Cardinality(Late(t)) + Cardinality(Pending(t)) < Cardinality(Handles(t)))'
  <2>1. Events(t, "finished") = {}
    BY <1>1, <1>6 DEF ProgressInv, FinishInv, Ending, Events
  <2>2. Events(t, "finished")' = {n} /\ Events(t, "advanced")' = Events(t, "advanced")
    BY <1>4, <1>6, <2>1
  <2>3. \A i \in Events(t, "advanced") : ~(n < i)
    BY <1>2 DEF Events
  <2>4. Late(t)' = {}
    BY <2>2, <2>3 DEF Late
  <2>5. Pending(t)' \in SUBSET (Handles(t) \ {w}) /\ w \in Handles(t)
    BY <1>3, <1>6 DEF Pending, Handles
  <2>6. IsFiniteSet(Handles(t) \ {w})
        /\ Cardinality(Handles(t) \ {w}) = Cardinality(Handles(t)) - 1
    BY <2>5, CountedFinite, FS_RemoveElement DEF ProgressInv
  <2>7. Cardinality(Pending(t)') <= Cardinality(Handles(t) \ {w})
        /\ Cardinality(Pending(t)') \in Nat
    BY <2>5, <2>6, FS_Subset, FS_CardinalityType
  <2>8. Cardinality(Late(t)') = 0 /\ Handles(t)' = Handles(t)
    BY <2>4, FS_EmptySet DEF Handles
  <2> QED
    BY <2>6, <2>7, <2>8, CountedFinite DEF ProgressInv
<1>7. ASSUME t = tw, event[w].kind = "advanced"
      PROVE  (Cardinality(Late(t)) + Cardinality(Pending(t)) < Cardinality(Handles(t)))'
  <2>1. Events(t, "finished")' = Events(t, "finished")
        /\ Events(t, "advanced")' = Events(t, "advanced") \cup {n}
    BY <1>4, <1>7
  <2>2. Late(t)' \in SUBSET (Late(t) \cup {n})
    BY <2>1 DEF Late
  <2>3. IsFiniteSet(Late(t) \cup {n})
        /\ Cardinality(Late(t) \cup {n}) <= Cardinality(Late(t)) + 1
    <3>1. IsFiniteSet(Late(t)) /\ Cardinality(Late(t)) \in Nat
      BY CountedFinite DEF ProgressInv
    <3>2. IsFiniteSet(Late(t) \cup {n})
          /\ Cardinality(Late(t) \cup {n}) =
               IF n \in Late(t) THEN Cardinality(Late(t)) ELSE Cardinality(Late(t)) + 1
      BY <3>1, FS_AddElement, Zenon
    <3> QED
      BY <3>1, <3>2
  <2>4. Cardinality(Late(t)') <= Cardinality(Late(t) \cup {n})
        /\ Cardinality(Late(t)') \in Nat /\ Cardinality(Late(t) \cup {n}) \in Nat
    BY <2>2, <2>3, FS_Subset, FS_CardinalityType
  <2>5. Pending(t)' = Pending(t) \ {w} /\ w \in Pending(t)
    BY <1>1, <1>3, <1>7 DEF Pending, Handles, Advancing
  <2>6. Cardinality(Pending(t)') = Cardinality(Pending(t)) - 1
    BY <2>5, CountedFinite, FS_RemoveElement DEF ProgressInv
  <2>7. Cardinality(Late(t)) + Cardinality(Pending(t)) < Cardinality(Handles(t))
    BY <2>1 DEF LateInv
  <2>8. Handles(t)' = Handles(t)
    BY DEF Handles
  <2> QED
    BY <2>3, <2>4, <2>6, <2>7, <2>8, CountedFinite DEF ProgressInv
<1> QED
  BY <1>1, <1>5, <1>6, <1>7 DEF Kinds

LEMMA LateNext == ProgressInv /\ LateInv /\ [ProgressNext]_progressVars => LateInv'
<1> SUFFICES ASSUME ProgressInv, LateInv, [ProgressNext]_progressVars PROVE LateInv'
  OBVIOUS
<1> DEFINE NoneBegins ==
      \A w \in Workers : Advancing(w)' /\ ~Advancing(w) => ~finished[TaskOf[w]]
<1> USE DEF ProgressInv, ProgressTypeOK, Advancing, InFlight, Go
<1>1. ASSUME NEW w \in Workers, Start(w) PROVE LateInv'
  <2>1. NoneBegins
    BY <1>1 DEF Start, Prepare
  <2> QED
    BY <1>1, <2>1, SilentStep DEF Start
<1>2. ASSUME NEW w \in Workers, Join(w) \/ Continue(w) \/ Encode(w) PROVE LateInv'
  <2>1. NoneBegins
    BY <1>2 DEF Join, Continue, Encode
  <2> QED
    BY <1>2, <2>1, SilentStep DEF Join, Continue, Encode
<1>3. ASSUME NEW w \in Workers, Draw(w) \/ ReadPosition(w) PROVE LateInv'
  <2>1. event'[w].kind = event[w].kind /\ InFlight(w)
    BY <1>3 DEF Draw, ReadPosition, WorkerInv, Event
  <2>2. NoneBegins
    BY <1>3, <2>1 DEF Draw, ReadPosition
  <2> QED
    BY <1>3, <2>2, SilentStep DEF Draw, ReadPosition
<1>4. ASSUME NEW w \in Workers, Check(w) PROVE LateInv'
  <2>1. NoneBegins
    BY <1>4 DEF Check
  <2> QED
    BY <1>4, <2>1, SilentStep DEF Check
<1>5. ASSUME NEW w \in Workers, Add(w) PROVE LateInv'
  <2>1. NoneBegins
    BY <1>5 DEF Add, Prepare
  <2> QED
    BY <1>5, <2>1, SilentStep DEF Add
<1>6. ASSUME NEW w \in Workers, NEW outcome \in Outcomes, FinishTask(w, outcome) PROVE LateInv'
  <2>1. NoneBegins
    BY <1>6 DEF FinishTask, Prepare, Ends
  <2> QED
    BY <1>6, <2>1, SilentStep DEF FinishTask
<1>7. CASE Cancel \/ UNCHANGED progressVars
  <2>1. NoneBegins
    BY <1>7 DEF Cancel, progressVars
  <2> QED
    BY <1>7, <2>1, SilentStep DEF Cancel, progressVars
<1>8. ASSUME NEW w \in Workers, Emit(w) PROVE LateInv'
  BY <1>8, EmitLate
<1> QED
  BY <1>1, <1>2, <1>3, <1>4, <1>5, <1>6, <1>7, <1>8 DEF ProgressNext, Step

(* However the workers of a task interleave, an advance the sink hears of  *)
(* after the end of the task had begun before it: there are fewer of them  *)
(* than handles (advance looks at the flag first, finish sets it).         *)
THEOREM LateCorrect == ProgressSpec => []LateIsBounded
<1>1. ProgressInit => LateInv
  BY DEF ProgressInit, LateInv, Events
<1>2. ProgressInv /\ LateInv => LateIsBounded
  <2> SUFFICES ASSUME ProgressInv, LateInv, NEW t \in Tasks, Late(t) # {}
               PROVE  Cardinality(Late(t)) < Cardinality(Handles(t))
    BY DEF LateIsBounded, Handles
  <2>1. Events(t, "finished") # {}
    BY DEF Late
  <2> QED
    BY <2>1, CountedFinite DEF LateInv, ProgressInv
<1> QED
  BY ProgressInductive, LateNext, <1>1, <1>2, PTL DEF ProgressSpec

=============================================================================
