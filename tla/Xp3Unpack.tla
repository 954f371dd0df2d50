----------------------------- MODULE Xp3Unpack -----------------------------
(***************************************************************************)
(* `unpack` (main.rs): choose what the whole archive is encrypted with,    *)
(* then solve and write its entries - with an archive-wide XOR key one by  *)
(* one, else in bounded batches solved in parallel and written in order.   *)
(*                                                                         *)
(* What is in an archive is fixed: for each entry, how its bytes are       *)
(* really encrypted (`cipher`), whether it has a checksum (`adlr`), and    *)
(* what the format validators take for genuine (`strong`).  Two streams    *)
(* have one Adler-32 only if they are equal; a validator may be fooled.    *)
(*                                                                         *)
(* Selecting a native engine (sampling, emulation) is a free choice, and   *)
(* so is whether a key search that could succeed does.  Files written by   *)
(* the HXV4 name bootstrap are left out.  UnpackPool has the threads.      *)
(***************************************************************************)
EXTENDS Naturals, FiniteSets, FiniteSetsExt

CONSTANTS
  N,         \* entries of the archive
  Paths,
  Shapes,    \* the entries an archive may have
  BatchSize, \* KRKR_UNPACK_BATCH_SIZE
  ByteLimit, \* KRKR_UNPACK_BATCH_BYTES
  NoFile

Methods == {"raw", "native", "common", "own"}

Shape ==
  [kind : {"file", "dummy", "lookup"},
   readable : BOOLEAN,                   \* reconstruct_entry succeeds
   adlr : BOOLEAN,
   hash : BOOLEAN,                       \* a file hash: adlr, or another one
   named : BOOLEAN,                      \* hypotheses_for_name is not empty
   bound : BOOLEAN,                      \* HXV4: has its Special record
   cipher : Methods \cup {"unknown"},
   strong : SUBSET Methods,
   size : Nat,
   path : Paths,                         \* as named
   image : Paths]                        \* as converted; path if it is no TLG

ASSUME UnpackAssumption ==
  /\ N \in Nat \ {0}
  /\ Shapes \subseteq Shape
  /\ \A s \in Shapes : s.adlr => s.hash
  /\ BatchSize \in Nat \ {0} /\ ByteLimit \in Nat

Entries == 1 .. N

(* Family facts: HXV4; its FilterManager was rebuilt; the Special index    *)
(* was encrypted with the common key; the plan allows the shared probe.    *)
Games == [hx : BOOLEAN, manager : BOOLEAN, special : BOOLEAN, shared : BOOLEAN]

VARIABLES
  entry,    \* shape of each entry
  game,
  pc,
  key,      \* global_key: "none", "special" or "shared"
  tool,     \* validated engine: "none", "cxdec" or "x86"
  at,       \* next entry to be recorded
  end,      \* the batch is at .. end - 1
  held,     \* results of the batch in memory
  disk,     \* files of the tree
  meta,     \* recovery record of each entry, in memory
  manifest  \* xp3-meta.yaml is written

vars == <<entry, game, pc, key, tool, at, end, held, disk, meta, manifest>>
archive == <<entry, game>>
tree == <<disk, meta, manifest>>

Statuses ==
  {"plain", "native-cxdec", "x86-emulated-filter", "hxv4-native", "hxv4-native-mismatch",
   "hxv4-effective-fallback", "per-file-repeating-xor", "global-repeating-xor",
   "unresolved", "reconstruct-failed", "ignored-protected-dummy", "error"}
Result == [status : Statuses, how : Methods \cup {"none"}]
Blank == [status |-> "pending", how |-> "none"]

Init ==
  /\ entry \in [Entries -> Shapes]
  /\ game \in {g \in Games : (g.manager => g.hx) /\ (g.special => ~g.hx)}
  /\ pc = "index"
  /\ key = "none" /\ tool = "none"
  /\ at = 1 /\ end = 1
  /\ held = [e \in Entries |-> Blank]
  /\ disk = [p \in Paths |-> NoFile]
  /\ meta = [e \in Entries |-> Blank]
  /\ manifest = FALSE

----------------------------------------------------------------------------
(* Evidence *)

Right(e, how) == entry[e].cipher = how
Strong(e, how) == how \in entry[e].strong
Matches(e, how) == entry[e].adlr => Right(e, how)

(* adlr agrees or, without adlr, a format is recognised. *)
Verified(e, how) == IF entry[e].adlr THEN Right(e, how) ELSE Strong(e, how)

Readable == {e \in Entries : entry[e].readable}
Tested == {e \in Readable : entry[e].adlr}
Recognised == {e \in Readable : entry[e].named /\ Strong(e, "common")}

(* validate_special_xor_as_content_key_streaming *)
SpecialProves ==
  /\ Readable # {}
  /\ \A e \in Tested : Right(e, "common")
  /\ IF Tested # {} THEN Recognised # {} ELSE Cardinality(Recognised) >= 2

(* Bug: the shared key is believed on its samples. *)
SharedSampled ==
  /\ Cardinality({e \in Readable : entry[e].named}) >= 2
  /\ Cardinality({e \in Tested : Right(e, "common")}) >= 2
  /\ Cardinality(Recognised) >= 2

(* find_global_shared_key *)
SharedProves ==
  /\ Cardinality({e \in Readable : entry[e].named}) >= 2
  /\ \A e \in Tested : Right(e, "common")
  /\ Cardinality(Tested) >= 2
  /\ Cardinality(Recognised) >= 2

----------------------------------------------------------------------------
(* The archive as a whole *)

Quiet == UNCHANGED <<archive, at, end, held, disk, meta>>

(* The Special index is decoded or nothing else is tried; with HXV4 every  *)
(* name must be known before any content is touched.                       *)
SpecialGate ==
  /\ pc = "index"
  /\ pc' \in {"special", "failed"}
  /\ UNCHANGED <<key, tool, manifest>> /\ Quiet

NamesMissing ==
  /\ pc = "special" /\ game.hx
  /\ pc' = "done" /\ manifest' = TRUE
  /\ UNCHANGED <<key, tool>> /\ Quiet

SpecialKey ==
  /\ pc = "special"
  /\ key' = IF game.special /\ SpecialProves THEN "special" ELSE "none"
  /\ pc' = "native"
  /\ UNCHANGED <<tool, manifest>> /\ Quiet

(* CxDec first, x86 emulation if there is none. *)
NativeEngine ==
  /\ pc = "native"
  /\ IF key = "none" /\ ~game.hx THEN tool' \in {"none", "cxdec", "x86"} ELSE UNCHANGED tool
  /\ pc' = "shared"
  /\ UNCHANGED <<key, manifest>> /\ Quiet

(* Bug: the probe does not wait for the native engine. *)
MayProbeAnyway == key = "none" /\ ~game.hx /\ game.shared

(* should_try_generic_shared_key, native_content_filter_ready *)
MayProbe == key = "none" /\ ~game.hx /\ tool = "none" /\ game.shared

SharedProbe ==
  /\ pc = "shared"
  /\ \/ MayProbe /\ SharedProves /\ key' = "shared"
     \/ UNCHANGED key
  /\ pc' = IF key' = "none" THEN "form" ELSE "stream"
  /\ UNCHANGED <<tool, manifest>> /\ Quiet

(* A probe may fail, as for CxDec that is recognised but not reproduced.   *)
ProbeError ==
  /\ pc \in {"special", "native", "shared"}
  /\ pc' = "failed"
  /\ UNCHANGED <<key, tool, manifest>> /\ Quiet

----------------------------------------------------------------------------
(* Output *)

(* A TLG image is decoded only if its bytes are right. *)
Converts(e, how) == entry[e].image # entry[e].path /\ Right(e, how)
Target(e, how) == IF Converts(e, how) THEN entry[e].image ELSE entry[e].path

(* write_unpack_asset_output: a converted image replaces the raw file. *)
Put(d, e, how) ==
  LET gone == IF Converts(e, how) THEN {entry[e].path} ELSE {}
  IN  [p \in Paths |-> IF p = Target(e, how) THEN <<e, how>>
                       ELSE IF p \in gone THEN NoFile ELSE d[p]]

(* An entry whose result is r, recorded and written if it has content. *)
Recorded(e, r) ==
  /\ meta' = [meta EXCEPT ![e] = r]
  /\ disk' = IF r.how = "none" THEN disk ELSE Put(disk, e, r.how)
  /\ at' = e + 1

Outcome(status, how) == [status |-> status, how |-> how]

(* The archive-wide key, entry by entry: no checksum is looked at again. *)
StreamOutcome(e) ==
  IF entry[e].kind = "dummy" THEN Outcome("ignored-protected-dummy", "none")
  ELSE IF entry[e].readable THEN Outcome("global-repeating-xor", "common")
  ELSE Outcome("reconstruct-failed", "none")

StreamEntry ==
  /\ pc = "stream" /\ at <= N
  /\ Recorded(at, StreamOutcome(at))
  /\ UNCHANGED <<archive, pc, key, tool, end, held, manifest>>

----------------------------------------------------------------------------
(* Batches *)

Bytes(S) == MapThenSumSet(LAMBDA e : entry[e].size, S)
Batch == at .. end - 1
Solved == \A e \in Batch : held[e] # Blank

(* The batch grows until the next entry does not fit. *)
Forms(Fits(_)) ==
  /\ pc = "form" /\ at <= N
  /\ end' \in {n \in at .. N + 1 : Fits(n) /\ (n = N + 1 \/ ~Fits(n + 1))}
  /\ pc' = "solve"
  /\ UNCHANGED <<archive, key, tool, at, held, tree>>

(* Bug: an entry larger than the limit never gets into a batch. *)
FormIfFits == Forms(LAMBDA n : n - at <= BatchSize /\ Bytes(at .. n - 1) <= ByteLimit)

(* Entries are added while they fit; the first always does. *)
FormBatch ==
  Forms(LAMBDA n : /\ at < n /\ n - at <= BatchSize
                   /\ n = at + 1 \/ Bytes(at .. n - 1) <= ByteLimit)

Solve(e, status, how) ==
  /\ held' = [held EXCEPT ![e] = Outcome(status, how)]
  /\ UNCHANGED <<archive, pc, key, tool, at, end, tree>>

Turn(e) == pc = "solve" /\ e \in Batch /\ held[e] = Blank
IsContent(e) == entry[e].kind = "file" /\ entry[e].readable
IsPlain(e) ==
  IF entry[e].adlr THEN Right(e, "raw") ELSE entry[e].named /\ Strong(e, "raw")
ByTool(e) == tool # "none" /\ entry[e].hash
ByManager(e) == game.hx /\ game.manager

(* solve_one returns before it looks at content. *)
SolveNode(e) ==
  /\ Turn(e) /\ ~IsContent(e)
  /\ \/ entry[e].kind = "dummy" /\ Solve(e, "ignored-protected-dummy", "none")
     \/ entry[e].kind = "lookup" /\ Solve(e, "unresolved", "none")
     \/ entry[e].kind = "file" /\ Solve(e, "reconstruct-failed", "none")

SolvePlain(e) ==
  /\ Turn(e) /\ IsContent(e) /\ IsPlain(e)
  /\ Solve(e, "plain", "raw")

Status(t) == IF t = "cxdec" THEN "native-cxdec" ELSE "x86-emulated-filter"

SolveByTool(e) ==
  /\ Turn(e) /\ IsContent(e) /\ ~IsPlain(e) /\ ByTool(e)
  /\ \/ Verified(e, "native") /\ Solve(e, Status(tool), "native")
     \/ Solve(e, "error", "none")

(* With a FilterManager nothing is guessed: the entry has no record, or    *)
(* its checksum disagrees, or the filter's result is taken.                *)
SolveByManager(e) ==
  /\ Turn(e) /\ IsContent(e) /\ ~IsPlain(e) /\ ByManager(e)
  /\ \/ ~entry[e].bound /\ Solve(e, "unresolved", "none")
     \/ entry[e].bound /\ ~Matches(e, "native") /\ Solve(e, "hxv4-native-mismatch", "none")
     \/ entry[e].bound /\ Matches(e, "native") /\ Solve(e, "hxv4-native", "native")

(* What is left when the native engine has nothing for the entry. *)
Guessable(e) ==
  /\ Turn(e) /\ IsContent(e) /\ ~IsPlain(e)
  /\ ~(ByTool(e) /\ Verified(e, "native"))
  /\ ~ByManager(e)

(* recover_hxv4_effective, for an entry with an id, recorded or not; its   *)
(* result satisfies grammar and checksum.                                  *)
SolveEffective(e) ==
  /\ Guessable(e) /\ game.hx
  /\ \/ Matches(e, "native") /\ Strong(e, "native") /\ Solve(e, "hxv4-effective-fallback", "native")
     \/ Solve(e, "error", "none")

(* recover_complete_stream: a repeating XOR of the entry, if found. *)
Search(e) ==
  /\ Guessable(e)
  /\ \/ /\ entry[e].named
        /\ \/ \E how \in {"common", "own"} :
                /\ Matches(e, how) /\ Strong(e, how)
                /\ Solve(e, "per-file-repeating-xor", how)
           \/ Solve(e, "error", "none")
     \/ Solve(e, "unresolved", "none")

SolveEntry(e) ==
  SolveNode(e) \/ SolvePlain(e) \/ SolveByTool(e) \/ SolveByManager(e) \/ SolveEffective(e) \/ Search(e)

(* The pool has collected the batch. *)
Collect ==
  /\ pc = "solve" /\ Solved
  /\ pc' = "record"
  /\ UNCHANGED <<archive, key, tool, at, end, held, tree>>

(* Bug: results are written as they come in. *)
RecordAny ==
  /\ pc = "record" /\ at < end
  /\ \E e \in Batch :
       /\ held[e].status # "error" /\ held[e] # Blank
       /\ Recorded(e, held[e])
       /\ held' = [held EXCEPT ![e] = Blank]
  /\ UNCHANGED <<archive, pc, key, tool, end, manifest>>

RecordResult ==
  /\ pc = "record" /\ at < end /\ held[at].status # "error"
  /\ Recorded(at, held[at])
  /\ held' = [held EXCEPT ![at] = Blank]
  /\ UNCHANGED <<archive, pc, key, tool, end, manifest>>

NextBatch ==
  /\ pc = "record" /\ at = end
  /\ pc' = "form"
  /\ UNCHANGED <<archive, key, tool, at, end, held, tree>>

(* A result that is an error, or a file that cannot be written, ends the   *)
(* command; what the batch still holds is dropped.  The file may be there, *)
(* cut short.                                                              *)
Fail ==
  /\ pc \in {"stream", "record"} /\ at <= N
  /\ pc = "record" => at < end
  /\ LET r == IF pc = "stream" THEN StreamOutcome(at) ELSE held[at]
     IN  \/ r.status = "error" /\ UNCHANGED disk
         \/ r.how # "none" /\ disk' \in {disk, [disk EXCEPT ![Target(at, r.how)] = <<at, "cut">>]}
  /\ pc' = "failed"
  /\ held' = [e \in Entries |-> Blank]
  /\ UNCHANGED <<archive, key, tool, at, end, meta, manifest>>

(* write_xp3_meta *)
Finish ==
  /\ pc \in {"stream", "form"} /\ at = N + 1
  /\ pc' = "done" /\ manifest' = TRUE
  /\ UNCHANGED <<archive, key, tool, at, end, held, disk, meta>>

Next ==
  \/ SpecialGate \/ NamesMissing \/ SpecialKey \/ NativeEngine \/ SharedProbe \/ ProbeError
  \/ StreamEntry \/ FormBatch \/ Collect \/ RecordResult \/ NextBatch \/ Fail \/ Finish
  \/ \E e \in Entries : SolveEntry(e)

(* The command runs, and so do the pool's threads. *)
Spec == Init /\ [][Next]_vars /\ WF_vars(Next)

----------------------------------------------------------------------------
Files == (Entries \X (Methods \cup {"cut"})) \cup {NoFile}

TypeOK ==
  /\ entry \in [Entries -> Shapes]
  /\ game \in Games
  /\ pc \in {"index", "special", "native", "shared", "stream", "form", "solve", "record", "done", "failed"}
  /\ key \in {"none", "special", "shared"} /\ tool \in {"none", "cxdec", "x86"}
  /\ at \in 1 .. N + 1 /\ end \in 1 .. N + 1
  /\ held \in [Entries -> Result \cup {Blank}]
  /\ disk \in [Paths -> Files]
  /\ meta \in [Entries -> (Result \ [status : {"error"}, how : Methods \cup {"none"}]) \cup {Blank}]
  /\ manifest \in BOOLEAN

(* ADR-0001, "all accepted plaintext is validated": whichever of the ways  *)
(* an entry was recovered, a plaintext that contradicts the entry's adlr   *)
(* is never recorded - though an archive-wide key is applied without       *)
(* looking at it again.                                                    *)
AcceptedIsVerified ==
  \A e \in Entries : meta[e].how # "none" => Matches(e, meta[e].how)

(* ADR-0001, "brute force MUST remain the final fallback": no entry is     *)
(* recorded under a guessed key while a native engine is at hand that      *)
(* restores it by the evidence the archive has, nor under a FilterManager. *)
Guessed(e) ==
  \/ meta[e].status = "per-file-repeating-xor"
  \/ meta[e].status = "global-repeating-xor" /\ key = "shared"
GuessIsLast ==
  \A e \in Entries :
    Guessed(e) => ~(ByTool(e) /\ Verified(e, "native")) /\ ~ByManager(e)

(* The parallel batches are a way to run the sequential loop. *)
Own == [e \in Entries |-> {entry[e].path, entry[e].image}]
Order == INSTANCE UnpackOrder WITH own <- Own, ended <- pc \in {"done", "failed"}
InOrder == Order!Spec

(* The command ends, whatever the limits and however large an entry is. *)
Terminates == <>(pc \in {"done", "failed"})

=============================================================================
