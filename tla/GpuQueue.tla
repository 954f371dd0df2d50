------------------------------ MODULE GpuQueue ------------------------------
(***************************************************************************)
(* Access of the Rayon workers to the one GPU (compute.rs): the device is  *)
(* created on first use behind a OnceLock, submissions are serialised by a *)
(* mutex.  Gpu mode waits for the mutex; Hybrid only tries it; Auto first  *)
(* takes one of Limit places in a lock-free queue and waits only with      *)
(* one.  Whoever cannot use the GPU answers with the CPU fallback.         *)
(***************************************************************************)
EXTENDS Integers, FiniteSets

CONSTANTS
  Callers,  \* Rayon workers that call
  Modes,    \* compute modes in use; they may be mixed over the calls
  Limit,    \* AUTO_GPU_QUEUE_LIMIT, 2 in the code
  Word,     \* 2^64, the number of values of the depth counter
  Calls,    \* calls per worker; bounds the run
  None      \* no worker

ASSUME GpuAssumption ==
  /\ Limit \in Nat \ {0} /\ Calls \in Nat
  /\ Word \in Nat /\ Word > Limit
  /\ Modes \subseteq {"Auto", "Gpu", "Hybrid"}
  /\ IsFiniteSet(Callers)
  /\ None \notin Callers

VARIABLES
  pc,      \* where each worker is in its call
  mode,    \* mode of its call
  seen,    \* the depth it read last
  left,    \* calls it may still make
  answer,  \* outcome of its last call
  depth,   \* AUTO_GPU_QUEUE_DEPTH
  gpu,     \* the OnceLock: "none", the worker creating it, "ready" or "failed"
  owner    \* holder of the mutex

gpuVars == <<pc, mode, seen, left, answer, depth, gpu, owner>>

Answers == {"none", "gpu", "busy", "error"}

GpuInit ==
  /\ pc = [w \in Callers |-> "idle"]
  /\ mode \in [Callers -> Modes]
  /\ seen = [w \in Callers |-> 0]
  /\ left = [w \in Callers |-> Calls]
  /\ answer = [w \in Callers |-> "none"]
  /\ depth = 0 /\ gpu = "none" /\ owner = None

GoTo(w, step) == pc' = [pc EXCEPT ![w] = step]
Answer(w, a) == answer' = [answer EXCEPT ![w] = a]

(* The end of a submission: an Auto call gives its place back first. *)
Finish(w, a) ==
  /\ Answer(w, a)
  /\ GoTo(w, IF mode[w] = "Auto" THEN "leave" ELSE "idle")

(* A job large enough for the GPU (smaller ones never come here). *)
Call(w) ==
  /\ pc[w] = "idle" /\ left[w] > 0
  /\ left' = [left EXCEPT ![w] = @ - 1]
  /\ \E m \in Modes :
       /\ mode' = [mode EXCEPT ![w] = m]
       /\ GoTo(w, IF m = "Auto" THEN "load" ELSE "validate")
  /\ Answer(w, "none")
  /\ UNCHANGED <<seen, depth, gpu, owner>>

Load(w) ==
  /\ pc[w] = "load"
  /\ seen' = [seen EXCEPT ![w] = depth]
  /\ GoTo(w, "cas")
  /\ UNCHANGED <<mode, left, answer, depth, gpu, owner>>

(* Too many calls hold a place: count a busy fallback and use the CPU. *)
QueueFull(w) ==
  /\ pc[w] = "cas" /\ seen[w] >= Limit
  /\ Answer(w, "busy") /\ GoTo(w, "idle")
  /\ UNCHANGED <<mode, seen, left, depth, gpu, owner>>

(* Bug: the place is taken with the value read before. *)
EnterUnchecked(w) ==
  /\ pc[w] = "cas" /\ seen[w] < Limit
  /\ depth' = seen[w] + 1 /\ GoTo(w, "validate")
  /\ UNCHANGED <<mode, seen, left, answer, gpu, owner>>

(* compare_exchange_weak succeeds ... *)
Enter(w) ==
  /\ pc[w] = "cas" /\ seen[w] < Limit
  /\ depth = seen[w]
  /\ depth' = seen[w] + 1 /\ GoTo(w, "validate")
  /\ UNCHANGED <<mode, seen, left, answer, gpu, owner>>

(* ... or fails and reads again (it may also fail spuriously, which reads   *)
(* the same value and changes nothing).                                    *)
Reread(w) ==
  /\ pc[w] = "cas" /\ seen[w] < Limit /\ depth # seen[w]
  /\ seen' = [seen EXCEPT ![w] = depth]
  /\ UNCHANGED <<pc, mode, left, answer, depth, gpu, owner>>

(* An invalid problem is refused before the device is looked at. *)
Validate(w) ==
  /\ pc[w] = "validate"
  /\ \/ Finish(w, "error")
     \/ GoTo(w, "context") /\ UNCHANGED answer
  /\ UNCHANGED <<mode, seen, left, depth, gpu, owner>>

(* get_or_init: the first caller creates the device, others wait for it;   *)
(* a failure is remembered.                                                *)
StartInit(w) ==
  /\ pc[w] = "context" /\ gpu = "none"
  /\ gpu' = w /\ GoTo(w, "init")
  /\ UNCHANGED <<mode, seen, left, answer, depth, owner>>

EndInit(w) ==
  /\ pc[w] = "init"
  /\ gpu' \in {"ready", "failed"} /\ GoTo(w, "context")
  /\ UNCHANGED <<mode, seen, left, answer, depth, owner>>

NoDevice(w) ==
  /\ pc[w] = "context" /\ gpu = "failed"
  /\ Finish(w, "error")
  /\ UNCHANGED <<mode, seen, left, depth, gpu, owner>>

Lock(w) ==
  /\ pc[w] = "context" /\ gpu = "ready" /\ owner = None
  /\ owner' = w /\ GoTo(w, "dispatch")
  /\ UNCHANGED <<mode, seen, left, answer, depth, gpu>>

(* Bug: try_lock waits, so a held mutex is no answer. *)
BusyNever(w) == FALSE /\ UNCHANGED gpuVars

(* try_lock on a held mutex. *)
Busy(w) ==
  /\ pc[w] = "context" /\ gpu = "ready" /\ owner # None /\ mode[w] = "Hybrid"
  /\ Finish(w, "busy")
  /\ UNCHANGED <<mode, seen, left, depth, gpu, owner>>

(* Bug: an early return keeps the lock, as a leaked guard would. *)
DispatchKeepsLock(w) ==
  /\ pc[w] = "dispatch"
  /\ \/ Finish(w, "gpu") /\ owner' = None
     \/ Finish(w, "error") /\ UNCHANGED owner
  /\ UNCHANGED <<mode, seen, left, depth, gpu>>

(* The job runs and reads its result back, or fails; the guard is dropped. *)
Dispatch(w) ==
  /\ pc[w] = "dispatch"
  /\ \E a \in {"gpu", "error"} : Finish(w, a)
  /\ owner' = None
  /\ UNCHANGED <<mode, seen, left, depth, gpu>>

(* leave_auto_gpu_queue *)
Leave(w) ==
  /\ pc[w] = "leave"
  /\ depth' = (depth + Word - 1) % Word /\ GoTo(w, "idle")
  /\ UNCHANGED <<mode, seen, left, answer, gpu, owner>>

(* reset_compute_telemetry, at the start of a command, before any worker. *)
Reset ==
  /\ \A w \in Callers : pc[w] = "idle"
  /\ depth' = 0
  /\ UNCHANGED <<pc, mode, seen, left, answer, gpu, owner>>

CallStep(w) ==
  \/ Call(w) \/ Load(w) \/ QueueFull(w) \/ Enter(w) \/ Reread(w) \/ Validate(w)
  \/ StartInit(w) \/ EndInit(w) \/ NoDevice(w) \/ Lock(w) \/ Busy(w) \/ Leave(w)

GpuNext == (\E w \in Callers : CallStep(w) \/ Dispatch(w)) \/ Reset

(* Callers keep running; nothing is assumed about the device finishing a   *)
(* job.                                                                    *)
GpuSpec == GpuInit /\ [][GpuNext]_gpuVars /\ \A w \in Callers : WF_gpuVars(CallStep(w))

----------------------------------------------------------------------------
GpuTypeOK ==
  /\ pc \in [Callers -> {"idle", "load", "cas", "validate", "context", "init", "dispatch", "leave"}]
  /\ mode \in [Callers -> Modes]
  /\ seen \in [Callers -> 0 .. Limit]
  /\ left \in [Callers -> 0 .. Calls]
  /\ answer \in [Callers -> Answers]
  /\ depth \in 0 .. Limit
  /\ gpu \in {"none", "ready", "failed"} \cup Callers
  /\ owner \in Callers \cup {None}

InQueue(w) == mode[w] = "Auto" /\ pc[w] \in {"validate", "context", "init", "dispatch", "leave"}
Queue == {w \in Callers : InQueue(w)}

(* The counter is the number of Auto calls that hold a place, never more   *)
(* than Limit, whatever the races of entering and leaving and whichever    *)
(* way a submission fails: so at most Limit Auto workers can ever wait for *)
(* the device, and the queue does not silt up.                             *)
QueueBounded == depth = Cardinality(Queue) /\ Cardinality(Queue) <= Limit

(* The mutex and its guard: a worker that is not submitting holds nothing. *)
GuardReleased == owner # None => pc[owner] = "dispatch"

(* "A busy accelerator never stalls other Rayon jobs": even if the device  *)
(* never finishes a job, a Hybrid call either is that job or returns.      *)
HybridEscapesHang ==
  \A w \in Callers :
    mode[w] = "Hybrid" /\ pc[w] # "idle" ~> pc[w] = "idle" \/ owner = w

(* If the device finishes its jobs, every call of every mode returns.      *)
EveryCallReturns ==
  (\A w \in Callers : WF_gpuVars(Dispatch(w))) =>
    \A w \in Callers : pc[w] # "idle" ~> pc[w] = "idle"
=============================================================================
