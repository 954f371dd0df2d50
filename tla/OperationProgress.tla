------------------------- MODULE OperationProgress -------------------------
(***************************************************************************)
(* Progress events and cancellation of one operation (progress.rs), driven *)
(* by workers that run the frame loop of encode_amv_frames_with_context.   *)
(* A task handle may be cloned: several workers may work on one task, and  *)
(* tasks share the operation's sequence counter, cancellation token and    *)
(* sink.  Emitting an event takes three steps: draw a sequence number,     *)
(* read the position, call the sink.                                       *)
(***************************************************************************)
EXTENDS Naturals, Sequences, FiniteSets

CONSTANTS
  Workers,
  Tasks,
  TaskOf,  \* the task each worker has a handle of
  Frames,  \* frames each worker encodes
  NoEvent  \* nothing to emit

ASSUME ProgressAssumption ==
  /\ TaskOf \in [Workers -> Tasks]
  /\ IsFiniteSet(Workers)
  /\ Frames \in Nat
  /\ NoEvent \notin [task : Tasks, kind : {"started", "advanced", "finished"},
                     outcome : {"none", "success", "failed", "cancelled"},
                     seq : Nat, position : Nat]

Kinds == {"started", "advanced", "finished"}
Outcomes == {"success", "failed", "cancelled"}
None == "none"

VARIABLES
  place,        \* where each worker is
  frame,     \* frames it has encoded
  event,     \* the event it is about to emit
  cancelled, \* CancellationToken
  sequence,  \* next_sequence
  current,   \* position of each task
  finished,  \* the finished flag of each task
  started,   \* tasks that exist
  sink,      \* events in the order the sink received them
  late       \* history: frames encoded by each worker after the cancellation

progressVars == <<place, frame, event, cancelled, sequence, current, finished, started, sink, late>>

Event == [task : Tasks, kind : Kinds, outcome : Outcomes \cup {None},
          seq : Nat, position : Nat]

ProgressInit ==
  /\ place = [w \in Workers |-> "start"]
  /\ frame = [w \in Workers |-> 0]
  /\ event = [w \in Workers |-> NoEvent]
  /\ cancelled = FALSE
  /\ sequence = 1
  /\ current = [t \in Tasks |-> 0]
  /\ finished = [t \in Tasks |-> FALSE]
  /\ started = {}
  /\ sink = << >>
  /\ late = [w \in Workers |-> 0]

Events(t, kind) == {i \in DOMAIN sink : sink[i].task = t /\ sink[i].kind = kind}

Go(w, step) == place' = [place EXCEPT ![w] = step]

(* Begin an event. *)
Prepare(w, kind, outcome) ==
  /\ event' = [event EXCEPT ![w] = [task |-> TaskOf[w], kind |-> kind,
                 outcome |-> outcome, seq |-> 0, position |-> 0]]
  /\ Go(w, "draw")

(* start_task: the handle is returned after the Started event was emitted. *)
Start(w) ==
  /\ place[w] = "start" /\ TaskOf[w] \notin started
  /\ started' = started \cup {TaskOf[w]}
  /\ Prepare(w, "started", None)
  /\ UNCHANGED <<frame, cancelled, sequence, current, finished, sink, late>>

(* Another worker is given a clone of the handle. *)
Join(w) ==
  /\ place[w] = "start" /\ Events(TaskOf[w], "started") # {}
  /\ Go(w, "frame")
  /\ UNCHANGED <<frame, event, cancelled, sequence, current, finished, started, sink, late>>

(* ProgressTask::emit evaluates next_sequence first ... *)
Draw(w) ==
  /\ place[w] = "draw"
  /\ event' = [event EXCEPT ![w].seq = sequence]
  /\ sequence' = sequence + 1
  /\ Go(w, "position")
  /\ UNCHANGED <<frame, cancelled, current, finished, started, sink, late>>

(* ... then reads the position, then calls the sink. *)
ReadPosition(w) ==
  /\ place[w] = "position"
  /\ event' = [event EXCEPT ![w].position = current[TaskOf[w]]]
  /\ Go(w, "emit")
  /\ UNCHANGED <<frame, cancelled, sequence, current, finished, started, sink, late>>

Emit(w) ==
  /\ place[w] = "emit"
  /\ sink' = Append(sink, event[w])
  /\ event' = [event EXCEPT ![w] = NoEvent]
  /\ Go(w, IF event[w].kind = "finished" THEN "done" ELSE "frame")
  /\ UNCHANGED <<frame, cancelled, sequence, current, finished, started, late>>

(* The top of the loop: another frame, unless cancelled. *)
Continue(w) ==
  /\ place[w] = "frame" /\ frame[w] < Frames /\ ~cancelled
  /\ Go(w, "encode")
  /\ UNCHANGED <<frame, event, cancelled, sequence, current, finished, started, sink, late>>

Encode(w) ==
  /\ place[w] = "encode"
  /\ frame' = [frame EXCEPT ![w] = @ + 1]
  /\ late' = [late EXCEPT ![w] = IF cancelled THEN @ + 1 ELSE @]
  /\ Go(w, "check")
  /\ UNCHANGED <<event, cancelled, sequence, current, finished, started, sink>>

(* Bug: the finished flag is not looked at. *)
CheckNothing(w) ==
  /\ place[w] = "check" /\ Go(w, "add")
  /\ UNCHANGED <<frame, event, cancelled, sequence, current, finished, started, sink, late>>

(* advance: nothing on a finished task. *)
Check(w) ==
  /\ place[w] = "check"
  /\ Go(w, IF finished[TaskOf[w]] THEN "frame" ELSE "add")
  /\ UNCHANGED <<frame, event, cancelled, sequence, current, finished, started, sink, late>>

Add(w) ==
  /\ place[w] = "add"
  /\ current' = [current EXCEPT ![TaskOf[w]] = @ + 1]
  /\ Prepare(w, "advanced", None)
  /\ UNCHANGED <<frame, cancelled, sequence, finished, started, sink, late>>

(* How the loop ends: cancelled at its top, a frame that does not encode,  *)
(* or all frames encoded.                                                  *)
Ends(w, outcome) ==
  \/ outcome = "cancelled" /\ place[w] = "frame" /\ frame[w] < Frames /\ cancelled
  \/ outcome = "failed" /\ place[w] = "encode"
  \/ outcome = "success" /\ place[w] = "frame" /\ frame[w] = Frames

(* Bug: finish sets the flag without looking at it. *)
FinishAlways(w, outcome) ==
  /\ Ends(w, outcome)
  /\ finished' = [finished EXCEPT ![TaskOf[w]] = TRUE]
  /\ Prepare(w, "finished", outcome)
  /\ UNCHANGED <<frame, cancelled, sequence, current, started, sink, late>>

(* Bug: a cancelled task is not reported. *)
FinishSilently(w, outcome) ==
  /\ Ends(w, outcome)
  /\ finished' = [finished EXCEPT ![TaskOf[w]] = TRUE]
  /\ IF finished[TaskOf[w]] \/ outcome = "cancelled" THEN Go(w, "done") /\ UNCHANGED event
     ELSE Prepare(w, "finished", outcome)
  /\ UNCHANGED <<frame, cancelled, sequence, current, started, sink, late>>

(* finish: the caller that wins the compare_exchange emits, later ones     *)
(* return.                                                                 *)
FinishTask(w, outcome) ==
  /\ Ends(w, outcome)
  /\ finished' = [finished EXCEPT ![TaskOf[w]] = TRUE]
  /\ IF finished[TaskOf[w]] THEN Go(w, "done") /\ UNCHANGED event
     ELSE Prepare(w, "finished", outcome)
  /\ UNCHANGED <<frame, cancelled, sequence, current, started, sink, late>>

(* The frontend, at any time. *)
Cancel ==
  /\ ~cancelled
  /\ cancelled' = TRUE
  /\ UNCHANGED <<place, frame, event, sequence, current, finished, started, sink, late>>

Step(w) ==
  \/ Start(w) \/ Join(w) \/ ReadPosition(w) \/ Emit(w) \/ Continue(w) \/ Encode(w) \/ Check(w)
  \/ Add(w) \/ Draw(w)
  \/ \E outcome \in Outcomes : FinishTask(w, outcome)

Done == \A w \in Workers : place[w] = "done"
ProgressNext == (\E w \in Workers : Step(w)) \/ Cancel \/ (Done /\ UNCHANGED progressVars)

(* Every worker is a running thread. *)
ProgressSpec == ProgressInit /\ [][ProgressNext]_progressVars /\ \A w \in Workers : WF_progressVars(Step(w))

----------------------------------------------------------------------------
ProgressTypeOK ==
  /\ place \in [Workers -> {"start", "frame", "encode", "check", "add", "draw",
                         "position", "emit", "done"}]
  /\ frame \in [Workers -> 0 .. Frames]
  /\ event \in [Workers -> Event \cup {NoEvent}]
  /\ cancelled \in BOOLEAN
  /\ sequence \in Nat
  /\ current \in [Tasks -> Nat]
  /\ finished \in [Tasks -> BOOLEAN]
  /\ started \subseteq Tasks
  /\ sink \in Seq(Event)
  /\ late \in [Workers -> Nat]

(* "FinishTask the task once": the sink hears of one outcome per task, whoever *)
(* of the racing workers is first, and no two events have the same number. *)
FinishedOnce ==
  /\ \A t \in Tasks : Cardinality(Events(t, "finished")) <= 1
  /\ \A i, j \in DOMAIN sink : sink[i].seq = sink[j].seq => i = j

(* An advance may be reported after the end of its task, but only one that *)
(* had begun before: at most one for each other worker of the task.        *)
Late(t) == {i \in Events(t, "advanced") : \E j \in Events(t, "finished") : j < i}
LateIsBounded ==
  \A t \in Tasks :
    Late(t) # {} => Cardinality(Late(t)) < Cardinality({w \in Workers : TaskOf[w] = t})

(* A cancelled operation encodes at most the frame each worker has begun.  *)
CancelIsPrompt == \A w \in Workers : late[w] <= 1

(* Every task that was started is reported finished. *)
EveryTaskEnds ==
  \A t \in Tasks : t \in started ~> Events(t, "finished") # {}

=============================================================================
