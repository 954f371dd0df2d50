----------------------------- MODULE UnpackPool -----------------------------
(***************************************************************************)
(* One batch of `unpack` on the x86 worker pool (main.rs): Rayon splits    *)
(* the batch into jobs, one per entry; each worker thread has an emulator  *)
(* of its own in a thread-local RefCell, borrowed while it solves an       *)
(* entry.  An entry the filter does not solve falls back to the            *)
(* repeating-XOR search, which is itself a parallel iterator on the same   *)
(* pool: while the worker waits for the stolen half of that search it      *)
(* executes other jobs.                                                    *)
(*                                                                         *)
(* Rayon is external.  Of it the model keeps what the program can see: a   *)
(* deque per worker, its owner at the back, thieves at the front; a worker *)
(* without work of its own steals; a worker whose forked half was stolen   *)
(* goes on like an idle one, on top of the waiting frame.  A join over     *)
(* batch halves holds nothing, so its waiting frame is left out.           *)
(***************************************************************************)
EXTENDS Naturals, Sequences

CONSTANTS
  Workers,  \* threads of x86_worker_pool
  N         \* entries of the batch

ASSUME PoolAssumption == N \in Nat \ {0}

Entries == 1 .. N

VARIABLES
  deque,    \* jobs of each worker, the oldest first
  stack,    \* frames of each worker, the running one last
  cell,     \* X86_WORKER_RUNTIME of each worker: borrowed, emulator open
  result,   \* outcome of each entry
  searched, \* entries whose forked half of the search is done
  panicked  \* a closure panicked; pool.install will panic too

vars == <<deque, stack, cell, result, searched, panicked>>

(* A job is a range of the batch or the forked half of an entry's search.  *)
Range(lo, hi) == [job |-> "range", lo |-> lo, hi |-> hi]
Half(e) == [job |-> "half", lo |-> e, hi |-> e]
Jobs == [job : {"range", "half"}, lo : Entries, hi : Entries]

Steps == {"split", "borrow", "filter", "fork", "search", "wait", "half"}
Frame == [step : Steps, lo : Entries, hi : Entries]
FrameOf(j) == [step |-> IF j.job = "range" THEN "split" ELSE "half", lo |-> j.lo, hi |-> j.hi]

Results == {"none", "solved", "unresolved", "error"}

Top(w) == stack[w][Len(stack[w])]
Below(w) == SubSeq(stack[w], 1, Len(stack[w]) - 1)
Runs(w, step) == stack[w] # <<>> /\ Top(w).step = step

Go(w, step) == stack' = [stack EXCEPT ![w][Len(stack[w])].step = step]
Push(w, j) == deque' = [deque EXCEPT ![w] = Append(@, j)]

(* pool.install puts the batch on some worker's deque. *)
Init ==
  /\ deque \in {[[w \in Workers |-> <<>>] EXCEPT ![v] = <<Range(1, N)>>] : v \in Workers}
  /\ stack = [w \in Workers |-> <<>>]
  /\ cell = [w \in Workers |-> [borrowed |-> FALSE, open |-> FALSE]]
  /\ result = [e \in Entries |-> "none"]
  /\ searched = {}
  /\ panicked = FALSE

----------------------------------------------------------------------------
(* Rayon *)

(* A worker looks for a job when it is idle or waits for a stolen half.    *)
Looks(w) == stack[w] = <<>> \/ (Runs(w, "wait") /\ Top(w).lo \notin searched)

TakeOwn(w) ==
  /\ Looks(w) /\ deque[w] # <<>>
  /\ LET last == Len(deque[w])
     IN  /\ stack' = [stack EXCEPT ![w] = Append(@, FrameOf(deque[w][last]))]
         /\ deque' = [deque EXCEPT ![w] = SubSeq(@, 1, last - 1)]
  /\ UNCHANGED <<cell, result, searched, panicked>>

Steal(w, v) ==
  /\ Looks(w) /\ deque[w] = <<>> /\ deque[v] # <<>>
  /\ stack' = [stack EXCEPT ![w] = Append(@, FrameOf(Head(deque[v])))]
  /\ deque' = [deque EXCEPT ![v] = Tail(@)]
  /\ UNCHANGED <<cell, result, searched, panicked>>

(* Halve a range down to one entry, leaving the right halves to thieves.   *)
Split(w) ==
  /\ Runs(w, "split") /\ Top(w).lo < Top(w).hi
  /\ LET lo == Top(w).lo
         hi == Top(w).hi
         mid == (lo + hi) \div 2
     IN  /\ Push(w, Range(mid + 1, hi))
         /\ stack' = [stack EXCEPT ![w][Len(stack[w])].hi = mid]
  /\ UNCHANGED <<cell, result, searched, panicked>>

Single(w) ==
  /\ Runs(w, "split") /\ Top(w).lo = Top(w).hi
  /\ Go(w, "borrow")
  /\ UNCHANGED <<deque, cell, result, searched, panicked>>

(* The forked half of a search runs to its end. *)
SearchHalf(w) ==
  /\ Runs(w, "half")
  /\ searched' = searched \cup {Top(w).lo}
  /\ stack' = [stack EXCEPT ![w] = Below(w)]
  /\ UNCHANGED <<deque, cell, result, panicked>>

----------------------------------------------------------------------------
(* The closure of one entry *)

(* The closure returns r; dropping the guard ends the borrow. *)
Return(w, r) ==
  /\ result' = [result EXCEPT ![Top(w).lo] = r]
  /\ stack' = [stack EXCEPT ![w] = Below(w)]
  /\ cell' = [cell EXCEPT ![w].borrowed = FALSE]

(* Bug: the cell hands out its emulator whoever has it. *)
BorrowShared(w) ==
  /\ Runs(w, "borrow")
  /\ cell' = [cell EXCEPT ![w].borrowed = TRUE]
  /\ Go(w, "filter")
  /\ UNCHANGED <<deque, result, searched, panicked>>

(* cell.borrow_mut() *)
Borrow(w) ==
  /\ Runs(w, "borrow") /\ ~cell[w].borrowed
  /\ cell' = [cell EXCEPT ![w].borrowed = TRUE]
  /\ Go(w, "filter")
  /\ UNCHANGED <<deque, result, searched, panicked>>

(* Bug: the cell is a mutex, whose owner waits for itself. *)
PanicWaits(w) == FALSE

(* BorrowMutError.  The batch cannot succeed any more: the model ends here. *)
Panic(w) ==
  /\ Runs(w, "borrow") /\ cell[w].borrowed
  /\ panicked' = TRUE
  /\ UNCHANGED <<deque, stack, cell, result, searched>>

(* The worker's first entry opens the emulator, which may fail. *)
OpenRuntime(w) ==
  /\ Runs(w, "filter") /\ ~cell[w].open
  /\ \/ /\ cell' = [cell EXCEPT ![w].open = TRUE]
        /\ UNCHANGED <<stack, result>>
     \/ Return(w, "error")
  /\ UNCHANGED <<deque, searched, panicked>>

(* solve_one up to the search: the entry is plain or the filter restores   *)
(* it; it is a node without content or the name gives no hypothesis; the   *)
(* emulator fails; or the restored bytes do not verify.                    *)
Filter(w) ==
  /\ Runs(w, "filter") /\ cell[w].open
  /\ \/ \E r \in {"solved", "unresolved", "error"} : Return(w, r)
     \/ Go(w, "fork") /\ UNCHANGED <<cell, result>>
  /\ UNCHANGED <<deque, searched, panicked>>

(* recover_complete_stream: a parallel iterator over periods, then one     *)
(* over hypotheses; one fork stands for them.                              *)
Fork(w) ==
  /\ Runs(w, "fork")
  /\ Push(w, Half(Top(w).lo))
  /\ Go(w, "search")
  /\ UNCHANGED <<cell, result, searched, panicked>>

Search(w) ==
  /\ Runs(w, "search")
  /\ Go(w, "wait")
  /\ UNCHANGED <<deque, cell, result, searched, panicked>>

(* Bug: an error of the search is dropped with its entry. *)
JoinLoses(w) ==
  /\ Runs(w, "wait") /\ Top(w).lo \in searched
  /\ \/ \E r \in {"solved", "unresolved"} : Return(w, r)
     \/ /\ stack' = [stack EXCEPT ![w] = Below(w)]
        /\ cell' = [cell EXCEPT ![w].borrowed = FALSE]
        /\ UNCHANGED result
  /\ UNCHANGED <<deque, searched, panicked>>

(* Both halves are done: the search found a key, none, or an error. *)
Join(w) ==
  /\ Runs(w, "wait") /\ Top(w).lo \in searched
  /\ \E r \in {"solved", "unresolved", "error"} : Return(w, r)
  /\ UNCHANGED <<deque, searched, panicked>>

Step(w) ==
  /\ ~panicked
  /\ \/ TakeOwn(w) \/ Split(w) \/ Single(w) \/ SearchHalf(w)
     \/ Borrow(w) \/ Panic(w) \/ OpenRuntime(w) \/ Filter(w)
     \/ Fork(w) \/ Search(w) \/ Join(w)
     \/ \E v \in Workers \ {w} : Steal(w, v)

Next == \E w \in Workers : Step(w)

(* Every pool thread runs. *)
Spec == Init /\ [][Next]_vars /\ \A w \in Workers : WF_vars(Step(w))

----------------------------------------------------------------------------
TypeOK ==
  /\ deque \in [Workers -> Seq(Jobs)]
  /\ stack \in [Workers -> Seq(Frame)]
  /\ cell \in [Workers -> [borrowed : BOOLEAN, open : BOOLEAN]]
  /\ result \in [Entries -> Results]
  /\ searched \subseteq Entries
  /\ panicked \in BOOLEAN

(* Frames of w that hold its emulator. *)
Holding(w) == {i \in DOMAIN stack[w] : stack[w][i].step \in {"filter", "fork", "search", "wait"}}

(* "Every worker owns an independent Unicorn instance": whatever is stolen *)
(* or nested, one entry at a time uses a worker's emulator, and the cell   *)
(* is borrowed exactly while one does.                                     *)
EmulatorExclusive ==
  \A w \in Workers :
    /\ \A i, j \in Holding(w) : i = j
    /\ cell[w].borrowed <=> Holding(w) # {}

(* No entry of the batch is lost or solved twice on its way through the    *)
(* deques: it is in one queued range, in one frame, or has its result.     *)
InRange(e, r) == r.lo <= e /\ e <= r.hi
QueuedAt(e, w, i) == i \in DOMAIN deque[w] /\ deque[w][i].job = "range" /\ InRange(e, deque[w][i])
RunsAt(e, w, i) == i \in DOMAIN stack[w] /\ stack[w][i].step # "half" /\ InRange(e, stack[w][i])
Queued(e) == \E w \in Workers : \E i \in DOMAIN deque[w] : QueuedAt(e, w, i)
Running(e) == \E w \in Workers : \E i \in DOMAIN stack[w] : RunsAt(e, w, i)
OnePlace(e) ==
  /\ \A v, w \in Workers : \A i \in DOMAIN deque[v], j \in DOMAIN deque[w] :
       QueuedAt(e, v, i) /\ QueuedAt(e, w, j) => v = w /\ i = j
  /\ \A v, w \in Workers : \A i \in DOMAIN stack[v], j \in DOMAIN stack[w] :
       RunsAt(e, v, i) /\ RunsAt(e, w, j) => v = w /\ i = j
  /\ ~(Queued(e) /\ Running(e))
  /\ result[e] = "none" <=> Queued(e) \/ Running(e)
NoEntryLost == \A e \in Entries : OnePlace(e)

(* The batch ends: all entries get a result, unless the pool panics. *)
BatchEnds == <>(panicked \/ \A e \in Entries : result[e] # "none")

----------------------------------------------------------------------------
(* main.rs, on the pool: every worker owns its emulator, and when a filter *)
(* result does not verify the entry "falls back to the normal path" - it   *)
(* gets a result, the batch does not die.                                  *)
MismatchFallsBack == ~panicked
=============================================================================
