-------------------------- MODULE UnpackPool_proofs --------------------------
(***************************************************************************)
(* Proofs about UnpackPool, for any number of workers and entries: types,  *)
(* the exclusive use of each worker's emulator, and that every entry of    *)
(* the batch is in one place until it has its result.  And about GpuQueue, *)
(* for any number of callers and any limit: the one device that the        *)
(* workers of a pool share.                                                *)
(***************************************************************************)
EXTENDS UnpackPool, GpuQueue, TLAPS

FS == INSTANCE FiniteSetTheorems

(* A frame past "split" is about one entry.                                *)
SingleFrames ==
  \A w \in Workers : \A i \in DOMAIN stack[w] :
    stack[w][i].step \in Steps \ {"split", "half"} => stack[w][i].lo = stack[w][i].hi

IInv == TypeOK /\ SingleFrames /\ EmulatorExclusive /\ NoEntryLost

----------------------------------------------------------------------------
(* Sequences *)

(* Append keeps what was there and puts the element behind it. *)
LEMMA Appended ==
  ASSUME NEW S, NEW s \in Seq(S), NEW x \in S
  PROVE  /\ Append(s, x) \in Seq(S)
         /\ DOMAIN s = 1 .. Len(s) /\ Len(s) \in Nat
         /\ DOMAIN Append(s, x) = 1 .. Len(s) + 1
         /\ Len(Append(s, x)) = Len(s) + 1
         /\ \A i \in 1 .. Len(s) : Append(s, x)[i] = s[i]
         /\ Append(s, x)[Len(s) + 1] = x
OBVIOUS

(* Everything but the last. *)
LEMMA Shortened ==
  ASSUME NEW S, NEW s \in Seq(S), s # <<>>
  PROVE  /\ SubSeq(s, 1, Len(s) - 1) \in Seq(S)
         /\ DOMAIN s = 1 .. Len(s) /\ Len(s) \in Nat \ {0}
         /\ DOMAIN SubSeq(s, 1, Len(s) - 1) = 1 .. Len(s) - 1
         /\ \A i \in 1 .. Len(s) - 1 : SubSeq(s, 1, Len(s) - 1)[i] = s[i]
         /\ s[Len(s)] \in S
OBVIOUS

(* Everything but the first. *)
LEMMA Shifted ==
  ASSUME NEW S, NEW s \in Seq(S), s # <<>>
  PROVE  /\ Tail(s) \in Seq(S)
         /\ DOMAIN s = 1 .. Len(s) /\ Len(s) \in Nat \ {0}
         /\ DOMAIN Tail(s) = 1 .. Len(s) - 1
         /\ \A i \in 1 .. Len(s) - 1 : Tail(s)[i] = s[i + 1]
         /\ Head(s) = s[1] /\ s[1] \in S
OBVIOUS

(* Another last element. *)
LEMMA Replaced ==
  ASSUME NEW S, NEW s \in Seq(S), s # <<>>, NEW x \in S
  PROVE  /\ [s EXCEPT ![Len(s)] = x] \in Seq(S)
         /\ DOMAIN s = 1 .. Len(s) /\ Len(s) \in Nat \ {0}
         /\ DOMAIN [s EXCEPT ![Len(s)] = x] = 1 .. Len(s)
         /\ \A i \in 1 .. Len(s) - 1 : [s EXCEPT ![Len(s)] = x][i] = s[i]
         /\ [s EXCEPT ![Len(s)] = x][Len(s)] = x
         /\ s[Len(s)] \in S
OBVIOUS

----------------------------------------------------------------------------
(* What an action does to the frames and to the deques *)

(* The running frame of w takes another step of its closure. *)
LEMMA GoEffect ==
  ASSUME TypeOK, NEW w \in Workers, stack[w] # <<>>, NEW s \in Steps, Go(w, s)
  PROVE  /\ stack' \in [Workers -> Seq(Frame)]
         /\ Len(stack[w]) \in DOMAIN stack[w]
         /\ \A v \in Workers : DOMAIN stack'[v] = DOMAIN stack[v]
         /\ \A v \in Workers : \A i \in DOMAIN stack[v] :
              <<v, i>> # <<w, Len(stack[w])>> => stack'[v][i] = stack[v][i]
         /\ stack'[w][Len(stack[w])].step = s
         /\ stack'[w][Len(stack[w])].lo = Top(w).lo
         /\ stack'[w][Len(stack[w])].hi = Top(w).hi
<1> DEFINE f == [Top(w) EXCEPT !.step = s]
<1>1. stack \in [Workers -> Seq(Frame)] /\ stack[w] \in Seq(Frame)
  BY DEF TypeOK
<1>2. Top(w) \in Frame
  BY <1>1, Shortened DEF Top
<1>3. f \in Frame /\ f.step = s /\ f.lo = Top(w).lo /\ f.hi = Top(w).hi
  BY <1>2 DEF Frame
<1>4. stack' = [stack EXCEPT ![w] = [stack[w] EXCEPT ![Len(stack[w])] = f]]
  BY <1>1 DEF Go, Top
<1> HIDE DEF f
<1>5. /\ [stack[w] EXCEPT ![Len(stack[w])] = f] \in Seq(Frame)
      /\ DOMAIN stack[w] = 1 .. Len(stack[w]) /\ Len(stack[w]) \in Nat \ {0}
      /\ DOMAIN [stack[w] EXCEPT ![Len(stack[w])] = f] = 1 .. Len(stack[w])
      /\ \A i \in 1 .. Len(stack[w]) - 1 : [stack[w] EXCEPT ![Len(stack[w])] = f][i] = stack[w][i]
      /\ [stack[w] EXCEPT ![Len(stack[w])] = f][Len(stack[w])] = f
  BY <1>1, <1>3, Replaced
<1> DEFINE g == [stack[w] EXCEPT ![Len(stack[w])] = f]
<1> HIDE DEF g
<1>6. stack' = [stack EXCEPT ![w] = g]
  BY <1>4 DEF g
<1>7. /\ g \in Seq(Frame) /\ DOMAIN g = DOMAIN stack[w] /\ Len(stack[w]) \in DOMAIN stack[w]
      /\ g[Len(stack[w])] = f
      /\ \A i \in DOMAIN stack[w] : i # Len(stack[w]) => g[i] = stack[w][i]
  BY <1>5 DEF g
<1>8. stack'[w] = g /\ \A v \in Workers \ {w} : stack'[v] = stack[v]
  BY <1>1, <1>6
<1> QED
  BY <1>1, <1>3, <1>6, <1>7, <1>8

(* The running frame of w ends. *)
LEMMA PopEffect ==
  ASSUME TypeOK, NEW w \in Workers, stack[w] # <<>>, stack' = [stack EXCEPT ![w] = Below(w)]
  PROVE  /\ stack' \in [Workers -> Seq(Frame)]
         /\ Len(stack[w]) \in DOMAIN stack[w]
         /\ \A v \in Workers \ {w} : stack'[v] = stack[v]
         /\ DOMAIN stack'[w] = DOMAIN stack[w] \ {Len(stack[w])}
         /\ \A i \in DOMAIN stack'[w] : stack'[w][i] = stack[w][i]
<1>1. stack \in [Workers -> Seq(Frame)] /\ stack[w] \in Seq(Frame)
  BY DEF TypeOK
<1>2. /\ Below(w) \in Seq(Frame)
      /\ DOMAIN stack[w] = 1 .. Len(stack[w]) /\ Len(stack[w]) \in Nat \ {0}
      /\ DOMAIN Below(w) = 1 .. Len(stack[w]) - 1
      /\ \A i \in 1 .. Len(stack[w]) - 1 : Below(w)[i] = stack[w][i]
  BY <1>1, Shortened DEF Below
<1> QED
  BY <1>1, <1>2

(* A job becomes the running frame of w. *)
LEMMA CallEffect ==
  ASSUME TypeOK, NEW w \in Workers, NEW f \in Frame, stack' = [stack EXCEPT ![w] = Append(@, f)]
  PROVE  /\ stack' \in [Workers -> Seq(Frame)]
         /\ Len(stack[w]) + 1 \notin DOMAIN stack[w]
         /\ \A v \in Workers \ {w} : stack'[v] = stack[v]
         /\ DOMAIN stack'[w] = DOMAIN stack[w] \cup {Len(stack[w]) + 1}
         /\ \A i \in DOMAIN stack[w] : stack'[w][i] = stack[w][i]
         /\ stack'[w][Len(stack[w]) + 1] = f
<1>1. stack \in [Workers -> Seq(Frame)] /\ stack[w] \in Seq(Frame)
  BY DEF TypeOK
<1>2. stack' = [stack EXCEPT ![w] = Append(stack[w], f)]
  BY <1>1
<1>3. /\ Append(stack[w], f) \in Seq(Frame)
      /\ DOMAIN stack[w] = 1 .. Len(stack[w]) /\ Len(stack[w]) \in Nat
      /\ DOMAIN Append(stack[w], f) = 1 .. Len(stack[w]) + 1
      /\ \A i \in 1 .. Len(stack[w]) : Append(stack[w], f)[i] = stack[w][i]
      /\ Append(stack[w], f)[Len(stack[w]) + 1] = f
  BY <1>1, Appended
<1> QED
  BY <1>1, <1>2, <1>3

(* w puts a job at the back of its deque. *)
LEMMA PushEffect ==
  ASSUME TypeOK, NEW w \in Workers, NEW j \in Jobs, Push(w, j)
  PROVE  /\ deque' \in [Workers -> Seq(Jobs)]
         /\ Len(deque[w]) + 1 \notin DOMAIN deque[w]
         /\ \A v \in Workers \ {w} : deque'[v] = deque[v]
         /\ DOMAIN deque'[w] = DOMAIN deque[w] \cup {Len(deque[w]) + 1}
         /\ \A i \in DOMAIN deque[w] : deque'[w][i] = deque[w][i]
         /\ deque'[w][Len(deque[w]) + 1] = j
<1>1. deque \in [Workers -> Seq(Jobs)] /\ deque[w] \in Seq(Jobs)
  BY DEF TypeOK
<1>2. deque' = [deque EXCEPT ![w] = Append(deque[w], j)]
  BY <1>1 DEF Push
<1>3. /\ Append(deque[w], j) \in Seq(Jobs)
      /\ DOMAIN deque[w] = 1 .. Len(deque[w]) /\ Len(deque[w]) \in Nat
      /\ DOMAIN Append(deque[w], j) = 1 .. Len(deque[w]) + 1
      /\ \A i \in 1 .. Len(deque[w]) : Append(deque[w], j)[i] = deque[w][i]
      /\ Append(deque[w], j)[Len(deque[w]) + 1] = j
  BY <1>1, Appended
<1> QED
  BY <1>1, <1>2, <1>3

(* The owner takes from the back. *)
LEMMA TakeEffect ==
  ASSUME TypeOK, NEW w \in Workers, deque[w] # <<>>,
         deque' = [deque EXCEPT ![w] = SubSeq(@, 1, Len(deque[w]) - 1)]
  PROVE  /\ deque' \in [Workers -> Seq(Jobs)]
         /\ Len(deque[w]) \in DOMAIN deque[w] /\ deque[w][Len(deque[w])] \in Jobs
         /\ \A v \in Workers \ {w} : deque'[v] = deque[v]
         /\ DOMAIN deque'[w] = DOMAIN deque[w] \ {Len(deque[w])}
         /\ \A i \in DOMAIN deque'[w] : deque'[w][i] = deque[w][i]
<1>1. deque \in [Workers -> Seq(Jobs)] /\ deque[w] \in Seq(Jobs)
  BY DEF TypeOK
<1>2. deque' = [deque EXCEPT ![w] = SubSeq(deque[w], 1, Len(deque[w]) - 1)]
  BY <1>1
<1>3. /\ SubSeq(deque[w], 1, Len(deque[w]) - 1) \in Seq(Jobs)
      /\ DOMAIN deque[w] = 1 .. Len(deque[w]) /\ Len(deque[w]) \in Nat \ {0}
      /\ DOMAIN SubSeq(deque[w], 1, Len(deque[w]) - 1) = 1 .. Len(deque[w]) - 1
      /\ \A i \in 1 .. Len(deque[w]) - 1 : SubSeq(deque[w], 1, Len(deque[w]) - 1)[i] = deque[w][i]
      /\ deque[w][Len(deque[w])] \in Jobs
  BY <1>1, Shortened
<1> QED
  BY <1>1, <1>2, <1>3

(* A thief takes from the front: what is left moves up. *)
LEMMA StealEffect ==
  ASSUME TypeOK, NEW v \in Workers, deque[v] # <<>>, deque' = [deque EXCEPT ![v] = Tail(@)]
  PROVE  /\ deque' \in [Workers -> Seq(Jobs)]
         /\ 1 \in DOMAIN deque[v] /\ Head(deque[v]) = deque[v][1] /\ deque[v][1] \in Jobs
         /\ \A u \in Workers \ {v} : deque'[u] = deque[u]
         /\ \A i \in DOMAIN deque'[v] :
              i \in Nat \ {0} /\ i + 1 \in DOMAIN deque[v] /\ deque'[v][i] = deque[v][i + 1]
         /\ \A i \in DOMAIN deque[v] : i = 1 \/ (i - 1 \in DOMAIN deque'[v] /\ deque'[v][i - 1] = deque[v][i])
<1>1. deque \in [Workers -> Seq(Jobs)] /\ deque[v] \in Seq(Jobs)
  BY DEF TypeOK
<1>2. deque' = [deque EXCEPT ![v] = Tail(deque[v])]
  BY <1>1
<1>3. /\ Tail(deque[v]) \in Seq(Jobs)
      /\ DOMAIN deque[v] = 1 .. Len(deque[v]) /\ Len(deque[v]) \in Nat \ {0}
      /\ DOMAIN Tail(deque[v]) = 1 .. Len(deque[v]) - 1
      /\ \A i \in 1 .. Len(deque[v]) - 1 : Tail(deque[v])[i] = deque[v][i + 1]
      /\ Head(deque[v]) = deque[v][1] /\ deque[v][1] \in Jobs
  BY <1>1, Shifted
<1> QED
  BY <1>1, <1>2, <1>3

----------------------------------------------------------------------------
(* Types, and frames of one entry *)

(* The jobs the program makes are jobs. *)
LEMMA JobTypes ==
  /\ \A lo, hi \in Entries : Range(lo, hi) \in Jobs
  /\ \A e \in Entries : Half(e) \in Jobs
  /\ \A j \in Jobs : FrameOf(j) \in Frame
  BY DEF Jobs, Range, Half, FrameOf, Frame, Steps

(* The running frame. *)
LEMMA Running1 ==
  ASSUME TypeOK, NEW w \in Workers, NEW s, Runs(w, s)
  PROVE  /\ stack[w] # <<>> /\ Len(stack[w]) \in DOMAIN stack[w]
         /\ Top(w) \in Frame /\ Top(w) = stack[w][Len(stack[w])] /\ Top(w).step = s
<1>1. stack[w] \in Seq(Frame)
  BY DEF TypeOK
<1> QED
  BY <1>1, Shortened DEF Runs, Top

(* The cell of w is borrowed or given back. *)
LEMMA CellEffect ==
  ASSUME TypeOK, NEW w \in Workers, NEW b \in BOOLEAN, cell' = [cell EXCEPT ![w].borrowed = b]
  PROVE  /\ cell' \in [Workers -> [borrowed : BOOLEAN, open : BOOLEAN]]
         /\ cell'[w].borrowed = b
         /\ \A v \in Workers \ {w} : cell'[v] = cell[v]
<1>1. cell \in [Workers -> [borrowed : BOOLEAN, open : BOOLEAN]]
  BY DEF TypeOK
<1>2. cell[w] \in [borrowed : BOOLEAN, open : BOOLEAN]
  BY <1>1
<1>3. [cell[w] EXCEPT !.borrowed = b] \in [borrowed : BOOLEAN, open : BOOLEAN]
  BY <1>2
<1>4. [cell[w] EXCEPT !.borrowed = b].borrowed = b
  BY <1>2
<1>5. cell' = [cell EXCEPT ![w] = [cell[w] EXCEPT !.borrowed = b]]
  BY <1>1
<1> QED
  BY <1>1, <1>3, <1>4, <1>5

LEMMA TypeStep ==
  ASSUME TypeOK, NEW w \in Workers, Step(w)
  PROVE  TypeOK'
<1> USE DEF Steps
<1>1. CASE TakeOwn(w)
  BY <1>1, TakeEffect, CallEffect, JobTypes DEF TakeOwn, TypeOK
<1>2. CASE \E v \in Workers \ {w} : Steal(w, v)
  BY <1>2, StealEffect, CallEffect, JobTypes DEF Steal, TypeOK
<1>3. CASE Split(w)
  <2> DEFINE mid == (Top(w).lo + Top(w).hi) \div 2
             f == [Top(w) EXCEPT !.hi = mid]
  <2>1. stack[w] # <<>> /\ Top(w) \in Frame /\ stack[w] \in Seq(Frame)
    BY <1>3, Running1 DEF Split, TypeOK
  <2>2. Top(w).lo \in Entries /\ Top(w).hi \in Entries
    BY <2>1 DEF Frame
  <2>3. mid \in Entries /\ mid + 1 \in Entries
    BY <1>3, <2>2, PoolAssumption DEF Split, Entries
  <2>4. f \in Frame
    BY <2>1, <2>3 DEF Frame
  <2>5. stack' = [stack EXCEPT ![w] = [stack[w] EXCEPT ![Len(stack[w])] = f]]
    BY <1>3 DEF Split, Top, TypeOK
  <2> HIDE DEF f
  <2>6. stack' \in [Workers -> Seq(Frame)]
    BY <2>1, <2>4, <2>5, Replaced DEF TypeOK
  <2>7. deque' \in [Workers -> Seq(Jobs)]
    BY <1>3, <2>2, <2>3, JobTypes, PushEffect DEF Split
  <2> QED
    BY <1>3, <2>6, <2>7 DEF Split, TypeOK
<1>4. CASE Single(w)
  BY <1>4, Running1, GoEffect DEF Single, TypeOK
<1>5. CASE SearchHalf(w)
  <2>1. Top(w).lo \in Entries
    BY <1>5, Running1 DEF SearchHalf, Frame
  <2> QED
    BY <1>5, <2>1, Running1, PopEffect DEF SearchHalf, TypeOK
<1>6. CASE Borrow(w)
  BY <1>6, Running1, GoEffect, CellEffect DEF Borrow, TypeOK
<1>7. CASE Panic(w)
  BY <1>7 DEF Panic, TypeOK
<1>8. ASSUME NEW s, Runs(w, s), NEW r \in Results, Return(w, r), UNCHANGED <<deque, searched, panicked>>
      PROVE  TypeOK'
  <2>1. Top(w).lo \in Entries
    BY <1>8, Running1 DEF Frame
  <2>2. stack' \in [Workers -> Seq(Frame)]
    BY <1>8, Running1, PopEffect DEF Return
  <2>3. cell' \in [Workers -> [borrowed : BOOLEAN, open : BOOLEAN]]
    BY <1>8, CellEffect DEF Return
  <2>4. result' \in [Entries -> Results]
    BY <1>8, <2>1 DEF Return, TypeOK
  <2> QED
    BY <1>8, <2>2, <2>3, <2>4 DEF TypeOK
<1>9. CASE OpenRuntime(w)
  BY <1>8, <1>9 DEF OpenRuntime, TypeOK, Results
<1>10. CASE Filter(w)
  BY <1>8, <1>10, Running1, GoEffect DEF Filter, TypeOK, Results
<1>11. CASE Fork(w)
  <2>1. Top(w).lo \in Entries
    BY <1>11, Running1 DEF Fork, Frame
  <2> QED
    BY <1>11, <2>1, Running1, GoEffect, PushEffect, JobTypes DEF Fork, TypeOK
<1>12. CASE Search(w)
  BY <1>12, Running1, GoEffect DEF Search, TypeOK
<1>13. CASE Join(w)
  BY <1>8, <1>13 DEF Join, Results
<1> QED
  BY <1>1, <1>2, <1>3, <1>4, <1>5, <1>6, <1>7, <1>9, <1>10, <1>11, <1>12, <1>13 DEF Step

----------------------------------------------------------------------------
(* The emulators *)

LEMMA FramesStep ==
  ASSUME TypeOK, SingleFrames, NEW w \in Workers, Step(w)
  PROVE  SingleFrames'
<1> USE DEF Steps, SingleFrames
<1>1. ASSUME NEW f \in Frame, stack' = [stack EXCEPT ![w] = Append(@, f)], f.step \in {"split", "half"}
      PROVE  SingleFrames'
  BY <1>1, CallEffect
<1>2. ASSUME NEW s, NEW t \in Steps, Runs(w, s), Go(w, t), s # "split" /\ s # "half"
      PROVE  SingleFrames'
  <2>1. Top(w).lo = Top(w).hi
    BY <1>2, Running1 DEF Frame
  <2>2. stack'[w][Len(stack[w])].lo = stack'[w][Len(stack[w])].hi
    BY <1>2, <2>1, Running1, GoEffect DEF Frame
  <2> QED
    BY <1>2, <2>2, Running1, GoEffect
<1>3. ASSUME NEW s, Runs(w, s), stack' = [stack EXCEPT ![w] = Below(w)]
      PROVE  SingleFrames'
  <2>1. /\ \A v \in Workers \ {w} : stack'[v] = stack[v]
        /\ DOMAIN stack'[w] \subseteq DOMAIN stack[w]
        /\ \A i \in DOMAIN stack'[w] : stack'[w][i] = stack[w][i]
    BY <1>3, Running1, PopEffect
  <2> QED
    BY <2>1
<1>4. CASE TakeOwn(w)
  <2>1. deque[w][Len(deque[w])] \in Jobs
    BY <1>4, TakeEffect DEF TakeOwn
  <2> QED
    BY <1>4, <1>1, <2>1, JobTypes DEF TakeOwn, FrameOf
<1>5. CASE \E v \in Workers \ {w} : Steal(w, v)
  <2>1. PICK v \in Workers \ {w} : Steal(w, v)
    BY <1>5
  <2>2. Head(deque[v]) \in Jobs
    BY <2>1, StealEffect DEF Steal
  <2> QED
    BY <1>1, <2>1, <2>2, JobTypes DEF Steal, FrameOf
<1>6. CASE Split(w)
  <2>1. /\ stack[w] # <<>> /\ Top(w) \in Frame /\ Top(w).step = "split"
        /\ stack[w] \in Seq(Frame)
    BY <1>6, Running1 DEF Split, TypeOK
  <2>2. PICK m : stack' = [stack EXCEPT ![w][Len(stack[w])].hi = m]
    BY <1>6 DEF Split
  <2>3. stack' = [stack EXCEPT ![w] = [stack[w] EXCEPT ![Len(stack[w])] = [Top(w) EXCEPT !.hi = m]]]
    BY <2>2 DEF Top, TypeOK
  <2>4. [Top(w) EXCEPT !.hi = m].step = "split"
    BY <2>1 DEF Frame
  <2> QED
    BY <2>1, <2>3, <2>4 DEF TypeOK
<1>7. CASE Single(w)
  <2>1. Top(w).lo = Top(w).hi /\ Runs(w, "split") /\ Go(w, "borrow")
    BY <1>7 DEF Single
  <2>2. stack'[w][Len(stack[w])].lo = stack'[w][Len(stack[w])].hi
    BY <2>1, Running1, GoEffect DEF Frame
  <2> QED
    BY <2>1, <2>2, Running1, GoEffect
<1>8. CASE SearchHalf(w)
  BY <1>3, <1>8 DEF SearchHalf
<1>9. CASE Borrow(w)
  BY <1>2, <1>9 DEF Borrow
<1>10. CASE Panic(w)
  BY <1>10 DEF Panic
<1>11. CASE OpenRuntime(w)
  BY <1>3, <1>11 DEF OpenRuntime, Return
<1>12. CASE Filter(w)
  BY <1>2, <1>3, <1>12 DEF Filter, Return
<1>13. CASE Fork(w)
  BY <1>2, <1>13 DEF Fork
<1>14. CASE Search(w)
  BY <1>2, <1>14 DEF Search
<1>15. CASE Join(w)
  BY <1>3, <1>15 DEF Join, Return
<1> QED
  BY <1>4, <1>5, <1>6, <1>7, <1>8, <1>9, <1>10, <1>11, <1>12, <1>13, <1>14, <1>15 DEF Step

(* Steps of an entry that use the emulator. *)
Uses == {"filter", "fork", "search", "wait"}

LEMMA ExclusiveStep ==
  ASSUME TypeOK, EmulatorExclusive, NEW w \in Workers, Step(w)
  PROVE  EmulatorExclusive'
<1> USE DEF Steps, EmulatorExclusive, Holding
<1>1. ASSUME NEW f \in Frame, stack' = [stack EXCEPT ![w] = Append(@, f)], f.step \in {"split", "half"}, UNCHANGED cell
      PROVE  EmulatorExclusive'
  <2>1. /\ \A v \in Workers \ {w} : stack'[v] = stack[v]
        /\ DOMAIN stack'[w] = DOMAIN stack[w] \cup {Len(stack[w]) + 1}
        /\ \A i \in DOMAIN stack[w] : stack'[w][i] = stack[w][i]
        /\ stack'[w][Len(stack[w]) + 1] = f
    BY <1>1, CallEffect
  <2>2. \A v \in Workers : Holding(v)' = Holding(v)
    BY <1>1, <2>1
  <2> HIDE DEF Holding
  <2> QED
    BY <1>1, <2>2
<1>2. ASSUME NEW s, NEW t \in Steps, Runs(w, s), Go(w, t), UNCHANGED cell, s \in Uses <=> t \in Uses
      PROVE  EmulatorExclusive'
  <2>1. stack'[w][Len(stack[w])].step = t
    BY <1>2, Running1, GoEffect DEF Frame
  <2>2. /\ \A v \in Workers : DOMAIN stack'[v] = DOMAIN stack[v]
        /\ \A v \in Workers : \A i \in DOMAIN stack[v] :
             <<v, i>> # <<w, Len(stack[w])>> => stack'[v][i] = stack[v][i]
    BY <1>2, Running1, GoEffect
  <2>3. stack[w][Len(stack[w])].step = s
    BY <1>2, Running1
  <2>4. \A v \in Workers : Holding(v)' = Holding(v)
    BY <1>2, <2>1, <2>2, <2>3 DEF Uses
  <2> HIDE DEF Holding
  <2> QED
    BY <1>2, <2>4
<1>3. ASSUME NEW s \in Uses, Runs(w, s), NEW r, Return(w, r)
      PROVE  EmulatorExclusive'
  <2>1. /\ stack[w] # <<>> /\ Len(stack[w]) \in DOMAIN stack[w] /\ stack[w][Len(stack[w])].step \in Uses
        /\ stack' = [stack EXCEPT ![w] = Below(w)]
    BY <1>3, Running1 DEF Return
  <2>5. /\ \A v \in Workers \ {w} : stack'[v] = stack[v]
        /\ DOMAIN stack'[w] = DOMAIN stack[w] \ {Len(stack[w])}
        /\ \A i \in DOMAIN stack'[w] : stack'[w][i] = stack[w][i]
    BY <2>1, PopEffect
  <2>2. ~cell'[w].borrowed /\ \A v \in Workers \ {w} : cell'[v] = cell[v]
    BY <1>3, CellEffect DEF Return
  <2>6. Len(stack[w]) \in Holding(w)
    BY <2>1 DEF Uses
  <2>3. Holding(w)' = {}
    BY <2>5, <2>6
  <2>4. \A v \in Workers \ {w} : Holding(v)' = Holding(v)
    BY <2>5
  <2> QED
    BY <2>2, <2>3, <2>4
<1>4. CASE TakeOwn(w)
  <2>1. deque[w][Len(deque[w])] \in Jobs
    BY <1>4, TakeEffect DEF TakeOwn
  <2> QED
    BY <1>4, <1>1, <2>1, JobTypes DEF TakeOwn, FrameOf
<1>5. CASE \E v \in Workers \ {w} : Steal(w, v)
  <2>1. PICK v \in Workers \ {w} : Steal(w, v)
    BY <1>5
  <2>2. Head(deque[v]) \in Jobs
    BY <2>1, StealEffect DEF Steal
  <2> QED
    BY <1>1, <2>1, <2>2, JobTypes DEF Steal, FrameOf
<1>6. CASE Split(w)
  <2>1. /\ stack[w] # <<>> /\ Top(w) \in Frame /\ Top(w).step = "split"
        /\ stack[w] \in Seq(Frame)
    BY <1>6, Running1 DEF Split, TypeOK
  <2>2. PICK m : stack' = [stack EXCEPT ![w][Len(stack[w])].hi = m]
    BY <1>6 DEF Split
  <2>3. stack' = [stack EXCEPT ![w] = [stack[w] EXCEPT ![Len(stack[w])] = [Top(w) EXCEPT !.hi = m]]]
    BY <2>2 DEF Top, TypeOK
  <2>4. [Top(w) EXCEPT !.hi = m].step = "split" /\ stack[w][Len(stack[w])].step = "split"
    BY <2>1 DEF Frame, Top
  <2> QED
    BY <1>6, <2>1, <2>3, <2>4 DEF TypeOK, Split
<1>7. CASE Single(w)
  BY <1>2, <1>7 DEF Single, Uses
<1>8. CASE SearchHalf(w)
  <2>1. /\ stack[w] # <<>> /\ stack[w][Len(stack[w])].step = "half"
        /\ stack' = [stack EXCEPT ![w] = Below(w)]
    BY <1>8, Running1 DEF SearchHalf
  <2>3. /\ \A v \in Workers \ {w} : stack'[v] = stack[v]
        /\ DOMAIN stack'[w] = DOMAIN stack[w] \ {Len(stack[w])}
        /\ \A i \in DOMAIN stack'[w] : stack'[w][i] = stack[w][i]
    BY <2>1, PopEffect
  <2>2. \A v \in Workers : Holding(v)' = Holding(v)
    BY <2>1, <2>3
  <2> QED
    BY <1>8, <2>1, <2>2 DEF SearchHalf
<1>9. CASE Borrow(w)
  <2>1. stack'[w][Len(stack[w])].step = "filter"
    BY <1>9, Running1, GoEffect DEF Frame, Borrow
  <2>2. cell' = [cell EXCEPT ![w].borrowed = TRUE] /\ ~cell[w].borrowed
    BY <1>9 DEF Borrow
  <2>3. cell'[w].borrowed /\ \A v \in Workers \ {w} : cell'[v] = cell[v]
    BY <2>2, CellEffect
  <2>4. /\ Len(stack[w]) \in DOMAIN stack[w]
        /\ \A v \in Workers : DOMAIN stack'[v] = DOMAIN stack[v]
        /\ \A v \in Workers : \A i \in DOMAIN stack[v] :
             <<v, i>> # <<w, Len(stack[w])>> => stack'[v][i] = stack[v][i]
    BY <1>9, Running1, GoEffect DEF Borrow
  <2>5. Holding(w) = {}
    BY <2>2
  <2>7. Holding(w)' = {Len(stack[w])}
    BY <2>1, <2>4, <2>5
  <2>6. \A v \in Workers \ {w} : Holding(v)' = Holding(v)
    BY <2>4
  <2> SUFFICES ASSUME NEW v \in Workers
               PROVE  /\ \A i, j \in Holding(v)' : i = j
                      /\ cell'[v].borrowed <=> Holding(v)' # {}
    BY DEF EmulatorExclusive
  <2>8. CASE v = w
    <3>1. \A i, j \in Holding(w)' : i = j
      BY <2>7
    <3>2. Holding(w)' # {}
      BY <2>7
    <3> HIDE DEF Holding
    <3> QED
      BY <2>3, <2>8, <3>1, <3>2
  <2>9. CASE v # w
    <3>1. Holding(v)' = Holding(v) /\ cell'[v] = cell[v]
      BY <2>3, <2>6, <2>9
    <3>2. (\A i, j \in Holding(v) : i = j) /\ (cell[v].borrowed <=> Holding(v) # {})
      BY DEF EmulatorExclusive
    <3> HIDE DEF Holding
    <3> QED
      BY <3>1, <3>2
  <2> QED
    BY <2>8, <2>9
<1>10. CASE Panic(w)
  BY <1>10 DEF Panic
<1>11. CASE OpenRuntime(w)
  <2>1. ASSUME cell' = [cell EXCEPT ![w].open = TRUE]
        PROVE  \A v \in Workers : cell'[v].borrowed = cell[v].borrowed
    BY <2>1 DEF TypeOK
  <2> QED
    BY <1>3, <1>11, <2>1 DEF OpenRuntime, Uses
<1>12. CASE Filter(w)
  BY <1>2, <1>3, <1>12 DEF Filter, Uses
<1>13. CASE Fork(w)
  BY <1>2, <1>13 DEF Fork, Uses
<1>14. CASE Search(w)
  BY <1>2, <1>14 DEF Search, Uses
<1>15. CASE Join(w)
  BY <1>3, <1>15 DEF Join, Uses
<1> QED
  BY <1>4, <1>5, <1>6, <1>7, <1>8, <1>9, <1>10, <1>11, <1>12, <1>13, <1>14, <1>15 DEF Step

----------------------------------------------------------------------------
(* Every entry in one place *)

LEMMA PlaceStep ==
  ASSUME TypeOK, SingleFrames, NEW w \in Workers, Step(w), NEW e \in Entries, OnePlace(e)
  PROVE  OnePlace(e)'
<1> DEFINE QSame == \A v \in Workers : \A i : QueuedAt(e, v, i)' <=> QueuedAt(e, v, i)
           RSame == \A v \in Workers : \A i : RunsAt(e, v, i)' <=> RunsAt(e, v, i)
<1>1. /\ \A v, u \in Workers : \A i, j : QueuedAt(e, v, i) /\ QueuedAt(e, u, j) => v = u /\ i = j
      /\ \A v, u \in Workers : \A i, j : RunsAt(e, v, i) /\ RunsAt(e, u, j) => v = u /\ i = j
      /\ \A v, u \in Workers : \A i, j : ~(QueuedAt(e, v, i) /\ RunsAt(e, u, j))
      /\ result[e] = "none" <=> \E v \in Workers : \E i : QueuedAt(e, v, i) \/ RunsAt(e, v, i)
  BY DEF OnePlace, Queued, Running, QueuedAt, RunsAt
<1>2. ASSUME /\ \A v, u \in Workers : \A i, j : QueuedAt(e, v, i)' /\ QueuedAt(e, u, j)' => v = u /\ i = j
             /\ \A v, u \in Workers : \A i, j : RunsAt(e, v, i)' /\ RunsAt(e, u, j)' => v = u /\ i = j
             /\ \A v, u \in Workers : \A i, j : ~(QueuedAt(e, v, i)' /\ RunsAt(e, u, j)')
             /\ result'[e] = "none" <=> \E v \in Workers : \E i : QueuedAt(e, v, i)' \/ RunsAt(e, v, i)'
      PROVE  OnePlace(e)'
  <2>1. Queued(e)' <=> \E v \in Workers : \E i : QueuedAt(e, v, i)'
    BY DEF Queued, QueuedAt
  <2>2. Running(e)' <=> \E v \in Workers : \E i : RunsAt(e, v, i)'
    BY DEF Running, RunsAt
  <2> QED
    BY <1>2, <2>1, <2>2 DEF OnePlace
<1>3. ASSUME QSame, RSame, result'[e] = result[e]
      PROVE  OnePlace(e)'
  BY <1>1, <1>2, <1>3
<1>4. UNCHANGED deque => QSame
  BY DEF QueuedAt
<1>5. UNCHANGED stack => RSame
  BY DEF RunsAt
<1>6. ASSUME NEW s, NEW t \in Steps \ {"half"}, Runs(w, s), s # "half", Go(w, t)
      PROVE  RSame
  BY <1>6, Running1, GoEffect DEF RunsAt, InRange
<1>7. ASSUME NEW s \in Steps \ {"split", "half"}, Runs(w, s), NEW r \in Results \ {"none"}, Return(w, r), UNCHANGED deque
      PROVE  OnePlace(e)'
  <2> DEFINE top == Len(stack[w])
  <2>1. /\ stack[w] # <<>> /\ top \in DOMAIN stack[w] /\ Top(w) = stack[w][top]
        /\ Top(w).step = s /\ Top(w) \in Frame
    BY <1>7, Running1
  <2>2. Top(w).lo \in Entries /\ Top(w).lo = Top(w).hi
    BY <1>7, <2>1 DEF Frame, SingleFrames
  <2>3. RunsAt(e, w, top) <=> e = Top(w).lo
    BY <1>7, <2>1, <2>2 DEF RunsAt, InRange, Entries
  <2>4. /\ \A v \in Workers \ {w} : stack'[v] = stack[v]
        /\ DOMAIN stack'[w] = DOMAIN stack[w] \ {top}
        /\ \A i \in DOMAIN stack'[w] : stack'[w][i] = stack[w][i]
    BY <1>7, <2>1, PopEffect DEF Return
  <2>5. \A v \in Workers : \A i : RunsAt(e, v, i)' <=> RunsAt(e, v, i) /\ <<v, i>> # <<w, top>>
    BY <2>4 DEF RunsAt
  <2>6. result'[e] = IF e = Top(w).lo THEN r ELSE result[e]
    BY <1>7 DEF Return, TypeOK
  <2>7. QSame
    BY <1>4, <1>7
  <2> QED
    BY <1>1, <1>2, <1>7, <2>3, <2>5, <2>6, <2>7
<1>8. ASSUME NEW j \in Jobs, stack' = [stack EXCEPT ![w] = Append(@, FrameOf(j))]
      PROVE  \A v \in Workers : \A i : RunsAt(e, v, i)' <=>
               RunsAt(e, v, i) \/ (<<v, i>> = <<w, Len(stack[w]) + 1>> /\ j.job = "range" /\ InRange(e, j))
  <2>1. /\ FrameOf(j) \in Frame
        /\ FrameOf(j).step # "half" <=> j.job = "range"
        /\ InRange(e, FrameOf(j)) <=> InRange(e, j)
    BY <1>8, JobTypes DEF FrameOf, Jobs, InRange
  <2>2. /\ Len(stack[w]) + 1 \notin DOMAIN stack[w]
        /\ \A v \in Workers \ {w} : stack'[v] = stack[v]
        /\ DOMAIN stack'[w] = DOMAIN stack[w] \cup {Len(stack[w]) + 1}
        /\ \A i \in DOMAIN stack[w] : stack'[w][i] = stack[w][i]
        /\ stack'[w][Len(stack[w]) + 1] = FrameOf(j)
    BY <1>8, <2>1, CallEffect
  <2> QED
    BY <2>1, <2>2 DEF RunsAt
<1>9. CASE TakeOwn(w)
  <2> DEFINE last == Len(deque[w])
             j == deque[w][last]
  <2>1. /\ last \in DOMAIN deque[w] /\ j \in Jobs
        /\ \A v \in Workers \ {w} : deque'[v] = deque[v]
        /\ DOMAIN deque'[w] = DOMAIN deque[w] \ {last}
        /\ \A i \in DOMAIN deque'[w] : deque'[w][i] = deque[w][i]
    BY <1>9, TakeEffect DEF TakeOwn
  <2>2. \A v \in Workers : \A i : QueuedAt(e, v, i)' <=> QueuedAt(e, v, i) /\ <<v, i>> # <<w, last>>
    BY <2>1 DEF QueuedAt
  <2>3. QueuedAt(e, w, last) <=> j.job = "range" /\ InRange(e, j)
    BY <2>1 DEF QueuedAt
  <2>4. \A v \in Workers : \A i : RunsAt(e, v, i)' <=>
          RunsAt(e, v, i) \/ (<<v, i>> = <<w, Len(stack[w]) + 1>> /\ j.job = "range" /\ InRange(e, j))
    BY <1>8, <1>9, <2>1 DEF TakeOwn
  <2>5. result' = result
    BY <1>9 DEF TakeOwn
  <2> QED
    BY <1>1, <1>2, <2>2, <2>3, <2>4, <2>5
<1>10. CASE \E v \in Workers \ {w} : Steal(w, v)
  <2>1. PICK v \in Workers \ {w} : Steal(w, v)
    BY <1>10
  <2> DEFINE j == deque[v][1]
  <2>2. /\ 1 \in DOMAIN deque[v] /\ Head(deque[v]) = j /\ j \in Jobs
        /\ \A u \in Workers \ {v} : deque'[u] = deque[u]
        /\ \A i \in DOMAIN deque'[v] :
             i \in Nat \ {0} /\ i + 1 \in DOMAIN deque[v] /\ deque'[v][i] = deque[v][i + 1]
        /\ \A i \in DOMAIN deque[v] : i = 1 \/ (i - 1 \in DOMAIN deque'[v] /\ deque'[v][i - 1] = deque[v][i])
    BY <2>1, StealEffect DEF Steal
  <2>3. \A u \in Workers \ {v} : \A i : QueuedAt(e, u, i)' <=> QueuedAt(e, u, i)
    BY <2>2 DEF QueuedAt
  <2>4. \A i : QueuedAt(e, v, i)' => i \in Nat \ {0} /\ QueuedAt(e, v, i + 1)
    BY <2>2 DEF QueuedAt
  <2>5. \A i : QueuedAt(e, v, i) => i = 1 \/ QueuedAt(e, v, i - 1)'
    BY <2>2 DEF QueuedAt
  <2>6. QueuedAt(e, v, 1) <=> j.job = "range" /\ InRange(e, j)
    BY <2>2 DEF QueuedAt
  <2>7. \A u \in Workers : \A i : RunsAt(e, u, i)' <=>
          RunsAt(e, u, i) \/ (<<u, i>> = <<w, Len(stack[w]) + 1>> /\ j.job = "range" /\ InRange(e, j))
    BY <1>8, <2>1, <2>2 DEF Steal
  <2>8. result' = result
    BY <2>1 DEF Steal
  <2>9. \A u, x \in Workers : \A i, k : QueuedAt(e, u, i)' /\ QueuedAt(e, x, k)' => u = x /\ i = k
    BY <1>1, <2>3, <2>4
  <2>10. ASSUME QueuedAt(e, v, 1)
         PROVE  \A u \in Workers : \A i : ~QueuedAt(e, u, i)'
    BY <1>1, <2>3, <2>4, <2>10
  <2>11. CASE QueuedAt(e, v, 1)
    BY <1>1, <1>2, <2>6, <2>7, <2>8, <2>9, <2>10, <2>11
  <2>12. CASE ~QueuedAt(e, v, 1)
    <3>1. (\E u \in Workers : \E i : QueuedAt(e, u, i)') <=> \E u \in Workers : \E i : QueuedAt(e, u, i)
      BY <2>3, <2>4, <2>5, <2>12
    <3>2. RSame
      BY <2>6, <2>7, <2>12
    <3> QED
      BY <1>1, <1>2, <2>8, <2>9, <3>1, <3>2
  <2> QED
    BY <2>11, <2>12
<1>11. CASE Split(w)
  <2> PICK top : top = Len(stack[w])
    OBVIOUS
  <2> DEFINE lo == Top(w).lo
             hi == Top(w).hi
             mid == (lo + hi) \div 2
             f == [Top(w) EXCEPT !.hi = mid]
  <2>1. /\ stack[w] # <<>> /\ top \in DOMAIN stack[w] /\ Top(w) = stack[w][top]
        /\ Top(w).step = "split" /\ Top(w) \in Frame /\ stack[w] \in Seq(Frame)
    BY <1>11, Running1 DEF Split, TypeOK
  <2>2. lo \in Entries /\ hi \in Entries /\ mid \in Entries /\ mid + 1 \in Entries /\ lo <= mid /\ mid < hi
    <3>1. lo \in 1 .. N /\ hi \in 1 .. N /\ lo < hi
      BY <1>11, <2>1 DEF Split, Frame, Entries
    <3> HIDE DEF lo, hi
    <3> QED
      BY <3>1, PoolAssumption DEF Entries
  <2>3. f \in Frame /\ f.step = "split" /\ f.lo = lo /\ f.hi = mid
    BY <2>1, <2>2 DEF Frame
  <2>4. stack' = [stack EXCEPT ![w] = [stack[w] EXCEPT ![top] = f]]
    BY <1>11 DEF Split, Top, TypeOK
  <2>5. /\ \A v \in Workers \ {w} : stack'[v] = stack[v]
        /\ DOMAIN stack'[w] = DOMAIN stack[w]
        /\ \A i \in DOMAIN stack[w] : i # top => stack'[w][i] = stack[w][i]
        /\ stack'[w][top] = f
    <3> HIDE DEF f
    <3> QED
      BY <2>1, <2>4 DEF TypeOK
  <2>6. RunsAt(e, w, top) <=> lo <= e /\ e <= hi
    BY <2>1 DEF RunsAt, InRange
  <2>7. /\ \A v \in Workers : \A i : <<v, i>> # <<w, top>> => (RunsAt(e, v, i)' <=> RunsAt(e, v, i))
        /\ RunsAt(e, w, top)' <=> lo <= e /\ e <= mid
    <3>1. \A v \in Workers : \A i : <<v, i>> # <<w, top>> => (RunsAt(e, v, i)' <=> RunsAt(e, v, i))
      BY <2>5 DEF RunsAt
    <3>2. stack'[w][top].step = "split" /\ stack'[w][top].lo = lo /\ stack'[w][top].hi = mid /\ top \in DOMAIN stack'[w]
      BY <2>1, <2>3, <2>5
    <3>3. RunsAt(e, w, top)' <=> lo <= e /\ e <= mid
      BY <3>2 DEF RunsAt, InRange
    <3> QED
      BY <3>1, <3>3
  <2>8. Push(w, Range(mid + 1, hi)) /\ Range(mid + 1, hi) \in Jobs
    BY <1>11, <2>2, JobTypes DEF Split
  <2>9. /\ Len(deque[w]) + 1 \notin DOMAIN deque[w]
        /\ \A v \in Workers \ {w} : deque'[v] = deque[v]
        /\ DOMAIN deque'[w] = DOMAIN deque[w] \cup {Len(deque[w]) + 1}
        /\ \A i \in DOMAIN deque[w] : deque'[w][i] = deque[w][i]
        /\ deque'[w][Len(deque[w]) + 1] = Range(mid + 1, hi)
    BY <2>8, PushEffect
  <2>10. \A v \in Workers : \A i : QueuedAt(e, v, i)' <=>
           QueuedAt(e, v, i) \/ (<<v, i>> = <<w, Len(deque[w]) + 1>> /\ mid + 1 <= e /\ e <= hi)
    BY <2>9 DEF QueuedAt, InRange, Range
  <2>11. result' = result /\ e \in Nat /\ lo \in Nat /\ mid \in Nat /\ hi \in Nat
    BY <1>11, <2>2 DEF Split, Entries
  <2>12. \/ ~(lo <= e /\ e <= hi) /\ ~(lo <= e /\ e <= mid) /\ ~(mid + 1 <= e /\ e <= hi)
         \/ (lo <= e /\ e <= hi) /\ (lo <= e /\ e <= mid) /\ ~(mid + 1 <= e /\ e <= hi)
         \/ (lo <= e /\ e <= hi) /\ ~(lo <= e /\ e <= mid) /\ (mid + 1 <= e /\ e <= hi)
    BY <2>2, <2>11
  <2> HIDE DEF lo, hi, mid, f
  <2>13. CASE ~(lo <= e /\ e <= mid) /\ ~(mid + 1 <= e /\ e <= hi)
    <3>1. QSame /\ RSame
      BY <2>6, <2>7, <2>10, <2>12, <2>13
    <3> QED
      BY <1>3, <2>11, <3>1
  <2>14. CASE (lo <= e /\ e <= mid) /\ ~(mid + 1 <= e /\ e <= hi)
    <3>1. QSame /\ RSame
      BY <2>6, <2>7, <2>10, <2>12, <2>14
    <3> QED
      BY <1>3, <2>11, <3>1
  <2>15. CASE ~(lo <= e /\ e <= mid) /\ (mid + 1 <= e /\ e <= hi)
    <3>1. RunsAt(e, w, top)
      BY <2>6, <2>12, <2>15
    <3>2. \A v \in Workers : \A i : ~QueuedAt(e, v, i) /\ (RunsAt(e, v, i) => v = w /\ i = top)
      BY <1>1, <3>1
    <3>3. \A v \in Workers : \A i : ~RunsAt(e, v, i)'
      BY <2>7, <2>15, <3>2
    <3>4. \A v \in Workers : \A i : QueuedAt(e, v, i)' <=> v = w /\ i = Len(deque[w]) + 1
      BY <2>10, <2>15, <3>2
    <3>5. result'[e] = "none"
      BY <1>1, <2>11, <3>1
    <3>6. \A v, u \in Workers : \A i, j : QueuedAt(e, v, i)' /\ QueuedAt(e, u, j)' => v = u /\ i = j
      BY <3>4
    <3>7. \E v \in Workers : \E i : QueuedAt(e, v, i)' \/ RunsAt(e, v, i)'
      BY <3>4
    <3> QED
      BY <1>2, <3>3, <3>5, <3>6, <3>7
  <2> QED
    BY <2>12, <2>13, <2>14, <2>15
<1>12. CASE Single(w)
  BY <1>3, <1>4, <1>6, <1>12 DEF Single, Steps
<1>13. CASE SearchHalf(w)
  <2>1. /\ stack[w] # <<>> /\ Len(stack[w]) \in DOMAIN stack[w] /\ stack[w][Len(stack[w])].step = "half"
        /\ stack' = [stack EXCEPT ![w] = Below(w)]
    BY <1>13, Running1 DEF SearchHalf
  <2>2. /\ \A v \in Workers \ {w} : stack'[v] = stack[v]
        /\ DOMAIN stack'[w] = DOMAIN stack[w] \ {Len(stack[w])}
        /\ \A i \in DOMAIN stack'[w] : stack'[w][i] = stack[w][i]
    BY <2>1, PopEffect
  <2>3. RSame
    BY <2>1, <2>2 DEF RunsAt
  <2> QED
    BY <1>3, <1>4, <1>13, <2>3 DEF SearchHalf
<1>14. CASE Borrow(w)
  BY <1>3, <1>4, <1>6, <1>14 DEF Borrow, Steps
<1>15. CASE Panic(w)
  BY <1>3, <1>4, <1>5, <1>15 DEF Panic
<1>16. CASE OpenRuntime(w)
  BY <1>3, <1>4, <1>5, <1>7, <1>16 DEF OpenRuntime, Steps, Results
<1>17. CASE Filter(w)
  BY <1>3, <1>4, <1>6, <1>7, <1>17 DEF Filter, Steps, Results
<1>18. CASE Fork(w)
  <2>1. Push(w, Half(Top(w).lo)) /\ Half(Top(w).lo) \in Jobs
    BY <1>18, Running1, JobTypes DEF Fork, Frame
  <2>2. /\ \A v \in Workers \ {w} : deque'[v] = deque[v]
        /\ DOMAIN deque'[w] = DOMAIN deque[w] \cup {Len(deque[w]) + 1}
        /\ Len(deque[w]) + 1 \notin DOMAIN deque[w]
        /\ \A i \in DOMAIN deque[w] : deque'[w][i] = deque[w][i]
        /\ deque'[w][Len(deque[w]) + 1] = Half(Top(w).lo)
    BY <2>1, PushEffect
  <2>3. QSame
    BY <2>2 DEF QueuedAt, Half
  <2>4. RSame
    BY <1>6, <1>18 DEF Fork, Steps
  <2> QED
    BY <1>3, <1>18, <2>3, <2>4 DEF Fork
<1>19. CASE Search(w)
  BY <1>3, <1>4, <1>6, <1>19 DEF Search, Steps
<1>20. CASE Join(w)
  BY <1>7, <1>20 DEF Join, Steps, Results
<1> QED
  BY <1>9, <1>10, <1>11, <1>12, <1>13, <1>14, <1>15, <1>16, <1>17, <1>18, <1>19, <1>20 DEF Step

----------------------------------------------------------------------------
(* The theorems *)

LEMMA PoolInit == Init => IInv
<1> SUFFICES ASSUME Init
             PROVE  IInv
  OBVIOUS
<1>1. \E u \in Workers : deque = [[w \in Workers |-> <<>>] EXCEPT ![u] = <<Range(1, N)>>]
  BY Zenon DEF Init
<1> PICK u \in Workers : deque = [[w \in Workers |-> <<>>] EXCEPT ![u] = <<Range(1, N)>>]
  BY <1>1
<1>2. Range(1, N) \in Jobs
  BY JobTypes, PoolAssumption DEF Entries
<1> HIDE DEF Range
<1> DEFINE one == <<Range(1, N)>>
<1>9. one \in Seq(Jobs) /\ DOMAIN one = {1} /\ one[1] = Range(1, N)
  BY <1>2
<1>10. <<>> \in Seq(Jobs) /\ <<>> \in Seq(Frame) /\ DOMAIN <<>> = {}
  OBVIOUS
<1> HIDE DEF one
<1>3. deque \in [Workers -> Seq(Jobs)] /\ deque[u] = one /\ \A v \in Workers \ {u} : deque[v] = <<>>
  <2>1. deque = [[v \in Workers |-> <<>>] EXCEPT ![u] = one]
    BY DEF one
  <2> QED
    BY <1>9, <1>10, <2>1
<1>4. \A v \in Workers : stack[v] = <<>> /\ DOMAIN stack[v] = {}
  <2>1. stack = [v \in Workers |-> <<>>]
    BY DEF Init
  <2> QED
    BY <1>10, <2>1
<1>5. TypeOK
  <2>1. stack \in [Workers -> Seq(Frame)]
    BY DEF Init
  <2>2. cell \in [Workers -> [borrowed : BOOLEAN, open : BOOLEAN]]
    BY DEF Init
  <2>3. result \in [Entries -> Results] /\ searched = {} /\ panicked = FALSE
    BY DEF Init, Results
  <2> QED
    BY <1>3, <2>1, <2>2, <2>3 DEF TypeOK
<1>6. SingleFrames
  BY <1>4 DEF SingleFrames
<1>7. EmulatorExclusive
  BY <1>4 DEF EmulatorExclusive, Holding, Init
<1>8. ASSUME NEW e \in Entries
      PROVE  OnePlace(e)
  <2>1. \A v \in Workers : \A i : QueuedAt(e, v, i) <=> v = u /\ i = 1
    BY <1>3, <1>8, <1>9, <1>10, PoolAssumption DEF QueuedAt, Range, InRange, Entries
  <2>2. Queued(e) /\ ~Running(e)
    BY <1>3, <1>4, <1>9, <2>1 DEF Queued, Running, QueuedAt
  <2>3. \A v, w \in Workers : \A i \in DOMAIN deque[v], j \in DOMAIN deque[w] :
           QueuedAt(e, v, i) /\ QueuedAt(e, w, j) => v = w /\ i = j
    BY <2>1
  <2>4. result[e] = "none"
    BY <1>8 DEF Init
  <2> QED
    BY <1>4, <2>2, <2>3, <2>4 DEF OnePlace
<1> QED
  BY <1>5, <1>6, <1>7, <1>8 DEF IInv, NoEntryLost

LEMMA PoolStep == IInv /\ [Next]_vars => IInv'
<1>1. ASSUME IInv, NEW w \in Workers, Step(w)
      PROVE  IInv'
  <2>1. TypeOK'
    BY <1>1, TypeStep DEF IInv
  <2>2. SingleFrames'
    BY <1>1, FramesStep DEF IInv
  <2>3. EmulatorExclusive'
    BY <1>1, ExclusiveStep DEF IInv
  <2>4. NoEntryLost'
    BY <1>1, PlaceStep DEF IInv, NoEntryLost
  <2> QED
    BY <2>1, <2>2, <2>3, <2>4 DEF IInv
<1>2. ASSUME IInv, UNCHANGED vars
      PROVE  IInv'
  BY <1>2 DEF IInv, vars, TypeOK, SingleFrames, EmulatorExclusive, Holding, NoEntryLost, OnePlace,
              Queued, Running, QueuedAt, RunsAt
<1> QED
  BY <1>1, <1>2 DEF Next

(* Types, frames of single entries, the use of emulators and the place of  *)
(* each entry form an inductive invariant of the pool.                     *)
THEOREM PoolInductive == Spec => []IInv
<1> QED
  BY PoolInit, PoolStep, PTL DEF Spec

(* Deques, frames, cells and results keep their types. *)
THEOREM PoolTypeCorrect == Spec => []TypeOK
<1>1. IInv => TypeOK
  BY DEF IInv
<1> QED
  BY <1>1, PoolInductive, PTL

(* For any number of workers and entries, however jobs are stolen and      *)
(* nested, one entry at a time uses a worker's emulator.                   *)
THEOREM EmulatorCorrect == Spec => []EmulatorExclusive
<1>1. IInv => EmulatorExclusive
  BY DEF IInv
<1> QED
  BY <1>1, PoolInductive, PTL

(* For any number of workers and entries, an entry is queued once, worked  *)
(* on once, or has its result.                                             *)
THEOREM PlaceCorrect == Spec => []NoEntryLost
<1>1. IInv => NoEntryLost
  BY DEF IInv
<1> QED
  BY <1>1, PoolInductive, PTL

----------------------------------------------------------------------------
(* The device the workers share.                                           *)

(* Only an Auto call enters the queue, and only one leaves it. *)
AutoQueues == \A w \in Callers : pc[w] \in {"load", "cas", "leave"} => mode[w] = "Auto"

(* The mutex has one holder, the worker that is dispatching. *)
OneSubmits == \A w \in Callers : pc[w] = "dispatch" => owner = w

QueueInv == GpuTypeOK /\ AutoQueues /\ OneSubmits /\ QueueBounded /\ GuardReleased

(* Sizes of finite sets, as GpuQueue counts them. *)
LEMMA Sizes ==
  /\ IsFiniteSet({}) /\ Cardinality({}) = 0
  /\ \A S : IsFiniteSet(S) =>
       /\ Cardinality(S) \in Nat /\ (S # {} => Cardinality(S) # 0)
       /\ \A T \in SUBSET S : IsFiniteSet(T)
       /\ \A x : x \notin S => Cardinality(S \cup {x}) = Cardinality(S) + 1
       /\ \A x \in S : Cardinality(S \ {x}) = Cardinality(S) - 1
<1>1. \A S : Cardinality(S) = FS!Cardinality(S)
  BY DEF Cardinality, FS!Cardinality
<1>2. \A S : IsFiniteSet(S) <=> FS!IsFiniteSet(S)
  BY DEF IsFiniteSet, FS!IsFiniteSet
<1>3. FS!IsFiniteSet({}) /\ FS!Cardinality({}) = 0
  BY FS!FS_EmptySet
<1>4. ASSUME NEW S, FS!IsFiniteSet(S)
      PROVE  /\ FS!Cardinality(S) \in Nat /\ (S # {} => FS!Cardinality(S) # 0)
             /\ \A T \in SUBSET S : FS!IsFiniteSet(T)
             /\ \A x : x \notin S => FS!Cardinality(S \cup {x}) = FS!Cardinality(S) + 1
             /\ \A x \in S : FS!Cardinality(S \ {x}) = FS!Cardinality(S) - 1
  BY <1>4, FS!FS_CardinalityType, FS!FS_EmptySet, FS!FS_Subset, FS!FS_AddElement, FS!FS_RemoveElement
<1> QED
  BY <1>1, <1>2, <1>3, <1>4

LEMMA QueueFinite == IsFiniteSet(Queue) /\ Cardinality(Queue) \in Nat
BY GpuAssumption, Sizes DEF Queue

(* The counter of a queue that is not empty does not wrap when it drops. *)
LEMMA NoWrap ==
  ASSUME NEW d \in 1 .. Limit
  PROVE  (d + Word - 1) % Word = d - 1
<1>1. Word \in Nat \ {0} /\ d - 1 \in 0 .. Word - 1
  BY GpuAssumption
<1>2. \A n \in Nat \ {0} : \A k \in 0 .. n - 1 : (k + n) % n = k
  OBVIOUS
<1>3. ((d - 1) + Word) % Word = d - 1
  BY <1>1, <1>2
<1>4. d + Word - 1 = (d - 1) + Word
  BY <1>1
<1> QED
  BY <1>3, <1>4

LEMMA QueueInit == GpuInit => QueueInv
<1> SUFFICES ASSUME GpuInit PROVE QueueInv
  OBVIOUS
<1>1. GpuTypeOK
  BY GpuAssumption DEF GpuInit, GpuTypeOK, Answers
<1>2. Queue = {}
  BY DEF GpuInit, Queue, InQueue
<1>3. QueueBounded
  BY GpuAssumption, <1>2, Sizes DEF GpuInit, QueueBounded
<1> QED
  BY <1>1, <1>3 DEF GpuInit, QueueInv, AutoQueues, OneSubmits, GuardReleased

(* Enter puts one worker into the queue, Leave takes one out. *)
LEMMA QueueEnter ==
  ASSUME QueueInv, NEW w \in Callers, Enter(w)
  PROVE  QueueBounded' /\ depth' \in 0 .. Limit
<1> USE DEF QueueInv, GpuTypeOK
<1>1. w \notin Queue
  BY DEF Enter, Queue, InQueue
<1>2. Queue' = Queue \cup {w}
  BY DEF Enter, Queue, InQueue, GoTo, AutoQueues
<1>3. Cardinality(Queue') = Cardinality(Queue) + 1
  BY <1>1, <1>2, QueueFinite, Sizes
<1>4. depth' = depth + 1 /\ depth < Limit
  BY DEF Enter
<1> QED
  BY GpuAssumption, <1>3, <1>4, QueueFinite DEF QueueBounded

LEMMA QueueLeave ==
  ASSUME QueueInv, NEW w \in Callers, Leave(w)
  PROVE  QueueBounded' /\ depth' \in 0 .. Limit
<1> USE DEF QueueInv, GpuTypeOK
<1>1. w \in Queue
  BY DEF Leave, Queue, InQueue, AutoQueues
<1>2. Queue' = Queue \ {w}
  BY DEF Leave, Queue, InQueue, GoTo
<1>3. Cardinality(Queue') = Cardinality(Queue) - 1 /\ Cardinality(Queue) # 0
  BY <1>1, <1>2, QueueFinite, Sizes
<1>4. depth \in 1 .. Limit
  BY GpuAssumption, <1>3, QueueFinite DEF QueueBounded
<1>5. depth' = depth - 1
  BY <1>4, NoWrap DEF Leave
<1> QED
  BY GpuAssumption, <1>3, <1>4, <1>5, QueueFinite DEF QueueBounded

(* Every other step leaves the queue as it is. *)
Elsewhere(w) ==
  \/ Call(w) \/ Load(w) \/ QueueFull(w) \/ Reread(w) \/ Validate(w) \/ StartInit(w)
  \/ EndInit(w) \/ NoDevice(w) \/ Lock(w) \/ Busy(w) \/ Dispatch(w)

LEMMA QueueOther ==
  ASSUME QueueInv, NEW w \in Callers, Elsewhere(w)
  PROVE  QueueBounded' /\ depth' \in 0 .. Limit
<1> USE DEF QueueInv, GpuTypeOK, GoTo, Finish, InQueue
<1>1. depth' = depth
  BY DEF Elsewhere, Call, Load, QueueFull, Reread, Validate, StartInit, EndInit, NoDevice,
         Lock, Busy, Dispatch
<1>2. \A v \in Callers : InQueue(v)' = InQueue(v)
  <2>1. CASE Call(w)
    BY <2>1 DEF Call
  <2>2. CASE Load(w) \/ QueueFull(w) \/ Reread(w)
    BY <2>2 DEF Load, QueueFull, Reread
  <2>3. CASE Validate(w) \/ NoDevice(w) \/ Busy(w)
    BY <2>3 DEF Validate, NoDevice, Busy
  <2>4. CASE StartInit(w) \/ EndInit(w) \/ Lock(w)
    BY <2>4 DEF StartInit, EndInit, Lock
  <2>5. CASE Dispatch(w)
    BY <2>5 DEF Dispatch
  <2> QED
    BY <2>1, <2>2, <2>3, <2>4, <2>5 DEF Elsewhere
<1>3. Queue' = Queue
  BY <1>2 DEF Queue
<1> QED
  BY <1>1, <1>3 DEF QueueBounded

(* A step of one worker keeps the types, whatever it does to the counter. *)
LEMMA GpuTypeStep ==
  ASSUME QueueInv, NEW w \in Callers, CallStep(w) \/ Dispatch(w), depth' \in 0 .. Limit
  PROVE  GpuTypeOK'
<1> USE DEF QueueInv, GpuTypeOK, GoTo, Answer, Finish, Answers
<1>1. CASE Call(w)
  <2>1. left[w] - 1 \in 0 .. Calls
    BY GpuAssumption, <1>1 DEF Call
  <2>2. left' \in [Callers -> 0 .. Calls]
    BY <1>1, <2>1 DEF Call
  <2>3. PICK m \in Modes : /\ mode' = [mode EXCEPT ![w] = m]
                           /\ GoTo(w, IF m = "Auto" THEN "load" ELSE "validate")
    BY <1>1 DEF Call
  <2>4. mode' \in [Callers -> Modes]
    BY <2>3
  <2> QED
    BY <1>1, <2>2, <2>3, <2>4 DEF Call
<1>2. CASE Load(w) \/ QueueFull(w) \/ Enter(w) \/ Reread(w)
  BY <1>2 DEF Load, QueueFull, Enter, Reread
<1>3. CASE Validate(w) \/ NoDevice(w) \/ Busy(w)
  BY <1>3 DEF Validate, NoDevice, Busy
<1>4. CASE StartInit(w) \/ EndInit(w) \/ Lock(w)
  BY <1>4 DEF StartInit, EndInit, Lock
<1>5. CASE Dispatch(w)
  BY <1>5 DEF Dispatch
<1>6. CASE Leave(w)
  BY <1>6 DEF Leave
<1> QED
  BY <1>1, <1>2, <1>3, <1>4, <1>5, <1>6 DEF CallStep

(* The mutex changes hands only through Lock and Dispatch. *)
LEMMA MutexStep ==
  ASSUME QueueInv, NEW w \in Callers, CallStep(w) \/ Dispatch(w)
  PROVE  AutoQueues' /\ OneSubmits' /\ GuardReleased'
<1> USE DEF QueueInv, GpuTypeOK, GoTo, Finish, AutoQueues, OneSubmits, GuardReleased
<1>1. CASE Call(w)
  BY <1>1 DEF Call
<1>2. CASE Load(w) \/ QueueFull(w) \/ Enter(w) \/ Reread(w)
  BY <1>2 DEF Load, QueueFull, Enter, Reread
<1>3. CASE Validate(w) \/ NoDevice(w) \/ Busy(w)
  BY <1>3 DEF Validate, NoDevice, Busy
<1>4. CASE StartInit(w) \/ EndInit(w)
  BY <1>4 DEF StartInit, EndInit
<1>5. CASE Lock(w)
  BY GpuAssumption, <1>5 DEF Lock
<1>6. CASE Dispatch(w)
  BY <1>6 DEF Dispatch
<1>7. CASE Leave(w)
  BY <1>7 DEF Leave
<1> QED
  BY <1>1, <1>2, <1>3, <1>4, <1>5, <1>6, <1>7 DEF CallStep

LEMMA QueueReset == QueueInv /\ Reset => QueueInv'
<1> SUFFICES ASSUME QueueInv, Reset PROVE QueueInv'
  OBVIOUS
<1> USE DEF QueueInv, Reset
<1>1. Queue' = {}
  BY DEF Queue, InQueue
<1>2. QueueBounded'
  BY GpuAssumption, <1>1, Sizes DEF QueueBounded
<1> QED
  BY GpuAssumption, <1>2 DEF GpuTypeOK, AutoQueues, OneSubmits, GuardReleased

LEMMA GpuStutter == QueueInv /\ UNCHANGED gpuVars => QueueInv'
  BY DEF QueueInv, gpuVars, GpuTypeOK, AutoQueues, OneSubmits, GuardReleased, QueueBounded,
         Queue, InQueue

(* The queue and the mutex keep their counts whatever the workers do. *)
THEOREM QueueInductive == GpuSpec => []QueueInv
<1>1. QueueInv /\ [GpuNext]_(gpuVars) => QueueInv'
  <2> SUFFICES ASSUME QueueInv, [GpuNext]_(gpuVars) PROVE QueueInv'
    OBVIOUS
  <2>1. ASSUME NEW w \in Callers, CallStep(w) \/ Dispatch(w) PROVE QueueInv'
    <3>1. QueueBounded' /\ depth' \in 0 .. Limit
      BY <2>1, QueueEnter, QueueLeave, QueueOther DEF CallStep, Elsewhere
    <3> QED
      BY <2>1, <3>1, GpuTypeStep, MutexStep DEF QueueInv
  <2> QED
    BY <2>1, QueueReset, GpuStutter DEF GpuNext
<1> QED
  BY QueueInit, <1>1, PTL DEF GpuSpec

(* The counter and every worker keep their types. *)
THEOREM GpuTypeCorrect == GpuSpec => []GpuTypeOK
<1>1. QueueInv => GpuTypeOK
  BY DEF QueueInv
<1> QED
  BY QueueInductive, <1>1, PTL

(* At most Limit Auto calls hold a place, and the counter counts them. *)
THEOREM QueueCorrect == GpuSpec => []QueueBounded
<1>1. QueueInv => QueueBounded
  BY DEF QueueInv
<1> QED
  BY QueueInductive, <1>1, PTL

(* The mutex is held by nobody but a worker that is submitting. *)
THEOREM MutexCorrect == GpuSpec => []GuardReleased
<1>1. QueueInv => GuardReleased
  BY DEF QueueInv
<1> QED
  BY QueueInductive, <1>1, PTL
=============================================================================
