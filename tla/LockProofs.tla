------------------------------ MODULE LockProofs ------------------------------
(* Proofs about ThreadSafeQueue under the wrapper of the benchmarks, for every *)
(* number of threads, values and calls.                                        *)
EXTENDS LockBasedQueue, TLAPS, FiniteSetTheorems

\* The effect of an operation is still to come.
Pending(t) == pc[t] \in Places \ {"idle", "unlock", "return"}

\* What the place a thread has reached says of its operation and its variables.
Control(t) ==
    /\ op[t] = "none" <=> pc[t] = "idle"
    /\ pc[t] \in {"try", "count"} => op[t] \in {"enqueue", "dequeue"}
    /\ pc[t] \in {"copy", "pop"} => op[t] = "dequeue"
    /\ pc[t] = "idle" => result[t] = NoResult
    /\ op[t] \in {"dequeue", "empty"} /\ Pending(t) => EmptinessOf(queue) \in seen[t]

\* The inductive invariant of the queue.
IInv ==
    /\ TypeOK
    /\ \A t \in Threads : Control(t)
    /\ MutexHeld
    /\ FrontStays

\* Types.
LEMMA TypeStep ==
    ASSUME IInv, NEW t \in Threads, AnyCall(t) \/ Step(t)
    PROVE  TypeOK'
<1> USE LockNullAssumption, LockValueAssumption DEF IInv, TypeOK, FrontStays, Goto, Operations,
        Places, Results, NoResult, Emptiness, EmptinessOf, Observed
<1>1. CASE AnyCall(t)
  <2> USE DEF Call, Tracks
  <2>1. CASE \E v \in Values : Enqueue(t, v)
    BY <2>1 DEF Enqueue
  <2>2. CASE Dequeue(t)
    BY <2>2 DEF Dequeue
  <2>3. CASE Empty(t)
    BY <2>3 DEF Empty
  <2>4. CASE Size(t)
    BY <2>4 DEF Size
  <2> QED
    BY <1>1, <2>1, <2>2, <2>3, <2>4 DEF AnyCall
<1>2. CASE TryLock(t)
  BY <1>2 DEF TryLock, Free
<1>3. CASE TryLockFail(t)
  BY <1>3 DEF TryLockFail, Free
<1>4. CASE Count(t)
  BY <1>4 DEF Count
<1>5. CASE Lock(t)
  BY <1>5 DEF Lock, Free
<1>6. CASE Push(t)
  BY <1>6 DEF Push
<1>7. CASE DeqNothing(t)
  BY <1>7 DEF DeqNothing
<1>8. CASE DeqSomething(t)
  BY <1>8 DEF DeqSomething
<1>9. CASE Copy(t)
  BY <1>9 DEF Copy
<1>10. CASE Pop(t)
  <2>1. queue # <<>> /\ lval[t] = Head(queue) /\ lval[t] \in Values
    BY <1>10 DEF Pop
  <2>2. queue' = SubSeq(queue, 2, Len(queue)) /\ queue' \in Seq(Values)
    BY <1>10, <2>1 DEF Pop
  <2>3. pc' \in [Threads -> Places] /\ lval' \in [Threads -> Values \cup {NoValue}]
    BY <1>10 DEF Pop
  <2>4. [kind |-> "dequeued", value |-> lval[t]] \in Results
    BY <2>1
  <2>5. result' \in [Threads -> Results]
    BY <1>10, <2>4 DEF Pop
  <2>6. seen' \in [Threads -> SUBSET Emptiness]
    BY <1>10 DEF Pop
  <2> QED
    BY <1>10, <2>2, <2>3, <2>5, <2>6 DEF Pop
<1>11. CASE Throw(t)
  BY <1>11 DEF Throw
<1>12. CASE ReadEmpty(t)
  BY <1>12 DEF ReadEmpty
<1>13. CASE ReadSize(t)
  BY <1>13 DEF ReadSize
<1>14. CASE Unlock(t)
  BY <1>14 DEF Unlock, Unlocks
<1>15. CASE Return(t)
  BY <1>15 DEF Return
<1> QED
  BY <1>1, <1>2, <1>3, <1>4, <1>5, <1>6, <1>7, <1>8, <1>9, <1>10, <1>11, <1>12, <1>13, <1>14,
     <1>15 DEF Step

\* Who holds the mutex.
LEMMA MutexStep ==
    ASSUME IInv, NEW t \in Threads, AnyCall(t) \/ Step(t)
    PROVE  MutexHeld'
<1> USE LockNullAssumption DEF IInv, TypeOK, MutexHeld, Inside, Goto
<1>1. CASE AnyCall(t)
  BY <1>1 DEF AnyCall, Enqueue, Dequeue, Empty, Size, Call, Tracks
<1>2. CASE TryLock(t)
  BY <1>2 DEF TryLock, Free
<1>3. CASE TryLockFail(t)
  BY <1>3 DEF TryLockFail, Free
<1>4. CASE Count(t)
  BY <1>4 DEF Count
<1>5. CASE Lock(t)
  BY <1>5 DEF Lock, Free
<1>6. CASE Push(t)
  BY <1>6 DEF Push
<1>7. CASE DeqNothing(t)
  BY <1>7 DEF DeqNothing
<1>8. CASE DeqSomething(t)
  BY <1>8 DEF DeqSomething
<1>9. CASE Copy(t)
  BY <1>9 DEF Copy
<1>10. CASE Pop(t)
  BY <1>10 DEF Pop
<1>11. CASE Throw(t)
  BY <1>11 DEF Throw
<1>12. CASE ReadEmpty(t)
  BY <1>12 DEF ReadEmpty
<1>13. CASE ReadSize(t)
  BY <1>13 DEF ReadSize
<1>14. CASE Unlock(t)
  BY <1>14 DEF Unlock, Unlocks
<1>15. CASE Return(t)
  BY <1>15 DEF Return
<1> QED
  BY <1>1, <1>2, <1>3, <1>4, <1>5, <1>6, <1>7, <1>8, <1>9, <1>10, <1>11, <1>12, <1>13, <1>14,
     <1>15 DEF Step

\* Only the thread that holds the mutex changes the queue.
LEMMA FrontStep ==
    ASSUME IInv, NEW t \in Threads, AnyCall(t) \/ Step(t)
    PROVE  FrontStays'
<1> USE LockNullAssumption DEF IInv, TypeOK, MutexHeld, FrontStays, Inside, Goto
<1>1. CASE AnyCall(t)
  BY <1>1 DEF AnyCall, Enqueue, Dequeue, Empty, Size, Call, Tracks
<1>2. CASE TryLock(t)
  BY <1>2 DEF TryLock, Free
<1>3. CASE TryLockFail(t)
  BY <1>3 DEF TryLockFail, Free
<1>4. CASE Count(t)
  BY <1>4 DEF Count
<1>5. CASE Lock(t)
  BY <1>5 DEF Lock, Free
<1>6. CASE Push(t)
  BY <1>6 DEF Push
<1>7. CASE DeqNothing(t)
  BY <1>7 DEF DeqNothing
<1>8. CASE DeqSomething(t)
  BY <1>8 DEF DeqSomething, Nothing
<1>9. CASE Copy(t)
  BY <1>9 DEF Copy
<1>10. CASE Pop(t)
  BY <1>10 DEF Pop
<1>11. CASE Throw(t)
  BY <1>11 DEF Throw
<1>12. CASE ReadEmpty(t)
  BY <1>12 DEF ReadEmpty
<1>13. CASE ReadSize(t)
  BY <1>13 DEF ReadSize
<1>14. CASE Unlock(t)
  BY <1>14 DEF Unlock, Unlocks
<1>15. CASE Return(t)
  BY <1>15 DEF Return
<1> QED
  BY <1>1, <1>2, <1>3, <1>4, <1>5, <1>6, <1>7, <1>8, <1>9, <1>10, <1>11, <1>12, <1>13, <1>14,
     <1>15 DEF Step

\* Control.
LEMMA ControlStep ==
    ASSUME IInv, NEW t \in Threads, AnyCall(t) \/ Step(t)
    PROVE  \A u \in Threads : Control(u)'
<1> USE DEF IInv, TypeOK, Control, Pending, Places, Operations, Goto, NoResult, Emptiness,
        EmptinessOf, Observed
<1>1. CASE AnyCall(t)
  BY <1>1 DEF AnyCall, Enqueue, Dequeue, Empty, Size, Call, Tracks
<1>2. CASE TryLock(t)
  BY <1>2 DEF TryLock, Free
<1>3. CASE TryLockFail(t)
  BY <1>3 DEF TryLockFail, Free
<1>4. CASE Count(t)
  BY <1>4 DEF Count
<1>5. CASE Lock(t)
  BY <1>5 DEF Lock, Free
<1>6. CASE Push(t)
  BY <1>6 DEF Push
<1>7. CASE DeqNothing(t)
  BY <1>7 DEF DeqNothing
<1>8. CASE DeqSomething(t)
  BY <1>8 DEF DeqSomething
<1>9. CASE Copy(t)
  BY <1>9 DEF Copy
<1>10. CASE Pop(t)
  BY <1>10 DEF Pop
<1>11. CASE Throw(t)
  BY <1>11 DEF Throw
<1>12. CASE ReadEmpty(t)
  BY <1>12 DEF ReadEmpty
<1>13. CASE ReadSize(t)
  BY <1>13 DEF ReadSize
<1>14. CASE Unlock(t)
  BY <1>14 DEF Unlock, Unlocks
<1>15. CASE Return(t)
  BY <1>15 DEF Return
<1> QED
  BY <1>1, <1>2, <1>3, <1>4, <1>5, <1>6, <1>7, <1>8, <1>9, <1>10, <1>11, <1>12, <1>13, <1>14,
     <1>15 DEF Step

\* The operations that have passed the contention counter and that the wrapper
\* has still to count.
Late == {t \in Threads : Counted(t) /\ pc[t] \notin {"try", "count"}}

\* The inductive invariant of the wrapper.
RateInv == total \in Nat /\ contention <= total + Cardinality(Late)

LEMMA LateFinite == IsFiniteSet(Late) /\ Cardinality(Late) \in Nat
BY LockFiniteAssumption, FS_Subset, FS_CardinalityType DEF Late

\* The two counters.
LEMMA RateStep ==
    ASSUME IInv, RateInv, NEW t \in Threads, Passed(t) \/ Returned(t)
    PROVE  RateInv'
<1> USE DEF IInv, TypeOK, Goto
<1>1. IsFiniteSet(Late) /\ Cardinality(Late) \in Nat
  BY LateFinite
<1>2. ASSUME UNCHANGED <<contention, total>>, Late \subseteq Late', Late' \subseteq Late \cup {t}
      PROVE  RateInv'
  <2>1. IsFiniteSet(Late \cup {t}) /\ Cardinality(Late \cup {t}) \in Nat
    BY <1>1, FS_AddElement, FS_CardinalityType
  <2>2. IsFiniteSet(Late') /\ Cardinality(Late') \in Nat
    BY <1>2, <2>1, FS_Subset, FS_CardinalityType
  <2>3. Cardinality(Late) <= Cardinality(Late')
    BY <1>2, <2>2, FS_Subset
  <2>4. contention' <= total' + Cardinality(Late')
    BY <1>1, <1>2, <2>2, <2>3 DEF RateInv
  <2> QED
    BY <1>2, <2>4 DEF RateInv
<1>3. CASE Passed(t) /\ AnyCall(t)
  <2>1. Late' = Late
    BY <1>3 DEF AnyCall, Enqueue, Dequeue, Empty, Size, Call, Tracks, Late, Counted, Control
  <2> QED
    BY <1>2, <1>3, <2>1 DEF Passed, AnyCall, Enqueue, Dequeue, Empty, Size, Call
<1>4. CASE Passed(t) /\ Count(t)
  <2>1. t \notin Late /\ Late' = Late \cup {t}
    BY <1>4 DEF Count, Late, Counted, Control
  <2>2. Cardinality(Late') = Cardinality(Late) + 1
    BY <1>1, <2>1, FS_AddElement
  <2>3. contention' = contention + 1 /\ total' = total
    BY <1>4 DEF Count, Passed
  <2> QED
    BY <1>1, <2>2, <2>3 DEF RateInv
<1>5. CASE Passed(t) /\ Step(t) /\ ~Count(t)
  <2>1. UNCHANGED <<contention, total, op>>
    BY <1>5 DEF Passed, Step, TryLock, TryLockFail, Lock, Push, DeqNothing, DeqSomething, Copy,
       Pop, Throw, ReadEmpty, ReadSize, Unlock, Return
  <2>2. \A u \in Threads \ {t} : pc'[u] = pc[u]
    BY <1>5 DEF Step, TryLock, TryLockFail, Lock, Push, DeqNothing, DeqSomething, Copy, Pop,
       Throw, ReadEmpty, ReadSize, Unlock, Return
  <2>3. pc'[t] \in {"try", "count"} => pc[t] \in {"try", "count"}
    BY <1>5 DEF Step, TryLock, TryLockFail, Lock, Push, DeqNothing, DeqSomething, Copy, Pop,
       Throw, ReadEmpty, ReadSize, Unlock, Return
  <2>4. Late \subseteq Late' /\ Late' \subseteq Late \cup {t}
    BY <2>1, <2>2, <2>3 DEF Late, Counted
  <2> QED
    BY <1>2, <2>1, <2>4
<1>6. CASE Returned(t)
  <2> USE <1>6 DEF Returned, Return
  <2>1. Late' = Late \ {t}
    BY DEF Late, Counted
  <2>2. Cardinality(Late') = IF t \in Late THEN Cardinality(Late) - 1 ELSE Cardinality(Late)
    BY <1>1, <2>1, FS_RemoveElement
  <2>3. t \in Late <=> op[t] \in {"enqueue", "dequeue"}
    BY DEF Late, Counted
  <2> QED
    BY <1>1, <2>2, <2>3 DEF RateInv
<1> QED
  BY <1>3, <1>4, <1>5, <1>6 DEF Passed

THEOREM InitHolds == WrapperInit => IInv /\ RateInv
<1> SUFFICES ASSUME WrapperInit
             PROVE  IInv /\ RateInv
  OBVIOUS
<1> USE DEF WrapperInit, Init
<1>1. TypeOK
  BY DEF TypeOK, Operations, Places, Results, NoResult
<1>2. \A t \in Threads : Control(t)
  BY DEF Control, Pending
<1>3. MutexHeld /\ FrontStays
  BY LockNullAssumption DEF MutexHeld, FrontStays, Inside
<1>4. RateInv
  BY LateFinite DEF RateInv
<1> QED
  BY <1>1, <1>2, <1>3, <1>4 DEF IInv

LEMMA StepHolds ==
    ASSUME IInv, RateInv, [WrapperNext]_wrapperVars
    PROVE  IInv' /\ RateInv'
<1>1. CASE \E t \in Threads : Passed(t) \/ Returned(t)
  <2>1. PICK t \in Threads : Passed(t) \/ Returned(t)
    BY <1>1
  <2>2. AnyCall(t) \/ Step(t)
    BY <2>1 DEF Passed, Returned, Step
  <2> QED
    BY <2>1, <2>2, TypeStep, ControlStep, MutexStep, FrontStep, RateStep DEF IInv
<1>2. CASE ResetStats
  <2>1. IInv'
    BY <1>2 DEF ResetStats, IInv, TypeOK, Control, Pending, MutexHeld, FrontStays
  <2>2. RateInv'
    BY <1>2, LateFinite DEF ResetStats, RateInv, Late, Counted
  <2> QED
    BY <2>1, <2>2
<1>3. CASE UNCHANGED wrapperVars
  <2> USE <1>3 DEF wrapperVars, vars
  <2>1. IInv'
    BY DEF IInv, TypeOK, Control, Pending, MutexHeld, FrontStays
  <2>2. RateInv'
    BY DEF RateInv, Late, Counted
  <2> QED
    BY <2>1, <2>2
<1> QED
  BY <1>1, <1>2, <1>3 DEF WrapperNext

\* The inductive invariant holds in every state of the queue and its wrapper.
THEOREM Invariance == WrapperSpec => [](IInv /\ RateInv)
BY InitHolds, StepHolds, PTL DEF WrapperSpec

\* No variable leaves its type: no operation pops or copies from an empty
\* std::queue (ThreadSafeQueue.hpp:47-52).
THEOREM TypeCorrect == WrapperSpec => []TypeOK
<1>1. IInv => TypeOK
  BY DEF IInv
<1> QED
  BY <1>1, Invariance, PTL

\* Whoever is where the std::queue is accessed holds the mutex, and nobody else
\* does (ThreadSafeQueue.hpp:19-56).
THEOREM MutexIsHeld == WrapperSpec => []MutexHeld
<1>1. IInv => MutexHeld
  BY DEF IInv
<1> QED
  BY <1>1, Invariance, PTL

\* The contention counter never exceeds the counted operations by more than the
\* operations in flight (queue_comparison_bench_v3.cpp:394-400).
THEOREM RateBounded == WrapperSpec => []RateIsFraction
<1>1. IInv /\ RateInv => RateIsFraction
  <2> SUFFICES ASSUME IInv, RateInv
               PROVE  RateIsFraction
    OBVIOUS
  <2> DEFINE InFlight == {t \in Threads : Counted(t)}
  <2>1. IsFiniteSet(InFlight) /\ Cardinality(InFlight) \in Nat
    BY LockFiniteAssumption, FS_Subset, FS_CardinalityType
  <2>2. Cardinality(Late) <= Cardinality(InFlight)
    BY <2>1, FS_Subset DEF Late
  <2> QED
    BY <2>1, <2>2, LateFinite DEF RateInv, RateIsFraction, IInv, TypeOK
<1> QED
  BY <1>1, Invariance, PTL

\* What a step of t does to the states of the operations that FifoQueue knows.
LEMMA BarEffect ==
    ASSUME IInv, NEW t \in Threads, AnyCall(t) \/ Step(t)
    PROVE  /\ PendingBar' = [PendingBar EXCEPT ![t] = PendingBar'[t]]
           /\ ResultBar' = [ResultBar EXCEPT ![t] = ResultBar'[t]]
<1>1. \A u \in Threads \ {t} : op'[u] = op[u] /\ pc'[u] = pc[u] /\ result'[u] = result[u]
  BY DEF IInv, TypeOK, AnyCall, Enqueue, Dequeue, Empty, Size, Call, Step, Goto, TryLock,
     TryLockFail, Count, Lock,
         Push, DeqNothing, DeqSomething, Copy, Pop, Throw, ReadEmpty, ReadSize, Unlock, Return
<1> QED
  BY <1>1 DEF PendingBar, ResultBar

\* Each action is one of FifoQueue, or a stutter.
LEMMA StepRefines ==
    ASSUME IInv, NEW t \in Threads, AnyCall(t) \/ Step(t)
    PROVE  [Fifo!Next]_(Fifo!vars)
<1> USE BarEffect DEF IInv, TypeOK, Goto, Control, Pending, Places, Operations
<1>1. ASSUME UNCHANGED <<queue, arg, seen>>, PendingBar'[t] = PendingBar[t], ResultBar'[t] = ResultBar[t]
      PROVE  UNCHANGED Fifo!vars
  <2>1. /\ PendingBar' = [PendingBar EXCEPT ![t] = PendingBar[t]]
        /\ ResultBar' = [ResultBar EXCEPT ![t] = ResultBar[t]]
    BY <1>1, BarEffect
  <2>2. PendingBar = [u \in Threads |-> PendingBar[u]] /\ ResultBar = [u \in Threads |-> ResultBar[u]]
    BY DEF PendingBar, ResultBar
  <2>3. UNCHANGED <<PendingBar, ResultBar>>
    BY <2>1, <2>2
  <2> QED
    BY <1>1, <2>3 DEF Fifo!vars
<1>2. ASSUME NEW v \in Values, Enqueue(t, v)
      PROVE  Fifo!Next
  <2>1. Fifo!CallEnqueue(t, v)
    BY <1>2 DEF Enqueue, Call, Tracks, Fifo!CallEnqueue, PendingBar, ResultBar
  <2> QED
    BY <2>1 DEF Fifo!Next
<1>3. CASE Dequeue(t)
  <2>1. Fifo!CallDequeue(t)
    BY <1>3 DEF Dequeue, Call, Tracks, Fifo!CallDequeue, PendingBar, ResultBar,
       Fifo!EmptinessOf, EmptinessOf
  <2> QED
    BY <2>1 DEF Fifo!Next
<1>4. CASE Empty(t)
  <2>1. Fifo!CallEmpty(t)
    BY <1>4 DEF Empty, Call, Tracks, Fifo!CallEmpty, PendingBar, ResultBar, Fifo!EmptinessOf,
       EmptinessOf
  <2> QED
    BY <2>1 DEF Fifo!Next
<1>5. CASE Size(t)
  BY <1>1, <1>5 DEF Size, Call, PendingBar, ResultBar
<1>6. CASE TryLock(t) \/ TryLockFail(t) \/ Count(t) \/ Lock(t) \/ DeqSomething(t) \/ Copy(t) \/ Throw(t)
  BY <1>1, <1>6 DEF TryLock, TryLockFail, Count, Lock, DeqSomething, Copy, Throw, PendingBar,
     ResultBar
<1>7. CASE Push(t)
  <2>1. PICK v \in arg[t] : queue' = Append(queue, v)
    BY <1>7 DEF Push
  <2>2. Fifo!DoEnqueue(t, v)
    BY <1>7, <2>1 DEF Push, Fifo!DoEnqueue, PendingBar, ResultBar, Fifo!EmptinessOf,
       EmptinessOf, Fifo!Observed, Observed
  <2>3. v \in Values
    BY <2>1
  <2> QED
    BY <2>2, <2>3 DEF Fifo!Next
<1>8. CASE DeqNothing(t)
  <2>1. Fifo!FindNothing(t)
    BY <1>8 DEF DeqNothing, Nothing, Fifo!FindNothing, PendingBar, ResultBar, EmptinessOf
  <2> QED
    BY <2>1 DEF Fifo!Next
<1>9. CASE Pop(t)
  <2>1. queue # <<>> /\ lval[t] = Head(queue)
    BY <1>9 DEF Pop, FrontStays
  <2>2. queue' = Tail(queue)
    BY <1>9, <2>1 DEF Pop
  <2>3. Fifo!DoDequeue(t)
    BY <1>9, <2>1, <2>2 DEF Pop, Fifo!DoDequeue, PendingBar, ResultBar, Fifo!EmptinessOf,
       EmptinessOf, Fifo!Observed, Observed
  <2> QED
    BY <2>3 DEF Fifo!Next
<1>10. CASE ReadEmpty(t)
  <2>1. EmptinessOf(queue) \in Fifo!Emptiness
    BY DEF EmptinessOf, Fifo!Emptiness
  <2>2. Fifo!AnswerEmpty(t, EmptinessOf(queue))
    BY <1>10 DEF ReadEmpty, Fifo!AnswerEmpty, PendingBar, ResultBar
  <2> QED
    BY <2>1, <2>2 DEF Fifo!Next
<1>11. CASE ReadSize(t)
  BY <1>1, <1>11 DEF ReadSize, PendingBar, ResultBar
<1>12. CASE Unlock(t)
  BY <1>1, <1>12 DEF Unlock, PendingBar, ResultBar
<1>13. CASE Return(t)
  <2>1. CASE op[t] = "size"
    BY <1>1, <1>13, <2>1 DEF Return, PendingBar, ResultBar
  <2>2. CASE op[t] # "size"
    <3>1. Fifo!Return(t)
      BY <1>13, <2>2 DEF Return, Fifo!Return, PendingBar, ResultBar, NoResult, Fifo!NoResult
    <3> QED
      BY <3>1 DEF Fifo!Next
  <2> QED
    BY <2>1, <2>2
<1> QED
  BY <1>2, <1>3, <1>4, <1>5, <1>6, <1>7, <1>8, <1>9, <1>10, <1>11, <1>12, <1>13 DEF AnyCall, Step

\* The lock-based queue is a linearizable FIFO queue (ThreadSafeQueue.hpp:31-67).
THEOREM Linearizability == WrapperSpec => Linearizable
<1>1. WrapperInit => Fifo!Init
  BY DEF WrapperInit, Init, Fifo!Init, PendingBar, ResultBar, NoResult, Fifo!NoResult
<1>2. ASSUME IInv, [WrapperNext]_wrapperVars
      PROVE  [Fifo!Next]_(Fifo!vars)
  <2>1. CASE \E t \in Threads : Passed(t) \/ Returned(t)
    BY <1>2, <2>1, StepRefines DEF Passed, Returned, Step
  <2>2. CASE ResetStats \/ UNCHANGED wrapperVars
    BY <2>2 DEF ResetStats, wrapperVars, vars, Fifo!vars, PendingBar, ResultBar
  <2> QED
    BY <1>2, <2>1, <2>2 DEF WrapperNext
<1> QED
  BY <1>1, <1>2, Invariance, PTL DEF WrapperSpec, Linearizable, Fifo!Spec

=============================================================================
