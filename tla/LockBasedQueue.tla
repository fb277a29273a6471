---------------------------- MODULE LockBasedQueue ----------------------------
(* LockBasedQueueWrapper of the comparison benchmarks                         *)
(* (queue_comparison_bench_v3.cpp:368-408): it counts the operations of a     *)
(* ThreadSafeQueue after they return, and reports the quotient of the queue's *)
(* contention counter and its own as the contention rate.                     *)
EXTENDS ThreadSafeQueue, FiniteSets

ASSUME LockFiniteAssumption == IsFiniteSet(Threads)

VARIABLE
    total       \* total_operations_

wrapperVars == <<vars, total>>

WrapperInit == Init /\ total = 0

\* The operation returns to the wrapper, which counts it; empty() and size()
\* are passed on uncounted.
Returned(t) ==
    /\ Return(t)
    /\ total' = IF op[t] \in {"enqueue", "dequeue"} THEN total + 1 ELSE total

Passed(t) ==
    /\ AnyCall(t) \/ Step(t)
    /\ ~(pc[t] = "return" /\ pc'[t] = "idle")
    /\ UNCHANGED total

\* resetStats(): the benchmarks call it while no thread is inside the queue.
ResetStats ==
    /\ \A t \in Threads : pc[t] = "idle"
    /\ contention # 0 \/ total # 0
    /\ contention' = 0
    /\ total' = 0
    /\ UNCHANGED <<queue, mutex, op, pc, arg, lval, result, seen, calls>>

WrapperNext == ResetStats \/ \E t \in Threads : Passed(t) \/ Returned(t)

\* The scheduler keeps running every thread; a mutex promises no more than that
\* somebody gets it.
WrapperSpec ==
    /\ WrapperInit
    /\ [][WrapperNext]_wrapperVars
    /\ \A t \in Threads : WF_wrapperVars((Passed(t) /\ pc[t] # "idle") \/ Returned(t))

----------------------------------------------------------------------------
(* Properties *)

\* "the fraction of operations that experienced contention"
\* (queue_comparison_bench.cpp:342): the two counters are updated at different
\* times, so that the rate exceeds one, but by the operations in flight at most.
Counted(t) == op[t] \in {"enqueue", "dequeue"}
RateIsFraction == contention <= total + Cardinality({t \in Threads : Counted(t)})

\* Every call returns, or has thrown, or waits at the mutex for one that has: a
\* thread that holds the mutex gives it up, and the bounded number of calls lets
\* everybody have it.  An exception, which leaves the mutex locked
\* (ThreadSafeQueue.hpp:31-34), keeps those who want it and nobody else.
OperationsReturn ==
    \A t \in Threads :
        pc[t] # "idle" ~>
            pc[t] = "idle" \/ \E u \in Threads : pc[u] = "thrown" /\ (u = t \/ pc[t] = "lock")

=============================================================================
