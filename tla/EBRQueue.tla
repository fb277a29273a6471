------------------------------ MODULE EBRQueue ------------------------------
(* lfq::Queue of lockfree_queue_ebr.hpp: the Michael-Scott queue of MSQueue   *)
(* under the epoch-based reclamation of EBR.  Each iteration of an            *)
(* operation's loop runs under a Guard of its own; dequeue() retires the old  *)
(* dummy inside that Guard.                                                   *)
EXTENDS MSQueue, FiniteSets

CONSTANTS
    PoolSize, Batch, MaxEpoch,  \* see EBR
    Forcers,    \* the threads that call force_cleanup()
    Exiters     \* the threads that may exit

ASSUME QueuePoolAssumption == PoolSize \in Nat \ {0} /\ Batch \in Nat \ {0} /\ MaxEpoch \in Nat
ASSUME QueueThreadAssumption == NULL \notin Threads
ASSUME QueueClientAssumption == Forcers \subseteq Threads /\ Exiters \subseteq Threads

VARIABLES
    epoch, owner, ctl, slot, gone, local, bag, freed,   \* the library's state: see EBR
    at, op, index, cur, found, item, blockers,
    guard,      \* guard[t]: no Guard, one held, one whose iteration is over
    retiring,   \* retiring[t]: the dummy that t has unlinked and not retired, at most one
    forced      \* has a thread called force_cleanup()?  A history variable

Ebr == INSTANCE EBR WITH Objects <- Nodes

library == <<epoch, owner, ctl, slot, gone, local, bag, freed, at, op, index, cur, found, item, blockers>>
glue == <<guard, retiring, forced>>
queueVars == <<vars, library, glue>>

QueueInit ==
    /\ Init
    /\ Ebr!EbrInit
    /\ guard = [t \in Threads |-> "none"]
    /\ retiring = [t \in Threads |-> {}]
    /\ forced = FALSE

\* A thread of the program calls an operation of the queue.
QueueCall(t) ==
    /\ at[t] = "idle"
    /\ t \notin gone
    /\ Call(t)
    /\ UNCHANGED <<library, glue>>

\* An iteration starts with its Guard.
StartIteration(t) ==
    /\ pc[t] \in {"enq_tail", "deq_head", "emp_head"}
    /\ guard[t] = "none"
    /\ Ebr!Guard(t)
    /\ guard' = [guard EXCEPT ![t] = "held"]
    /\ UNCHANGED <<vars, retiring, forced>>

\* An access to the queue; where the iteration is over, the Guard goes next.
Iterate(t) ==
    /\ at[t] = "idle"
    /\ guard[t] = "held"
    /\ Step(t)
    /\ guard' = [guard EXCEPT ![t] = IF pc'[t] \in {"enq_tail", "deq_head", "return"}
                                     THEN "over" ELSE "held"]
    /\ retiring' = [retiring EXCEPT ![t] = IF hi' # hi THEN {lhead[t]} ELSE {}]
    /\ UNCHANGED <<library, forced>>

\* ebr::retire(head)
RetireDummy(t) ==
    /\ \E n \in retiring[t] : Ebr!Retire(t, n)
    /\ retiring' = [retiring EXCEPT ![t] = {}]
    /\ UNCHANGED <<vars, guard, forced>>

EndIteration(t) ==
    /\ guard[t] = "over"
    /\ retiring[t] = {}
    /\ Ebr!Leave(t)
    /\ guard' = [guard EXCEPT ![t] = "none"]
    /\ UNCHANGED <<vars, retiring, forced>>

QueueReturn(t) ==
    /\ guard[t] = "none"
    /\ Return(t)
    /\ UNCHANGED <<library, glue>>

ForceCleanup(t) ==
    /\ t \in Forcers
    /\ pc[t] = "idle"
    /\ Ebr!ForceEpochAdvance(t)
    /\ forced' = TRUE
    /\ UNCHANGED <<vars, guard, retiring>>

ThreadExit(t) ==
    /\ t \in Exiters
    /\ pc[t] = "idle"
    /\ Ebr!Exit(t)
    /\ UNCHANGED <<vars, glue>>

Inside(t) == Ebr!EbrStep(t) /\ UNCHANGED <<vars, glue>>

QueueNext ==
    \E t \in Threads :
        \/ QueueCall(t) \/ StartIteration(t) \/ Iterate(t) \/ RetireDummy(t)
        \/ EndIteration(t) \/ QueueReturn(t) \/ ForceCleanup(t) \/ ThreadExit(t)
        \/ Inside(t)

QueueSpec == QueueInit /\ [][QueueNext]_queueVars

----------------------------------------------------------------------------
(* Properties *)

\* The node whose fields t's next access reads or writes.
Accessed(t) ==
    IF pc[t] \in {"enq_next", "enq_link"} THEN {ltail[t]}
    ELSE IF pc[t] \in {"deq_next", "emp_next"} THEN {lhead[t]}
    ELSE IF pc[t] = "deq_val" THEN {lnext[t]}
    ELSE {}

\* No use after free, and no freed node is head_ or tail_: what reclamation is
\* for ("prevents ABA and use-after-free", lockfree_queue_ebr.hpp:17).
NoUseAfterFree ==
    /\ \A t \in Threads : Accessed(t) \cap freed = {}
    /\ {head, tail} \cap freed = {}

\* dequeue() retires inside its own Guard, so the scan of its try_flip() always
\* meets the caller's own pin: until somebody calls force_cleanup() the epoch
\* stays 0, and until a thread exits too no node is ever freed.
EpochFrozen == ~forced => epoch = 0 /\ (gone = {} => freed = {})

\* The threads that have n to retire, and the buckets <<thread, bucket>> it is in.
Retirers(n) == {t \in Threads : n \in retiring[t] \/ item[t] = n}
BucketsOf(n) == {p \in Threads \X Ebr!Buckets : n \in bag[p[1]][p[2]]}

\* Each dummy is retired once, by the thread whose CAS on head_ unlinked it, and
\* never while it can still be reached from head_: two retirements would run its
\* deleter twice.  This holds even when epochs advance and threads exit.
RetiredOnce ==
    \A n \in Nodes :
        /\ Cardinality(Retirers(n)) + Cardinality(BucketsOf(n)) <= 1
        /\ Retirers(n) # {} => n \notin freed
        /\ Retirers(n) # {} \/ BucketsOf(n) # {} \/ n \in freed =>
             \E i \in 1..(hi - 1) : chain[i] = n

=============================================================================
