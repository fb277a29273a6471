--------------------------- MODULE ThreadSafeQueue ---------------------------
(* ThreadSafeQueue (ThreadSafeQueue.hpp:10-75): a std::queue under one mutex, *)
(* locked through a helper that counts contention and unlocked by hand.  One  *)
(* action per access of the mutex, the counter or the queue, because that the *)
(* accesses of the queue exclude each other is what is to be shown.           *)
(*                                                                            *)
(* seen and calls are history variables: no guard of the queue reads them.    *)
EXTENDS Naturals, Sequences

CONSTANTS
    Threads,    \* the threads that use the queue
    Producers,  \* those that call enqueue()
    Consumers,  \* those that call dequeue()
    Observers,  \* those that call empty() and size()
    Throwers,   \* those for which copying or storing a T may throw
    Values,     \* the values that travel through the queue
    NoValue,    \* no value
    NULL,       \* nobody
    MaxCalls    \* how often the queue is called (the code has no limit)

ASSUME LockNullAssumption == NULL \notin Threads
ASSUME LockValueAssumption == NoValue \notin Values
ASSUME LockClientAssumption ==
    /\ Producers \subseteq Threads
    /\ Consumers \subseteq Threads
    /\ Observers \subseteq Threads
    /\ Throwers \subseteq Threads
ASSUME LockCallsAssumption == MaxCalls \in Nat

VARIABLES
    queue,      \* queue_
    mutex,      \* mtx_: the thread that holds it
    contention, \* contention_counter_
    op,         \* op[t]: the operation that t is in
    pc,         \* pc[t]: the access t makes next
    arg,        \* arg[t]: the value that t's enqueue still has to store, a set of at most one
    lval,       \* lval[t]: dequeue()'s value, once it has been copied
    result,     \* result[t]: what t's operation is about to return
    seen,       \* seen[t]: see FifoQueue
    calls       \* the calls so far

vars == <<queue, mutex, contention, op, pc, arg, lval, result, seen, calls>>

Operations == {"none", "enqueue", "dequeue", "empty", "size"}
Places == {"idle", "try", "count", "lock", "body", "copy", "pop", "unlock", "return", "thrown"}
Inside == {"body", "copy", "pop", "unlock", "thrown"}

Emptiness == {"empty", "nonempty"}
EmptinessOf(q) == IF q = <<>> THEN "empty" ELSE "nonempty"
NoResult == [kind |-> "none"]
Results == [kind : {"none", "enqueued", "nothing"}]
             \cup [kind : {"dequeued"}, value : Values]
             \cup [kind : {"emptiness"}, answer : Emptiness]
             \cup [kind : {"size"}, length : Nat]

Init ==
    /\ queue = <<>>
    /\ mutex = NULL
    /\ contention = 0
    /\ op = [t \in Threads |-> "none"]
    /\ pc = [t \in Threads |-> "idle"]
    /\ arg = [t \in Threads |-> {}]
    /\ lval = [t \in Threads |-> NoValue]
    /\ result = [t \in Threads |-> NoResult]
    /\ seen = [t \in Threads |-> {}]
    /\ calls = 0

Goto(t, from, to) ==
    /\ pc[t] = from
    /\ pc' = [pc EXCEPT ![t] = to]

Observed(q) ==
    [u \in Threads |-> IF seen[u] = {} THEN {} ELSE seen[u] \cup {EmptinessOf(q)}]

----------------------------------------------------------------------------
(* Calls *)

\* The operations that lock through try_lock_with_contention_tracking(); the
\* others use a lock_guard.  Bug variant: all of them.
TracksAlways(o) == TRUE
Tracks(o) == o \in {"enqueue", "dequeue"}

Call(t, o) ==
    /\ calls < MaxCalls
    /\ Goto(t, "idle", IF Tracks(o) THEN "try" ELSE "lock")
    /\ op' = [op EXCEPT ![t] = o]
    /\ calls' = calls + 1
    /\ UNCHANGED <<queue, mutex, contention, lval, result>>

Enqueue(t, v) ==
    /\ t \in Producers
    /\ Call(t, "enqueue")
    /\ arg' = [arg EXCEPT ![t] = {v}]
    /\ UNCHANGED seen

Dequeue(t) ==
    /\ t \in Consumers
    /\ Call(t, "dequeue")
    /\ seen' = [seen EXCEPT ![t] = {EmptinessOf(queue)}]
    /\ UNCHANGED arg

Empty(t) ==
    /\ t \in Observers
    /\ Call(t, "empty")
    /\ seen' = [seen EXCEPT ![t] = {EmptinessOf(queue)}]
    /\ UNCHANGED arg

Size(t) ==
    /\ t \in Observers
    /\ Call(t, "size")
    /\ UNCHANGED <<arg, seen>>

----------------------------------------------------------------------------
(* try_lock_with_contention_tracking() *)

\* Is the mutex free?  Bug variant: a lock that never blocks.
FreeAlways == TRUE
Free == mutex = NULL

TryLock(t) ==
    /\ Goto(t, "try", "body")
    /\ Free
    /\ mutex' = t
    /\ UNCHANGED <<queue, contention, op, arg, lval, result, seen, calls>>

TryLockFail(t) ==
    /\ Goto(t, "try", "count")
    /\ ~Free
    /\ UNCHANGED <<queue, mutex, contention, op, arg, lval, result, seen, calls>>

Count(t) ==
    /\ Goto(t, "count", "lock")
    /\ contention' = contention + 1
    /\ UNCHANGED <<queue, mutex, op, arg, lval, result, seen, calls>>

\* mtx_.lock(), of the helper or of a lock_guard.
Lock(t) ==
    /\ Goto(t, "lock", "body")
    /\ Free
    /\ mutex' = t
    /\ UNCHANGED <<queue, contention, op, arg, lval, result, seen, calls>>

----------------------------------------------------------------------------
(* What the operations do while they hold the mutex *)

Push(t) ==
    /\ op[t] = "enqueue"
    /\ Goto(t, "body", "unlock")
    /\ \E v \in arg[t] : queue' = Append(queue, v)
    /\ arg' = [arg EXCEPT ![t] = {}]
    /\ result' = [result EXCEPT ![t] = [kind |-> "enqueued"]]
    /\ seen' = Observed(queue')
    /\ UNCHANGED <<mutex, contention, op, lval, calls>>

\* queue_.empty() in dequeue().  Bug variant: nobody looks.
NothingIgnored == FALSE
Nothing == queue = <<>>

\* dequeue() finds nothing, unlocks and returns false.
DeqNothing(t) ==
    /\ op[t] = "dequeue"
    /\ Goto(t, "body", "unlock")
    /\ Nothing
    /\ result' = [result EXCEPT ![t] = [kind |-> "nothing"]]
    /\ seen' = [seen EXCEPT ![t] = {}]
    /\ UNCHANGED <<queue, mutex, contention, op, arg, lval, calls>>

DeqSomething(t) ==
    /\ op[t] = "dequeue"
    /\ Goto(t, "body", "copy")
    /\ ~Nothing
    /\ UNCHANGED <<queue, mutex, contention, op, arg, lval, result, seen, calls>>

\* value = queue_.front()
Copy(t) ==
    /\ Goto(t, "copy", "pop")
    /\ lval' = [lval EXCEPT ![t] = IF queue = <<>> THEN NoValue ELSE Head(queue)]
    /\ UNCHANGED <<queue, mutex, contention, op, arg, result, seen, calls>>

\* queue_.pop()
Pop(t) ==
    /\ Goto(t, "pop", "unlock")
    /\ queue' = SubSeq(queue, 2, Len(queue))
    /\ lval' = [lval EXCEPT ![t] = NoValue]
    /\ result' = [result EXCEPT ![t] = [kind |-> "dequeued", value |-> lval[t]]]
    /\ seen' = [Observed(queue') EXCEPT ![t] = {}]
    /\ UNCHANGED <<mutex, contention, op, arg, calls>>

\* push() fails to allocate, or T's copy throws, before anything has changed: the
\* exception leaves without unlocking.
Throw(t) ==
    /\ t \in Throwers
    /\ \/ op[t] = "enqueue" /\ Goto(t, "body", "thrown")
       \/ op[t] = "dequeue" /\ Goto(t, "copy", "thrown")
    /\ UNCHANGED <<queue, mutex, contention, op, arg, lval, result, seen, calls>>

ReadEmpty(t) ==
    /\ op[t] = "empty"
    /\ Goto(t, "body", "unlock")
    /\ result' = [result EXCEPT ![t] = [kind |-> "emptiness", answer |-> EmptinessOf(queue)]]
    /\ seen' = [seen EXCEPT ![t] = {}]
    /\ UNCHANGED <<queue, mutex, contention, op, arg, lval, calls>>

ReadSize(t) ==
    /\ op[t] = "size"
    /\ Goto(t, "body", "unlock")
    /\ result' = [result EXCEPT ![t] = [kind |-> "size", length |-> Len(queue)]]
    /\ UNCHANGED <<queue, mutex, contention, op, arg, lval, seen, calls>>

\* The paths that unlock.  Bug variant: dequeue() forgets to when it found nothing.
UnlocksMost(t) == result[t].kind # "nothing"
Unlocks(t) == TRUE

Unlock(t) ==
    /\ Goto(t, "unlock", "return")
    /\ mutex' = IF Unlocks(t) THEN NULL ELSE mutex
    /\ UNCHANGED <<queue, contention, op, arg, lval, result, seen, calls>>

Return(t) ==
    /\ Goto(t, "return", "idle")
    /\ op' = [op EXCEPT ![t] = "none"]
    /\ result' = [result EXCEPT ![t] = NoResult]
    /\ UNCHANGED <<queue, mutex, contention, arg, lval, seen, calls>>

----------------------------------------------------------------------------

Step(t) ==
    \/ TryLock(t) \/ TryLockFail(t) \/ Count(t) \/ Lock(t)
    \/ Push(t) \/ DeqNothing(t) \/ DeqSomething(t) \/ Copy(t) \/ Pop(t) \/ Throw(t)
    \/ ReadEmpty(t) \/ ReadSize(t)
    \/ Unlock(t) \/ Return(t)

AnyCall(t) == (\E v \in Values : Enqueue(t, v)) \/ Dequeue(t) \/ Empty(t) \/ Size(t)

Next == \E t \in Threads : AnyCall(t) \/ Step(t)

Spec == Init /\ [][Next]_vars

----------------------------------------------------------------------------
(* Properties *)

TypeOK ==
    /\ queue \in Seq(Values)
    /\ mutex \in Threads \cup {NULL}
    /\ contention \in Nat
    /\ op \in [Threads -> Operations]
    /\ pc \in [Threads -> Places]
    /\ arg \in [Threads -> SUBSET Values]
    /\ lval \in [Threads -> Values \cup {NoValue}]
    /\ result \in [Threads -> Results]
    /\ seen \in [Threads -> SUBSET Emptiness]
    /\ calls \in Nat

\* The thread that holds the mutex, and only it, is where the queue is accessed:
\* locked by a helper and unlocked by hand on every path, the mutex is neither
\* kept by a thread that has returned nor given up by one that is still inside.
MutexHeld == \A t \in Threads : pc[t] \in Inside <=> mutex = t

\* What dequeue() has copied is still the front when it pops.
FrontStays ==
    \A t \in Threads :
        /\ pc[t] \in {"copy", "pop"} => queue # <<>>
        /\ pc[t] = "pop" => lval[t] = Head(queue)

\* The lock-based queue is the same linearizable FIFO queue as the lock-free
\* ones: each step is a call, an effect, a return or a stutter of FifoQueue
\* (which has no size(): size() changes nothing).
PendingBar ==
    [t \in Threads |->
        IF op[t] \in {"none", "size"} THEN "idle"
        ELSE IF pc[t] \in {"unlock", "return"} THEN "done"
        ELSE op[t]]

ResultBar == [t \in Threads |-> IF op[t] = "size" THEN NoResult ELSE result[t]]

Fifo == INSTANCE FifoQueue WITH pending <- PendingBar, result <- ResultBar

Linearizable == Fifo!Spec

=============================================================================
