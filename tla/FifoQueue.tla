------------------------------ MODULE FifoQueue ------------------------------
(* What every queue of the repository promises its callers: a linearizable    *)
(* multi-producer multi-consumer FIFO queue.                                  *)
(*                                                                            *)
(* An operation is a call, one atomic effect on the queue, and a return.  A   *)
(* successful enqueue or dequeue takes effect at one instant between its call *)
(* and its return.  A dequeue() that returns false, and either result of      *)
(* empty(), must have been true of the queue at some instant of the call:     *)
(* seen[t] is the set of answers to "is the queue empty?" that were right at  *)
(* some instant since t's call of dequeue() or empty().                       *)
EXTENDS Naturals, Sequences

CONSTANTS
    Threads,    \* the threads that use the queue
    Values      \* the values that travel through it

VARIABLES
    queue,      \* the values in the queue, oldest first
    pending,    \* pending[t]: where thread t is in its operation
    arg,        \* arg[t]: the values t's enqueue still has to insert, a set of at most one
    result,     \* result[t]: what t's finished operation is about to return
    seen        \* seen[t]: the emptiness t may report

vars == <<queue, pending, arg, result, seen>>

Emptiness == {"empty", "nonempty"}
EmptinessOf(q) == IF q = <<>> THEN "empty" ELSE "nonempty"

Pending == {"idle", "enqueue", "dequeue", "empty", "done"}
Results == [kind : {"none", "enqueued", "nothing"}]
             \cup [kind : {"dequeued"}, value : Values]
             \cup [kind : {"emptiness"}, answer : Emptiness]
NoResult == [kind |-> "none"]

TypeOK ==
    /\ queue \in Seq(Values)
    /\ pending \in [Threads -> Pending]
    /\ arg \in [Threads -> SUBSET Values]
    /\ result \in [Threads -> Results]
    /\ seen \in [Threads -> SUBSET Emptiness]

Init ==
    /\ queue = <<>>
    /\ pending = [t \in Threads |-> "idle"]
    /\ arg = [t \in Threads |-> {}]
    /\ result = [t \in Threads |-> NoResult]
    /\ seen = [t \in Threads |-> {}]

\* The queue becomes q: every caller that is looking sees whether it is empty.
Observed(q) ==
    [u \in Threads |-> IF seen[u] = {} THEN {} ELSE seen[u] \cup {EmptinessOf(q)}]

----------------------------------------------------------------------------
(* Calls *)

CallEnqueue(t, v) ==
    /\ pending[t] = "idle"
    /\ pending' = [pending EXCEPT ![t] = "enqueue"]
    /\ arg' = [arg EXCEPT ![t] = {v}]
    /\ UNCHANGED <<queue, result, seen>>

CallDequeue(t) ==
    /\ pending[t] = "idle"
    /\ pending' = [pending EXCEPT ![t] = "dequeue"]
    /\ seen' = [seen EXCEPT ![t] = {EmptinessOf(queue)}]
    /\ UNCHANGED <<queue, arg, result>>

CallEmpty(t) ==
    /\ pending[t] = "idle"
    /\ pending' = [pending EXCEPT ![t] = "empty"]
    /\ seen' = [seen EXCEPT ![t] = {EmptinessOf(queue)}]
    /\ UNCHANGED <<queue, arg, result>>

(* Effects *)

DoEnqueue(t, v) ==
    /\ pending[t] = "enqueue"
    /\ v \in arg[t]
    /\ queue' = Append(queue, v)
    /\ pending' = [pending EXCEPT ![t] = "done"]
    /\ arg' = [arg EXCEPT ![t] = {}]
    /\ result' = [result EXCEPT ![t] = [kind |-> "enqueued"]]
    /\ seen' = Observed(queue')

DoDequeue(t) ==
    /\ pending[t] = "dequeue"
    /\ queue # <<>>
    /\ queue' = Tail(queue)
    /\ pending' = [pending EXCEPT ![t] = "done"]
    /\ result' = [result EXCEPT ![t] = [kind |-> "dequeued", value |-> Head(queue)]]
    /\ seen' = [Observed(queue') EXCEPT ![t] = {}]
    /\ UNCHANGED arg

FindNothing(t) ==
    /\ pending[t] = "dequeue"
    /\ "empty" \in seen[t]
    /\ pending' = [pending EXCEPT ![t] = "done"]
    /\ result' = [result EXCEPT ![t] = [kind |-> "nothing"]]
    /\ seen' = [seen EXCEPT ![t] = {}]
    /\ UNCHANGED <<queue, arg>>

AnswerEmpty(t, answer) ==
    /\ pending[t] = "empty"
    /\ answer \in seen[t]
    /\ pending' = [pending EXCEPT ![t] = "done"]
    /\ result' = [result EXCEPT ![t] = [kind |-> "emptiness", answer |-> answer]]
    /\ seen' = [seen EXCEPT ![t] = {}]
    /\ UNCHANGED <<queue, arg>>

(* Return *)

Return(t) ==
    /\ pending[t] = "done"
    /\ pending' = [pending EXCEPT ![t] = "idle"]
    /\ result' = [result EXCEPT ![t] = NoResult]
    /\ UNCHANGED <<queue, arg, seen>>

----------------------------------------------------------------------------

Next ==
    \E t \in Threads :
        \/ \E v \in Values : CallEnqueue(t, v) \/ DoEnqueue(t, v)
        \/ CallDequeue(t) \/ DoDequeue(t) \/ FindNothing(t)
        \/ CallEmpty(t) \/ \E answer \in Emptiness : AnswerEmpty(t, answer)
        \/ Return(t)

Spec == Init /\ [][Next]_vars

=============================================================================
