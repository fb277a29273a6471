------------------------------- MODULE MSQueue -------------------------------
(* The Michael-Scott queue whose loops all the lock-free queues share         *)
(* (lockfree_queue_ebr.hpp:402-471, lockfree_queue_ebr_v1.hpp:251-319,        *)
(* lockfree_queue_hp.hpp:260-334), one action per access of shared memory. A  *)
(* node that leaves the queue is not freed here: its reuse is the reclamation *)
(* scheme's concern.                                                          *)
(*                                                                            *)
(* chain, hi, ti and seen are history variables: no guard reads them.         *)
EXTENDS Naturals, Sequences

CONSTANTS
    Threads,            \* the threads that use the queue
    Producers,          \* those that call enqueue()
    Consumers,          \* those that call dequeue()
    Observers,          \* those that call empty()
    Live,               \* those the scheduler keeps running (liveness only)
    Nodes,              \* the nodes the allocator can return
    Dummy,              \* the node the constructor allocates
    NULL,               \* the null pointer
    Values,             \* the values that travel through the queue
    NoValue,            \* the content of a node that holds no value
    SpuriousFailures    \* may compare_exchange_weak fail without cause?

ASSUME DummyAssumption == Dummy \in Nodes
ASSUME NullAssumption == NULL \notin Nodes
ASSUME NoValueAssumption == NoValue \notin Values
ASSUME ClientAssumption ==
    /\ Producers \subseteq Threads
    /\ Consumers \subseteq Threads
    /\ Observers \subseteq Threads
    /\ Live \subseteq Threads
ASSUME SpuriousAssumption == SpuriousFailures \in BOOLEAN

VARIABLES
    head,       \* head_: the dummy node, whose successor holds the oldest value
    tail,       \* tail_: the last node, or the one before it
    next,       \* next[n]: n->next
    value,      \* value[n]: the value stored in n
    pc,         \* pc[t]: the access thread t makes next
    node,       \* node[t]: enqueue()'s n, from its allocation on
    lhead,      \* lhead[t]: dequeue()'s and empty()'s head
    ltail,      \* ltail[t]: the local tail of enqueue() and dequeue()
    lnext,      \* lnext[t]: their local next
    lval,       \* lval[t]: dequeue()'s val
    result,     \* result[t]: what t's operation is about to return
    chain,      \* the nodes ever linked, in the order they were linked
    hi, ti,     \* the positions of head_ and tail_ in chain
    seen        \* seen[t]: see FifoQueue

shared == <<head, tail, next, value>>
locals == <<node, lhead, ltail, lnext, lval>>
history == <<chain, hi, ti>>
vars == <<shared, pc, locals, result, history, seen>>

EnqueuePCs == {"enq_tail", "enq_next", "enq_check", "enq_link", "enq_help", "enq_swing"}
DequeuePCs == {"deq_head", "deq_tail", "deq_next", "deq_check", "deq_help", "deq_val", "deq_cas"}
EmptyPCs == {"emp_head", "emp_next"}
PCs == {"idle", "return"} \cup EnqueuePCs \cup DequeuePCs \cup EmptyPCs

Emptiness == {"empty", "nonempty"}
Pointers == Nodes \cup {NULL}
Results == [kind : {"none", "enqueued", "nothing"}]
             \cup [kind : {"dequeued"}, value : Values]
             \cup [kind : {"emptiness"}, answer : Emptiness]
NoResult == [kind |-> "none"]

\* The operator new of enqueue() returns a node nobody has used yet.
Fresh == {n \in Nodes : /\ \A i \in 1..Len(chain) : chain[i] # n
                        /\ \A t \in Threads : node[t] # n}

\* The values in the queue, oldest first, and whether there are any.
Contents == [i \in 1..(Len(chain) - hi) |-> value[chain[hi + i]]]
EmptyNow == IF hi = Len(chain) THEN "empty" ELSE "nonempty"

Observed ==
    [u \in Threads |-> IF seen[u] = {} THEN {} ELSE seen[u] \cup {EmptyNow'}]

Init ==
    /\ head = Dummy
    /\ tail = Dummy
    /\ next = [n \in Nodes |-> NULL]
    /\ value = [n \in Nodes |-> NoValue]
    /\ pc = [t \in Threads |-> "idle"]
    /\ node = [t \in Threads |-> NULL]
    /\ lhead = [t \in Threads |-> NULL]
    /\ ltail = [t \in Threads |-> NULL]
    /\ lnext = [t \in Threads |-> NULL]
    /\ lval = [t \in Threads |-> NoValue]
    /\ result = [t \in Threads |-> NoResult]
    /\ chain = <<Dummy>>
    /\ hi = 1
    /\ ti = 1
    /\ seen = [t \in Threads |-> {}]

Goto(t, from, to) ==
    /\ pc[t] = from
    /\ pc' = [pc EXCEPT ![t] = to]

\* Bug variants of TailCAS: the CAS is a plain store; nobody ever moves tail_.
TailStore(expected, desired) == tail' = desired /\ ti' = IF tail = expected THEN ti + 1 ELSE ti
TailStuck(expected, desired) == UNCHANGED <<tail, ti>>

\* compare_exchange on tail_; on success ti follows.
TailCAS(expected, desired) ==
    IF tail = expected
    THEN tail' = desired /\ ti' = ti + 1
    ELSE UNCHANGED <<tail, ti>>

----------------------------------------------------------------------------
(* enqueue() *)

Enqueue(t, v, n) ==
    /\ Goto(t, "idle", "enq_tail")
    /\ t \in Producers
    /\ n \in Fresh
    /\ node' = [node EXCEPT ![t] = n]
    /\ value' = [value EXCEPT ![n] = v]
    /\ UNCHANGED <<head, tail, next, lhead, ltail, lnext, lval, result, history, seen>>

EnqTail(t) ==
    /\ Goto(t, "enq_tail", "enq_next")
    /\ ltail' = [ltail EXCEPT ![t] = tail]
    /\ UNCHANGED <<shared, node, lhead, lnext, lval, result, history, seen>>

EnqNext(t) ==
    /\ Goto(t, "enq_next", "enq_check")
    /\ lnext' = [lnext EXCEPT ![t] = next[ltail[t]]]
    /\ UNCHANGED <<shared, node, lhead, ltail, lval, result, history, seen>>

\* An iteration of enqueue()'s loop ends and its locals go.
EnqAgain(t) ==
    /\ ltail' = [ltail EXCEPT ![t] = NULL]
    /\ lnext' = [lnext EXCEPT ![t] = NULL]
    /\ UNCHANGED <<node, lhead, lval, result, seen>>

EnqRetry(t) ==
    /\ Goto(t, "enq_check", "enq_tail")
    /\ ltail[t] # tail
    /\ EnqAgain(t)
    /\ UNCHANGED <<shared, history>>

EnqCheck(t) ==
    /\ Goto(t, "enq_check", IF lnext[t] = NULL THEN "enq_link" ELSE "enq_help")
    /\ ltail[t] = tail
    /\ UNCHANGED <<shared, locals, result, history, seen>>

\* The node t found last is still the last.  Bug variant: nobody looks.
StillLastUnchecked(t) == TRUE
StillLast(t) == next[ltail[t]] = NULL

\* The CAS on tail->next succeeds: the value is in the queue.
EnqLink(t) ==
    /\ Goto(t, "enq_link", "enq_swing")
    /\ StillLast(t)
    /\ next' = [next EXCEPT ![ltail[t]] = node[t]]
    /\ chain' = Append(chain, node[t])
    /\ result' = [result EXCEPT ![t] = [kind |-> "enqueued"]]
    /\ UNCHANGED <<head, tail, value, locals, hi, ti>>
    /\ seen' = Observed

EnqLinkFail(t) ==
    /\ Goto(t, "enq_link", "enq_tail")
    /\ ~StillLast(t) \/ SpuriousFailures
    /\ EnqAgain(t)
    /\ UNCHANGED <<shared, history>>

EnqSwing(t) ==
    /\ Goto(t, "enq_swing", "return")
    /\ TailCAS(ltail[t], node[t])
    /\ node' = [node EXCEPT ![t] = NULL]
    /\ ltail' = [ltail EXCEPT ![t] = NULL]
    /\ UNCHANGED <<head, next, value, lhead, lnext, lval, result, chain, hi, seen>>

EnqHelp(t) ==
    /\ Goto(t, "enq_help", "enq_tail")
    /\ TailCAS(ltail[t], lnext[t])
    /\ EnqAgain(t)
    /\ UNCHANGED <<head, next, value, chain, hi>>

----------------------------------------------------------------------------
(* dequeue() *)

Dequeue(t) ==
    /\ Goto(t, "idle", "deq_head")
    /\ t \in Consumers
    /\ seen' = [seen EXCEPT ![t] = {EmptyNow}]
    /\ UNCHANGED <<shared, locals, result, history>>

DeqHead(t) ==
    /\ Goto(t, "deq_head", "deq_tail")
    /\ lhead' = [lhead EXCEPT ![t] = head]
    /\ UNCHANGED <<shared, node, ltail, lnext, lval, result, history, seen>>

DeqTail(t) ==
    /\ Goto(t, "deq_tail", "deq_next")
    /\ ltail' = [ltail EXCEPT ![t] = tail]
    /\ UNCHANGED <<shared, node, lhead, lnext, lval, result, history, seen>>

DeqNext(t) ==
    /\ Goto(t, "deq_next", "deq_check")
    /\ lnext' = [lnext EXCEPT ![t] = next[lhead[t]]]
    /\ UNCHANGED <<shared, node, lhead, ltail, lval, result, history, seen>>

\* An iteration of dequeue()'s loop ends and its locals go.
DeqAgain(t) ==
    /\ lhead' = [lhead EXCEPT ![t] = NULL]
    /\ ltail' = [ltail EXCEPT ![t] = NULL]
    /\ lnext' = [lnext EXCEPT ![t] = NULL]
    /\ lval' = [lval EXCEPT ![t] = NoValue]
    /\ UNCHANGED node

DeqRetry(t) ==
    /\ Goto(t, "deq_check", "deq_head")
    /\ lhead[t] # head
    /\ DeqAgain(t)
    /\ UNCHANGED <<shared, result, history, seen>>

DeqNothing(t) ==
    /\ Goto(t, "deq_check", "return")
    /\ lhead[t] = head
    /\ lnext[t] = NULL
    /\ DeqAgain(t)
    /\ result' = [result EXCEPT ![t] = [kind |-> "nothing"]]
    /\ seen' = [seen EXCEPT ![t] = {}]
    /\ UNCHANGED <<shared, history>>

\* head == tail: tail_ was the dummy.  Bug variant: the test is left out.
TailStaleUnchecked(t) == FALSE
TailStale(t) == lhead[t] = ltail[t]

DeqCheck(t) ==
    /\ Goto(t, "deq_check", IF TailStale(t) THEN "deq_help" ELSE "deq_val")
    /\ lhead[t] = head
    /\ lnext[t] # NULL
    /\ UNCHANGED <<shared, locals, result, history, seen>>

DeqHelp(t) ==
    /\ Goto(t, "deq_help", "deq_head")
    /\ TailCAS(ltail[t], lnext[t])
    /\ DeqAgain(t)
    /\ UNCHANGED <<head, next, value, result, chain, hi, seen>>

\* The value is the successor's.  Bug variant: the dummy's own.
ValueOfDummy(t) == value[lhead[t]]
ValueOfNext(t) == value[lnext[t]]

DeqVal(t) ==
    /\ Goto(t, "deq_val", "deq_cas")
    /\ lval' = [lval EXCEPT ![t] = ValueOfNext(t)]
    /\ UNCHANGED <<shared, node, lhead, ltail, lnext, result, history, seen>>

\* The dummy t read is still the dummy.  Bug variant: nobody looks.
StillDummyUnchecked(t) == TRUE
StillDummy(t) == lhead[t] = head

\* The CAS on head_ succeeds: the value has left the queue, and the caller gets
\* it.  The old dummy is the thread's to retire.
DeqCas(t) ==
    /\ Goto(t, "deq_cas", "return")
    /\ StillDummy(t)
    /\ head' = lnext[t]
    /\ hi' = hi + 1
    /\ result' = [result EXCEPT ![t] = [kind |-> "dequeued", value |-> lval[t]]]
    /\ DeqAgain(t)
    /\ UNCHANGED <<tail, next, value, chain, ti>>
    /\ seen' = [Observed EXCEPT ![t] = {}]

DeqCasFail(t) ==
    /\ Goto(t, "deq_cas", "deq_head")
    /\ ~StillDummy(t)
    /\ DeqAgain(t)
    /\ UNCHANGED <<shared, result, history, seen>>

----------------------------------------------------------------------------
(* empty() *)

Empty(t) ==
    /\ Goto(t, "idle", "emp_head")
    /\ t \in Observers
    /\ seen' = [seen EXCEPT ![t] = {EmptyNow}]
    /\ UNCHANGED <<shared, locals, result, history>>

EmpHead(t) ==
    /\ Goto(t, "emp_head", "emp_next")
    /\ lhead' = [lhead EXCEPT ![t] = head]
    /\ UNCHANGED <<shared, node, ltail, lnext, lval, result, history, seen>>

EmpNext(t) ==
    /\ Goto(t, "emp_next", "return")
    /\ result' = [result EXCEPT ![t] = [kind |-> "emptiness",
                                        answer |-> IF next[lhead[t]] = NULL
                                                   THEN "empty" ELSE "nonempty"]]
    /\ seen' = [seen EXCEPT ![t] = {}]
    /\ lhead' = [lhead EXCEPT ![t] = NULL]
    /\ UNCHANGED <<shared, node, ltail, lnext, lval, history>>

\* The operation returns to its caller.
Return(t) ==
    /\ Goto(t, "return", "idle")
    /\ result' = [result EXCEPT ![t] = NoResult]
    /\ UNCHANGED <<shared, locals, history, seen>>

----------------------------------------------------------------------------

Call(t) ==
    \/ \E v \in Values, n \in Fresh : Enqueue(t, v, n)
    \/ Dequeue(t)
    \/ Empty(t)

Step(t) ==
    \/ EnqTail(t) \/ EnqNext(t) \/ EnqRetry(t) \/ EnqCheck(t)
    \/ EnqLink(t) \/ EnqLinkFail(t) \/ EnqSwing(t) \/ EnqHelp(t)
    \/ DeqHead(t) \/ DeqTail(t) \/ DeqNext(t) \/ DeqRetry(t) \/ DeqNothing(t)
    \/ DeqCheck(t) \/ DeqHelp(t) \/ DeqVal(t) \/ DeqCas(t) \/ DeqCasFail(t)
    \/ EmpHead(t) \/ EmpNext(t)
    \/ Return(t)

Next == \E t \in Threads : Call(t) \/ Step(t)

Spec == Init /\ [][Next]_vars

\* The scheduler keeps running the live threads; the others may stop for good
\* between any two accesses.  Nobody has to start an operation.
LiveSpec == Spec /\ \A t \in Live : WF_vars(Step(t))

----------------------------------------------------------------------------
(* Properties *)

TypeOK ==
    /\ head \in Nodes
    /\ tail \in Nodes
    /\ next \in [Nodes -> Pointers]
    /\ value \in [Nodes -> Values \cup {NoValue}]
    /\ pc \in [Threads -> PCs]
    /\ node \in [Threads -> Pointers]
    /\ lhead \in [Threads -> Pointers]
    /\ ltail \in [Threads -> Pointers]
    /\ lnext \in [Threads -> Pointers]
    /\ lval \in [Threads -> Values \cup {NoValue}]
    /\ result \in [Threads -> Results]
    /\ chain \in Seq(Nodes)
    /\ hi \in 1..Len(chain)
    /\ ti \in 1..Len(chain)
    /\ seen \in [Threads -> SUBSET Emptiness]

\* The nodes form one list: following next from the first dummy visits every
\* node ever linked, in link order and each once; head_ and tail_ are on it, and
\* a node that is not linked points nowhere.
OneList ==
    /\ \A i, j \in 1..Len(chain) : chain[i] = chain[j] => i = j
    /\ \A i \in 1..(Len(chain) - 1) : next[chain[i]] = chain[i + 1]
    /\ \A n \in Nodes : (\A i \in 1..(Len(chain) - 1) : chain[i] # n) => next[n] = NULL
    /\ head = chain[hi]
    /\ tail = chain[ti]

\* tail_ lags the end of the list by at most one node, and head_ never passes
\* it: a node that dequeue() has retired is never reachable from tail_.
TailBetween ==
    /\ hi <= ti
    /\ Len(chain) <= ti + 1

\* q followed p in the list when p was at tail_'s position or before it.
Follows(p, q) == \E i \in 1..ti : i < Len(chain) /\ p = chain[i] /\ q = chain[i + 1]

EnqueueLocals(t) ==
    /\ node[t] # NULL <=> pc[t] \in EnqueuePCs
    /\ pc[t] \in EnqueuePCs \ {"enq_swing"} =>
         /\ \A i \in 1..Len(chain) : chain[i] # node[t]
         /\ value[node[t]] \in Values
    /\ pc[t] \in {"enq_next", "enq_check", "enq_link"} => \E i \in 1..ti : ltail[t] = chain[i]
    /\ pc[t] = "enq_help" \/ (pc[t] = "enq_check" /\ lnext[t] # NULL) => Follows(ltail[t], lnext[t])
    /\ pc[t] = "enq_swing" => Follows(ltail[t], node[t])

DequeueLocals(t) ==
    /\ pc[t] \in DequeuePCs \ {"deq_head"} =>
         \E i \in 1..hi :
            /\ lhead[t] = chain[i]
            /\ pc[t] # "deq_tail" => \E j \in i..ti : ltail[t] = chain[j]
            /\ \/ pc[t] \in {"deq_help", "deq_val", "deq_cas"}
               \/ pc[t] = "deq_check" /\ lnext[t] # NULL
               => i < Len(chain) /\ lnext[t] = chain[i + 1]
    /\ pc[t] = "deq_check" /\ lnext[t] = NULL => "empty" \in seen[t]
    /\ pc[t] = "deq_help" => lhead[t] = ltail[t]
    /\ pc[t] \in {"deq_val", "deq_cas"} => lhead[t] # ltail[t]
    /\ pc[t] = "deq_cas" => lval[t] = value[lnext[t]]

EmptyLocals(t) ==
    /\ pc[t] = "emp_next" =>
         \E i \in 1..hi : lhead[t] = chain[i] /\ (i < Len(chain) => "nonempty" \in seen[t])
    /\ IF pc[t] \in DequeuePCs \cup EmptyPCs THEN EmptyNow \in seen[t] ELSE seen[t] = {}

\* Whatever the other threads do between two of t's accesses, the pointers t
\* holds stay meaningful: its own node is its alone until it is linked, ltail is
\* a node tail_ has reached, lhead one that head_ has reached and no further
\* than ltail, lnext the successor it was read as, and an empty answer was true.
LocalsStayValid ==
    /\ \A t \in Threads : EnqueueLocals(t) /\ DequeueLocals(t) /\ EmptyLocals(t)
    /\ \A t, u \in Threads : node[t] = node[u] /\ node[t] # NULL => t = u
    /\ \A i \in 2..Len(chain) : value[chain[i]] \in Values

\* A next pointer is written once: the CAS that links a node never overwrites a
\* link (what makes a stale ltail harmless).
LinkedOnce == [][\A n \in Nodes : next[n] # NULL => next'[n] = next[n]]_vars

\* The queue is a linearizable FIFO queue: every step of the code is a call, an
\* effect, a return or a stutter of FifoQueue.
PendingBar ==
    [t \in Threads |->
        IF pc[t] = "idle" THEN "idle"
        ELSE IF pc[t] \in EnqueuePCs \ {"enq_swing"} THEN "enqueue"
        ELSE IF pc[t] \in DequeuePCs THEN "dequeue"
        ELSE IF pc[t] \in EmptyPCs THEN "empty"
        ELSE "done"]

ArgBar ==
    [t \in Threads |->
        IF pc[t] \in EnqueuePCs \ {"enq_swing"} THEN {value[node[t]]} ELSE {}]

Fifo == INSTANCE FifoQueue
            WITH queue <- Contents, pending <- PendingBar, arg <- ArgBar

Linearizable == Fifo!Spec

\* Lock freedom, on a bounded supply of nodes: an operation can be made to retry
\* only by another operation's success, so when the nodes run out every
\* operation a live thread is in returns, wherever the other threads stopped.
OperationsReturn == \A t \in Live : pc[t] # "idle" ~> pc[t] = "idle"

=============================================================================
