------------------------------- MODULE HPQueue -------------------------------
(* lfq::HPQueue (lockfree_queue_hp.hpp:215-345): the loops are MSQueue's, and *)
(* the loads of head_, tail_ and head->next go through protect().             *)
EXTENDS MSQueue, FiniteSets

CONSTANTS
    SlotCount, ScanAt, Reserved,    \* see HazardPointers
    Exiters                         \* the threads that may exit

ASSUME HPAssumption ==
    /\ SlotCount \in Nat \ {0} /\ ScanAt \in Nat \ {0}
    /\ Reserved \notin Nodes /\ Reserved # NULL
    /\ Exiters \subseteq Threads

VARIABLES
    hazard, mine, guards, retired, freed, gone, at, index, ptr, snapshot,   \* see HazardPointers
    old,        \* old[t]: the dummy that t has unlinked and not retired, at most one
    duty        \* duty[t]: what t's dequeue() does next with it

Hp == INSTANCE HazardPointers WITH Objects <- Nodes

library == <<hazard, mine, guards, retired, freed, gone, at, index, ptr, snapshot>>
glue == <<old, duty>>
queueVars == <<vars, library, glue>>

Duties == {"none", "clear", "retire"}

QueueInit ==
    /\ Init
    /\ Hp!HpInit
    /\ old = [t \in Threads |-> {}]
    /\ duty = [t \in Threads |-> "none"]

\* enqueue() and empty() have one Guard for the whole call, dequeue() two.
GuardsWanted(t) == IF pc[t] \in DequeuePCs THEN 2 ELSE 1
Guarded(t) == Len(guards[t]) = GuardsWanted(t)

\* What protect() is called for, with which Guard, and the step of the queue that
\* its last load is.
Protects == {"enq_tail", "deq_head", "deq_next", "emp_head"}
Source(t) ==
    CASE pc[t] = "enq_tail" -> tail
      [] pc[t] = "deq_next" -> next[lhead[t]]
      [] OTHER -> head
GuardUsed(t) == IF pc[t] = "deq_next" THEN 2 ELSE 1
ReadProtected(t) == EnqTail(t) \/ DeqHead(t) \/ DeqNext(t) \/ EmpHead(t)

----------------------------------------------------------------------------

QueueCall(t) ==
    /\ at[t] = "idle"
    /\ t \notin gone
    /\ Call(t)
    /\ UNCHANGED <<library, glue>>

MakeGuard(t) ==
    /\ pc[t] \in Protects
    /\ ~Guarded(t)
    /\ Hp!GuardOnOwnSlot(t) \/ Hp!GuardNeedsSlot(t)
    /\ UNCHANGED <<vars, glue>>

Protect(t) ==
    /\ pc[t] \in Protects
    /\ Guarded(t)
    /\ \/ Hp!ProtectLoad(t, Source(t))
       \/ Hp!ProtectStore(t, GuardUsed(t))
       \/ Hp!ProtectRetries(t, Source(t))
    /\ UNCHANGED <<vars, glue>>

ProtectReturns(t) ==
    /\ pc[t] \in Protects
    /\ Hp!ProtectReturns(t, Source(t))
    /\ ReadProtected(t)
    /\ UNCHANGED glue

\* Any other access.  The CAS on head_ leaves the old dummy to be retired.
Iterate(t) ==
    /\ at[t] = "idle"
    /\ pc[t] \notin Protects \cup {"return"}
    /\ Step(t)
    /\ IF hi' = hi
       THEN UNCHANGED glue
       ELSE /\ old' = [old EXCEPT ![t] = {lhead[t]}]
            /\ duty' = [duty EXCEPT ![t] = "clear"]
    /\ UNCHANGED library

\* head_guard.clear()
ClearHeadGuard(t) ==
    /\ duty[t] = "clear"
    /\ Hp!Clear(t, 1)
    /\ duty' = [duty EXCEPT ![t] = "retire"]
    /\ UNCHANGED <<vars, old>>

\* hp::retire(head)
RetireDummy(t) ==
    /\ duty[t] = "retire"
    /\ \E n \in old[t] : Hp!Retire(t, n)
    /\ old' = [old EXCEPT ![t] = {}]
    /\ duty' = [duty EXCEPT ![t] = "none"]
    /\ UNCHANGED vars

\* The Guards of an operation end in the reverse order.
EndGuard(t) ==
    /\ pc[t] = "return"
    /\ duty[t] = "none"
    /\ Hp!EndGuard(t)
    /\ UNCHANGED <<vars, glue>>

QueueReturn(t) ==
    /\ guards[t] = <<>>
    /\ Return(t)
    /\ UNCHANGED <<library, glue>>

ThreadExit(t) ==
    /\ t \in Exiters
    /\ pc[t] = "idle"
    /\ Hp!Exit(t)
    /\ UNCHANGED <<vars, glue>>

Inside(t) == Hp!HpStep(t) /\ UNCHANGED <<vars, glue>>

QueueNext ==
    \E t \in Threads :
        \/ QueueCall(t) \/ MakeGuard(t) \/ Protect(t) \/ ProtectReturns(t)
        \/ Iterate(t) \/ ClearHeadGuard(t) \/ RetireDummy(t) \/ EndGuard(t)
        \/ QueueReturn(t) \/ ThreadExit(t) \/ Inside(t)

QueueSpec == QueueInit /\ [][QueueNext]_queueVars

----------------------------------------------------------------------------
(* Properties *)

\* The node whose fields t's next access reads or writes.
Accessed(t) ==
    IF pc[t] \in {"enq_next", "enq_link"} THEN {ltail[t]}
    ELSE IF pc[t] = "emp_next" \/ (pc[t] = "deq_next" /\ at[t] # "store") THEN {lhead[t]}
    ELSE IF pc[t] = "deq_val" THEN {lnext[t]}
    ELSE {}

\* "Hazard pointer reclamation prevents ABA and use-after-free"
\* (lockfree_queue_hp.hpp:11)
NoUseAfterFree ==
    /\ \A t \in Threads : Accessed(t) \cap freed = {}
    /\ {head, tail} \cap freed = {}

\* No two threads use the same hazard slot.  The code does not see to this: a
\* slot that its thread has cleared looks unused to acquire_slot().
OwnSlots ==
    \A t, u \in Threads, s \in Hp!Slots :
        /\ \E k \in DOMAIN mine[t] : mine[t][k] = s
        /\ \E k \in DOMAIN mine[u] : mine[u][k] = s
        => t = u

\* As long as no slot is shared between threads the protocol of protect() and
\* scan() protects what is read.  (The slots of a thread that has exited can not be
\* told any more, and with them what its sharing has done.)
OwnSlotProtects == OwnSlots /\ gone \cap Consumers = {} => NoUseAfterFree

\* Each node is retired once, is in one retired list, and is deleted once and
\* only after head_ has passed it.
Holders(n) == {t \in Threads : n \in old[t] \cup retired[t]}
FreedOnce ==
    \A n \in Nodes :
        /\ Cardinality(Holders(n)) + Cardinality({n} \cap freed) <= 1
        /\ Holders(n) # {} \/ n \in freed => \E i \in 1..(hi - 1) : chain[i] = n

\* A retired list is never longer than R, or than what all the slots together
\* can protect and one more.
LongestList == IF ScanAt > SlotCount THEN ScanAt ELSE SlotCount + 1
RetiredBounded == \A t \in Threads : Cardinality(retired[t]) <= LongestList

\* The destructor of a retired list deletes nothing (lockfree_queue_hp.hpp:83): what
\* a thread still has in its list when it exits is leaked, at most what a list holds
\* between two operations.  No other unlinked dummy is forgotten, whatever the scans
\* of the others find in the slots: as long as nobody has exited, none is.
Forgotten ==
    {n \in {chain[i] : i \in 1..(hi - 1)} : Holders(n) = {} /\ n \notin freed}
LostOnlyByExit == Cardinality(Forgotten) <= Cardinality(gone) * (LongestList - 1)

=============================================================================
