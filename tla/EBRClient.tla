------------------------------ MODULE EBRClient ------------------------------
(* Threads that share objects under the protection of lfq::ebr, in the way    *)
(* the queue and the tests use it: a reference is taken inside a Guard and    *)
(* used until the Guard ends; an object is unlinked, so that nobody finds it  *)
(* any more, before the thread that unlinked it retires it.                   *)
EXTENDS EBR

CONSTANTS
    Outside,    \* the threads that leave the Guard before they retire
    Forcers,    \* the threads that call force_epoch_advance()
    Exiters     \* the threads that may exit

VARIABLES
    linked,     \* the objects that a thread can find in shared memory
    refs,       \* refs[t]: the objects that t, inside its Guard, may still access
    unlinked    \* unlinked[t]: the objects that t must still retire, at most one

clientVars == <<linked, refs, unlinked>>
vars == <<ebrVars, clientVars>>

Init ==
    /\ EbrInit
    /\ linked = Objects
    /\ refs = [t \in Threads |-> {}]
    /\ unlinked = [t \in Threads |-> {}]

EnterGuard(t) ==
    /\ Guard(t)
    /\ unlinked[t] = {}
    /\ UNCHANGED clientVars

Find(t, o) ==
    /\ at[t] = "idle"
    /\ local[t] # {}
    /\ o \in linked
    /\ refs' = [refs EXCEPT ![t] = refs[t] \cup {o}]
    /\ UNCHANGED <<ebrVars, linked, unlinked>>

Unlink(t, o) ==
    /\ at[t] = "idle"
    /\ o \in refs[t] \cap linked
    /\ unlinked[t] = {}
    /\ linked' = linked \ {o}
    /\ refs' = [refs EXCEPT ![t] = refs[t] \ {o}]
    /\ unlinked' = [unlinked EXCEPT ![t] = {o}]
    /\ UNCHANGED ebrVars

RetireUnlinked(t) ==
    /\ \E o \in unlinked[t] : Retire(t, o)
    /\ (local[t] = {}) = (t \in Outside)
    /\ unlinked' = [unlinked EXCEPT ![t] = {}]
    /\ UNCHANGED <<linked, refs>>

LeaveGuard(t) ==
    /\ Leave(t)
    /\ unlinked[t] = {} \/ t \in Outside
    /\ refs' = [refs EXCEPT ![t] = {}]
    /\ UNCHANGED <<linked, unlinked>>

ForceCleanup(t) ==
    /\ t \in Forcers
    /\ local[t] = {}
    /\ ForceEpochAdvance(t)
    /\ UNCHANGED clientVars

ExitThread(t) ==
    /\ t \in Exiters
    /\ unlinked[t] = {}
    /\ Exit(t)
    /\ UNCHANGED clientVars

Inside(t) == EbrStep(t) /\ UNCHANGED clientVars

Next ==
    \E t \in Threads :
        \/ EnterGuard(t) \/ LeaveGuard(t)
        \/ \E o \in Objects : Find(t, o) \/ Unlink(t, o)
        \/ RetireUnlinked(t) \/ ForceCleanup(t) \/ ExitThread(t)
        \/ Inside(t)

Spec == Init /\ [][Next]_vars

\* "a node is freed only after two complete grace periods (GP1+GP2), therefore
\* no live pointer can still reference its address" (lockfree_queue_ebr.hpp:56-57)
NoLivePointerFreed == \A t \in Threads : refs[t] \cap freed = {}

=============================================================================
