---------------------------- MODULE HazardPointers ----------------------------
(* The hazard pointer library lfq::hp (lockfree_queue_hp.hpp:63-189), one     *)
(* action per access of the table of slots.  A client makes Guards, protects  *)
(* pointers with them and retires objects; what it reads in protect() is a    *)
(* parameter here.                                                            *)
EXTENDS Naturals, Sequences, FiniteSets

CONSTANTS
    Threads,    \* the threads that may ever use the library
    SlotCount,  \* the size of g_slots, at least 1
    ScanAt,     \* R: the length of a retired list that starts a scan, at least 1
    Objects,    \* what clients protect and retire
    NULL,       \* the null pointer: the slot is unused
    Reserved    \* (void*)1: the slot is taken and protects nothing

Slots == 1..SlotCount
HazardsPerThread == 2

VARIABLES
    hazard,     \* hazard[s]: g_slots[s].ptr
    mine,       \* mine[t]: tls.hazard_slots of t, 0 where it has none
    guards,     \* guards[t]: the slots of t's live Guards, oldest first
    retired,    \* retired[t]: the objects in tls.retired_list of t
    freed,      \* the objects whose deleter has run
    gone,       \* the threads that have exited
    at,         \* at[t]: where t is in an operation of the library
    index,      \* index[t]: the slot that a loop of t has come to
    ptr,        \* ptr[t]: what protect() has loaded, a set of at most one
    snapshot    \* snapshot[t]: the hazards that t's scan has seen

hpVars == <<hazard, mine, guards, retired, freed, gone, at, index, ptr, snapshot>>

Places == {"idle", "acquire", "store", "check", "scan", "exhausted"}
Pointers == Objects \cup {NULL}

HpInit ==
    /\ hazard = [s \in Slots |-> NULL]
    /\ mine = [t \in Threads |-> [k \in 1..HazardsPerThread |-> 0]]
    /\ guards = [t \in Threads |-> <<>>]
    /\ retired = [t \in Threads |-> {}]
    /\ freed = {}
    /\ gone = {}
    /\ at = [t \in Threads |-> "idle"]
    /\ index = [t \in Threads |-> 0]
    /\ ptr = [t \in Threads |-> {}]
    /\ snapshot = [t \in Threads |-> {}]

Jump(t, from, to) ==
    /\ at[t] = from
    /\ at' = [at EXCEPT ![t] = to]

LastSlot(t) == index[t] = SlotCount
NextIndex(t) == [index EXCEPT ![t] = IF LastSlot(t) THEN 0 ELSE index[t] + 1]

----------------------------------------------------------------------------
(* Guard *)

\* The entry of hazard_slots that a new Guard uses: the first that is set, else
\* the first.
Choice(t) ==
    IF \A k \in 1..HazardsPerThread : mine[t][k] = 0
    THEN 1
    ELSE CHOOSE k \in 1..HazardsPerThread :
            mine[t][k] # 0 /\ \A j \in 1..(k - 1) : mine[t][j] = 0

GuardOnOwnSlot(t) ==
    /\ Jump(t, "idle", "idle")
    /\ t \notin gone
    /\ mine[t][Choice(t)] # 0
    /\ guards' = [guards EXCEPT ![t] = Append(guards[t], mine[t][Choice(t)])]
    /\ UNCHANGED <<hazard, mine, retired, freed, gone, index, ptr, snapshot>>

GuardNeedsSlot(t) ==
    /\ Jump(t, "idle", "acquire")
    /\ t \notin gone
    /\ mine[t][Choice(t)] = 0
    /\ index' = [index EXCEPT ![t] = 1]
    /\ UNCHANGED <<hazard, mine, guards, retired, freed, gone, ptr, snapshot>>

\* The CAS of acquire_slot() succeeds: the slot held a null pointer.
Acquire(t) ==
    /\ Jump(t, "acquire", "idle")
    /\ hazard[index[t]] = NULL
    /\ hazard' = [hazard EXCEPT ![index[t]] = Reserved]
    /\ mine' = [mine EXCEPT ![t][Choice(t)] = index[t]]
    /\ guards' = [guards EXCEPT ![t] = Append(guards[t], index[t])]
    /\ index' = [index EXCEPT ![t] = 0]
    /\ UNCHANGED <<retired, freed, gone, ptr, snapshot>>

\* It fails: the next slot.  After the last one acquire_slot() throws.
AcquireFail(t) ==
    /\ Jump(t, "acquire", IF LastSlot(t) THEN "exhausted" ELSE "acquire")
    /\ hazard[index[t]] # NULL
    /\ index' = NextIndex(t)
    /\ UNCHANGED <<hazard, mine, guards, retired, freed, gone, ptr, snapshot>>

\* protect(): the source is loaded, stored in the slot of Guard g ...
ProtectLoad(t, p) ==
    /\ Jump(t, "idle", "store")
    /\ ptr' = [ptr EXCEPT ![t] = {p}]
    /\ UNCHANGED <<hazard, mine, guards, retired, freed, gone, index, snapshot>>

ProtectStore(t, g) ==
    /\ Jump(t, "store", "check")
    /\ \E p \in ptr[t] : hazard' = [hazard EXCEPT ![guards[t][g]] = p]
    /\ UNCHANGED <<mine, guards, retired, freed, gone, index, ptr, snapshot>>

\* ... and loaded again: protect() returns or starts over.  Bug variant: the
\* pointer is not validated.
Unvalidated(t, p) == TRUE
Stable(t, p) == ptr[t] = {p}

ProtectEnds(t) ==
    /\ Jump(t, "check", "idle")
    /\ ptr' = [ptr EXCEPT ![t] = {}]
    /\ UNCHANGED <<hazard, mine, guards, retired, freed, gone, index, snapshot>>

ProtectReturns(t, p) == ProtectEnds(t) /\ Stable(t, p)
ProtectRetries(t, p) == ProtectEnds(t) /\ ~Stable(t, p)

Clear(t, g) ==
    /\ Jump(t, "idle", "idle")
    /\ hazard' = [hazard EXCEPT ![guards[t][g]] = NULL]
    /\ UNCHANGED <<mine, guards, retired, freed, gone, index, ptr, snapshot>>

\* ~Guard of the Guard made last
EndGuard(t) ==
    /\ guards[t] # <<>>
    /\ Jump(t, "idle", "idle")
    /\ hazard' = [hazard EXCEPT ![guards[t][Len(guards[t])]] = NULL]
    /\ guards' = [guards EXCEPT ![t] = SubSeq(guards[t], 1, Len(guards[t]) - 1)]
    /\ UNCHANGED <<mine, retired, freed, gone, index, ptr, snapshot>>

----------------------------------------------------------------------------
(* retire() and scan() *)

Retire(t, o) ==
    LET list == retired[t] \cup {o}
        full == Cardinality(list) >= ScanAt
    IN  /\ Jump(t, "idle", IF full THEN "scan" ELSE "idle")
        /\ retired' = [retired EXCEPT ![t] = list]
        /\ index' = [index EXCEPT ![t] = IF full THEN 1 ELSE 0]
        /\ UNCHANGED <<hazard, mine, guards, freed, gone, ptr, snapshot>>

\* What a scan keeps of the retired list.  Bug variants: all of it is kept, or the
\* list is emptied with the deleted objects.
KeptAll(t, seen) == retired[t]
KeptNone(t, seen) == {}
Kept(t, seen) == retired[t] \cap seen

\* One slot is read; after the last one the objects that no slot holds are
\* deleted.
ScanLoad(t) ==
    LET seen == snapshot[t] \cup ({hazard[index[t]]} \cap Objects)
    IN  /\ Jump(t, "scan", IF LastSlot(t) THEN "idle" ELSE "scan")
        /\ index' = NextIndex(t)
        /\ IF LastSlot(t)
           THEN /\ freed' = freed \cup (retired[t] \ seen)
                /\ retired' = [retired EXCEPT ![t] = Kept(t, seen)]
                /\ snapshot' = [snapshot EXCEPT ![t] = {}]
           ELSE /\ snapshot' = [snapshot EXCEPT ![t] = seen]
                /\ UNCHANGED <<freed, retired>>
        /\ UNCHANGED <<hazard, mine, guards, gone, ptr>>

----------------------------------------------------------------------------

\* The thread exits: its list is destroyed with the objects still in it, which
\* nobody will delete, and its slots stay as its last Guards left them.
Exit(t) ==
    /\ Jump(t, "idle", "idle")
    /\ t \notin gone
    /\ guards[t] = <<>>
    /\ gone' = gone \cup {t}
    /\ retired' = [retired EXCEPT ![t] = {}]
    /\ mine' = [mine EXCEPT ![t] = [k \in 1..HazardsPerThread |-> 0]]
    /\ UNCHANGED <<hazard, guards, freed, index, ptr, snapshot>>

\* A step of a thread that is inside the library.
HpStep(t) == Acquire(t) \/ AcquireFail(t) \/ ScanLoad(t)

=============================================================================
