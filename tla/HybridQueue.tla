----------------------------- MODULE HybridQueue -----------------------------
(* lfq::HybridQueue (lockfree_queue_hybrid.hpp): the Michael-Scott queue of   *)
(* MSQueue under epochs, with hazard pointers for when the epoch stalls.  Its *)
(* registry, pins, buckets and flips are those of EBR, its copy of the hazard *)
(* pointers is HazardPointers; what try_reclaim() does when it has failed     *)
(* StallLimit times, and how a HybridGuard uses both, is here.                *)
(*                                                                            *)
(* A slot of the pool is there for every thread: what follows a failed        *)
(* registration is not modelled.  present is a history variable.              *)
EXTENDS MSQueue, FiniteSets

CONSTANTS
    PoolSize, Batch, MaxEpoch,      \* see EBR
    SlotCount, ScanAt, Reserved,    \* see HazardPointers
    Blanks,                         \* the null pointers that are retired to start a scan
    StallLimit,                     \* STALL_LIMIT
    Exiters                         \* the threads that may exit

ASSUME HybridSizeAssumption ==
    /\ PoolSize \in Nat \ {0} /\ PoolSize >= Cardinality(Threads)
    /\ Batch \in Nat \ {0} /\ MaxEpoch \in Nat
    /\ StallLimit \in Nat \ {0} /\ SlotCount \in Nat \ {0} /\ ScanAt \in Nat \ {0}
ASSUME HybridNameAssumption ==
    /\ Blanks \cap Nodes = {} /\ Reserved \notin Nodes \cup Blanks \cup {NULL}
    /\ NULL \notin Threads \cup Blanks /\ Exiters \subseteq Threads

VARIABLES
    epoch, owner, ctl, slot, gone, local, bag,          \* see EBR
    at, op, index, cur, found, item, blockers,
    hazard, mine, guards, retired, left,                \* see HazardPointers: left is its gone,
    hp_at, hp_index, ptr, snapshot,                     \* hp_at and hp_index its at and index
    freed,      \* the nodes deleted, by either, and the null pointers
    mode,       \* mode[t]: is t's ThreadCtl FAST or SLOW?
    stuck,      \* stuck[t]: its stuck_cnt
    stall,      \* stall[t]: what t's try_reclaim() does about a stall
    at_slot,    \* at_slot[t]: the slot that it has come to
    old,        \* old[t]: the epoch that it has found
    guard,      \* guard[t]: how far t's HybridGuard has come
    use_hp,     \* the threads whose HybridGuard uses its hp::Guard
    retiring,   \* retiring[t]: the dummy that t has unlinked and not retired, at most one
    present     \* present[t]: who was registered, and not exiting, when t began to switch modes,
                \* and has not begun to exit since

Ebr == INSTANCE EBR WITH Objects <- Nodes
Hp == INSTANCE HazardPointers WITH
          Objects <- Nodes \cup Blanks, gone <- left, at <- hp_at, index <- hp_index

epochs == <<epoch, owner, ctl, slot, gone, local, bag, at, op, index, cur, found, item, blockers>>
hazards == <<hazard, mine, guards, retired, left, hp_at, hp_index, ptr, snapshot>>
control == <<mode, stuck, stall, at_slot, old, present>>
glue == <<guard, use_hp, retiring>>
queueVars == <<vars, epochs, hazards, freed, control, glue>>

QueueInit ==
    /\ Init
    /\ Ebr!EbrInit
    /\ Hp!HpInit
    /\ mode = [t \in Threads |-> "FAST"]
    /\ stuck = [t \in Threads |-> 0]
    /\ stall = [t \in Threads |-> "none"]
    /\ at_slot = [t \in Threads |-> 0]
    /\ old = [t \in Threads |-> 0]
    /\ guard = [t \in Threads |-> "none"]
    /\ use_hp = {}
    /\ retiring = [t \in Threads |-> {}]
    /\ present = [t \in Threads |-> {}]

\* t is in none of the operations of the reclamation.
Free(t) == at[t] = "idle" /\ hp_at[t] = "idle" /\ stall[t] = "none"

----------------------------------------------------------------------------
(* HybridGuard: an iteration of an operation's loop, or empty() *)

LoopStarts == {"enq_tail", "deq_head", "emp_head"}

Advance(t, from, to) == guard[t] = from /\ guard' = [guard EXCEPT ![t] = to]

\* The member hp_ is made first ...
MakeHpGuard(t) ==
    /\ pc[t] \in LoopStarts
    /\ Free(t)
    /\ Advance(t, "none", "hp")
    /\ Hp!GuardOnOwnSlot(t) \/ Hp!GuardNeedsSlot(t)
    /\ UNCHANGED <<vars, epochs, freed, control, use_hp, retiring>>

\* ... then the thread registers and pins ...
Pin(t) ==
    /\ Free(t)
    /\ Advance(t, "hp", "pin")
    /\ Ebr!Guard(t)
    /\ UNCHANGED <<vars, hazards, control, use_hp, retiring>>

\* ... and protects head_ too if it is SLOW.
ReadMode(t) ==
    /\ Free(t)
    /\ Advance(t, "pin", IF mode[t] = "SLOW" THEN "protect" ELSE "held")
    /\ UNCHANGED <<vars, epochs, hazards, freed, control, use_hp, retiring>>

Protect(t) ==
    /\ guard[t] = "protect"
    /\ \/ Hp!ProtectLoad(t, head) /\ UNCHANGED <<guard, use_hp>>
       \/ Hp!ProtectStore(t, 1) /\ UNCHANGED <<guard, use_hp>>
       \/ Hp!ProtectRetries(t, head) /\ UNCHANGED <<guard, use_hp>>
       \/ Hp!ProtectReturns(t, head) /\ Advance(t, "protect", "held") /\ use_hp' = use_hp \cup {t}
    /\ UNCHANGED <<vars, epochs, freed, control, retiring>>

\* ~HybridGuard
ClearHazard(t) ==
    /\ guard[t] = "over" /\ Free(t) /\ retiring[t] = {}
    /\ t \in use_hp
    /\ Hp!Clear(t, 1)
    /\ use_hp' = use_hp \ {t}
    /\ UNCHANGED <<vars, epochs, freed, control, guard, retiring>>

Unpin(t) ==
    /\ Free(t) /\ retiring[t] = {}
    /\ t \notin use_hp
    /\ Advance(t, "over", "unpinned")
    /\ Ebr!Leave(t)
    /\ UNCHANGED <<vars, hazards, control, use_hp, retiring>>

EndHpGuard(t) ==
    /\ Advance(t, "unpinned", "none")
    /\ Hp!EndGuard(t)
    /\ UNCHANGED <<vars, epochs, freed, control, use_hp, retiring>>

----------------------------------------------------------------------------
(* The operations of the queue *)

QueueCall(t) ==
    /\ Free(t)
    /\ t \notin gone
    /\ Call(t)
    /\ UNCHANGED <<epochs, hazards, freed, control, glue>>

\* An access to the queue; where the iteration is over, the HybridGuard goes.
Iterate(t) ==
    /\ Free(t)
    /\ guard[t] = "held"
    /\ Step(t)
    /\ guard' = [guard EXCEPT ![t] = IF pc'[t] \in {"enq_tail", "deq_head", "return"}
                                     THEN "over" ELSE "held"]
    /\ retiring' = [retiring EXCEPT ![t] = IF hi' # hi THEN {lhead[t]} ELSE {}]
    /\ UNCHANGED <<epochs, hazards, freed, control, use_hp>>

\* detail::retire(head)
RetireDummy(t) ==
    /\ Free(t)
    /\ \E o \in retiring[t] : Ebr!Retire(t, o)
    /\ retiring' = [retiring EXCEPT ![t] = {}]
    /\ UNCHANGED <<vars, hazards, control, guard, use_hp>>

QueueReturn(t) ==
    /\ guard[t] = "none"
    /\ Return(t)
    /\ UNCHANGED <<epochs, hazards, freed, control, glue>>

ThreadExit(t) ==
    /\ t \in Exiters
    /\ pc[t] = "idle"
    /\ Ebr!Exit(t) /\ Hp!Exit(t)
    /\ present' = [u \in Threads |-> present[u] \ {t}]
    /\ UNCHANGED <<vars, mode, stuck, stall, at_slot, old, glue>>

----------------------------------------------------------------------------
(* try_reclaim(): the scan and the flip are those of EBR's try_flip() *)

\* The steps inside EBR that leave try_reclaim() to it: all but those that find
\* that the epoch cannot be ended.
Registers(t) == Ebr!Claim(t) \/ Ebr!Publish(t) \/ Ebr!ClaimFail(t)
Pins(t) == Ebr!PinLoad(t) \/ Ebr!PinStore(t)
Retires(t) == Ebr!RetireLoad(t) \/ Ebr!RetirePush(t)
Scans(t) == Ebr!FlipLoad(t) \/ Ebr!ScanCtl(t) \/ Ebr!ScanSkip(t) \/ Ebr!ScanPasses(t)
Flips(t) ==
    /\ \/ Ebr!Flip(t) \/ Ebr!ReclaimCtl(t) \/ Ebr!ReclaimSkip(t)
       \/ Ebr!ReclaimFree(t) \/ Ebr!ReclaimClear(t)
    /\ stuck' = [stuck EXCEPT ![t] = IF at'[t] = "idle" THEN 0 ELSE @]
Exits(t) == Ebr!ExitCtl(t) \/ Ebr!ExitOwner(t) \/ Ebr!ExitDelete(t)

InsideEpochs(t) ==
    /\ \/ (Registers(t) \/ Pins(t) \/ Retires(t) \/ Scans(t) \/ Exits(t)) /\ UNCHANGED stuck
       \/ Flips(t)
    /\ UNCHANGED <<vars, hazards, mode, stall, at_slot, old, present, glue>>

InsideHazards(t) == Hp!HpStep(t) /\ UNCHANGED <<vars, epochs, control, glue>>

\* Is this the failure at which something is done?
AtLimit(t) == stuck[t] + 1 >= StallLimit

\* The epoch cannot be ended, or another thread has ended it; the failed CAS
\* loads it again.  The StallLimit-th time in a row t does something about it.
Stalls(t) ==
    /\ \/ Ebr!ScanPinned(t) /\ old' = [old EXCEPT ![t] = IF AtLimit(t) THEN cur[t] ELSE 0]
       \/ Ebr!FlipFail(t) /\ old' = [old EXCEPT ![t] = IF AtLimit(t) THEN epoch ELSE 0]
    /\ stuck' = [stuck EXCEPT ![t] = @ + 1]
    /\ IF AtLimit(t)
       THEN /\ stall' = [stall EXCEPT ![t] = "switch"]
            /\ at_slot' = [at_slot EXCEPT ![t] = 1]
            /\ present' = [present EXCEPT ![t] = {u \in Threads :
                               at[u] # "exit_ctl" /\ \E s \in Ebr!Slots : ctl[s] = u}]
       ELSE UNCHANGED <<stall, at_slot, present>>
    /\ UNCHANGED <<vars, hazards, mode, glue>>

\* Is it the last slot?  Bug variants: one too early, one too late.
LastButOne(s) == s + 1 >= PoolSize
PastLast(s) == s > PoolSize
LastOne(s) == s = PoolSize

\* The loop of this stage goes on to the next slot, or the next stage follows.
NextSlot(t, stage, next_stage) ==
    /\ stall' = [stall EXCEPT ![t] = IF LastOne(at_slot[t]) THEN next_stage ELSE stage]
    /\ at_slot' = [at_slot EXCEPT ![t] = IF LastOne(at_slot[t]) THEN 1 ELSE @ + 1]

\* The ThreadCtl in the slot that t has come to, if any: a set.
ThisCtl(t) == {ctl[at_slot[t]]} \ {NULL}

SwitchMode(t) ==
    /\ stall[t] = "switch"
    /\ NextSlot(t, "switch", "move")
    /\ mode' = [u \in Threads |-> IF u \in ThisCtl(t) THEN "SLOW" ELSE mode[u]]
    /\ UNCHANGED <<vars, epochs, hazards, freed, stuck, old, present, glue>>

\* The bucket that is moved.  Bug variant: that of the epoch that has stalled.
IdxStalled(t) == Ebr!Bucket(old[t])
IdxOld(t) == Ebr!Bucket(old[t] + 1)

\* hp::retire() of one object of the bucket after the other, with the scans that
\* this starts; then the bucket is cleared.
MoveBucket(t) ==
    /\ stall[t] = "move"
    /\ hp_at[t] = "idle"
    /\ \E o \in UNION {bag[u][IdxOld(t)] : u \in ThisCtl(t)} \cup {NULL} :
          IF \E u \in ThisCtl(t) : bag[u][IdxOld(t)] \ retired[t] # {}
          THEN o \notin retired[t] \cup {NULL} /\ Hp!Retire(t, o) /\ UNCHANGED <<bag, stall, at_slot>>
          ELSE /\ o = NULL
               /\ NextSlot(t, "move", "trigger")
               /\ bag' = [u \in Threads |-> [b \in Ebr!Buckets |->
                             IF u \in ThisCtl(t) /\ b = IdxOld(t) THEN {} ELSE bag[u][b]]]
               /\ UNCHANGED <<hazards, freed>>
    /\ UNCHANGED <<vars, epoch, owner, ctl, slot, gone, local, at, op, index, cur, found, item,
                   blockers, mode, stuck, old, present, glue>>

\* hp::retire(nullptr, ...)
TriggerScan(t) ==
    /\ stall[t] = "trigger"
    /\ \E o \in Blanks \ retired[t] : Hp!Retire(t, o)
    /\ stall' = [stall EXCEPT ![t] = "none"]
    /\ at_slot' = [at_slot EXCEPT ![t] = 0]
    /\ old' = [old EXCEPT ![t] = 0]
    /\ stuck' = [stuck EXCEPT ![t] = 0]
    /\ present' = [present EXCEPT ![t] = {}]
    /\ UNCHANGED <<vars, epochs, freed, mode, glue>>

----------------------------------------------------------------------------

QueueNext ==
    \E t \in Threads :
        \/ QueueCall(t) \/ MakeHpGuard(t) \/ Pin(t) \/ ReadMode(t) \/ Protect(t)
        \/ Iterate(t) \/ RetireDummy(t)
        \/ ClearHazard(t) \/ Unpin(t) \/ EndHpGuard(t) \/ QueueReturn(t) \/ ThreadExit(t)
        \/ InsideEpochs(t) \/ InsideHazards(t)
        \/ Stalls(t) \/ SwitchMode(t) \/ MoveBucket(t) \/ TriggerScan(t)

QueueSpec == QueueInit /\ [][QueueNext]_queueVars

----------------------------------------------------------------------------
(* Properties *)

HybridTypeOK ==
    /\ mode \in [Threads -> {"FAST", "SLOW"}]
    /\ stuck \in [Threads -> 0..StallLimit]
    /\ stall \in [Threads -> {"none", "switch", "move", "trigger"}]
    /\ at_slot \in [Threads -> 0..PoolSize]
    /\ old \in [Threads -> 0..MaxEpoch]
    /\ guard \in [Threads -> {"none", "hp", "pin", "protect", "held", "over", "unpinned"}]
    /\ use_hp \subseteq {t \in Threads : mode[t] = "SLOW" /\ guards[t] # <<>>}
    /\ retiring \in [Threads -> SUBSET Nodes]
    /\ freed \subseteq Nodes \cup Blanks
    /\ retired \in [Threads -> SUBSET (Nodes \cup Blanks)]

\* Because dequeue() retires inside its own HybridGuard, no try_reclaim() ever
\* ends an epoch, and the bucket that a stall hands to the hazard pointers is an
\* empty one: even when every thread is SLOW, no node reaches an hp list, and
\* none is freed until a thread exits.
NothingReclaimed ==
    /\ epoch = 0
    /\ \A t \in Threads : retired[t] \subseteq Blanks
    /\ gone = {} => freed \subseteq Blanks

\* When a thread goes on to move the buckets, every thread that was registered
\* when it began to switch modes is SLOW.  (One that registers meanwhile is not.)
SwitchReachesAll ==
    \A t \in Threads :
        stall[t] \in {"move", "trigger"} => \A u \in present[t] : mode[u] = "SLOW"

\* Each dummy is retired once, by the thread whose CAS on head_ unlinked it, is in
\* one bucket until it is freed, and is behind head_.
Retirers(n) == {t \in Threads : n \in retiring[t] \/ item[t] = n}
BucketsOf(n) == {p \in Threads \X Ebr!Buckets : n \in bag[p[1]][p[2]]}
RetiredOnce ==
    \A n \in Nodes :
        /\ Cardinality(Retirers(n)) + Cardinality(BucketsOf(n)) <= 1
        /\ Retirers(n) # {} => n \notin freed
        /\ Retirers(n) # {} \/ BucketsOf(n) # {} \/ n \in freed =>
             \E i \in 1..(hi - 1) : chain[i] = n

=============================================================================
