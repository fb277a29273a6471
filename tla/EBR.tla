--------------------------------- MODULE EBR ---------------------------------
(* The epoch-based reclamation library lfq::ebr                               *)
(* (lockfree_queue_ebr.hpp:84-318), one action per access of shared memory.   *)
(* A client calls the operations of a thread whose at[t] is "idle"; the steps *)
(* of a call are this module's, when calls are made is the client's matter.   *)
(*                                                                            *)
(* A thread's ThreadCtl is identified with the thread.  What a thread does    *)
(* with a deleted ThreadCtl is undefined; here it reads any local_epoch and   *)
(* finds empty buckets, which is what ~ThreadCtl leaves behind.               *)
(*                                                                            *)
(* blockers is a history variable: no guard reads it.                         *)
EXTENDS Naturals, FiniteSets

CONSTANTS
    Threads,        \* the threads that may ever use the library
    PoolSize,       \* kThreadPoolSize
    Batch,          \* kBatchRetired
    MaxEpoch,       \* where the epoch stops (the code's wraps at 2^32)
    Objects,        \* what clients retire
    NULL            \* the null pointer, the empty std::thread::id

Buckets == 0..2
Bucket(e) == e % 3
Slots == 1..PoolSize

ASSUME PoolAssumption == PoolSize \in Nat \ {0}
ASSUME BatchAssumption == Batch \in Nat \ {0}
ASSUME EpochAssumption == MaxEpoch \in Nat
ASSUME NullThreadAssumption == NULL \notin Threads
ASSUME NullObjectAssumption == NULL \notin Objects

VARIABLES
    epoch,      \* g_epoch
    owner,      \* owner[s]: g_thread_slots[s].owner_id
    ctl,        \* ctl[s]: g_thread_slots[s].ctl
    slot,       \* slot[t]: the slot t's ThreadCleanup holds, 0 before registration
    gone,       \* the threads that have exited: their ThreadCtl is deleted
    local,      \* local[t]: a set, {} for ~0u (quiescent), {e} for local_epoch = e
    bag,        \* bag[t][b]: the objects in bucket b of t's ThreadCtl
    freed,      \* the objects whose deleter has run
    at,         \* at[t]: the access t makes next inside the library
    op,         \* op[t]: the operation that init_thread() returns to
    index,      \* index[t]: the slot that a loop of t has come to
    cur,        \* cur[t]: the epoch that t's operation has loaded
    found,      \* found[t]: the ThreadCtl that a loop of t has loaded
    item,       \* item[t]: the object that t is retiring
    blockers    \* blockers[t]: who was pinned in cur[t] when t loaded it in try_flip() and still is

registry == <<owner, ctl, slot, gone>>
loop == <<index, cur, found>>
ebrVars == <<epoch, registry, local, bag, freed, at, op, loop, item, blockers>>

Places == {"idle", "claim", "publish", "pin_load", "pin_store", "retire_load", "retire_push",
           "flip_load", "scan_ctl", "scan_epoch", "flip_cas", "reclaim_ctl", "reclaim_free",
           "reclaim_clear", "exit_ctl", "exit_owner", "exit_delete", "exhausted"}
Operations == {"none", "pin_load", "retire_load", "flip_load"}

EbrInit ==
    /\ epoch = 0
    /\ owner = [s \in Slots |-> NULL]
    /\ ctl = [s \in Slots |-> NULL]
    /\ slot = [t \in Threads |-> 0]
    /\ gone = {}
    /\ local = [t \in Threads |-> {}]
    /\ bag = [t \in Threads |-> [b \in Buckets |-> {}]]
    /\ freed = {}
    /\ at = [t \in Threads |-> "idle"]
    /\ op = [t \in Threads |-> "none"]
    /\ index = [t \in Threads |-> 0]
    /\ cur = [t \in Threads |-> 0]
    /\ found = [t \in Threads |-> NULL]
    /\ item = [t \in Threads |-> NULL]
    /\ blockers = [t \in Threads |-> {}]

Jump(t, from, to) ==
    /\ at[t] = from
    /\ at' = [at EXCEPT ![t] = to]

\* Has the loop of t come to the last slot?  Bug variant: one too far.
PastLastSlot(t) == index[t] > PoolSize
AtLastSlot(t) == index[t] = PoolSize

\* The loop goes on to the next slot, at "again", or ends, at "done".
NextSlot(t, from, again, done) ==
    /\ Jump(t, from, IF AtLastSlot(t) THEN done ELSE again)
    /\ index' = [index EXCEPT ![t] = IF AtLastSlot(t) THEN 0 ELSE index[t] + 1]

----------------------------------------------------------------------------
(* init_thread(): every operation starts with it; the first call registers.   *)

\* t calls the operation whose first access is at "first".
Begin(t, first) ==
    /\ t \notin gone
    /\ IF slot[t] = 0
       THEN /\ Jump(t, "idle", "claim")
            /\ op' = [op EXCEPT ![t] = first]
            /\ index' = [index EXCEPT ![t] = 1]
       ELSE /\ Jump(t, "idle", first)
            /\ UNCHANGED <<op, index>>
    /\ UNCHANGED <<epoch, registry, local, bag, freed, cur, found, blockers>>

\* The CAS on owner_id succeeds.
Claim(t) ==
    /\ Jump(t, "claim", "publish")
    /\ owner[index[t]] = NULL
    /\ owner' = [owner EXCEPT ![index[t]] = t]
    /\ UNCHANGED <<epoch, ctl, slot, gone, local, bag, freed, op, loop, item, blockers>>

\* It fails: the next slot.  After the last one init_thread() throws, and the
\* client, which has no way to register t any more, leaves the library alone.
ClaimFail(t) ==
    /\ NextSlot(t, "claim", "claim", "exhausted")
    /\ owner[index[t]] # NULL
    /\ UNCHANGED <<epoch, registry, local, bag, freed, op, cur, found, item, blockers>>

Publish(t) ==
    /\ Jump(t, "publish", op[t])
    /\ ctl' = [ctl EXCEPT ![index[t]] = t]
    /\ slot' = [slot EXCEPT ![t] = index[t]]
    /\ index' = [index EXCEPT ![t] = 0]
    /\ op' = [op EXCEPT ![t] = "none"]
    /\ UNCHANGED <<epoch, owner, gone, local, bag, freed, cur, found, item, blockers>>

----------------------------------------------------------------------------
(* Guard *)

Guard(t) == Begin(t, "pin_load") /\ local[t] = {} /\ UNCHANGED item

PinLoad(t) ==
    /\ Jump(t, "pin_load", "pin_store")
    /\ cur' = [cur EXCEPT ![t] = epoch]
    /\ UNCHANGED <<epoch, registry, local, bag, freed, op, index, found, item, blockers>>

PinStore(t) ==
    /\ Jump(t, "pin_store", "idle")
    /\ local' = [local EXCEPT ![t] = {cur[t]}]
    /\ cur' = [cur EXCEPT ![t] = 0]
    /\ UNCHANGED <<epoch, registry, bag, freed, op, index, found, item, blockers>>

\* ~Guard
Leave(t) ==
    /\ Jump(t, "idle", "idle")
    /\ local[t] # {}
    /\ local' = [local EXCEPT ![t] = {}]
    /\ blockers' = [f \in Threads |-> blockers[f] \ {t}]
    /\ UNCHANGED <<epoch, registry, bag, freed, op, loop, item>>

----------------------------------------------------------------------------
(* retire() *)

Retire(t, o) ==
    /\ Begin(t, "retire_load")
    /\ item' = [item EXCEPT ![t] = o]

RetireLoad(t) ==
    /\ Jump(t, "retire_load", "retire_push")
    /\ cur' = [cur EXCEPT ![t] = epoch]
    /\ UNCHANGED <<epoch, registry, local, bag, freed, op, index, found, item, blockers>>

\* Both push_backs and the size test: a full bucket makes t try to flip.
RetirePush(t) ==
    LET b == Bucket(cur[t])
        objects == bag[t][b] \cup {item[t]}
    IN  /\ Jump(t, "retire_push", IF Cardinality(objects) >= Batch THEN "flip_load" ELSE "idle")
        /\ bag' = [bag EXCEPT ![t][b] = objects]
        /\ item' = [item EXCEPT ![t] = NULL]
        /\ cur' = [cur EXCEPT ![t] = 0]
        /\ UNCHANGED <<epoch, registry, local, freed, op, index, found, blockers>>

----------------------------------------------------------------------------
(* try_flip(), from retire() or force_epoch_advance() *)

ForceEpochAdvance(t) == Begin(t, "flip_load") /\ UNCHANGED item

FlipLoad(t) ==
    /\ Jump(t, "flip_load", "scan_ctl")
    /\ cur' = [cur EXCEPT ![t] = epoch]
    /\ index' = [index EXCEPT ![t] = 1]
    /\ blockers' = [blockers EXCEPT ![t] = {u \in Threads : epoch \in local[u]}]
    /\ UNCHANGED <<epoch, registry, local, bag, freed, op, found, item>>

\* try_flip() returns: its locals go.
FlipReturns(t) ==
    /\ cur' = [cur EXCEPT ![t] = 0]
    /\ index' = [index EXCEPT ![t] = 0]
    /\ found' = [found EXCEPT ![t] = NULL]
    /\ blockers' = [blockers EXCEPT ![t] = {}]

ScanCtl(t) ==
    /\ Jump(t, "scan_ctl", "scan_epoch")
    /\ ctl[index[t]] # NULL
    /\ found' = [found EXCEPT ![t] = ctl[index[t]]]
    /\ UNCHANGED <<epoch, registry, local, bag, freed, op, index, cur, item, blockers>>

\* The slot has no ThreadCtl.
ScanSkip(t) ==
    /\ NextSlot(t, "scan_ctl", "scan_ctl", "flip_cas")
    /\ ctl[index[t]] = NULL
    /\ UNCHANGED <<epoch, registry, local, bag, freed, op, cur, found, item, blockers>>

\* The thread found is pinned in the epoch that t wants to end.  Bug variants: in
\* an older one; the caller's own pin does not count; no pin does.
PinIgnored(t) == FALSE
PinnedOther(t) == found[t] # t /\ cur[t] \in local[found[t]]
PinnedOlder(t) == \E e \in local[found[t]] : e < cur[t]
PinnedInCur(t) == cur[t] \in local[found[t]]

ScanPinned(t) ==
    /\ Jump(t, "scan_epoch", "idle")
    /\ PinnedInCur(t) \/ found[t] \in gone
    /\ FlipReturns(t)
    /\ UNCHANGED <<epoch, registry, local, bag, freed, op, item>>

ScanPasses(t) ==
    /\ NextSlot(t, "scan_epoch", "scan_ctl", "flip_cas")
    /\ ~PinnedInCur(t)
    /\ found' = [found EXCEPT ![t] = NULL]
    /\ UNCHANGED <<epoch, registry, local, bag, freed, op, cur, item, blockers>>

\* Nobody else has ended the epoch yet.  Bug variant: nobody looks.
StillCurUnchecked(t) == TRUE
StillCur(t) == epoch = cur[t]

\* The CAS on g_epoch succeeds.
Flip(t) ==
    /\ Jump(t, "flip_cas", "reclaim_ctl")
    /\ StillCur(t)
    /\ epoch < MaxEpoch
    /\ epoch' = cur[t] + 1
    /\ index' = [index EXCEPT ![t] = 1]
    /\ blockers' = [blockers EXCEPT ![t] = {}]
    /\ UNCHANGED <<registry, local, bag, freed, op, cur, found, item>>

FlipFail(t) ==
    /\ Jump(t, "flip_cas", "idle")
    /\ ~StillCur(t)
    /\ FlipReturns(t)
    /\ UNCHANGED <<epoch, registry, local, bag, freed, op, item>>

IdxOld(t) == Bucket(cur[t] + 1)

ReclaimCtl(t) ==
    /\ Jump(t, "reclaim_ctl", "reclaim_free")
    /\ ctl[index[t]] # NULL
    /\ found' = [found EXCEPT ![t] = ctl[index[t]]]
    /\ UNCHANGED <<epoch, registry, local, bag, freed, op, index, cur, item, blockers>>

\* The next slot; after the last one try_flip() returns.
ReclaimNext(t, from) ==
    /\ NextSlot(t, from, "reclaim_ctl", "idle")
    /\ cur' = [cur EXCEPT ![t] = IF AtLastSlot(t) THEN 0 ELSE cur[t]]
    /\ found' = [found EXCEPT ![t] = NULL]

ReclaimSkip(t) ==
    /\ ReclaimNext(t, "reclaim_ctl")
    /\ ctl[index[t]] = NULL
    /\ UNCHANGED <<epoch, registry, local, bag, freed, op, item, blockers>>

\* The deleters of the bucket run ...
ReclaimFree(t) ==
    /\ Jump(t, "reclaim_free", "reclaim_clear")
    /\ freed' = freed \cup bag[found[t]][IdxOld(t)]
    /\ UNCHANGED <<epoch, registry, local, bag, op, loop, item, blockers>>

\* ... and the bucket is cleared, with whatever its owner has added since.
ReclaimClear(t) ==
    /\ ReclaimNext(t, "reclaim_clear")
    /\ bag' = [bag EXCEPT ![found[t]][IdxOld(t)] = {}]
    /\ UNCHANGED <<epoch, registry, local, freed, op, item, blockers>>

----------------------------------------------------------------------------
(* ~ThreadCleanup, when a registered thread exits *)

Exit(t) ==
    /\ Jump(t, "idle", "exit_ctl")
    /\ slot[t] # 0
    /\ t \notin gone
    /\ local[t] = {}
    /\ UNCHANGED <<epoch, registry, local, bag, freed, op, loop, item, blockers>>

\* The stores that release the slot of t.  Bug variant: the other order.
ReleaseSwapped(t, first) ==
    IF first THEN owner' = [owner EXCEPT ![slot[t]] = NULL] /\ UNCHANGED ctl
             ELSE ctl' = [ctl EXCEPT ![slot[t]] = NULL] /\ UNCHANGED owner
Release(t, first) ==
    IF first THEN ctl' = [ctl EXCEPT ![slot[t]] = NULL] /\ UNCHANGED owner
             ELSE owner' = [owner EXCEPT ![slot[t]] = NULL] /\ UNCHANGED ctl

ExitCtl(t) ==
    /\ Jump(t, "exit_ctl", "exit_owner")
    /\ Release(t, TRUE)
    /\ UNCHANGED <<epoch, slot, gone, local, bag, freed, op, loop, item, blockers>>

ExitOwner(t) ==
    /\ Jump(t, "exit_owner", "exit_delete")
    /\ Release(t, FALSE)
    /\ slot' = [slot EXCEPT ![t] = 0]
    /\ UNCHANGED <<epoch, gone, local, bag, freed, op, loop, item, blockers>>

\* ~ThreadCtl runs every deleter left, whatever the epoch.
ExitDelete(t) ==
    /\ Jump(t, "exit_delete", "idle")
    /\ freed' = freed \cup UNION {bag[t][b] : b \in Buckets}
    /\ bag' = [bag EXCEPT ![t] = [b \in Buckets |-> {}]]
    /\ gone' = gone \cup {t}
    /\ UNCHANGED <<epoch, owner, ctl, slot, local, op, loop, item, blockers>>

----------------------------------------------------------------------------

\* One access by a thread that is inside the library.
EbrStep(t) ==
    \/ Claim(t) \/ ClaimFail(t) \/ Publish(t)
    \/ PinLoad(t) \/ PinStore(t)
    \/ RetireLoad(t) \/ RetirePush(t)
    \/ FlipLoad(t) \/ ScanCtl(t) \/ ScanSkip(t) \/ ScanPinned(t) \/ ScanPasses(t)
    \/ Flip(t) \/ FlipFail(t)
    \/ ReclaimCtl(t) \/ ReclaimSkip(t) \/ ReclaimFree(t) \/ ReclaimClear(t)
    \/ ExitCtl(t) \/ ExitOwner(t) \/ ExitDelete(t)

----------------------------------------------------------------------------
(* Properties *)

EbrTypeOK ==
    /\ epoch \in 0..MaxEpoch
    /\ owner \in [Slots -> Threads \cup {NULL}]
    /\ ctl \in [Slots -> Threads \cup {NULL}]
    /\ slot \in [Threads -> Slots \cup {0}]
    /\ gone \subseteq Threads
    /\ local \in [Threads -> SUBSET (0..MaxEpoch)]
    /\ bag \in [Threads -> [Buckets -> SUBSET Objects]]
    /\ freed \subseteq Objects
    /\ at \in [Threads -> Places]
    /\ op \in [Threads -> Operations]
    /\ index \in [Threads -> Slots \cup {0}]
    /\ cur \in [Threads -> 0..MaxEpoch]
    /\ found \in [Threads -> Threads \cup {NULL}]
    /\ item \in [Threads -> Objects \cup {NULL}]
    /\ blockers \in [Threads -> SUBSET Threads]

\* From its registration to the start of its exit every scan of the slots finds
\* a thread, in one slot that nobody else uses, although slots are claimed and
\* released by two stores and reused at once.
RegistryConsistent ==
    /\ \A t \in Threads :
         /\ slot[t] # 0 => owner[slot[t]] = t
         /\ slot[t] # 0 /\ at[t] # "exit_owner" => ctl[slot[t]] = t
         /\ at[t] = "publish" => owner[index[t]] = t
    /\ \A s \in Slots :
         /\ owner[s] # NULL =>
              slot[owner[s]] = s \/ (at[owner[s]] = "publish" /\ index[owner[s]] = s)
         /\ ctl[s] # NULL => slot[ctl[s]] = s

\* What try_flip() does guarantee: it never ends an epoch in which a thread was
\* pinned when it loaded the epoch and has been ever since.
ScanSeesPins == \A f \in Threads : at[f] = "flip_cas" => blockers[f] = {}

\* Each epoch is ended, and its old bucket reclaimed, by one thread only.
Reclaiming == {"reclaim_ctl", "reclaim_free", "reclaim_clear"}
OneFlipPerEpoch ==
    \A t, u \in Threads :
        at[t] \in Reclaiming /\ at[u] \in Reclaiming /\ cur[t] = cur[u] => t = u

=============================================================================
