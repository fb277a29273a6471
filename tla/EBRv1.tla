-------------------------------- MODULE EBRv1 --------------------------------
(* The first version of the epoch-based reclamation library                   *)
(* (lockfree_queue_ebr_v1.hpp:58-172), one action per access of shared        *)
(* memory.  A thread takes an index with one access and stores its ThreadCtl  *)
(* there with another, keeps both for ever, and a loop over the threads reads *)
(* their number when it starts.                                               *)
(*                                                                            *)
(* A thread's ThreadCtl is identified with the thread.  Reading g_threads[i]  *)
(* and what it points to is one access here: an entry is stored once, and its *)
(* ThreadCtl is never deleted.  blockers and due are history variables.       *)
EXTENDS Naturals, FiniteSets

CONSTANTS
    Threads,     \* the threads that ever use the library
    Readers,     \* those that use Guards
    MaxThreads,  \* kMaxThreads
    Batch,       \* kBatchRetired
    MaxEpoch,    \* where the epoch stops (the code's wraps at 2^32)
    Objects,     \* what is retired
    NULL         \* the null pointer

Buckets == 0..2
Bucket(e) == e % 3
Entries == 1..MaxThreads

ASSUME SizeAssumption == MaxThreads \in Nat \ {0} /\ Batch \in Nat \ {0} /\ MaxEpoch \in Nat
ASSUME ThreadsAssumption == IsFiniteSet(Threads) /\ Readers \subseteq Threads
ASSUME NullAssumption == NULL \notin Threads /\ NULL \notin Objects

VARIABLES
    epoch,      \* g_epoch
    nthreads,   \* g_nthreads
    table,      \* table[i]: g_threads[i], which counts from 1 here
    entry,      \* entry[t]: the index t has taken, 0 before
    registered, \* the threads whose registration is over
    local,      \* local[t]: a set, {} for ~0u (quiescent), {e} for local_epoch = e
    bag,        \* bag[t][b]: the objects in bucket b of t's ThreadCtl
    freed,      \* the objects whose deleter has run
    fresh,      \* the objects that nobody has retired yet
    at,         \* at[t]: the access t makes next inside the library
    op,         \* op[t]: the operation that init_thread() returns to
    cur,        \* cur[t]: the epoch that t has loaded
    i, n,       \* i[t], n[t]: the index and the bound of t's loop
    item,       \* item[t]: the object that t is retiring
    blockers,   \* blockers[t]: who was pinned in cur[t] when t loaded it to end it, and still is
    due         \* due[t]: what t has to reclaim, the epoch it has ended being over

loop == <<i, n>>
registry == <<nthreads, table, entry, registered>>
vars == <<epoch, registry, local, bag, freed, fresh, at, op, cur, loop, item, blockers, due>>

Places == {"idle", "count", "store", "pin_load", "pin_store", "retire_load", "retire_push",
           "flip_load", "scan_bound", "scan", "flip_cas", "reclaim_bound", "reclaim_free",
           "reclaim_clear", "overrun"}

Init ==
    /\ epoch = 0
    /\ nthreads = 0
    /\ table = [k \in Entries |-> NULL]
    /\ entry = [t \in Threads |-> 0]
    /\ registered = {}
    /\ local = [t \in Threads |-> {}]
    /\ bag = [t \in Threads |-> [b \in Buckets |-> {}]]
    /\ freed = {}
    /\ fresh = Objects
    /\ at = [t \in Threads |-> "idle"]
    /\ op = [t \in Threads |-> "none"]
    /\ cur = [t \in Threads |-> 0]
    /\ i = [t \in Threads |-> 0]
    /\ n = [t \in Threads |-> 0]
    /\ item = [t \in Threads |-> NULL]
    /\ blockers = [t \in Threads |-> {}]
    /\ due = [t \in Threads |-> {}]

Jump(t, from, to) ==
    /\ at[t] = from
    /\ at' = [at EXCEPT ![t] = to]

----------------------------------------------------------------------------
(* init_thread() *)

\* t calls the operation whose first access is at "first".
Begin(t, first) ==
    /\ IF t \in registered
       THEN Jump(t, "idle", first) /\ UNCHANGED op
       ELSE Jump(t, "idle", "count") /\ op' = [op EXCEPT ![t] = first]
    /\ UNCHANGED <<epoch, registry, local, bag, freed, cur, loop, blockers, due>>

\* g_nthreads.fetch_add().  Bug variant: nothing is added.
Unchanged(count) == count
Increment(count) == count + 1

\* The assertion on the index; it stops the program.  Bug variant: one too many.
FitsTightly(index) == index <= MaxThreads + 1
Fits(index) == index <= MaxThreads

Count(t) ==
    /\ Jump(t, "count", IF Fits(nthreads + 1) THEN "store" ELSE "overrun")
    /\ nthreads' = Increment(nthreads)
    /\ entry' = [entry EXCEPT ![t] = nthreads + 1]
    /\ UNCHANGED <<epoch, table, registered, local, bag, freed, fresh, op, cur, loop, item, blockers, due>>

Store(t) ==
    /\ Jump(t, "store", op[t])
    /\ table' = [table EXCEPT ![entry[t]] = t]
    /\ registered' = registered \cup {t}
    /\ op' = [op EXCEPT ![t] = "none"]
    /\ UNCHANGED <<epoch, nthreads, entry, local, bag, freed, fresh, cur, loop, item, blockers, due>>

----------------------------------------------------------------------------
(* Guard *)

Guard(t) ==
    /\ t \in Readers
    /\ local[t] = {}
    /\ Begin(t, "pin_load")
    /\ UNCHANGED <<item, fresh>>

Load(t, from, to) ==
    /\ Jump(t, from, to)
    /\ cur' = [cur EXCEPT ![t] = epoch]

PinLoad(t) ==
    /\ Load(t, "pin_load", "pin_store")
    /\ UNCHANGED <<epoch, registry, local, bag, freed, fresh, op, loop, item, blockers, due>>

PinStore(t) ==
    /\ Jump(t, "pin_store", "idle")
    /\ local' = [local EXCEPT ![t] = {cur[t]}]
    /\ cur' = [cur EXCEPT ![t] = 0]
    /\ UNCHANGED <<epoch, registry, bag, freed, fresh, op, loop, item, blockers, due>>

\* ~Guard
Leave(t) ==
    /\ Jump(t, "idle", "idle")
    /\ local[t] # {}
    /\ local' = [local EXCEPT ![t] = {}]
    /\ blockers' = [f \in Threads |-> blockers[f] \ {t}]
    /\ UNCHANGED <<epoch, registry, bag, freed, fresh, op, cur, loop, item, due>>

----------------------------------------------------------------------------
(* retire() *)

Retire(t, o) ==
    /\ Begin(t, "retire_load")
    /\ o \in fresh
    /\ fresh' = fresh \ {o}
    /\ item' = [item EXCEPT ![t] = o]

RetireLoad(t) ==
    /\ Load(t, "retire_load", "retire_push")
    /\ UNCHANGED <<epoch, registry, local, bag, freed, fresh, op, loop, item, blockers, due>>

\* Both push_backs and the size test.
RetirePush(t) ==
    LET b == Bucket(cur[t])
        objects == bag[t][b] \cup {item[t]}
    IN  /\ Jump(t, "retire_push", IF Cardinality(objects) >= Batch THEN "flip_load" ELSE "idle")
        /\ bag' = [bag EXCEPT ![t][b] = objects]
        /\ item' = [item EXCEPT ![t] = NULL]
        /\ cur' = [cur EXCEPT ![t] = 0]
        /\ UNCHANGED <<epoch, registry, local, freed, fresh, op, loop, blockers, due>>

----------------------------------------------------------------------------
(* try_flip() *)

FlipLoad(t) ==
    /\ Load(t, "flip_load", "scan_bound")
    /\ blockers' = [blockers EXCEPT ![t] = {u \in Threads : epoch \in local[u]}]
    /\ UNCHANGED <<epoch, registry, local, bag, freed, fresh, op, loop, item, due>>

\* A loop starts: its bound is the number of threads now.
ReadBound(t, from, to) ==
    /\ Jump(t, from, to)
    /\ n' = [n EXCEPT ![t] = nthreads]
    /\ i' = [i EXCEPT ![t] = 1]
    /\ UNCHANGED <<epoch, registry, local, bag, freed, fresh, op, cur, item, blockers, due>>
ScanBound(t) == ReadBound(t, "scan_bound", "scan")
ReclaimBound(t) == ReadBound(t, "reclaim_bound", "reclaim_free")

\* Has the loop come to its end?  The program is stopped before n passes the
\* last entry.  Bug variant: the last thread is left out.
AtLastButOne(t) == i[t] + 1 >= n[t]
AtLast(t) == i[t] >= n[t]

\* The loop goes on at "again", or ends, at "done".
NextThread(t, from, again, done) ==
    /\ Jump(t, from, IF AtLast(t) THEN done ELSE again)
    /\ i' = [i EXCEPT ![t] = IF AtLast(t) THEN 0 ELSE @ + 1]
    /\ n' = [n EXCEPT ![t] = IF AtLast(t) THEN 0 ELSE @]

\* The thread that the loop has come to, if it has stored its ThreadCtl: a set.
Found(t) == {table[i[t]]} \ {NULL}

\* Is it pinned in the epoch that t wants to end?  Bug variant: in an older one.
PinnedOlder(t) == \E u \in Found(t) : \E e \in local[u] : e < cur[t]
PinnedInCur(t) == \E u \in Found(t) : cur[t] \in local[u]

FlipReturns(t, from) ==
    /\ Jump(t, from, "idle")
    /\ cur' = [cur EXCEPT ![t] = 0]
    /\ i' = [i EXCEPT ![t] = 0]
    /\ n' = [n EXCEPT ![t] = 0]
    /\ blockers' = [blockers EXCEPT ![t] = {}]
    /\ UNCHANGED <<epoch, registry, local, bag, freed, fresh, op, item, due>>

ScanPinned(t) == FlipReturns(t, "scan") /\ PinnedInCur(t)
ScanPasses(t) ==
    /\ NextThread(t, "scan", "scan", "flip_cas")
    /\ ~PinnedInCur(t)
    /\ UNCHANGED <<epoch, registry, local, bag, freed, fresh, op, cur, item, blockers, due>>

\* Nobody else has ended the epoch yet.  Bug variant: nobody looks.
StillCurUnchecked(t) == TRUE
StillCur(t) == epoch = cur[t]
IdxOld(t) == Bucket(cur[t] + 1)

\* Whose bucket b has been freed and is about to be cleared.  What its owner has
\* pushed in between is lost, so that it is no longer due to anybody.
Swept(b) == UNION {Found(r) : r \in {r \in Threads : at[r] = "reclaim_clear" /\ IdxOld(r) = b}}
DueIn(b) == UNION {bag[u][b] : u \in Threads \ Swept(b)}

Flip(t) ==
    /\ Jump(t, "flip_cas", "reclaim_bound")
    /\ StillCur(t)
    /\ epoch < MaxEpoch
    /\ epoch' = cur[t] + 1
    /\ blockers' = [blockers EXCEPT ![t] = {}]
    /\ due' = [due EXCEPT ![t] = DueIn(IdxOld(t))]
    /\ UNCHANGED <<registry, local, bag, freed, fresh, op, cur, loop, item>>

FlipFail(t) == FlipReturns(t, "flip_cas") /\ ~StillCur(t)

\* The deleters of the bucket run ...
ReclaimFree(t) ==
    /\ Jump(t, "reclaim_free", "reclaim_clear")
    /\ Found(t) # {}
    /\ freed' = freed \cup UNION {bag[u][IdxOld(t)] : u \in Found(t)}
    /\ UNCHANGED <<epoch, registry, local, bag, fresh, op, cur, loop, item, blockers, due>>

\* The next thread; after the last one try_flip() returns.
ReclaimNext(t, from) ==
    /\ NextThread(t, from, "reclaim_free", "idle")
    /\ cur' = [cur EXCEPT ![t] = IF AtLast(t) THEN 0 ELSE @]
    /\ due' = [due EXCEPT ![t] = IF AtLast(t) THEN {} ELSE @]
    /\ UNCHANGED <<epoch, registry, local, freed, fresh, op, item, blockers>>

ReclaimSkip(t) ==
    /\ ReclaimNext(t, "reclaim_free")
    /\ Found(t) = {}
    /\ UNCHANGED bag

\* ... and the bucket is cleared, with whatever its owner has added since.
ReclaimClear(t) ==
    /\ ReclaimNext(t, "reclaim_clear")
    /\ bag' = [u \in Threads |-> [b \in Buckets |->
                  IF u \in Found(t) /\ b = IdxOld(t) THEN {} ELSE bag[u][b]]]

----------------------------------------------------------------------------

Inside(t) ==
    \/ Count(t) \/ Store(t)
    \/ PinLoad(t) \/ PinStore(t)
    \/ RetireLoad(t) \/ RetirePush(t)
    \/ FlipLoad(t) \/ ScanBound(t) \/ ScanPinned(t) \/ ScanPasses(t)
    \/ Flip(t) \/ FlipFail(t)
    \/ ReclaimBound(t) \/ ReclaimFree(t) \/ ReclaimSkip(t) \/ ReclaimClear(t)

\* Clients guard and retire in any order.  The failed assertion stops them all.
Next ==
    /\ \A t \in Threads : at[t] # "overrun"
    /\ \E t \in Threads :
        \/ Guard(t) \/ Leave(t)
        \/ \E o \in Objects : Retire(t, o)
        \/ Inside(t)

Spec == Init /\ [][Next]_vars

----------------------------------------------------------------------------
(* Properties *)

TypeOK ==
    /\ epoch \in 0..MaxEpoch
    /\ nthreads \in 0..Cardinality(Threads)
    /\ table \in [Entries -> Threads \cup {NULL}]
    /\ entry \in [Threads -> 0..Cardinality(Threads)]
    /\ \A t \in Threads : at[t] # "overrun" => entry[t] <= MaxThreads
    /\ registered \subseteq Threads
    /\ local \in [Threads -> SUBSET (0..MaxEpoch)]
    /\ bag \in [Threads -> [Buckets -> SUBSET Objects]]
    /\ freed \subseteq Objects /\ fresh \subseteq Objects
    /\ at \in [Threads -> Places]
    /\ op \in [Threads -> {"none", "pin_load", "retire_load"}]
    /\ cur \in [Threads -> 0..MaxEpoch]
    /\ i \in [Threads -> 0..MaxThreads]
    /\ n \in [Threads -> 0..MaxThreads]
    /\ item \in [Threads -> Objects \cup {NULL}]
    /\ blockers \in [Threads -> SUBSET Threads]
    /\ due \in [Threads -> SUBSET Objects]

\* A thread that has registered is in the table, below the bound that every loop
\* from then on reads, in an entry that no other thread ever has; a thread that
\* has not yet stored its ThreadCtl is neither pinned nor has it garbage, so that
\* a loop that skips it misses nothing.
RegisteredVisible ==
    /\ \A t \in registered : entry[t] <= nthreads /\ table[entry[t]] = t
    /\ \A t, u \in Threads : entry[t] = entry[u] /\ entry[t] # 0 => t = u
    /\ \A t \in Threads \ registered : local[t] = {} /\ \A b \in Buckets : bag[t][b] = {}

\* try_flip() never ends an epoch in which a thread was pinned when it loaded the
\* epoch and has been ever since, although threads register during its scan.
ScanSeesPins == \A t \in Threads : at[t] = "flip_cas" => blockers[t] = {}

\* Each epoch is ended, and its old bucket reclaimed, by one thread only.
Reclaiming == {"reclaim_bound", "reclaim_free", "reclaim_clear"}
OneFlipPerEpoch ==
    \A t, u \in Threads :
        at[t] \in Reclaiming /\ at[u] \in Reclaiming /\ cur[t] = cur[u] => t = u

\* When the reclamation is over, all that the old buckets of all the threads held
\* when the epoch ended has been freed, but for a bucket that a reclaimer of three
\* epochs ago was still about to clear.
ReclaimComplete ==
    [][\A t \in Threads : due[t] # {} /\ due'[t] = {} => due[t] \subseteq freed']_vars

=============================================================================
