# Verification of HazardLFQ-EBRLFQ

TLA+ models of the lock-free queues of this repository and of the memory
reclamation under them, the TLC runs that check small instances, and TLAPS proofs
for every instance. Definitions are translated from `src/include/` and from the tests
and benchmarks that drive the queues; `PROJECT.json` maps each to its lines.

    tlc -workers 2 -config EBRRegistry.cfg MCEBRClient.tla     # any run of PROJECT.json
    tlapm EBRProofs.tla                                        # any proof module

Contents: [1 The system](#1-the-system) · [2 The modules](#2-the-modules) ·
[3 The runs](#3-the-runs) · [4 The proofs](#4-the-proofs) ·
[5 Assumptions](#5-assumptions-and-abstractions) · [6 What is left](#6-plan)

## 1. The system

### Components

| component | source | state | operations |
|---|---|---|---|
| the Michael-Scott queue `lfq::Queue` (v2) | `lockfree_queue_ebr.hpp:322-498` | `head_`, `tail_`, `next` and value of each node | `enqueue`, `dequeue`, `empty`, `force_cleanup`, destructor, monitoring reads |
| the reclamation library `lfq::ebr` (v2) | `lockfree_queue_ebr.hpp:84-318` | `g_epoch`; 512 slots with `owner_id` and `ctl`; per thread `local_epoch` and three buckets of retired objects | `init_thread`, `Guard`, `retire`, `try_flip`, `force_epoch_advance`, thread exit |
| version 1 of both | `lockfree_queue_ebr_v1.hpp` | as above, but `g_threads[]`/`g_nthreads` instead of slots, never released | the same without exit and `force_cleanup` |
| hazard pointers `lfq::hp` and `HPQueue` | `lockfree_queue_hp.hpp` | 256 hazard slots; per thread two slot pointers and a retired list; the queue | `acquire_slot`, `Guard`, `protect`, `retire`, `scan`; the queue's operations |
| stand-alone hazard pointers | `hazard_pointer.hpp` | the same | the same |
| `HybridQueue` | `lockfree_queue_hybrid.hpp` | v2's, and per thread `mode` and `stuck_cnt` | v2's, and the switch to hazard pointers when the epoch stalls |
| `ThreadSafeQueue` | `ThreadSafeQueue.hpp` | a `std::queue`, a mutex, a contention counter | `enqueue`, `dequeue`, `empty`, `size`, counter reads |

| the tests and benchmarks | `ebrtest/`, `hptest/`, `stltest/`, `examples/` | flags, barriers, counters of messages, vectors of latencies | each program's threads, loops and joins, and what it asserts at the end |

Tests, benchmarks and examples are clients: they say which sequences of calls are
legal (retire inside or outside a Guard, threads that exit and are replaced,
`force_cleanup` between batches). They are also most of the repository's text, and
concurrent programs of their own, whose verdicts are only worth something if nobody
stops too early, waits for ever or counts wrongly.

### Interactions

All interaction is through shared memory. A queue operation takes a Guard per
iteration of its loop, which pins the epoch; `dequeue` hands the old dummy to
`retire` inside that Guard; a full bucket makes `retire` call `try_flip`, which
scans every other thread's control block, advances the epoch and empties one bucket
of *every* thread. The first operation of a thread registers it; the destructor of
a thread-local releases its slot and frees its buckets when it exits.

### What is hard

Every access is a point of interleaving, and nothing blocks: what a thread has
read may be stale when it acts on it. A thread may stop at any point for any time.
Registration, scans, flips and exits run concurrently over one table. Whether a
node may be freed depends on what all the other threads have read.
`PROJECT.json` lists the hazards at their lines with the properties aimed at them.

### What makes each component correct

* Queue: linearizable FIFO behaviour; one list; `tail_` never behind `head_`;
  links written once; a stopped thread does not stop the others.
* Reclamation: no object is freed while a thread that found it inside a Guard can
  still use it; a registered thread is in one slot and every scan sees its pin;
  one reclaimer per epoch; each object is retired and freed once; garbage bounded.
* Hazard pointers: a protected node is not freed; a thread's guards do not share a
  slot; a slot has one owner.
* Hybrid: as EBR, while stalls still let memory be reclaimed and FAST returns.
* ThreadSafeQueue: the same FIFO promise; the mutex is released on every path.
* Tests and benchmarks: they end, nobody starts before everybody is there, every
  message is measured, counters agree, order is kept, percentiles mean what they say.

## 2. The modules

| module | what it is |
|---|---|
| `FifoQueue` | the abstract specification: call, one atomic effect, return. A `dequeue` that finds nothing and an answer of `empty` must have been true at some instant of the call (`seen`) |
| `MSQueue` | the queue's code, one action per access of `head_`, `tail_`, `next` or a value. `Fifo!Spec` under `PendingBar`, `ArgBar`, `Contents` is the refinement `Linearizable` |
| `EBR` | the library, one action per access of shared memory; no client |
| `EBRClient` | `EBR` under any client that finds objects inside a Guard, unlinks them and retires them once, forces flips and exits |
| `EBRQueue` | `MSQueue` and `EBR` composed as `lfq::Queue` composes them |
| `EBRv1` | version 1 of the library with a client that pins and retires |
| `HazardPointers` | the library `lfq::hp`, one action per access of the slots; no client |
| `HPQueue` | `MSQueue` and `HazardPointers` composed as `lfq::HPQueue` composes them |
| `HybridQueue` | `MSQueue`, `EBR` and `HazardPointers` composed as `lfq::HybridQueue` composes them, with its stall counter and modes |
| `ThreadSafeQueue` | the queue under one mutex, one action per access of the mutex, the counter or the `std::queue`; it implements `FifoQueue` too |
| `LockBasedQueue` | the wrapper of `ThreadSafeQueue` in the comparison benchmarks, which counts operations |
| `LatencyStats` | the statistics that every benchmark carries a copy of, as operators |
| `TestPrograms` | the language in which tests and benchmarks are written down, and the shapes that several share |
| `ComparisonBench`, `LatencyBench`, `ThroughputBench`, `QueueTests`, `StressTests` | the programs, file by file |
| `Catalogue`, `Harness` | all the programs, and the machine that runs them on a linearizable queue |
| `Outlines` | what a thread may rely on at each place of its code, found from the text of a program alone, and the rules that make a program do what it says |
| `MCMSQueue`, `MCEBRClient`, `MCEBRQueue`, `MCEBRv1`, `MCHPQueue`, `MCHybridQueue` | the symmetry sets for TLC |
| `MSQueueProofs`, `EBRProofs`, `EBRQueueProofs`, `EBRv1Proofs`, `HPQueueProofs`, `HybridQueueProofs`, `LockProofs`, `HarnessProofs` | theorems |

**MSQueue.** `pc[t]` names the access thread `t` makes next; `node`, `lhead`,
`ltail`, `lnext`, `lval` are the local variables of `enqueue`, `dequeue` and
`empty`, cleared when their scope ends. A successful CAS and its failure are two
actions. `compare_exchange_weak` may fail without cause when `SpuriousFailures`.
`chain`, `hi`, `ti`, `seen` are history variables: the nodes in the order they were
linked, how far `head_` and `tail_` have come, and the emptiness each caller could
have observed. Nodes are not reused here: that is what reclamation has to justify.

**EBR.** `at[t]` is the access `t` makes next inside the library. The thread's
`ThreadCtl` is identified with the thread: `local[t]` is `{}` for `~0u` and `{e}`
for a pin; `bag[t][b]` is a bucket. `Claim`/`ClaimFail`/`Publish` are
`init_thread`'s loop; `PinLoad`/`PinStore` are the two halves of `Guard`;
`FlipLoad`, `Scan*`, `Flip`, `Reclaim*` follow `try_flip` slot by slot, with the
deleters and the clearing of a bucket as separate steps, because the owner may push
in between; `Exit*` are the stores and the delete of `~ThreadCleanup`. After
`init_thread` has thrown (`exhausted`) a thread leaves the library alone. A scan
that meets a `ThreadCtl` deleted under its hands reads any epoch
(`ScanPinned` and `ScanPasses` are both possible). `blockers[t]` is history: who
has been pinned in the epoch `t` is trying to end ever since `t` loaded it.

**EBRClient.** `linked` are the objects that can be found, `refs[t]` what `t` may
still dereference, `unlinked[t]` what it still has to retire. `Outside`, `Forcers`,
`Exiters` say which threads retire after the Guard, call `force_epoch_advance` and
exit.

**EBRQueue.** A step is a step of the queue by a thread that is not inside the
library and holds the Guard of its iteration, or a step of the library. Where an
iteration ends (`continue`, `return`, the end of the loop body) the Guard's
destructor comes first; between the CAS on `head_` and `~Guard`, `dequeue` calls
`retire`. `freed` says which nodes are gone.

**HazardPointers.** `hazard[s]` is a slot's pointer, `NULL` when it looks unused and
`Reserved` for `(void*)1`; `mine[t]` is the thread's array of slots, `guards[t]` the
slots of its live Guards; `Choice` is the search in `Guard()`. `protect()` is three
steps (load, store, load again); the two loads are of a location of the client, which
passes the value. `scan()` reads one slot per step and deletes what it did not see
after the last one. `Exit` is the destruction of the thread-local state: the retired
list is lost. After `acquire_slot` has thrown the thread stops.

**HPQueue.** Where `MSQueue` loads `head_`, `tail_` or `head->next`, the step is the
second, validating load of `protect()`; all else is as in `EBRQueue`, with one Guard
(`enqueue`, `empty`) or two (`dequeue`) for the whole call, the `clear()` before
`retire()`, and the destructors in reverse order.

**EBRv1.** A thread takes an index with `fetch_add` (`count`) and stores its
`ThreadCtl` there with a second, plain access (`store`): the two are separate steps,
`entry[t]` is the index and `registered` says who has stored. The loops of `try_flip`
read `g_nthreads` once, when they start (`n[t]`), and skip entries that are still
null. The `assert` on the index is the place `overrun`, after which the program has
ended. `due[t]` is history: what the old buckets held when `t` ended the epoch.

**HybridQueue.** `mode`, `stuck` are the fields `mode` and `stuck_cnt`; `guard[t]` is
how far the `HybridGuard` has come (its `hp::Guard`, the pin, the read of the mode, and
if SLOW the protection of `head_`; then the destructor in reverse). `Stalls` replaces
the two steps of `EBR` at which an epoch is found not to end; at the `StallLimit`-th
in a row, `SwitchMode`, `MoveBucket` and `TriggerScan` go through the slots, one at a
time, as the code's two loops and the final `hp::retire(nullptr, ...)` do.

**ThreadSafeQueue.** `try_lock`, the increment of `contention`, `lock`, the copy, the
access of the queue and `unlock` are steps of their own, so that mutual exclusion is a
result and not an assumption. `Throwers` may throw where a `T` is copied or moved; the
code unlocks by hand, so the thread leaves with the mutex locked (`thrown`).
`LockBasedQueue` adds `total`, incremented after the operation, and `resetStats()`.

**Harness and the programs.** A program is a record: the code of each worker, the code
of the main thread, what becomes of its messages and which counters it keeps. A code is
a sequence of instructions made by `For`, `While`, `Drain` and the like from the loops
of the C++ text; `Harness` executes one shared access per step (a test of a flag, an
enqueue, an increment, an arrival at a barrier, a join) and interleaves the threads
in every way. The programs of the same text in several files are one program. The
queue they run on is a sequence with atomic operations: the other modules show
which queues deserve that.

`Outlines` adds a proof outline to every program. `Known[p]` is the largest set of
facts, each about a place of a thread's code, that the branches leading there justify:
a join tells that the workers have ended, a failed `dequeue` that the queue is empty if
nobody puts any more, a look at the flag what everybody knows who lowers it, a counter
that all messages have come. `Disciplined` are the programs whose text follows the
rules: what they claim in the end is among the facts or, where each thread takes back
what it has put (`Balanced`), follows from its credits; and between an operation and
its count there is nothing that counts otherwise (`Counts`). `Holds` says what a fact
means in a state, `Outlined` that this is so whenever a thread relies on it, and
`NoInterference` that it is so at first and that no step of another thread changes it.

## 3. The runs

| run | instance | what it shows |
|---|---|---|
| `MSQueueSafety` | 3 threads that do everything, 4 nodes, 593k states | `TypeOK`, `OneList`, `TailBetween`, `LocalsStayValid`, `LinkedOnce`, and `Linearizable`: every step of the code is a step or a stutter of `FifoQueue` |
| `MSQueueLiveness` | 3 threads, one of which may stop anywhere | `OperationsReturn`: the operations of the threads that run finish, because everybody helps with a `tail_` left behind |
| `EBRRegistry` | 3 threads, 2 slots, 439k states | `EbrTypeOK`, `RegistryConsistent`, `ScanSeesPins`, `OneFlipPerEpoch` while threads register, are refused, exit and reuse slots |
| `EBRGrace` | 3 threads, 3 slots, no exit | **violation** of `NoLivePointerFreed` |
| `EBRQueueSafety` | 2 threads, one may force flips, one may exit, 893k states | `EpochFrozen` as long as nobody forces flips, `RetiredOnce` also while epochs advance and buckets are reclaimed |
| `EBRQueueExit` | 2 threads, one may exit | **violation** of `NoUseAfterFree` |
| `EBRv1` | 3 threads for 2 entries, one reader, 4 flips, 340k states | `TypeOK`, `RegisteredVisible`, `ScanSeesPins`, `OneFlipPerEpoch`, `ReclaimComplete` while threads register in two steps |
| `HPQueueSafety` | 1 consumer, 1 producer that also asks `empty`, either may exit, 4 enqueues, 94k states | `OwnSlotProtects`: while no slot is shared between threads, and until the consumer exits, nothing freed is accessed; `FreedOnce`, `RetiredBounded`; `LostOnlyByExit`: an unlinked node is never forgotten but by the exit of a thread, which loses its list |
| `HPQueueShared` | 2 consumers | **violation** of `OwnSlotProtects` |
| `HybridQueue` | 2 threads, one may exit, every second failed reclamation a stall, 406k states | `HybridTypeOK`, `NothingReclaimed`, `SwitchReachesAll`, `RetiredOnce` |
| `LockBasedQueue` | 3 threads, 4 calls, one thread may throw, 118k states | `TypeOK`, `MutexHeld`, `RateIsFraction`, `Linearizable`, `OperationsReturn`: a call returns, has thrown, or waits at the mutex for one that has |
| `Harness` | every program once, at most 2 producers and 2 consumers, 206k states | `TypeOK`, `EverythingMeasured`, `AtMostOneLate`, `StartTogether`, `CountsAgree`, `StatsRight`, `InOrder`, `Terminates`; and `NoInterference`: all programs follow the rules of `Outlines`, and what their threads rely on holds |

### What the violations say

* `NoLivePointerFreed`. `try_flip` advances the epoch from `cur` to `cur + 1` and
  then reclaims bucket `(cur + 1) % 3`: the bucket of the *new* epoch. A thread that
  retires an object between the CAS and the reclamation has it freed at once,
  although a thread pinned in `cur` holds a pointer to it.
* `NoUseAfterFree` with an exit. `~ThreadCtl` runs the deleters of everything the
  thread has retired, whoever is pinned.
* `OwnSlotProtects` with two consumers. `Guard()` stops its search at the first slot
  in use, so both Guards of a `dequeue` use the same slot: protecting `next` removes
  the protection of `head`, whose `next` is then read again. With one consumer nobody
  else deletes, and the property holds. Its premise `OwnSlots` is not something the
  code ensures either: a cleared slot looks unused, and another thread may acquire it.

### What the passing runs say about what the documentation promises

`dequeue` calls `retire` inside its own Guard, so `try_flip` always meets the caller's
own pin and gives up. Threads that only use the queue never leave epoch 0, and
nothing is freed before they exit (`EpochFrozen`, proved for every instance). The two
errors of the reclamation above need a flip (`force_cleanup`, or a `retire` outside a
Guard, as in the tests) or an exit. It follows that some sentences of the
documentation are not true of the code; they have no run of their own because a
passing property says more:

* "3 × kBatchRetired" objects per thread at most (`docs/api/ebr.md:78`): with queue
  operations alone buckets are never reclaimed, and grow (`EpochFrozen`).
* "every live thread switches" and a leak that is bounded
  (`lockfree_queue_hybrid.hpp:16-20`): a stall moves the bucket of epoch 1, which is
  always empty, so that SLOW mode reclaims nothing (`NothingReclaimed`); and only who
  is registered when the switch begins is sure to be switched (`SwitchReachesAll`),
  a later thread stays FAST.
* `enqueue` "at most N + 2 CAS attempts" (`lockfree_queue_ebr.hpp:326`): the loop has
  no bound, as another producer may link a node before each attempt. It is lock-free,
  not wait-free; `OperationsReturn` says what does hold.
* `kMaxThreads` as a "soft upper-bound on live threads" in version 1: it bounds the
  threads that have *ever* registered, since entries are not given back (`overrun`).
* `ReclaimComplete` has an exception: what an owner pushes between the deleters and
  the `clear` of its bucket is dropped without being freed, in both versions.
* A contention rate is documented as a fraction; it is one up to the operations that
  are in flight (`RateIsFraction`).
* The stress tests with bursts claim that everything produced is consumed; a producer
  that has read the flag may still add one message (`AtMostOneLate`).

### Bounds, and why they are enough

* Nodes (`Nodes`) bound the number of enqueues: three enqueues give a `tail_` that
  lags while `head_` catches up with it, two consumers on one dummy, and locals that
  are stale by more than one position. Values: two, so that an order is visible.
* Three threads: a flipper, a pinned reader and a thread that does something in
  between. `PoolSize = 2` for three threads makes slots run out and be reused.
* `Batch = 1` makes every `retire` try to flip. The threshold only chooses when.
* `MaxEpoch` stops the epoch at 3 (2 in `EBRGrace`): at 3 the bucket of epoch 0 is
  reclaimed, so all three buckets take part. A thread at the CAS stays there at the
  bound; where that ends a behaviour the cfg switches the deadlock check off.
* `ScanAt = 1` makes every `hp::retire` scan; `SlotCount = 2` gives each of the two
  threads the chance of a slot of its own and of a shared one. Four enqueues let the
  retired list grow past its bound if scans did not shorten it. Both threads may exit,
  the consumer with a node in its list that a scan has found protected; the deadlock check
  is off because in the end nobody may be left.
* `EBRv1`: two entries for three threads make one registration fail the `assert`;
  four objects and four flips bring a bucket up for reclamation twice, the second time
  possibly by another thread. Only one thread uses Guards, which is enough for every
  scan to meet a pin; the proofs have no such limit.
* `HybridQueue`: `StallLimit = 2` lets a success and a failure differ. `MaxEpoch = 1`
  would let an epoch end if one could. Three enqueues retire up to three dummies.
* `LockBasedQueue`: four calls let an enqueue, two dequeues that meet at the mutex and
  an observer overlap, or a thrown copy and three calls that wait behind it.
* `Harness`: two messages from each of two producers for up to two consumers are the
  smallest programs in which order, a late message, and a count that is read while
  another thread updates it can go wrong; `MaxMade` bounds producers that run until
  they are told to stop; a bounded queue has room for one (`BoostCapacity`).
* Symmetry: of nodes, values or objects, and of threads only where they have equal
  roles and no liveness is checked.

### Fairness

`LiveSpec` assumes weak fairness of the steps of each thread in `Live`: a thread
that is in an operation and is not stopped for good makes its next access, which is
what a preemptive scheduler gives. Other threads may stop anywhere, and nobody has
to start an operation. An operation can be starved by others that keep succeeding;
the finite supply of nodes bounds how often that happens in the run, which therefore
shows that nobody waits for a *stopped* thread, not that nobody is ever overtaken.

`WrapperSpec` of `LockBasedQueue` assumes weak fairness of each thread's steps. A
`std::mutex` promises that somebody gets it, not who: weak fairness of `lock` is less
than a fair mutex, and the bounded number of calls lets everybody have it in the end.
`OperationsReturn` there lets a call off only if it has thrown itself, or if it waits at
the mutex for a thread that has.
`Harness` assumes weak fairness of each thread's steps: a scheduler that runs everyone,
as spinning and joining programs need.

## 4. The proofs

All are for arbitrary sets of threads, nodes, objects and values and arbitrary
bounds, from the named assumptions on the constants and the conditions that a theorem
states.

**MSQueueProofs.** `Spec => []IInv` (`Invariance`). `IInv` conjoins `TypeOK`,
`OneList`, `TailBetween` and `LocalsStayValid`, and is inductive: that a CAS does no
harm needs what its thread's stale locals still mean, and that they keep their
meaning needs the list. Corollaries: `TypeCorrect`, `OneListAlways`,
`TailBetweenAlways`, `LocalsStayValidAlways`.

`Linearizability`: `Spec => Linearizable`. The initial state
maps to `FifoQueue`'s, and each action, under the invariant, maps to one action of
`FifoQueue` or a stutter; the lemmas say how `Contents` changes when a node is linked
and when `head_` moves. `LinksAreFinal`: no link is overwritten.

**EBRProofs.** The first half, the argument about the library, is for every client:
`LibraryStepHolds` says that each operation and each access of `EBR` keeps
`LibraryInv`, `OutsideStepHolds` that everything else does. The second half applies it to
`EBRClient` (`Invariance`: `Spec => []IInv`); `EBRQueueProofs` and `HybridQueueProofs`
instantiate the module, the client's variables by constants, and apply it to the queues.
`LibraryInv` adds to types and `RegistryConsistent`: what the place of a thread says about its slot,
pin and locals (`Control`); where a scan has come to (`ScanState`: every blocker sits
in a slot the scan has not passed, and if the scan has loaded that slot it has loaded
the blocker); that a reclaimer's epoch is over (`ReclaimState`). The registry and the
scans need each other: a blocker cannot leave its slot while it is pinned, and a scan
that passes a slot needs to know who is in it. From it: `TypeCorrect`,
`RegistryStaysConsistent`, `PinsStopFlips` (`ScanSeesPins`) and `FlipsAreExclusive`
(`OneFlipPerEpoch`).

`ScanSeesPins` is the part of the grace-period argument that the code does get
right. That it does not add up to `NoLivePointerFreed` is what `EBRGrace` shows.

**EBRQueueProofs.** `QueueImplementsMSQueue`: whatever reclamation does, the accesses
of the composition to the queue are steps of `MSQueue`, so everything proved of
`MSQueue`, linearizability included (`QueueLinearizable`), holds of `lfq::Queue` — as long as nothing that
was freed is read, since the model's freed nodes keep their contents. `QueueInvariance`
adds to the two invariants what ties them together (`Glue`: who holds a Guard, and who
has a dummy left to retire) and `Once`: a dummy is in one thread's hands or in one
bucket, and behind `head_`. From it: `QueueKeepsLibrary`, `DummiesAreRetiredOnce`
(`RetiredOnce`), and `EpochStaysFrozen` (`EpochFrozen`): by induction everybody who is
pinned is pinned in epoch 0; a flipper is inside its own Guard, hence one of the
blockers of its own scan; and by `ScanSeesPins` a scan with a blocker does not get to
the CAS. `NothingFreedIsUsed` follows: with queue operations alone, and until the
first thread exits, nothing freed is accessed. `EBRQueueExit` shows that the condition
on exits cannot be dropped.

**HybridQueueProofs.** The same argument for the hybrid queue, whose threads can be in
one of three places more: the hazard pointers, a stall, a switch of modes.
`QueueImplementsMSQueue` and `QueueLinearizable` are as above. `ComposedAlways` is the inductive invariant:
`MSQueue`'s, the library's, `Where` (what the stage of its HybridGuard says about where
a thread is in the queue, in the epochs and in the hazard pointers, and that it is in
one of them at a time) and `Frozen`. They have to be proved together: a scan that would
flip has the scanner among its blockers only because the HybridGuard holds the pin
until `retire` is over, which is `Where`; that a stall moves nothing needs that epoch 0
is the only one, which is `Frozen`.
From it: `NothingIsReclaimed` (`NothingReclaimed`), `HybridTypesCorrect`
(`HybridTypeOK`), `QueueKeepsLibrary`, and `DummiesAreRetiredOnce` (`RetiredOnce`).
`SwitchReachesEverybody` (`SwitchReachesAll`) needs an invariant of its own,
`Switching`: who was registered when the switch began sits in the same slot until it
begins to exit, so that the loop over the slots has made it SLOW or will still come to
it; no mode goes back to FAST.

**EBRv1Proofs.** `Invariance` for version 1. The heart is that indices are taken once
each and the counter counts them (`Indices`), that an entry below a loop's bound which
is null belongs to a thread that has neither pinned nor retired yet, and where a scan
or a reclamation has come to. From it: `TypeCorrect`, `RegisteredStayVisible`,
`PinsStopFlips`, `FlipsAreExclusive`, `ReclamationsAreComplete`.

**HPQueueProofs.** `QueueImplementsMSQueue` and `QueueLinearizable`, as above: a validated `protect()` ends with
the very load that `MSQueue` makes. `ListInvariance` says that a dummy is in the hands
of one thread until it is deleted (`Once`), and that a scan has seen fewer pointers than
the number of the slot it has come to (`Short`). From it: `NodesAreFreedOnce`
(`FreedOnce`) and `ListsStayShort` (`RetiredBounded`).

What hazards protect is proved from two invariants more. `SlotInv`: a Guard's slot is
one of its thread's own, and the place of a thread in the queue tells which Guards it
has and how far their `protect()` is (`SlotInvariance`). `Safe`, inductive while no slot
is shared (`OwnSlots`): what `enqueue` and `empty` have validated is in the slot of
their Guard, is not freed, and every scan that has passed the slot with that node in its
list has seen it (`Protected`); what is about to be validated is already in the slot
(`Checking`). The step that needs the queue is the validation: a node that is still
`head_` or `tail_` has not been retired, so no scan has it in its list yet. From them:

* `OneGuardSuffices`: `enqueue` and `empty`, which have one Guard, access nothing that
  has been deleted, for any number of consumers, scans and exits, as long as no slot
  has been shared.
* `OneConsumerIsProtected`: with one consumer that holds of `dequeue` too
  (`NoUseAfterFree`). Its Guards do share a slot, but nobody else deletes.
* `OwnSlotsProtect`: `OwnSlotProtects` itself, the property of the run, for one consumer
  and when no other thread may exit.

The assumptions are needed. With two consumers the property is false (`HPQueueShared`).
With exits `[]OwnSlots` cannot be replaced by `OwnSlots` in the present state: a thread
that has shared a slot and exited, before or after the hazard in it was overwritten,
leaves a state in which nothing is shared, and a node that is no longer protected. With
two threads this happens only when the consumer exits, hence the second premise of
`OwnSlotProtects`; `HPQueueSafety` checks that the exit of the other does no harm.

`ExitsLoseLists` (`LostOnlyByExit`) is about the opposite failure, a node that nobody
deletes. Its invariant adds to the two above that a dummy which `dequeue` has unlinked
stays with it until it is retired (`HandedOver`), so that the set of the forgotten grows
by exits only, and then by what `Short` allows a list to hold between two operations.

**LockProofs.** `Invariance` for the mutex-based queue under its wrapper, from which
`MutexIsHeld`, `RateBounded` (with cardinalities of the operations in flight),
and `Linearizability`: the step under the mutex is the one atomic effect
of `FifoQueue`.

**HarnessProofs.** About the programs, whatever they are. `OrderIsKept` (`InOrder`) needs
no assumption at all: along the queue the messages of each producer are numbered
upwards, and whatever is still in it is later than what any consumer has measured
(`Orders`). `TypeCorrect` is from `ProgramsAssumption`, that no jump leaves its code,
which TLC evaluates for the programs of `Catalogue`. `BarrierHolds` says that
`StartTogether` follows from `BarrierForAll`, that the program counted right who comes to
its barrier; the proof is that of a barrier: all who arrive are among those who are
expected, and as many as are expected have arrived. That each program did count right
is in its text, and checked by the run.

`NothingIsLost` (`Conserved`) needs no assumption either: a message that has been made is
in the queue, refused or with one thread, in one of these places only. The other claims
hold because of the text of the programs, and are proved from
`Disciplined[program]`, which looks at that text and at no state:

* `OutlinesHold` (`Outlined`) and `NobodyInterferes` (`NoInterference`). The invariant `Outline` says that every fact a thread may
  rely on holds. A step keeps it for two reasons, each a section of the module: what
  holds stays true whatever the others do (nobody puts any more because no code has
  anything left to put, `Left`; the flag stays down because the main thread is past
  every store that raises it), and what a thread learns from its branch is so. For the
  second, a counter is worth what the threads have done (`CountsMatch`: nobody's work is
  counted twice, and what is missing is the last operation of a thread that is about to
  count it, or all of one that publishes in the end), and a program that puts each
  message by an instruction of its own has no more messages than its budget.
* `CountersAreRight` (`CountsAgree`): in the end nobody is about to count.
* `AllIsMeasured` (`EverythingMeasured`): the queue is known to be empty; or each thread
  has taken as much as it has put, the invariant `Settles` about the credits, so that
  nothing is left when all are done.
* `OneEachIsLate` (`AtMostOneLate`): a producer that has seen the flag up puts once more.

The theorems hold for every list of programs. That those of the repository are
`Disciplined` is what TLC shows, by `NoInterference` in the run; as it is a matter of their text
it takes no exploration, and with the constants of the cfg set to three producers or
three consumers and three messages each `Disciplined` is still true of every program.

`ReportsAreRight` (`StatsRight`) is for any number of latencies and buckets and assumes
nothing of the program. That a sequence can be sorted is proved by a minimal
counterexample among the lengths (`Sortable`), as the induction theorems are out of
reach; then the truncated position of a percentile is between the numbers below it and
those not above it, the buckets divide the latencies among them, and the largest is in
the last.

Only model-checked: `OperationsReturn` (twice) and `Terminates`, as liveness is beyond
the prover; that the programs of `Catalogue` are `Disciplined` (by `NoInterference`) and count right who
comes to their barriers (by `StartTogether`), as they are folded together out of data,
and what a fold computes is beyond the prover; and the violations.

## 5. Assumptions and abstractions

* Memory is sequentially consistent. The code uses acquire and release; stores that
  a later load overtakes (the pin of `Guard`, the hazard of `protect`) are not
  modelled.
* A control block is identified with its thread, and a thread that has exited does
  not come back. A new thread is another member of `Threads`.
* A bucket's two vectors change in one step, although the code's unsynchronised
  `push_back` and `clear` are a data race: only whole-operation outcomes are modelled.
* A freed node is never allocated again, so an ABA on a reused address appears as
  the use after free that precedes it.
* Back-off, padding and monitoring reads are left out, and values whose copy throws
  except in `ThreadSafeQueue`.
* The epoch does not wrap.
* `EBRv1`: reading an entry of the table and the `ThreadCtl` behind it is one access: the
  entry is stored once, and its `ThreadCtl` is never deleted. One reader in the run.
  The index returned by `fetch_add` is local, so the assertion on it is in that step.
* `HybridQueue`: a slot of the pool is there for every thread; the plain field `mode`,
  which others write while its owner reads, is atomic here.
  Loading a slot's `ctl` and writing `mode` through it is one access: a `ThreadCtl`
  deleted in between is undefined behaviour. The buckets that a stall moves are empty
  (`NothingReclaimed`), so how often `ctl` is read on the way makes no difference.
* `hazard_pointer.hpp` is the algorithm of `lfq::hp` apart from names; nothing includes
  it, and `HazardPointers` stands for both.
* `Harness`: operations of the queue are atomic; a thread that produces until it is
  stopped makes at most `MaxMade` messages (`Idle` keeps it from running on before the
  flag falls); the mutex around a vector of measurements is left out; the example's and
  the throughput benchmarks' monitors are one reader; `Throughput` and `BurstTraffic` run
  with one consumer, which keeps the run small: each consumer runs the same loop.
  Latencies are any small numbers, and means and deviations are left out.
  All workers are created in one step: one that is not yet created does what one that is
  not yet scheduled does. The watchdog of `ABAAndUseAfterFree` is a reader; when it stops
  the test, the test throws and claims nothing.

## 6. Plan

Done: the queue, its refinement, both versions of reclamation, hazard pointers and the
mutex-based queue and the hybrid queue, and the programs that drive the queues, all with
proofs.

What more could be modelled, in order:

1. Frees counted per object within `EBR` (a bucket reclaimed while its owner exits),
   and nested Guards.
2. What a thread does after `init_thread` or `acquire_slot` has thrown.
3. The epoch modulo a width that is not a multiple of three.
4. `Throughput` and `BurstTraffic` with several consumers: the rules of `Outlines` would
   be evaluated, the states not explored.

### Not modelled

* The destructors of the queues: single-threaded by contract.
* What follows a full pool: the thread stops in the models; in the code it is left with
  a dangling thread-local pointer, which is undefined behaviour.
* Weak memory: TLC's interleavings are sequentially consistent.
* `testEBRCustomDeleter`, a sequential test of `retire` with a deleter.
* The statistics that the throughput benchmarks reset while workers run: they are
  periods of the wall clock.
* The wrappers of the comparison benchmarks other than that of the lock-based queue, and
  the copies of queues and statistics inside test files: they pass calls on, or repeat
  the text of what is modelled.
* Timing, printing, CSV files, memory estimates, plots, build files.
