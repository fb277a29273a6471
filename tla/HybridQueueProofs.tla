-------------------------- MODULE HybridQueueProofs --------------------------
(* Proofs about lfq::HybridQueue, for every number of threads, nodes, values  *)
(* and slots and every stall limit: the composition is the queue of MSQueue   *)
(* and keeps the invariant of the library of epochs; no epoch ever ends, and  *)
(* no stall hands a node to the hazard pointers; each dummy is retired once;  *)
(* and a switch reaches every thread it is meant for.                         *)
EXTENDS HybridQueue, MSQueueProofs, FiniteSetTheorems

Objects == Nodes \cup Blanks
\* Its lemmas about the library, which mention nothing of EBRClient.
Lib == INSTANCE EBRProofs WITH
           Forcers <- {}, Outside <- {}, linked <- {}, refs <- {}, unlinked <- {}

----------------------------------------------------------------------------
(* The queue *)

LEMMA QueueStepsAreSteps == [QueueNext]_queueVars => [Next]_vars
<1> SUFFICES ASSUME [QueueNext]_queueVars PROVE [Next]_vars
  OBVIOUS
<1>1. CASE UNCHANGED queueVars
  BY <1>1 DEF queueVars
<1>2. ASSUME NEW t \in Threads, QueueCall(t) \/ Iterate(t) \/ QueueReturn(t) PROVE Next
  BY <1>2 DEF QueueCall, Iterate, QueueReturn, Next, Step
<1>3. ASSUME NEW t \in Threads,
             \/ MakeHpGuard(t) \/ Pin(t) \/ ReadMode(t) \/ Protect(t) \/ RetireDummy(t)
             \/ ClearHazard(t) \/ Unpin(t) \/ EndHpGuard(t) \/ ThreadExit(t)
      PROVE  UNCHANGED vars
  BY <1>3 DEF MakeHpGuard, Pin, ReadMode, Protect, RetireDummy, ClearHazard, Unpin, EndHpGuard, ThreadExit
<1>4. ASSUME NEW t \in Threads,
             \/ InsideEpochs(t) \/ InsideHazards(t)
             \/ Stalls(t) \/ SwitchMode(t) \/ MoveBucket(t) \/ TriggerScan(t)
      PROVE  UNCHANGED vars
  BY <1>4 DEF InsideEpochs, InsideHazards, Stalls, SwitchMode, MoveBucket, TriggerScan
<1> QED
  BY <1>1, <1>2, <1>3, <1>4 DEF QueueNext

\* Whatever reclamation does, the accesses to the queue are those of MSQueue.
THEOREM QueueImplementsMSQueue == QueueSpec => Spec
<1>1. QueueInit => Init
  BY DEF QueueInit
<1> QED
  BY <1>1, QueueStepsAreSteps, PTL DEF QueueSpec, Spec

\* So lfq::HybridQueue is a linearizable FIFO queue in either mode, as long as a freed
\* node keeps its contents; until a thread exits none is freed (NothingIsReclaimed).
THEOREM QueueLinearizable == QueueSpec => Linearizable
BY QueueImplementsMSQueue, Linearizability, PTL

----------------------------------------------------------------------------
(* The epochs *)

\* The operations of EBR that the queue calls.
Calls(t) ==
    \/ Ebr!Guard(t) \/ Ebr!Leave(t) \/ Ebr!Exit(t)
    \/ \E n \in Nodes : Ebr!Retire(t, n)

LEMMA CallsAreLibrarySteps ==
    ASSUME NEW t \in Threads, Calls(t)
    PROVE  Lib!LibraryStep(t)
<1> USE DEF Ebr!Begin, Lib!Begin, Ebr!Jump, Lib!Jump, Ebr!registry, Lib!registry, Ebr!loop, Lib!loop
<1>1. Ebr!Guard(t) => Lib!Guard(t)
  BY DEF Ebr!Guard, Lib!Guard
<1>2. Ebr!Leave(t) => Lib!Leave(t)
  BY DEF Ebr!Leave, Lib!Leave
<1>3. Ebr!Exit(t) => Lib!Exit(t)
  BY DEF Ebr!Exit, Lib!Exit
<1>4. \A n \in Nodes : Ebr!Retire(t, n) => Lib!Retire(t, n) /\ n \in Objects
  BY DEF Ebr!Retire, Lib!Retire, Objects
<1> QED
  BY <1>1, <1>2, <1>3, <1>4 DEF Calls, Lib!LibraryStep, Lib!Called

\* try_reclaim() takes the steps of try_flip().
LEMMA InsideIsEbrStep ==
    ASSUME NEW t \in Threads, InsideEpochs(t) \/ Stalls(t)
    PROVE  Ebr!EbrStep(t)
BY DEF InsideEpochs, Stalls, Registers, Pins, Retires, Scans, Flips, Exits, Ebr!EbrStep

LEMMA AccessesAreLibrarySteps ==
    ASSUME NEW t \in Threads, Ebr!EbrStep(t)
    PROVE  Lib!LibraryStep(t)
<1> USE DEF Ebr!Jump, Lib!Jump, Ebr!registry, Lib!registry, Ebr!loop, Lib!loop,
            Ebr!NextSlot, Lib!NextSlot, Ebr!AtLastSlot, Lib!AtLastSlot,
            Ebr!FlipReturns, Lib!FlipReturns, Ebr!PinnedInCur, Lib!PinnedInCur,
            Ebr!StillCur, Lib!StillCur, Ebr!IdxOld, Lib!IdxOld, Ebr!Bucket, Lib!Bucket,
            Ebr!ReclaimNext, Lib!ReclaimNext, Ebr!Release, Lib!Release, Ebr!Buckets, Lib!Buckets
<1>1. Ebr!Claim(t) => Lib!Claim(t)
  BY DEF Ebr!Claim, Lib!Claim
<1>2. Ebr!ClaimFail(t) => Lib!ClaimFail(t)
  BY DEF Ebr!ClaimFail, Lib!ClaimFail
<1>3. Ebr!Publish(t) => Lib!Publish(t)
  BY DEF Ebr!Publish, Lib!Publish
<1>4. Ebr!PinLoad(t) => Lib!PinLoad(t)
  BY DEF Ebr!PinLoad, Lib!PinLoad
<1>5. Ebr!PinStore(t) => Lib!PinStore(t)
  BY DEF Ebr!PinStore, Lib!PinStore
<1>6. Ebr!RetireLoad(t) => Lib!RetireLoad(t)
  BY DEF Ebr!RetireLoad, Lib!RetireLoad
<1>7. Ebr!RetirePush(t) => Lib!RetirePush(t)
  BY Zenon DEF Ebr!RetirePush, Lib!RetirePush, Ebr!Cardinality, Lib!Cardinality
<1>8. Ebr!FlipLoad(t) => Lib!FlipLoad(t)
  BY DEF Ebr!FlipLoad, Lib!FlipLoad
<1>9. Ebr!ScanCtl(t) => Lib!ScanCtl(t)
  BY DEF Ebr!ScanCtl, Lib!ScanCtl
<1>10. Ebr!ScanSkip(t) => Lib!ScanSkip(t)
  BY DEF Ebr!ScanSkip, Lib!ScanSkip
<1>11. Ebr!ScanPinned(t) => Lib!ScanPinned(t)
  BY DEF Ebr!ScanPinned, Lib!ScanPinned
<1>12. Ebr!ScanPasses(t) => Lib!ScanPasses(t)
  BY DEF Ebr!ScanPasses, Lib!ScanPasses
<1>13. Ebr!Flip(t) => Lib!Flip(t)
  BY DEF Ebr!Flip, Lib!Flip
<1>14. Ebr!FlipFail(t) => Lib!FlipFail(t)
  BY DEF Ebr!FlipFail, Lib!FlipFail
<1>15. Ebr!ReclaimCtl(t) => Lib!ReclaimCtl(t)
  BY DEF Ebr!ReclaimCtl, Lib!ReclaimCtl
<1>16. Ebr!ReclaimSkip(t) => Lib!ReclaimSkip(t)
  BY DEF Ebr!ReclaimSkip, Lib!ReclaimSkip
<1>17. Ebr!ReclaimFree(t) => Lib!ReclaimFree(t)
  BY DEF Ebr!ReclaimFree, Lib!ReclaimFree
<1>18. Ebr!ReclaimClear(t) => Lib!ReclaimClear(t)
  BY DEF Ebr!ReclaimClear, Lib!ReclaimClear
<1>19. Ebr!ExitCtl(t) => Lib!ExitCtl(t)
  BY DEF Ebr!ExitCtl, Lib!ExitCtl
<1>20. Ebr!ExitOwner(t) => Lib!ExitOwner(t)
  BY DEF Ebr!ExitOwner, Lib!ExitOwner
<1>21. Ebr!ExitDelete(t) => Lib!ExitDelete(t)
  BY DEF Ebr!ExitDelete, Lib!ExitDelete
<1> QED
  BY <1>1, <1>2, <1>3, <1>4, <1>5, <1>6, <1>7, <1>8, <1>9, <1>10, <1>11, <1>12, <1>13, <1>14, <1>15, <1>16, <1>17, <1>18, <1>19, <1>20, <1>21 DEF Ebr!EbrStep, Lib!EbrStep, Lib!LibraryStep

\* The assumptions of the library, whose objects are the nodes and the null
\* pointers that are retired.
LEMMA LibraryAssumptions ==
    /\ PoolSize \in Nat \ {0} /\ Batch \in Nat \ {0} /\ MaxEpoch \in Nat
    /\ NULL \notin Threads /\ NULL \notin Objects
BY HybridSizeAssumption, HybridNameAssumption, NullAssumption DEF Objects

----------------------------------------------------------------------------
(* The composition *)

\* Where a thread is in EBR's operations, by the stage of its HybridGuard.  When
\* it scans, it is in its own Guard, pinned in the only epoch there is, and so a
\* blocker of its own scan.
InEpochs(t) ==
    /\ guard[t] = "none" => local[t] = {} /\ at[t] \in {"idle", "exit_ctl", "exit_owner", "exit_delete"}
    /\ guard[t] \in {"hp", "unpinned"} => local[t] = {} /\ at[t] = "idle"
    /\ guard[t] = "pin" =>
         /\ at[t] \in {"idle", "claim", "publish", "pin_load", "pin_store", "exhausted"}
         /\ local[t] = IF at[t] = "idle" THEN {0} ELSE {}
    /\ guard[t] \in {"protect", "held"} => local[t] = {0} /\ at[t] = "idle"
    /\ guard[t] = "over" =>
         /\ local[t] = {0}
         /\ at[t] \in {"idle", "retire_load", "retire_push", "flip_load", "scan_ctl", "scan_epoch"}
    /\ op[t] \in {"none", "pin_load"} /\ cur[t] = 0 /\ old[t] = 0
    /\ at[t] \in {"scan_ctl", "scan_epoch"} => t \in blockers[t]

\* Where it is in those of the hazard pointers.
InHazards(t) ==
    /\ guard[t] \in {"none", "pin", "held", "unpinned"} => hp_at[t] = "idle"
    /\ guard[t] = "hp" => hp_at[t] \in {"idle", "acquire", "exhausted"}
    /\ guard[t] = "protect" => hp_at[t] \in {"idle", "store", "check"} /\ mode[t] = "SLOW"
    /\ guard[t] = "over" => hp_at[t] \in {"idle", "scan"}
    /\ IF guard[t] = "none" \/ (guard[t] = "hp" /\ hp_at[t] # "idle")
       THEN guards[t] = <<>> ELSE Len(guards[t]) = 1
    /\ t \in use_hp => mode[t] = "SLOW" /\ guard[t] \in {"held", "over"}

\* It is in one of them at a time, and in an operation of the queue whenever it
\* has a HybridGuard.
InOne(t) ==
    /\ at[t] # "idle" => hp_at[t] = "idle" /\ stall[t] = "none"
    /\ stall[t] # "none" => guard[t] = "over" /\ at_slot[t] # 0
    /\ stall[t] = "none" => stuck[t] < StallLimit
    /\ retiring[t] # {} => guard[t] = "over" /\ Free(t)
    /\ guard[t] \in {"hp", "pin", "protect", "held"} => pc[t] \notin {"idle", "return"}
    /\ guard[t] \in {"over", "unpinned"} => pc[t] # "idle"

Where(t) == InEpochs(t) /\ InHazards(t) /\ InOne(t)

\* The epoch never ends, what is retired goes into its bucket and stays there.
Frozen ==
    /\ epoch = 0
    /\ gone = {} => freed \subseteq Blanks
    /\ \A t \in Threads, b \in 1..2 : bag[t][b] = {}
    /\ \A t \in Threads : retired[t] \subseteq Blanks

\* The types of what the library of epochs does not have.
Types ==
    /\ mode \in [Threads -> {"FAST", "SLOW"}]
    /\ stuck \in [Threads -> 0..StallLimit]
    /\ stall \in [Threads -> {"none", "switch", "move", "trigger"}]
    /\ at_slot \in [Threads -> 0..PoolSize]
    /\ old \in [Threads -> 0..MaxEpoch]
    /\ present \in [Threads -> SUBSET Threads]
    /\ guard \in [Threads -> {"none", "hp", "pin", "protect", "held", "over", "unpinned"}]
    /\ use_hp \subseteq Threads
    /\ retiring \in [Threads -> SUBSET Nodes]
    /\ freed \subseteq Objects
    /\ retired \in [Threads -> SUBSET Objects]
    /\ hp_at \in [Threads -> Hp!Places]
    /\ hp_index \in [Threads -> Nat]
    /\ mine \in [Threads -> [1..2 -> Nat]]
    /\ guards \in [Threads -> Seq(Nat)]
    /\ snapshot \in [Threads -> SUBSET Objects]

----------------------------------------------------------------------------
(* What a step of one thread leaves to the others *)

Undisturbed(u) ==
    /\ at'[u] = at[u] /\ op'[u] = op[u] /\ cur'[u] = cur[u] /\ local'[u] = local[u]
    /\ u \in blockers[u] => u \in blockers'[u]
    /\ hp_at'[u] = hp_at[u] /\ guards'[u] = guards[u]
    /\ guard'[u] = guard[u] /\ retiring'[u] = retiring[u] /\ pc'[u] = pc[u]
    /\ stall'[u] = stall[u] /\ stuck'[u] = stuck[u] /\ old'[u] = old[u] /\ at_slot'[u] = at_slot[u]
    /\ mode[u] = "SLOW" => mode'[u] = "SLOW"
    /\ u \in use_hp' => u \in use_hp

LEMMA UndisturbedStays ==
    ASSUME NEW u \in Threads, Where(u), Undisturbed(u)
    PROVE  Where(u)'
<1>1. InEpochs(u)'
  BY DEF Where, InEpochs, Undisturbed
<1>2. InHazards(u)'
  BY DEF Where, InHazards, Undisturbed
<1>3. InOne(u)'
  BY DEF Where, InOne, Undisturbed, Free
<1> QED
  BY <1>1, <1>2, <1>3 DEF Where

\* The epochs of the others.
EbrLeaves(u) ==
    /\ at'[u] = at[u] /\ op'[u] = op[u] /\ cur'[u] = cur[u] /\ local'[u] = local[u]
    /\ u \in blockers[u] => u \in blockers'[u]

LEMMA EbrLeavesOthers ==
    ASSUME Lib!LibraryInv, NEW t \in Threads, Calls(t) \/ Ebr!EbrStep(t), NEW u \in Threads \ {t}
    PROVE  EbrLeaves(u)
<1> USE DEF EbrLeaves, Ebr!Jump, Ebr!NextSlot, Ebr!ReclaimNext, Ebr!FlipReturns, Ebr!registry, Ebr!loop,
            Lib!LibraryInv, Lib!EbrTypeOK
<1>1. CASE Calls(t)
  <2>1. CASE Ebr!Guard(t) \/ Ebr!Exit(t) \/ \E n \in Nodes : Ebr!Retire(t, n)
    BY <2>1 DEF Ebr!Guard, Ebr!Exit, Ebr!Retire, Ebr!Begin
  <2>2. CASE Ebr!Leave(t)
    BY <2>2 DEF Ebr!Leave
  <2> QED
    BY <1>1, <2>1, <2>2 DEF Calls
<1>2. CASE Ebr!Claim(t) \/ Ebr!ClaimFail(t) \/ Ebr!Publish(t) \/ Ebr!PinLoad(t) \/ Ebr!PinStore(t)
           \/ Ebr!RetireLoad(t) \/ Ebr!RetirePush(t)
  BY <1>2 DEF Ebr!Claim, Ebr!ClaimFail, Ebr!Publish, Ebr!PinLoad, Ebr!PinStore, Ebr!RetireLoad, Ebr!RetirePush
<1>3. CASE Ebr!FlipLoad(t) \/ Ebr!ScanCtl(t) \/ Ebr!ScanSkip(t) \/ Ebr!ScanPinned(t) \/ Ebr!ScanPasses(t)
           \/ Ebr!Flip(t) \/ Ebr!FlipFail(t)
  BY <1>3 DEF Ebr!FlipLoad, Ebr!ScanCtl, Ebr!ScanSkip, Ebr!ScanPinned, Ebr!ScanPasses, Ebr!Flip, Ebr!FlipFail
<1>4. CASE Ebr!ReclaimCtl(t) \/ Ebr!ReclaimSkip(t) \/ Ebr!ReclaimFree(t) \/ Ebr!ReclaimClear(t)
  BY <1>4 DEF Ebr!ReclaimCtl, Ebr!ReclaimSkip, Ebr!ReclaimFree, Ebr!ReclaimClear
<1>5. CASE Ebr!ExitCtl(t) \/ Ebr!ExitOwner(t) \/ Ebr!ExitDelete(t)
  BY <1>5 DEF Ebr!ExitCtl, Ebr!ExitOwner, Ebr!ExitDelete
<1> QED
  BY <1>1, <1>2, <1>3, <1>4, <1>5 DEF Ebr!EbrStep

\* The hazard pointers of the others.
HpCalls(t) ==
    \/ Hp!GuardOnOwnSlot(t) \/ Hp!GuardNeedsSlot(t) \/ Hp!Clear(t, 1) \/ Hp!EndGuard(t) \/ Hp!Exit(t)
    \/ Hp!ProtectLoad(t, head) \/ Hp!ProtectStore(t, 1) \/ Hp!ProtectRetries(t, head) \/ Hp!ProtectReturns(t, head)
    \/ \E o : Hp!Retire(t, o)

HpLeaves(u) == hp_at'[u] = hp_at[u] /\ guards'[u] = guards[u]

LEMMA HpLeavesOthers ==
    ASSUME Types, NEW t \in Threads, HpCalls(t) \/ Hp!HpStep(t), NEW u \in Threads \ {t}
    PROVE  HpLeaves(u)
<1> USE DEF HpLeaves, Hp!Jump, Types
<1>1. CASE HpCalls(t)
  <2>1. \E p : hp_at' = [hp_at EXCEPT ![t] = p]
    BY <1>1 DEF HpCalls, Hp!GuardOnOwnSlot, Hp!GuardNeedsSlot, Hp!Clear, Hp!EndGuard, Hp!Exit, Hp!ProtectLoad,
       Hp!ProtectStore, Hp!ProtectRetries, Hp!ProtectReturns, Hp!ProtectEnds, Hp!Retire
  <2>2. \E x : guards' = [guards EXCEPT ![t] = x]
    <3>1. guards = [guards EXCEPT ![t] = guards[t]]
      OBVIOUS
    <3> QED
      BY <1>1, <3>1 DEF HpCalls, Hp!GuardOnOwnSlot, Hp!GuardNeedsSlot, Hp!Clear, Hp!EndGuard, Hp!Exit, Hp!ProtectLoad,
         Hp!ProtectStore, Hp!ProtectRetries, Hp!ProtectReturns, Hp!ProtectEnds, Hp!Retire
  <2> QED
    BY <2>1, <2>2
<1>2. CASE Hp!HpStep(t)
  BY SMTT(30), <1>2 DEF Hp!HpStep, Hp!Acquire, Hp!AcquireFail, Hp!ScanLoad
<1> QED
  BY <1>1, <1>2

----------------------------------------------------------------------------
(* The invariant of the library of epochs is kept *)

\* What the queue keeps true of itself, short of the way of a dummy.
Composed ==
    /\ IInv
    /\ Lib!LibraryInv
    /\ Types
    /\ \A t \in Threads : Where(t)
    /\ Frozen

\* Moving a bucket that is empty changes nothing.
LEMMA MovedBucketIsEmpty ==
    ASSUME Composed, NEW t \in Threads, MoveBucket(t)
    PROVE  UNCHANGED bag
<1>1. bag \in [Threads -> [0..2 -> SUBSET Objects]] /\ old[t] = 0
  BY DEF Composed, Lib!LibraryInv, Lib!EbrTypeOK, Lib!Buckets, Where, InEpochs
<1>2. IdxOld(t) = 1
  BY <1>1 DEF IdxOld, Ebr!Bucket
<1>3. CASE bag' = [u \in Threads |-> [b \in 0..2 |-> IF u \in ThisCtl(t) /\ b = IdxOld(t) THEN {} ELSE bag[u][b]]]
  <2>1. ASSUME NEW u \in Threads, NEW b \in 0..2
        PROVE  (IF u \in ThisCtl(t) /\ b = IdxOld(t) THEN {} ELSE bag[u][b]) = bag[u][b]
    BY <1>2 DEF Composed, Frozen
  <2>2. bag' = [u \in Threads |-> [b \in 0..2 |-> bag[u][b]]]
    BY <1>3, <2>1, Zenon
  <2> QED
    BY <1>1, <2>2
<1> QED
  BY <1>3 DEF MoveBucket, Ebr!Buckets

\* A scan deletes what it does not keep of its thread's list, which only shrinks.
LEMMA ScansDeleteRetired ==
    ASSUME Types, NEW t \in Threads, Hp!HpStep(t)
    PROVE  /\ freed' \subseteq freed \cup retired[t]
           /\ \E kept : kept \subseteq retired[t] /\ retired' = [retired EXCEPT ![t] = kept]
<1> USE DEF Types
<1>0. retired = [retired EXCEPT ![t] = retired[t]]
  OBVIOUS
<1>1. CASE Hp!Acquire(t) \/ Hp!AcquireFail(t)
  BY <1>0, <1>1 DEF Hp!Acquire, Hp!AcquireFail
<1>2. CASE Hp!ScanLoad(t)
  <2>1. CASE Hp!LastSlot(t)
    <3>1. PICK spared : /\ freed' = freed \cup (retired[t] \ spared)
                      /\ retired' = [retired EXCEPT ![t] = retired[t] \cap spared]
      BY <1>2, <2>1 DEF Hp!ScanLoad, Hp!Kept
    <3> QED
      BY <3>1
  <2>2. CASE ~Hp!LastSlot(t)
    BY <1>0, <1>2, <2>2 DEF Hp!ScanLoad
  <2> QED
    BY <2>1, <2>2
<1> QED
  BY <1>1, <1>2 DEF Hp!HpStep

\* Every action is a step of the library of epochs, or one that leaves it alone
\* but for what the hazard pointers delete.
LEMMA QueueStepsInEpochs ==
    ASSUME Composed, NEW t \in Threads,
           \/ QueueCall(t) \/ MakeHpGuard(t) \/ Pin(t) \/ ReadMode(t) \/ Protect(t)
           \/ Iterate(t) \/ RetireDummy(t)
           \/ ClearHazard(t) \/ Unpin(t) \/ EndHpGuard(t) \/ QueueReturn(t) \/ ThreadExit(t)
           \/ InsideEpochs(t) \/ InsideHazards(t)
           \/ Stalls(t) \/ SwitchMode(t) \/ MoveBucket(t) \/ TriggerScan(t)
    PROVE  \/ Calls(t) \/ Ebr!EbrStep(t)
           \/ UNCHANGED epochs /\ UNCHANGED freed
           \/ UNCHANGED epochs /\ Hp!HpStep(t)
<1>1. CASE QueueCall(t) \/ ReadMode(t) \/ Iterate(t) \/ QueueReturn(t) \/ SwitchMode(t)
  BY <1>1 DEF QueueCall, ReadMode, Iterate, QueueReturn, SwitchMode
<1>2. CASE MakeHpGuard(t) \/ Protect(t) \/ ClearHazard(t) \/ EndHpGuard(t) \/ TriggerScan(t)
  BY <1>2 DEF MakeHpGuard, Protect, ClearHazard, EndHpGuard, TriggerScan
<1>3. CASE Pin(t) \/ RetireDummy(t) \/ Unpin(t) \/ ThreadExit(t)
  BY <1>3 DEF Pin, RetireDummy, Unpin, ThreadExit, Calls, Composed, Types
<1>4. CASE InsideEpochs(t) \/ Stalls(t)
  BY <1>4, InsideIsEbrStep
<1>5. CASE InsideHazards(t)
  BY <1>5 DEF InsideHazards
<1>6. CASE MoveBucket(t)
  <2>1. UNCHANGED bag
    BY <1>6, MovedBucketIsEmpty
  <2>2. UNCHANGED freed
    BY <1>6 DEF MoveBucket, Hp!Retire
  <2> QED
    BY <1>6, <2>1, <2>2 DEF MoveBucket, epochs
<1> QED
  BY <1>1, <1>2, <1>3, <1>4, <1>5, <1>6

LEMMA LibraryKept ==
    ASSUME Composed, [QueueNext]_queueVars
    PROVE  Lib!LibraryInv'
<1> USE DEF Composed
<1>1. ASSUME UNCHANGED epochs, freed' \subseteq Objects PROVE Lib!LibraryInv'
  <2>1. UNCHANGED <<epoch, Lib!registry, local, bag, at, op, Lib!loop, item, blockers>>
    BY <1>1 DEF epochs, Lib!registry, Lib!loop
  <2> QED
    BY <1>1, <2>1, Lib!OutsideDeletionHolds, LibraryAssumptions
<1>2. freed \subseteq Objects
  BY DEF Types
<1>3. CASE UNCHANGED queueVars
  BY <1>1, <1>2, <1>3 DEF queueVars
<1>4. ASSUME NEW t \in Threads, Calls(t) \/ Ebr!EbrStep(t) PROVE Lib!LibraryInv'
  BY <1>4, CallsAreLibrarySteps, AccessesAreLibrarySteps, Lib!LibraryStepHolds, LibraryAssumptions
<1>5. ASSUME NEW t \in Threads, UNCHANGED epochs, Hp!HpStep(t) PROVE Lib!LibraryInv'
  <2>1. freed' \subseteq Objects
    BY <1>5, ScansDeleteRetired DEF Types
  <2> QED
    BY <1>1, <1>5, <2>1
<1>6. ASSUME NEW t \in Threads,
             \/ QueueCall(t) \/ MakeHpGuard(t) \/ Pin(t) \/ ReadMode(t) \/ Protect(t)
             \/ Iterate(t) \/ RetireDummy(t)
             \/ ClearHazard(t) \/ Unpin(t) \/ EndHpGuard(t) \/ QueueReturn(t) \/ ThreadExit(t)
             \/ InsideEpochs(t) \/ InsideHazards(t)
             \/ Stalls(t) \/ SwitchMode(t) \/ MoveBucket(t) \/ TriggerScan(t)
      PROVE  Lib!LibraryInv'
  <2>1. \/ Calls(t) \/ Ebr!EbrStep(t)
        \/ UNCHANGED epochs /\ UNCHANGED freed
        \/ UNCHANGED epochs /\ Hp!HpStep(t)
    BY <1>6, QueueStepsInEpochs
  <2>2. CASE UNCHANGED epochs /\ UNCHANGED freed
    BY <1>1, <1>2, <2>2
  <2> QED
    BY <1>4, <1>5, <2>1, <2>2
<1> QED
  BY <1>3, <1>6 DEF QueueNext

----------------------------------------------------------------------------
(* Types *)

LEMMA ChoiceInRange ==
    ASSUME Types, NEW t \in Threads
    PROVE  Hp!Choice(t) \in 1..2
<1>1. CASE \A k \in 1..2 : mine[t][k] = 0
  BY <1>1 DEF Hp!Choice, Hp!HazardsPerThread
<1>2. CASE \E k \in 1..2 : mine[t][k] # 0
  <2>1. \E k \in 1..2 : mine[t][k] # 0 /\ \A j \in 1..(k - 1) : mine[t][j] = 0
    <3>1. CASE mine[t][1] # 0
      <4>1. \A j \in 1..(1 - 1) : mine[t][j] = 0
        OBVIOUS
      <4> QED
        BY <3>1, <4>1
    <3>2. CASE mine[t][1] = 0
      <4>1. mine[t][2] # 0
        BY <1>2, <3>2
      <4>2. \A j \in 1..(2 - 1) : mine[t][j] = 0
        BY <3>2
      <4> QED
        BY <4>1, <4>2
    <3> QED
      BY <3>1, <3>2
  <2> QED
    BY <1>2, <2>1 DEF Hp!Choice, Hp!HazardsPerThread
<1> QED
  BY <1>1, <1>2

HpTypes ==
    /\ retired \in [Threads -> SUBSET Objects]
    /\ hp_at \in [Threads -> Hp!Places]
    /\ hp_index \in [Threads -> Nat]
    /\ mine \in [Threads -> [1..2 -> Nat]]
    /\ guards \in [Threads -> Seq(Nat)]
    /\ snapshot \in [Threads -> SUBSET Objects]

LEMMA HpTypesStep ==
    ASSUME Types, NEW t \in Threads,
           \/ Hp!GuardOnOwnSlot(t) \/ Hp!GuardNeedsSlot(t) \/ Hp!Clear(t, 1) \/ Hp!EndGuard(t) \/ Hp!Exit(t)
           \/ Hp!ProtectLoad(t, head) \/ Hp!ProtectStore(t, 1) \/ Hp!ProtectRetries(t, head) \/ Hp!ProtectReturns(t, head)
           \/ \E o \in Objects : Hp!Retire(t, o)
           \/ Hp!HpStep(t)
    PROVE  HpTypes'
<1> USE DEF Types, HpTypes, Hp!Jump, Hp!Places
<1>1. CASE Hp!GuardOnOwnSlot(t) \/ Hp!GuardNeedsSlot(t)
  <2>1. mine[t][Hp!Choice(t)] \in Nat
    BY ChoiceInRange
  <2>2. Append(guards[t], mine[t][Hp!Choice(t)]) \in Seq(Nat)
    BY <2>1
  <2>3. CASE Hp!GuardOnOwnSlot(t)
    <3>1. /\ hp_at' = [hp_at EXCEPT ![t] = "idle"]
          /\ guards' = [guards EXCEPT ![t] = Append(guards[t], mine[t][Hp!Choice(t)])]
          /\ UNCHANGED <<retired, hp_index, mine, snapshot>>
      BY <2>3 DEF Hp!GuardOnOwnSlot
    <3> QED
      BY <2>2, <3>1
  <2>4. CASE Hp!GuardNeedsSlot(t)
    BY <2>4 DEF Hp!GuardNeedsSlot
  <2> QED
    BY <1>1, <2>3, <2>4
<1>2. CASE Hp!Clear(t, 1) \/ Hp!Exit(t)
  <2>1. CASE Hp!Clear(t, 1)
    BY <2>1 DEF Hp!Clear
  <2>2. CASE Hp!Exit(t)
    <3>1. /\ hp_at' = [hp_at EXCEPT ![t] = "idle"] /\ retired' = [retired EXCEPT ![t] = {}]
          /\ mine' = [mine EXCEPT ![t] = [k \in 1..2 |-> 0]]
          /\ UNCHANGED <<hp_index, guards, snapshot>>
      BY <2>2 DEF Hp!Exit, Hp!HazardsPerThread
    <3>2. [k \in 1..2 |-> 0] \in [1..2 -> Nat]
      OBVIOUS
    <3> QED
      BY <3>1, <3>2
  <2> QED
    BY <1>2, <2>1, <2>2
<1>3. CASE Hp!EndGuard(t)
  <2>1. /\ guards[t] # <<>> /\ hp_at' = [hp_at EXCEPT ![t] = "idle"]
        /\ guards' = [guards EXCEPT ![t] = SubSeq(guards[t], 1, Len(guards[t]) - 1)]
        /\ UNCHANGED <<retired, hp_index, mine, snapshot>>
    BY <1>3 DEF Hp!EndGuard
  <2>2. guards[t] \in Seq(Nat) /\ Len(guards[t]) \in Nat /\ Len(guards[t]) # 0
    BY <2>1, EmptySeq
  <2>3. SubSeq(guards[t], 1, Len(guards[t]) - 1) \in Seq(Nat)
    BY SMTT(30), <2>2, SubSeqProperties
  <2> QED
    BY <2>1, <2>3
<1>4. CASE Hp!ProtectLoad(t, head) \/ Hp!ProtectStore(t, 1) \/ Hp!ProtectRetries(t, head) \/ Hp!ProtectReturns(t, head)
  <2>1. (\E p \in Hp!Places : hp_at' = [hp_at EXCEPT ![t] = p]) /\ UNCHANGED <<retired, hp_index, mine, guards, snapshot>>
    BY <1>4 DEF Hp!ProtectLoad, Hp!ProtectStore, Hp!ProtectRetries, Hp!ProtectReturns, Hp!ProtectEnds
  <2> QED
    BY <2>1
<1>5. ASSUME NEW o \in Objects, Hp!Retire(t, o) PROVE HpTypes'
  <2>1. /\ \E p \in Hp!Places : hp_at' = [hp_at EXCEPT ![t] = p]
        /\ retired' = [retired EXCEPT ![t] = retired[t] \cup {o}]
        /\ \E i \in {0, 1} : hp_index' = [hp_index EXCEPT ![t] = i]
        /\ UNCHANGED <<mine, guards, snapshot>>
    BY <1>5 DEF Hp!Retire
  <2> QED
    BY <2>1
<1>6. CASE Hp!Acquire(t)
  <2>1. /\ hp_at' = [hp_at EXCEPT ![t] = "idle"]
        /\ mine' = [mine EXCEPT ![t] = [mine[t] EXCEPT ![Hp!Choice(t)] = hp_index[t]]]
        /\ guards' = [guards EXCEPT ![t] = Append(guards[t], hp_index[t])]
        /\ hp_index' = [hp_index EXCEPT ![t] = 0]
        /\ UNCHANGED <<retired, snapshot>>
    BY <1>6 DEF Hp!Acquire
  <2>2. [mine[t] EXCEPT ![Hp!Choice(t)] = hp_index[t]] \in [1..2 -> Nat]
    BY ChoiceInRange
  <2> QED
    BY <2>1, <2>2
<1>7. CASE Hp!AcquireFail(t)
  <2>1. /\ \E p \in Hp!Places : hp_at' = [hp_at EXCEPT ![t] = p]
        /\ hp_index' = [hp_index EXCEPT ![t] = IF Hp!LastSlot(t) THEN 0 ELSE hp_index[t] + 1]
        /\ UNCHANGED <<retired, mine, guards, snapshot>>
    BY <1>7 DEF Hp!AcquireFail, Hp!NextIndex
  <2>2. hp_index[t] \in Nat
    OBVIOUS
  <2>3. hp_index' \in [Threads -> Nat]
    BY <2>1, <2>2
  <2>4. hp_at' \in [Threads -> Hp!Places]
    BY <2>1
  <2> QED
    BY <2>1, <2>3, <2>4
<1>8. CASE Hp!ScanLoad(t)
  <2>1. \E kept : kept \subseteq retired[t] /\ retired' = [retired EXCEPT ![t] = kept]
    BY <1>8, ScansDeleteRetired DEF Hp!HpStep
  <2>2. \E s \in SUBSET Objects : snapshot' = [snapshot EXCEPT ![t] = s]
    <3>1. snapshot[t] \cup ({hazard[hp_index[t]]} \cap (Nodes \cup Blanks)) \in SUBSET Objects
      BY DEF Objects
    <3> QED
      BY <1>8, <3>1 DEF Hp!ScanLoad
  <2>3. (\E p \in Hp!Places : hp_at' = [hp_at EXCEPT ![t] = p]) /\ UNCHANGED <<mine, guards>>
    BY <1>8 DEF Hp!ScanLoad
  <2>4. \E i \in Nat : hp_index' = [hp_index EXCEPT ![t] = i]
    <3>1. (IF hp_index[t] = SlotCount THEN 0 ELSE hp_index[t] + 1) \in Nat
      OBVIOUS
    <3>2. hp_index' = [hp_index EXCEPT ![t] = IF hp_index[t] = SlotCount THEN 0 ELSE hp_index[t] + 1]
      BY <1>8 DEF Hp!ScanLoad, Hp!NextIndex, Hp!LastSlot
    <3> QED
      BY <3>1, <3>2, Zenon
  <2> QED
    BY <2>1, <2>2, <2>3, <2>4
<1> QED
  BY <1>1, <1>2, <1>3, <1>4, <1>5, <1>6, <1>7, <1>8 DEF Hp!HpStep

\* The rest of the types.
ControlTypes ==
    /\ mode \in [Threads -> {"FAST", "SLOW"}]
    /\ stuck \in [Threads -> 0..StallLimit]
    /\ stall \in [Threads -> {"none", "switch", "move", "trigger"}]
    /\ at_slot \in [Threads -> 0..PoolSize]
    /\ old \in [Threads -> 0..MaxEpoch]
    /\ present \in [Threads -> SUBSET Threads]
    /\ guard \in [Threads -> {"none", "hp", "pin", "protect", "held", "over", "unpinned"}]
    /\ use_hp \subseteq Threads
    /\ retiring \in [Threads -> SUBSET Nodes]

\* Moving a bucket hands no object to the hazard pointers.
LEMMA NothingIsMoved ==
    ASSUME Composed, NEW t \in Threads, MoveBucket(t)
    PROVE  UNCHANGED <<hazards, freed>>
<1>1. bag \in [Threads -> [0..2 -> SUBSET Objects]] /\ old[t] = 0
  BY DEF Composed, Lib!LibraryInv, Lib!EbrTypeOK, Lib!Buckets, Where, InEpochs
<1>2. IdxOld(t) = 1
  BY <1>1 DEF IdxOld, Ebr!Bucket
<1>3. ThisCtl(t) \subseteq Threads
  <2>1. at_slot[t] \in 1..PoolSize
    BY HybridSizeAssumption DEF MoveBucket, Composed, Types, Where, InOne
  <2> QED
    BY <2>1 DEF ThisCtl, Composed, Lib!LibraryInv, Lib!EbrTypeOK, Lib!Slots
<1>4. \A u \in ThisCtl(t) : bag[u][IdxOld(t)] = {}
  BY <1>2, <1>3 DEF Composed, Frozen
<1> QED
  BY <1>4 DEF MoveBucket

LEMMA NextSlotTypes ==
    ASSUME Types, NEW t \in Threads, NEW stage \in {"switch", "move"}, NEW then \in {"move", "trigger"},
           NextSlot(t, stage, then)
    PROVE  stall' \in [Threads -> {"none", "switch", "move", "trigger"}] /\ at_slot' \in [Threads -> 0..PoolSize]
<1>1. PoolSize \in Nat \ {0} /\ at_slot[t] \in 0..PoolSize
  BY HybridSizeAssumption DEF Types
<1>2. (IF LastOne(at_slot[t]) THEN 1 ELSE at_slot[t] + 1) \in 0..PoolSize
  BY <1>1 DEF LastOne
<1>3. stall' \in [Threads -> {"none", "switch", "move", "trigger"}]
  BY DEF NextSlot, Types
<1> QED
  BY <1>2, <1>3 DEF NextSlot, Types

LEMMA ControlTypesStep ==
    ASSUME Composed, [QueueNext]_queueVars
    PROVE  ControlTypes'
<1>0. ControlTypes
  BY DEF Composed, Types, ControlTypes
<1> USE <1>0 DEF ControlTypes
<1>1. CASE UNCHANGED queueVars
  BY <1>1 DEF queueVars, control, glue
<1>2. ASSUME NEW t \in Threads, QueueCall(t) \/ QueueReturn(t) \/ InsideHazards(t) PROVE ControlTypes'
  BY <1>2 DEF QueueCall, QueueReturn, InsideHazards, control, glue
<1>3. ASSUME NEW t \in Threads, MakeHpGuard(t) \/ Pin(t) \/ ReadMode(t) PROVE ControlTypes'
  <2>1. (\E g \in {"hp", "pin", "protect", "held"} : guard' = [guard EXCEPT ![t] = g]) /\ UNCHANGED <<control, use_hp, retiring>>
    BY <1>3 DEF MakeHpGuard, Pin, ReadMode, Advance
  <2> QED
    BY <2>1 DEF control
<1>4. ASSUME NEW t \in Threads, Protect(t) PROVE ControlTypes'
  <2>1. /\ guard' = guard \/ guard' = [guard EXCEPT ![t] = "held"]
        /\ use_hp' = use_hp \/ use_hp' = use_hp \cup {t}
        /\ UNCHANGED <<control, retiring>>
    BY <1>4 DEF Protect, Advance
  <2> QED
    BY <2>1 DEF control
<1>5. ASSUME NEW t \in Threads, ClearHazard(t) \/ Unpin(t) \/ EndHpGuard(t) PROVE ControlTypes'
  <2>1. /\ guard' = guard \/ \E g \in {"unpinned", "none"} : guard' = [guard EXCEPT ![t] = g]
        /\ use_hp' = use_hp \/ use_hp' = use_hp \ {t}
        /\ UNCHANGED <<control, retiring>>
    BY <1>5 DEF ClearHazard, Unpin, EndHpGuard, Advance
  <2> QED
    BY <2>1 DEF control
<1>6. ASSUME NEW t \in Threads, Iterate(t) PROVE ControlTypes'
  <2>1. hi' # hi => lhead[t] \in Nodes
    BY <1>6, OnlyDeqCasMovesHead, Followed DEF Iterate, DeqCas, Goto, DequeuePCs, Composed
  <2>2. /\ \E g \in {"over", "held"} : guard' = [guard EXCEPT ![t] = g]
        /\ retiring' = [retiring EXCEPT ![t] = IF hi' # hi THEN {lhead[t]} ELSE {}]
        /\ UNCHANGED <<control, use_hp>>
    BY <1>6 DEF Iterate
  <2>3. retiring' \in [Threads -> SUBSET Nodes]
    BY <2>1, <2>2
  <2> QED
    BY <2>2, <2>3 DEF control
<1>7. ASSUME NEW t \in Threads, RetireDummy(t) PROVE ControlTypes'
  BY <1>7 DEF RetireDummy, control
<1>8. ASSUME NEW t \in Threads, ThreadExit(t) PROVE ControlTypes'
  BY <1>8 DEF ThreadExit, glue
<1>9. ASSUME NEW t \in Threads, InsideEpochs(t) PROVE ControlTypes'
  <2>1. stuck' = stuck \/ \E i \in {0, stuck[t]} : stuck' = [stuck EXCEPT ![t] = i]
    BY <1>9 DEF InsideEpochs, Flips
  <2>2. stuck' \in [Threads -> 0..StallLimit]
    BY <2>1, HybridSizeAssumption
  <2> QED
    BY <1>9, <2>2 DEF InsideEpochs, glue
<1>10. ASSUME NEW t \in Threads, Stalls(t) PROVE ControlTypes'
  <2>1. stuck[t] < StallLimit /\ cur[t] \in 0..MaxEpoch /\ epoch \in 0..MaxEpoch /\ 0 \in 0..MaxEpoch
    <3>1. at[t] # "idle"
      BY <1>10 DEF Stalls, Ebr!ScanPinned, Ebr!FlipFail, Ebr!Jump
    <3> QED
      BY <3>1, LibraryAssumptions DEF Composed, Where, InOne, Lib!LibraryInv, Lib!EbrTypeOK
  <2>2. /\ stuck' = [stuck EXCEPT ![t] = stuck[t] + 1]
        /\ \E e \in {cur[t], epoch, 0} : old' = [old EXCEPT ![t] = e]
        /\ UNCHANGED <<mode, guard, use_hp, retiring>>
    BY <1>10 DEF Stalls, glue
  <2>3. /\ stall' = stall \/ stall' = [stall EXCEPT ![t] = "switch"]
        /\ at_slot' = at_slot \/ at_slot' = [at_slot EXCEPT ![t] = 1]
        /\ present' = present \/ \E p \in SUBSET Threads : present' = [present EXCEPT ![t] = p]
    BY <1>10 DEF Stalls
  <2>4. stuck[t] + 1 \in 0..StallLimit /\ 1 \in 0..PoolSize
    BY <2>1, HybridSizeAssumption
  <2>5. stuck' \in [Threads -> 0..StallLimit] /\ old' \in [Threads -> 0..MaxEpoch]
    BY <2>1, <2>2, <2>4
  <2>6. stall' \in [Threads -> {"none", "switch", "move", "trigger"}] /\ at_slot' \in [Threads -> 0..PoolSize]
    BY <2>3, <2>4
  <2>7. present' \in [Threads -> SUBSET Threads]
    BY <2>3
  <2> QED
    BY <2>2, <2>5, <2>6, <2>7
<1>11. ASSUME NEW t \in Threads, SwitchMode(t) PROVE ControlTypes'
  <2>1. stall' \in [Threads -> {"none", "switch", "move", "trigger"}] /\ at_slot' \in [Threads -> 0..PoolSize]
    BY <1>11, NextSlotTypes DEF SwitchMode, Composed
  <2>2. mode' \in [Threads -> {"FAST", "SLOW"}]
    BY <1>11 DEF SwitchMode
  <2> QED
    BY <1>11, <2>1, <2>2 DEF SwitchMode, glue
<1>12. ASSUME NEW t \in Threads, MoveBucket(t) PROVE ControlTypes'
  <2>1. stall' \in [Threads -> {"none", "switch", "move", "trigger"}] /\ at_slot' \in [Threads -> 0..PoolSize]
    BY <1>12, NextSlotTypes DEF MoveBucket, Composed
  <2> QED
    BY <1>12, <2>1 DEF MoveBucket, glue
<1>13. ASSUME NEW t \in Threads, TriggerScan(t) PROVE ControlTypes'
  <2>1. 0 \in 0..StallLimit /\ 0 \in 0..PoolSize /\ 0 \in 0..MaxEpoch
    BY HybridSizeAssumption
  <2> QED
    BY <1>13, <2>1 DEF TriggerScan, glue
<1> QED
  BY <1>1, <1>2, <1>3, <1>4, <1>5, <1>6, <1>7, <1>8, <1>9, <1>10, <1>11, <1>12, <1>13 DEF QueueNext

LEMMA TypesStep ==
    ASSUME Composed, [QueueNext]_queueVars
    PROVE  Types'
<1>1. HpTypes
  BY DEF Composed, Types, HpTypes
<1>2. Types
  BY DEF Composed
<1>3. ASSUME UNCHANGED hazards PROVE HpTypes'
  BY <1>1, <1>3 DEF hazards, HpTypes, Hp!Places, Objects
<1>4. ASSUME NEW t \in Threads, HpCalls(t), ~\E o : Hp!Retire(t, o) PROVE HpTypes'
  BY <1>2, <1>4, HpTypesStep DEF HpCalls
<1>5. ASSUME NEW t \in Threads, NEW o \in Objects, Hp!Retire(t, o) PROVE HpTypes'
  BY <1>2, <1>5, HpTypesStep
<1>6. ASSUME NEW t \in Threads, Hp!HpStep(t) PROVE HpTypes'
  BY <1>2, <1>6, HpTypesStep
<1>7. ASSUME NEW t \in Threads,
             \/ QueueCall(t) \/ Pin(t) \/ ReadMode(t) \/ Iterate(t) \/ RetireDummy(t) \/ Unpin(t)
             \/ QueueReturn(t) \/ InsideEpochs(t) \/ Stalls(t) \/ SwitchMode(t)
      PROVE  UNCHANGED hazards
  BY <1>7 DEF QueueCall, Pin, ReadMode, Iterate, RetireDummy, Unpin, QueueReturn, InsideEpochs, Stalls, SwitchMode
<1>8. ASSUME NEW t \in Threads, MakeHpGuard(t) \/ Protect(t) \/ ClearHazard(t) \/ EndHpGuard(t) \/ ThreadExit(t)
      PROVE  HpTypes'
  BY <1>2, <1>8, HpTypesStep DEF MakeHpGuard, Protect, ClearHazard, EndHpGuard, ThreadExit
<1>9. ASSUME NEW t \in Threads, TriggerScan(t) PROVE HpTypes'
  BY <1>5, <1>9 DEF TriggerScan, Objects
<1>10. ASSUME NEW t \in Threads, MoveBucket(t) PROVE UNCHANGED hazards
  BY <1>10, NothingIsMoved
<1>11. HpTypes'
  <2>1. ASSUME UNCHANGED queueVars PROVE HpTypes'
    <3>1. UNCHANGED hazards
      BY <2>1 DEF queueVars
    <3> QED
      BY <1>3, <3>1
  <2>2. ASSUME NEW t \in Threads, InsideHazards(t) PROVE HpTypes'
    BY <1>6, <2>2 DEF InsideHazards
  <2> HIDE DEF HpTypes
  <2> QED
    BY <1>3, <1>7, <1>8, <1>9, <1>10, <2>1, <2>2 DEF QueueNext
<1>12. freed' \subseteq Objects
  BY LibraryKept DEF Lib!LibraryInv, Lib!EbrTypeOK
<1>13. ControlTypes'
  BY ControlTypesStep
<1> QED
  BY <1>11, <1>12, <1>13 DEF Types, HpTypes, ControlTypes

----------------------------------------------------------------------------
(* Where the threads are *)

\* What the steps in EBR change of the rest of the composition.
LEMMA EbrActions ==
    ASSUME Composed, NEW t \in Threads,
           \/ Pin(t) \/ RetireDummy(t) \/ Unpin(t) \/ ThreadExit(t) \/ InsideEpochs(t) \/ Stalls(t)
    PROVE  Calls(t) \/ Ebr!EbrStep(t)
<1>1. CASE Pin(t) \/ RetireDummy(t) \/ Unpin(t) \/ ThreadExit(t)
  BY <1>1 DEF Pin, RetireDummy, Unpin, ThreadExit, Calls, Composed, Types
<1>2. CASE InsideEpochs(t) \/ Stalls(t)
  BY <1>2, InsideIsEbrStep
<1> QED
  BY <1>1, <1>2

\* A step of one thread leaves every other where it is.
LEMMA OthersUndisturbed ==
    ASSUME Composed, NEW t \in Threads, NEW u \in Threads \ {t},
           \/ QueueCall(t) \/ MakeHpGuard(t) \/ Pin(t) \/ ReadMode(t) \/ Protect(t)
           \/ Iterate(t) \/ RetireDummy(t)
           \/ ClearHazard(t) \/ Unpin(t) \/ EndHpGuard(t) \/ QueueReturn(t) \/ ThreadExit(t)
           \/ InsideEpochs(t) \/ InsideHazards(t)
           \/ Stalls(t) \/ SwitchMode(t) \/ MoveBucket(t) \/ TriggerScan(t)
    PROVE  Undisturbed(u)
<1>1. EbrLeaves(u)
  <2>1. CASE UNCHANGED <<at, op, cur, local, blockers>>
    BY <2>1 DEF EbrLeaves
  <2>2. CASE Pin(t) \/ RetireDummy(t) \/ Unpin(t) \/ ThreadExit(t) \/ InsideEpochs(t) \/ Stalls(t)
    BY <2>2, EbrActions, EbrLeavesOthers DEF Composed
  <2>3. CASE \/ QueueCall(t) \/ MakeHpGuard(t) \/ ReadMode(t) \/ Protect(t) \/ Iterate(t) \/ ClearHazard(t)
             \/ EndHpGuard(t) \/ QueueReturn(t) \/ InsideHazards(t) \/ SwitchMode(t) \/ MoveBucket(t) \/ TriggerScan(t)
    BY <2>1, <2>3 DEF QueueCall, MakeHpGuard, ReadMode, Protect, Iterate, ClearHazard, EndHpGuard, QueueReturn,
       InsideHazards, SwitchMode, MoveBucket, TriggerScan, epochs
  <2> QED
    BY <2>2, <2>3
<1>2. HpLeaves(u)
  <2>1. CASE UNCHANGED hazards
    BY <2>1 DEF HpLeaves, hazards
  <2>2. CASE MakeHpGuard(t) \/ Protect(t) \/ ClearHazard(t) \/ EndHpGuard(t) \/ ThreadExit(t) \/ InsideHazards(t) \/ TriggerScan(t)
    <3>1. HpCalls(t) \/ Hp!HpStep(t)
      BY <2>2 DEF MakeHpGuard, Protect, ClearHazard, EndHpGuard, ThreadExit, InsideHazards, TriggerScan, HpCalls
    <3> QED
      BY <3>1, HpLeavesOthers DEF Composed
  <2>3. CASE MoveBucket(t)
    BY <2>1, <2>3, NothingIsMoved
  <2>4. CASE \/ QueueCall(t) \/ Pin(t) \/ ReadMode(t) \/ Iterate(t) \/ RetireDummy(t) \/ Unpin(t)
             \/ QueueReturn(t) \/ InsideEpochs(t) \/ Stalls(t) \/ SwitchMode(t)
    BY <2>1, <2>4 DEF QueueCall, Pin, ReadMode, Iterate, RetireDummy, Unpin, QueueReturn, InsideEpochs, Stalls, SwitchMode
  <2> QED
    BY <2>2, <2>3, <2>4
<1>3. pc'[u] = pc[u]
  <2>1. CASE QueueCall(t) \/ Iterate(t) \/ QueueReturn(t)
    <3>1. Call(t) \/ Step(t)
      BY <2>1 DEF QueueCall, Iterate, QueueReturn, Step
    <3>2. PICK p : pc' = [pc EXCEPT ![t] = p]
      BY <3>1, PCStep DEF Composed
    <3> QED
      BY <3>2 DEF Composed, IInv, TypeOK
  <2>2. CASE \/ MakeHpGuard(t) \/ Pin(t) \/ ReadMode(t) \/ Protect(t) \/ RetireDummy(t)
             \/ ClearHazard(t) \/ Unpin(t) \/ EndHpGuard(t) \/ ThreadExit(t)
    BY <2>2 DEF MakeHpGuard, Pin, ReadMode, Protect, RetireDummy, ClearHazard, Unpin, EndHpGuard, ThreadExit, vars
  <2>3. CASE InsideEpochs(t) \/ InsideHazards(t) \/ Stalls(t) \/ SwitchMode(t) \/ MoveBucket(t) \/ TriggerScan(t)
    BY <2>3 DEF InsideEpochs, InsideHazards, Stalls, SwitchMode, MoveBucket, TriggerScan, vars
  <2> QED
    BY <2>1, <2>2, <2>3
<1>4. guard'[u] = guard[u] /\ retiring'[u] = retiring[u] /\ (u \in use_hp' => u \in use_hp)
  <2> USE DEF Composed, Types
  <2>1. CASE MakeHpGuard(t) \/ Pin(t) \/ ReadMode(t) \/ Protect(t) \/ Iterate(t)
    BY <2>1 DEF MakeHpGuard, Pin, ReadMode, Protect, Iterate, Advance
  <2>2. CASE RetireDummy(t) \/ ClearHazard(t) \/ Unpin(t) \/ EndHpGuard(t)
    BY <2>2 DEF RetireDummy, ClearHazard, Unpin, EndHpGuard, Advance
  <2>3. CASE \/ QueueCall(t) \/ QueueReturn(t) \/ ThreadExit(t) \/ InsideEpochs(t) \/ InsideHazards(t)
             \/ Stalls(t) \/ SwitchMode(t) \/ MoveBucket(t) \/ TriggerScan(t)
    BY <2>3 DEF QueueCall, QueueReturn, ThreadExit, InsideEpochs, InsideHazards, Stalls, SwitchMode, MoveBucket, TriggerScan, glue
  <2> QED
    BY <2>1, <2>2, <2>3
<1>5. stall'[u] = stall[u] /\ stuck'[u] = stuck[u] /\ old'[u] = old[u] /\ at_slot'[u] = at_slot[u] /\ (mode[u] = "SLOW" => mode'[u] = "SLOW")
  <2>1. CASE \/ QueueCall(t) \/ MakeHpGuard(t) \/ Pin(t) \/ ReadMode(t) \/ Protect(t) \/ Iterate(t) \/ RetireDummy(t)
             \/ ClearHazard(t) \/ Unpin(t) \/ EndHpGuard(t) \/ QueueReturn(t) \/ ThreadExit(t) \/ InsideHazards(t)
    <3>1. UNCHANGED <<mode, stuck, stall, at_slot, old>>
      BY <2>1 DEF QueueCall, MakeHpGuard, Pin, ReadMode, Protect, Iterate, RetireDummy, ClearHazard, Unpin,
         EndHpGuard, QueueReturn, ThreadExit, InsideHazards, control
    <3> QED
      BY <3>1
  <2> USE DEF Composed, Types
  <2>2. CASE InsideEpochs(t)
    BY <2>2 DEF InsideEpochs, Flips
  <2>3. CASE Stalls(t)
    BY SMTT(30), <2>3 DEF Stalls
  <2>4. CASE SwitchMode(t)
    BY SMTT(30), <2>4 DEF SwitchMode, NextSlot
  <2>5. CASE MoveBucket(t)
    BY <2>5 DEF MoveBucket, NextSlot
  <2>6. CASE TriggerScan(t)
    BY <2>6 DEF TriggerScan
  <2> QED
    BY <2>1, <2>2, <2>3, <2>4, <2>5, <2>6
<1> QED
  BY <1>1, <1>2, <1>3, <1>4, <1>5 DEF Undisturbed, EbrLeaves, HpLeaves

LEMMA ActorInEpochsOutside ==
    ASSUME Composed, NEW t \in Threads,
           \/ QueueCall(t) \/ MakeHpGuard(t) \/ ReadMode(t) \/ Protect(t) \/ Iterate(t) \/ ClearHazard(t)
           \/ EndHpGuard(t) \/ QueueReturn(t) \/ InsideHazards(t) \/ SwitchMode(t) \/ MoveBucket(t) \/ TriggerScan(t)
    PROVE  InEpochs(t)'
<1> USE DEF Composed, Types, Where, InEpochs
<1>1. UNCHANGED <<at, op, cur, local, blockers>>
  BY DEF QueueCall, MakeHpGuard, ReadMode, Protect, Iterate, ClearHazard, EndHpGuard, QueueReturn,
     InsideHazards, SwitchMode, MoveBucket, TriggerScan, epochs
<1>2. CASE QueueCall(t) \/ QueueReturn(t) \/ InsideHazards(t) \/ SwitchMode(t) \/ MoveBucket(t) \/ TriggerScan(t)
  <2>1. guard' = guard /\ old'[t] = 0
    BY <1>2 DEF QueueCall, QueueReturn, InsideHazards, SwitchMode, MoveBucket, TriggerScan, glue, control
  <2> QED
    BY <1>1, <2>1
<1>3. CASE MakeHpGuard(t) \/ ReadMode(t) \/ Protect(t) \/ Iterate(t) \/ ClearHazard(t) \/ EndHpGuard(t)
  <2>0. old' = old
    BY <1>3 DEF MakeHpGuard, ReadMode, Protect, Iterate, ClearHazard, EndHpGuard, control
  <2>1. CASE MakeHpGuard(t)
    BY <1>1, <2>0, <2>1 DEF MakeHpGuard, Free, Advance
  <2>2. CASE ReadMode(t)
    BY <1>1, <2>0, <2>2 DEF ReadMode, Free, Advance
  <2>3. CASE Protect(t)
    <3>1. guard[t] = "protect" /\ (guard' = guard \/ guard' = [guard EXCEPT ![t] = "held"])
      BY <2>3 DEF Protect, Advance
    <3> QED
      BY <1>1, <2>0, <3>1
  <2>4. CASE Iterate(t)
    <3>1. guard[t] = "held" /\ \E g \in {"held", "over"} : guard' = [guard EXCEPT ![t] = g]
      BY <2>4 DEF Iterate
    <3> QED
      BY <1>1, <2>0, <3>1
  <2>5. CASE ClearHazard(t)
    BY <1>1, <2>0, <2>5 DEF ClearHazard
  <2>6. CASE EndHpGuard(t)
    BY <1>1, <2>0, <2>6 DEF EndHpGuard, Advance
  <2> QED
    BY <1>3, <2>1, <2>2, <2>3, <2>4, <2>5, <2>6
<1> QED
  BY <1>2, <1>3

LEMMA ActorInEpochsCalls ==
    ASSUME Composed, NEW t \in Threads, Pin(t) \/ RetireDummy(t) \/ Unpin(t) \/ ThreadExit(t)
    PROVE  InEpochs(t)'
<1> USE DEF Composed, Types, Where, InEpochs, Lib!LibraryInv, Lib!EbrTypeOK, Ebr!Jump, Ebr!registry, Ebr!loop
<1>1. CASE Pin(t)
  <2>1. /\ guard[t] = "hp" /\ guard' = [guard EXCEPT ![t] = "pin"] /\ UNCHANGED <<local, cur, blockers, old>>
        /\ \E p \in {"claim", "pin_load"} : at' = [at EXCEPT ![t] = p]
        /\ op' = op \/ op' = [op EXCEPT ![t] = "pin_load"]
    BY <1>1 DEF Pin, Advance, Ebr!Guard, Ebr!Begin, control
  <2> QED
    BY <2>1
<1>2. CASE RetireDummy(t)
  <2>1. guard[t] = "over" /\ at[t] = "idle"
    BY <1>2 DEF RetireDummy, InOne, Free
  <2>2. slot[t] # 0
    <3>1. local[t] # {} /\ Lib!Control(t)
      BY <2>1
    <3> HIDE DEF Composed, Types, Where, InEpochs, Lib!LibraryInv, Lib!EbrTypeOK
    <3> QED
      BY <3>1 DEF Lib!Control
  <2>3. UNCHANGED <<local, cur, blockers, old, op, guard>> /\ at' = [at EXCEPT ![t] = "retire_load"]
    BY <1>2, <2>2 DEF RetireDummy, Ebr!Retire, Ebr!Begin, control
  <2> QED
    BY <2>1, <2>3
<1>3. CASE Unpin(t)
  BY <1>3 DEF Unpin, Advance, Ebr!Leave, control
<1>4. CASE ThreadExit(t)
  <2>1. guard[t] = "none"
    BY <1>4 DEF ThreadExit, InOne
  <2>2. UNCHANGED <<local, cur, blockers, old, op, guard>> /\ at' = [at EXCEPT ![t] = "exit_ctl"]
    BY <1>4 DEF ThreadExit, Ebr!Exit, glue
  <2> QED
    BY <2>1, <2>2
<1> QED
  BY <1>1, <1>2, <1>3, <1>4

LEMMA ActorInEpochsInside ==
    ASSUME Composed, Lib!LibraryInv', NEW t \in Threads, InsideEpochs(t) \/ Stalls(t)
    PROVE  InEpochs(t)'
<1> USE DEF Composed, Frozen, Types, Where, InEpochs, Lib!LibraryInv, Lib!EbrTypeOK, Ebr!Jump, Ebr!registry, Ebr!loop
<1>0. Ebr!EbrStep(t) /\ UNCHANGED guard /\ old'[t] = 0
  <2>1. Ebr!EbrStep(t) /\ UNCHANGED guard
    BY InsideIsEbrStep DEF InsideEpochs, Stalls, glue
  <2>2. ASSUME InsideEpochs(t) PROVE old'[t] = 0
    <3>1. old' = old /\ old[t] = 0
      BY <2>2 DEF InsideEpochs
    <3> HIDE DEF Composed, Frozen, Types, Where, InEpochs, Lib!LibraryInv, Lib!EbrTypeOK
    <3> QED
      BY <3>1
  <2>3. ASSUME Stalls(t) PROVE old'[t] = 0
    <3>1. \E e \in {cur[t], epoch, 0} : old' = [old EXCEPT ![t] = e]
      BY <2>3 DEF Stalls
    <3>2. old \in [Threads -> 0..MaxEpoch] /\ cur[t] = 0 /\ epoch = 0
      OBVIOUS
    <3> HIDE DEF Composed, Frozen, Types, Where, InEpochs, Lib!LibraryInv, Lib!EbrTypeOK
    <3> QED
      BY <3>1, <3>2
  <2> QED
    BY <2>1, <2>2, <2>3
<1>1. CASE Ebr!Claim(t)
  <2>1. /\ at[t] = "claim" /\ at' = [at EXCEPT ![t] = "publish"]
        /\ UNCHANGED <<local, op, cur, blockers>>
    BY <1>1 DEF Ebr!Claim
  <2>2. guard[t] = "pin" /\ local[t] = {}
    BY <2>1
  <2> QED
    BY <1>0, <2>1, <2>2
<1>2. CASE Ebr!ClaimFail(t)
  <2>1. /\ at[t] = "claim" /\ \E p \in {"claim", "exhausted"} : at' = [at EXCEPT ![t] = p]
        /\ UNCHANGED <<local, op, cur, blockers>>
    BY <1>2 DEF Ebr!ClaimFail, Ebr!NextSlot
  <2>2. guard[t] = "pin" /\ local[t] = {}
    BY <2>1
  <2> QED
    BY <1>0, <2>1, <2>2
<1>3. CASE Ebr!Publish(t)
  <2>1. op[t] = "pin_load" /\ guard[t] = "pin" /\ local[t] = {}
    <3>1. at[t] = "publish" /\ Lib!Control(t)
      BY <1>3 DEF Ebr!Publish
    <3>2. op[t] # "none"
      BY <3>1 DEF Lib!Control
    <3> QED
      BY <3>1, <3>2
  <2>2. at' = [at EXCEPT ![t] = "pin_load"] /\ op' = [op EXCEPT ![t] = "none"] /\ UNCHANGED <<local, cur, blockers>>
    BY <1>3, <2>1 DEF Ebr!Publish
  <2> QED
    BY <1>0, <2>1, <2>2
<1>4. CASE Ebr!PinLoad(t)
  <2>1. /\ at[t] = "pin_load" /\ at' = [at EXCEPT ![t] = "pin_store"] /\ cur' = [cur EXCEPT ![t] = 0]
        /\ UNCHANGED <<local, op, blockers>>
    BY <1>4 DEF Ebr!PinLoad
  <2>2. guard[t] = "pin" /\ local[t] = {}
    BY <2>1
  <2> QED
    BY <1>0, <2>1, <2>2
<1>5. CASE Ebr!PinStore(t)
  <2>1. /\ at[t] = "pin_store" /\ at' = [at EXCEPT ![t] = "idle"] /\ cur' = [cur EXCEPT ![t] = 0]
        /\ local' = [local EXCEPT ![t] = {0}]
        /\ UNCHANGED <<op, blockers>>
    BY <1>5 DEF Ebr!PinStore
  <2>2. guard[t] = "pin"
    BY <2>1
  <2> QED
    BY <1>0, <2>1, <2>2
<1>6. CASE Ebr!RetireLoad(t) \/ Ebr!RetirePush(t)
  <2>1. /\ at[t] \in {"retire_load", "retire_push"}
        /\ \E p \in {"retire_push", "flip_load", "idle"} : at' = [at EXCEPT ![t] = p]
        /\ cur' = [cur EXCEPT ![t] = 0] /\ UNCHANGED <<local, op, blockers>>
    BY <1>6 DEF Ebr!RetireLoad, Ebr!RetirePush
  <2>2. guard[t] = "over"
    BY <2>1
  <2> QED
    BY <1>0, <2>1, <2>2
<1>7. CASE Ebr!FlipLoad(t)
  <2>1. /\ at[t] = "flip_load" /\ at' = [at EXCEPT ![t] = "scan_ctl"] /\ cur' = [cur EXCEPT ![t] = 0]
        /\ blockers' = [blockers EXCEPT ![t] = {u \in Threads : 0 \in local[u]}] /\ UNCHANGED <<local, op>>
    BY <1>7 DEF Ebr!FlipLoad
  <2>2. guard[t] = "over" /\ local[t] = {0}
    BY <2>1
  <2> QED
    BY SMTT(30), <1>0, <2>1, <2>2
<1>8. CASE Ebr!ScanCtl(t)
  <2>1. at[t] = "scan_ctl" /\ at' = [at EXCEPT ![t] = "scan_epoch"] /\ UNCHANGED <<local, op, cur, blockers>>
    BY <1>8 DEF Ebr!ScanCtl
  <2>2. guard[t] = "over" /\ local[t] = {0} /\ t \in blockers[t]
    BY <2>1
  <2> QED
    BY <1>0, <2>1, <2>2
<1>9. CASE Ebr!ScanSkip(t) \/ Ebr!ScanPasses(t)
  <2>1. /\ at[t] \in {"scan_ctl", "scan_epoch"}
        /\ \E p \in {"scan_ctl", "flip_cas"} : at' = [at EXCEPT ![t] = p]
        /\ UNCHANGED <<local, op, cur, blockers>>
    BY <1>9 DEF Ebr!ScanSkip, Ebr!ScanPasses, Ebr!NextSlot
  <2>2. t \in blockers'[t]
    BY <2>1
  <2>3. at'[t] # "flip_cas"
    BY <2>2 DEF Lib!ScanState
  <2>4. guard[t] = "over" /\ local[t] = {0}
    BY <2>1
  <2>5. at' = [at EXCEPT ![t] = "scan_ctl"]
    <3>1. PICK p \in {"scan_ctl", "flip_cas"} : at' = [at EXCEPT ![t] = p]
      BY <2>1
    <3>2. p = "scan_ctl"
      BY <2>3, <3>1
    <3> QED
      BY <3>1, <3>2
  <2> QED
    BY <1>0, <2>1, <2>2, <2>4, <2>5
<1>10. CASE Ebr!ScanPinned(t)
  <2>1. at[t] = "scan_epoch" /\ at' = [at EXCEPT ![t] = "idle"] /\ cur' = [cur EXCEPT ![t] = 0] /\ UNCHANGED <<local, op>>
    BY <1>10 DEF Ebr!ScanPinned, Ebr!FlipReturns
  <2>2. guard[t] = "over" /\ local[t] = {0}
    BY <2>1
  <2> QED
    BY <1>0, <2>1, <2>2
<1>11. CASE Ebr!Flip(t) \/ Ebr!FlipFail(t) \/ Ebr!ReclaimCtl(t) \/ Ebr!ReclaimSkip(t) \/ Ebr!ReclaimFree(t) \/ Ebr!ReclaimClear(t)
  <2>1. at[t] \in {"flip_cas", "reclaim_ctl", "reclaim_free", "reclaim_clear"}
    BY <1>11 DEF Ebr!Flip, Ebr!FlipFail, Ebr!ReclaimCtl, Ebr!ReclaimSkip, Ebr!ReclaimFree, Ebr!ReclaimClear, Ebr!ReclaimNext, Ebr!NextSlot
  <2> QED
    BY <2>1
<1>12. CASE Ebr!ExitCtl(t) \/ Ebr!ExitOwner(t) \/ Ebr!ExitDelete(t)
  <2>1. /\ at[t] \in {"exit_ctl", "exit_owner", "exit_delete"}
        /\ \E p \in {"exit_owner", "exit_delete", "idle"} : at' = [at EXCEPT ![t] = p]
        /\ UNCHANGED <<local, op, cur, blockers>>
    BY <1>12 DEF Ebr!ExitCtl, Ebr!ExitOwner, Ebr!ExitDelete
  <2>2. guard[t] = "none"
    BY <2>1
  <2> QED
    BY <1>0, <2>1, <2>2
<1> QED
  BY <1>0, <1>1, <1>2, <1>3, <1>4, <1>5, <1>6, <1>7, <1>8, <1>9, <1>10, <1>11, <1>12 DEF Ebr!EbrStep

LEMMA ActorInHazards ==
    ASSUME Composed, NEW t \in Threads,
           \/ QueueCall(t) \/ MakeHpGuard(t) \/ Pin(t) \/ ReadMode(t) \/ Protect(t)
           \/ Iterate(t) \/ RetireDummy(t)
           \/ ClearHazard(t) \/ Unpin(t) \/ EndHpGuard(t) \/ QueueReturn(t) \/ ThreadExit(t)
           \/ InsideEpochs(t) \/ InsideHazards(t)
           \/ Stalls(t) \/ SwitchMode(t) \/ MoveBucket(t) \/ TriggerScan(t)
    PROVE  InHazards(t)'
<1>0. /\ Types /\ InHazards(t) /\ InOne(t)
  BY DEF Composed, Where
<1> USE <1>0 DEF Types, InHazards, Hp!Jump
<1>1. CASE QueueCall(t) \/ RetireDummy(t) \/ QueueReturn(t) \/ InsideEpochs(t) \/ Stalls(t)
  <2>1. UNCHANGED <<guard, hp_at, guards, mode, use_hp>>
    BY <1>1 DEF QueueCall, RetireDummy, QueueReturn, InsideEpochs, Stalls, glue, hazards, control
  <2> QED
    BY <2>1
<1>2. CASE MakeHpGuard(t)
  <2>1. guard[t] = "none" /\ guard' = [guard EXCEPT ![t] = "hp"] /\ UNCHANGED <<mode, use_hp>>
    BY <1>2 DEF MakeHpGuard, Advance, control
  <2>2. CASE Hp!GuardOnOwnSlot(t)
    <3>1. hp_at' = [hp_at EXCEPT ![t] = "idle"] /\ guards' = [guards EXCEPT ![t] = Append(guards[t], mine[t][Hp!Choice(t)])]
      BY <2>2 DEF Hp!GuardOnOwnSlot
    <3>2. mine[t][Hp!Choice(t)] \in Nat
      BY ChoiceInRange
    <3>3. Len(guards'[t]) = 1
      BY <2>1, <3>1, <3>2
    <3> QED
      BY <2>1, <3>1, <3>3
  <2>3. CASE Hp!GuardNeedsSlot(t)
    BY <2>1, <2>3 DEF Hp!GuardNeedsSlot
  <2> QED
    BY <1>2, <2>2, <2>3 DEF MakeHpGuard
<1>3. CASE Pin(t) \/ ReadMode(t)
  <2>1. /\ guard[t] \in {"hp", "pin"} /\ hp_at[t] = "idle"
        /\ \E g \in {"pin", "protect", "held"} : guard' = [guard EXCEPT ![t] = g] /\ (g = "protect" => mode[t] = "SLOW")
        /\ UNCHANGED <<hp_at, guards, mode, use_hp>>
    BY <1>3 DEF Pin, ReadMode, Advance, Free, hazards, control
  <2> QED
    BY <2>1
<1>4. CASE Protect(t)
  <2>1. /\ guard[t] = "protect" /\ UNCHANGED <<guards, mode>>
        /\ \/ UNCHANGED <<guard, use_hp>> /\ \E p \in {"idle", "store", "check"} : hp_at' = [hp_at EXCEPT ![t] = p]
           \/ /\ guard' = [guard EXCEPT ![t] = "held"] /\ use_hp' = use_hp \cup {t}
              /\ hp_at' = [hp_at EXCEPT ![t] = "idle"]
    BY <1>4 DEF Protect, Advance, control, Hp!ProtectLoad, Hp!ProtectStore, Hp!ProtectRetries, Hp!ProtectReturns, Hp!ProtectEnds
  <2> QED
    BY <2>1
<1>5. CASE Iterate(t)
  <2>1. /\ guard[t] = "held" /\ \E g \in {"over", "held"} : guard' = [guard EXCEPT ![t] = g]
        /\ UNCHANGED <<hp_at, guards, mode, use_hp>>
    BY <1>5 DEF Iterate, hazards, control
  <2> QED
    BY <2>1
<1>6. CASE ClearHazard(t)
  <2>1. /\ guard[t] = "over" /\ UNCHANGED <<guard, guards, mode>> /\ use_hp' = use_hp \ {t}
        /\ hp_at' = [hp_at EXCEPT ![t] = "idle"]
    BY <1>6 DEF ClearHazard, Hp!Clear, control
  <2> QED
    BY <2>1
<1>7. CASE Unpin(t)
  BY <1>7 DEF Unpin, Advance, Free, hazards, control
<1>8. CASE EndHpGuard(t)
  <2>1. /\ guard[t] = "unpinned" /\ guard' = [guard EXCEPT ![t] = "none"] /\ UNCHANGED <<mode, use_hp>>
        /\ hp_at' = [hp_at EXCEPT ![t] = "idle"]
        /\ guards' = [guards EXCEPT ![t] = SubSeq(guards[t], 1, Len(guards[t]) - 1)]
    BY <1>8 DEF EndHpGuard, Advance, Hp!EndGuard, control
  <2>2. Len(guards[t]) = 1
    BY <2>1
  <2>3. guards'[t] = <<>>
    BY <2>1, <2>2
  <2> QED
    BY <2>1, <2>3
<1>9. CASE ThreadExit(t)
  <2>1. guard[t] = "none"
    BY <1>9 DEF ThreadExit, InOne
  <2>2. UNCHANGED <<guard, guards, mode, use_hp>> /\ hp_at' = [hp_at EXCEPT ![t] = "idle"]
    BY <1>9 DEF ThreadExit, Hp!Exit, glue
  <2> QED
    BY <2>1, <2>2
<1>10. CASE InsideHazards(t)
  <2>1. UNCHANGED <<guard, mode, use_hp>>
    BY <1>10 DEF InsideHazards, glue, control
  <2>2. CASE Hp!Acquire(t)
    <3>1. /\ hp_at[t] = "acquire" /\ hp_at' = [hp_at EXCEPT ![t] = "idle"]
          /\ guards' = [guards EXCEPT ![t] = Append(guards[t], hp_index[t])] /\ hp_index[t] \in Nat
      BY <2>2 DEF Hp!Acquire
    <3>2. guard[t] = "hp" /\ guards[t] = <<>>
      BY <3>1
    <3>3. Len(guards'[t]) = 1
      BY <3>1, <3>2
    <3> QED
      BY <2>1, <3>1, <3>2, <3>3
  <2>3. CASE Hp!AcquireFail(t)
    <3>1. /\ hp_at[t] = "acquire" /\ \E p \in {"acquire", "exhausted"} : hp_at' = [hp_at EXCEPT ![t] = p]
          /\ UNCHANGED guards
      BY <2>3 DEF Hp!AcquireFail
    <3>2. guard[t] = "hp"
      BY <3>1
    <3> QED
      BY <2>1, <3>1, <3>2
  <2>4. CASE Hp!ScanLoad(t)
    <3>1. /\ hp_at[t] = "scan" /\ \E p \in {"idle", "scan"} : hp_at' = [hp_at EXCEPT ![t] = p]
          /\ UNCHANGED guards
      BY <2>4 DEF Hp!ScanLoad
    <3>2. guard[t] = "over"
      BY <3>1
    <3> QED
      BY <2>1, <3>1, <3>2
  <2> QED
    BY <1>10, <2>2, <2>3, <2>4 DEF InsideHazards, Hp!HpStep
<1>11. CASE SwitchMode(t)
  <2>1. UNCHANGED <<guard, hp_at, guards, use_hp>> /\ (mode[t] = "SLOW" => mode'[t] = "SLOW")
    BY <1>11 DEF SwitchMode, glue, hazards
  <2> QED
    BY <2>1
<1>12. CASE MoveBucket(t)
  <2>1. UNCHANGED <<guard, hp_at, guards, mode, use_hp>>
    BY <1>12, NothingIsMoved DEF MoveBucket, glue, hazards
  <2> QED
    BY <2>1
<1>13. CASE TriggerScan(t)
  <2>1. /\ guard[t] = "over" /\ UNCHANGED <<guard, guards, mode, use_hp>>
        /\ \E p \in {"scan", "idle"} : hp_at' = [hp_at EXCEPT ![t] = p]
    BY <1>13 DEF TriggerScan, InOne, Hp!Retire, glue
  <2> QED
    BY <2>1
<1> QED
  BY <1>1, <1>2, <1>3, <1>4, <1>5, <1>6, <1>7, <1>8, <1>9, <1>10, <1>11, <1>12, <1>13

LEMMA ActorInOneOutside ==
    ASSUME Composed, NEW t \in Threads,
           \/ QueueCall(t) \/ MakeHpGuard(t) \/ Pin(t) \/ ReadMode(t) \/ Protect(t)
           \/ Iterate(t) \/ RetireDummy(t)
           \/ ClearHazard(t) \/ Unpin(t) \/ EndHpGuard(t) \/ QueueReturn(t) \/ ThreadExit(t)
    PROVE  InOne(t)'
<1>0. /\ Types /\ InOne(t) /\ InEpochs(t) /\ InHazards(t) /\ at \in [Threads -> Lib!Places] /\ pc \in [Threads -> PCs]
  BY DEF Composed, Where, Lib!LibraryInv, Lib!EbrTypeOK, IInv, TypeOK
<1>a. UNCHANGED <<stall, stuck, at_slot>>
  BY DEF QueueCall, MakeHpGuard, Pin, ReadMode, Protect, Iterate, RetireDummy, ClearHazard, Unpin, EndHpGuard,
     QueueReturn, ThreadExit, control
<1> USE <1>0, <1>a DEF Types, InOne, Free, Hp!Jump, Ebr!Jump
<1>1. CASE QueueCall(t)
  <2>1. PICK p \in PCs : pc' = [pc EXCEPT ![t] = p]
    BY <1>1, PCStep DEF QueueCall, Composed
  <2>2. guard[t] = "none" /\ UNCHANGED <<guard, retiring, at, hp_at>>
    BY <1>1 DEF QueueCall, glue, epochs, hazards, Call, Enqueue, Dequeue, Empty, Goto
  <2> QED
    BY <2>1, <2>2
<1>2. CASE MakeHpGuard(t)
  <2>1. /\ guard' = [guard EXCEPT ![t] = "hp"] /\ UNCHANGED <<retiring, at, pc>> /\ pc[t] \notin {"idle", "return"}
        /\ at[t] = "idle" /\ stall[t] = "none" /\ guard[t] = "none"
    BY <1>2 DEF MakeHpGuard, Advance, epochs, vars, LoopStarts
  <2> QED
    BY <2>1
<1>3. CASE Pin(t)
  <2>1. /\ guard[t] = "hp" /\ guard' = [guard EXCEPT ![t] = "pin"] /\ UNCHANGED <<retiring, hp_at, pc>>
        /\ hp_at[t] = "idle" /\ stall[t] = "none"
    BY <1>3 DEF Pin, Advance, vars, hazards
  <2> QED
    BY <2>1
<1>4. CASE ReadMode(t)
  <2>1. /\ guard[t] = "pin" /\ \E g \in {"protect", "held"} : guard' = [guard EXCEPT ![t] = g]
        /\ UNCHANGED <<retiring, hp_at, at, pc>>
    BY <1>4 DEF ReadMode, Advance, vars, hazards, epochs
  <2> QED
    BY <2>1
<1>5. CASE Protect(t)
  <2>1. /\ guard[t] = "protect" /\ (guard' = guard \/ guard' = [guard EXCEPT ![t] = "held"])
        /\ UNCHANGED <<retiring, at, pc>>
    BY <1>5 DEF Protect, Advance, vars, epochs
  <2>2. at[t] = "idle"
    BY <2>1 DEF InEpochs
  <2> QED
    BY <2>1, <2>2
<1>6. CASE Iterate(t)
  <2>1. PICK p \in PCs : pc' = [pc EXCEPT ![t] = p]
    BY <1>6, PCStep DEF Iterate, Composed
  <2>2. /\ guard[t] = "held" /\ UNCHANGED <<at, hp_at>> /\ at[t] = "idle" /\ hp_at[t] = "idle" /\ stall[t] = "none"
        /\ guard' = [guard EXCEPT ![t] = IF p \in {"enq_tail", "deq_head", "return"} THEN "over" ELSE "held"]
        /\ retiring' = [retiring EXCEPT ![t] = IF hi' # hi THEN {lhead[t]} ELSE {}]
    BY <1>6, <2>1 DEF Iterate, epochs, hazards
  <2>3. p # "idle"
    BY <1>6, <2>1, <2>2, PCStep DEF Iterate, Composed
  <2>4. hi' # hi => p = "return"
    <3>1. hi' # hi => DeqCas(t)
      BY <1>6, PCStep DEF Iterate, Composed
    <3> QED
      BY <2>1, <3>1 DEF DeqCas, Goto
  <2> QED
    BY <2>1, <2>2, <2>3, <2>4
<1>7. CASE RetireDummy(t)
  <2>1. /\ retiring[t] # {} /\ retiring' = [retiring EXCEPT ![t] = {}] /\ UNCHANGED <<guard, hp_at, pc>>
        /\ hp_at[t] = "idle" /\ stall[t] = "none"
    BY <1>7 DEF RetireDummy, vars, hazards
  <2> QED
    BY <2>1
<1>8. CASE ClearHazard(t) \/ Unpin(t)
  <2>1. /\ guard[t] = "over" /\ (guard' = guard \/ guard' = [guard EXCEPT ![t] = "unpinned"])
        /\ UNCHANGED <<retiring, pc>> /\ retiring[t] = {}
        /\ at[t] = "idle" /\ at' \in {at, [at EXCEPT ![t] = "idle"]} /\ stall[t] = "none"
    BY <1>8 DEF ClearHazard, Unpin, Advance, vars, epochs, Ebr!Leave
  <2>2. at'[t] = "idle" /\ pc[t] # "idle"
    BY <2>1
  <2> QED
    BY <2>1, <2>2
<1>9. CASE EndHpGuard(t)
  <2>1. /\ guard[t] = "unpinned" /\ guard' = [guard EXCEPT ![t] = "none"] /\ UNCHANGED <<retiring, at, pc>>
    BY <1>9 DEF EndHpGuard, Advance, vars, epochs
  <2>2. at[t] = "idle" /\ stall[t] = "none" /\ retiring[t] = {}
    BY <2>1 DEF InEpochs
  <2> QED
    BY <2>1, <2>2
<1>10. CASE QueueReturn(t)
  <2>1. guard[t] = "none" /\ UNCHANGED <<guard, retiring, at, hp_at>>
    BY <1>10 DEF QueueReturn, glue, epochs, hazards
  <2> QED
    BY <2>1
<1>11. CASE ThreadExit(t)
  <2>1. /\ UNCHANGED <<guard, retiring, pc>> /\ pc[t] = "idle" /\ hp_at' = [hp_at EXCEPT ![t] = "idle"]
    BY <1>11 DEF ThreadExit, glue, vars, Hp!Exit
  <2>2. guard[t] = "none" /\ stall[t] = "none" /\ retiring[t] = {}
    BY <2>1
  <2> QED
    BY <2>1, <2>2
<1> QED
  BY <1>1, <1>2, <1>3, <1>4, <1>5, <1>6, <1>7, <1>8, <1>9, <1>10, <1>11

LEMMA ActorInOneInside ==
    ASSUME Composed, NEW t \in Threads,
           InsideEpochs(t) \/ InsideHazards(t) \/ Stalls(t) \/ SwitchMode(t) \/ MoveBucket(t) \/ TriggerScan(t)
    PROVE  InOne(t)'
<1>0. /\ Types /\ InOne(t) /\ InEpochs(t) /\ InHazards(t) /\ at \in [Threads -> Lib!Places]
  BY DEF Composed, Where, Lib!LibraryInv, Lib!EbrTypeOK
<1>a. UNCHANGED <<pc, guard, retiring>>
  BY DEF InsideEpochs, InsideHazards, Stalls, SwitchMode, MoveBucket, TriggerScan, glue, vars
<1>b. StallLimit \in Nat \ {0} /\ PoolSize \in Nat \ {0}
  BY HybridSizeAssumption
<1> USE <1>0, <1>a DEF Types, InOne, Free, Hp!Jump
<1>1. CASE InsideEpochs(t)
  <2>1. at[t] # "idle"
    BY <1>1 DEF InsideEpochs, Registers, Pins, Retires, Scans, Flips, Exits, Ebr!Jump, Ebr!NextSlot, Ebr!ReclaimNext,
       Ebr!Claim, Ebr!Publish, Ebr!ClaimFail, Ebr!PinLoad, Ebr!PinStore, Ebr!RetireLoad, Ebr!RetirePush,
       Ebr!FlipLoad, Ebr!ScanCtl, Ebr!ScanSkip, Ebr!ScanPasses, Ebr!Flip, Ebr!ReclaimCtl, Ebr!ReclaimSkip,
       Ebr!ReclaimFree, Ebr!ReclaimClear, Ebr!ExitCtl, Ebr!ExitOwner, Ebr!ExitDelete
  <2>2. UNCHANGED <<hp_at, stall, at_slot>> /\ (stuck' = stuck \/ \E i \in {0, stuck[t]} : stuck' = [stuck EXCEPT ![t] = i])
    BY <1>1 DEF InsideEpochs, Flips, hazards
  <2>3. stuck'[t] \in {0, stuck[t]}
    BY <2>2
  <2> QED
    BY <1>b, <2>1, <2>2, <2>3
<1>2. CASE InsideHazards(t)
  <2>1. hp_at[t] # "idle" /\ UNCHANGED <<at, stall, stuck, at_slot>>
    BY <1>2 DEF InsideHazards, epochs, control, Hp!HpStep, Hp!Acquire, Hp!AcquireFail, Hp!ScanLoad
  <2> QED
    BY <2>1
<1>3. CASE Stalls(t)
  <2>1. at[t] \in {"scan_epoch", "flip_cas"} /\ at' = [at EXCEPT ![t] = "idle"] /\ UNCHANGED hp_at
    BY <1>3 DEF Stalls, Ebr!ScanPinned, Ebr!FlipFail, Ebr!Jump, hazards
  <2>2. guard[t] = "over" /\ hp_at[t] = "idle" /\ stall[t] = "none" /\ stuck[t] < StallLimit /\ retiring[t] = {}
    BY <2>1 DEF InEpochs
  <2>3. stuck'[t] = stuck[t] + 1
    BY <1>3 DEF Stalls
  <2>4. CASE AtLimit(t)
    BY <1>3, <2>1, <2>2, <2>4 DEF Stalls
  <2>5. CASE ~AtLimit(t)
    <3>1. stuck'[t] < StallLimit /\ UNCHANGED <<stall, at_slot>>
      BY <1>b, <1>3, <2>3, <2>5 DEF Stalls, AtLimit
    <3> QED
      BY <2>1, <2>2, <3>1
  <2> QED
    BY <2>4, <2>5
<1>4. ASSUME NEW stage \in {"switch", "move"}, NEW then \in {"move", "trigger"},
             stall[t] = stage, NextSlot(t, stage, then), UNCHANGED <<at, stuck>>
      PROVE  InOne(t)'
  <2>1. stall'[t] \in {stage, then} /\ at[t] = "idle"
    BY <1>4 DEF NextSlot
  <2>2. at_slot'[t] # 0
    <3>1. at_slot[t] \in Nat
      BY <1>b
    <3> QED
      BY <1>4, <3>1 DEF NextSlot
  <2> QED
    BY <1>4, <2>1, <2>2
<1>5. CASE SwitchMode(t)
  BY <1>4, <1>5 DEF SwitchMode, epochs
<1>6. CASE MoveBucket(t)
  <2>1. stall[t] = "move" /\ UNCHANGED <<at, stuck>> /\ (NextSlot(t, "move", "trigger") \/ UNCHANGED <<stall, at_slot>>)
    BY <1>6 DEF MoveBucket
  <2>2. CASE UNCHANGED <<stall, at_slot>>
    BY <2>1, <2>2
  <2> QED
    BY <1>4, <2>1, <2>2
<1>7. CASE TriggerScan(t)
  <2>1. /\ stall[t] = "trigger" /\ stall'[t] = "none" /\ stuck'[t] = 0 /\ UNCHANGED at
    BY <1>7 DEF TriggerScan, epochs
  <2>2. at[t] = "idle" /\ retiring[t] = {}
    BY <2>1
  <2> QED
    BY <1>b, <2>1, <2>2
<1> QED
  BY <1>1, <1>2, <1>3, <1>5, <1>6, <1>7

LEMMA WhereStep ==
    ASSUME Composed, [QueueNext]_queueVars, NEW u \in Threads
    PROVE  Where(u)'
<1>1. CASE UNCHANGED queueVars
  <2>1. Undisturbed(u)
    BY <1>1 DEF queueVars, epochs, hazards, control, glue, vars, Undisturbed
  <2> QED
    BY <2>1, UndisturbedStays DEF Composed
<1>2. ASSUME NEW t \in Threads,
             \/ QueueCall(t) \/ MakeHpGuard(t) \/ Pin(t) \/ ReadMode(t) \/ Protect(t)
             \/ Iterate(t) \/ RetireDummy(t)
             \/ ClearHazard(t) \/ Unpin(t) \/ EndHpGuard(t) \/ QueueReturn(t) \/ ThreadExit(t)
             \/ InsideEpochs(t) \/ InsideHazards(t)
             \/ Stalls(t) \/ SwitchMode(t) \/ MoveBucket(t) \/ TriggerScan(t)
      PROVE  Where(u)'
  <2>1. CASE u # t
    BY <1>2, <2>1, OthersUndisturbed, UndisturbedStays DEF Composed
  <2>2. CASE u = t
    <3>1. InEpochs(t)'
      BY <1>2, LibraryKept, ActorInEpochsOutside, ActorInEpochsCalls, ActorInEpochsInside
    <3>2. InHazards(t)'
      BY <1>2, ActorInHazards
    <3>3. InOne(t)'
      BY <1>2, ActorInOneOutside, ActorInOneInside
    <3> QED
      BY <2>2, <3>1, <3>2, <3>3 DEF Where
  <2> QED
    BY <2>1, <2>2
<1> QED
  BY <1>1, <1>2 DEF QueueNext

----------------------------------------------------------------------------
(* The epoch, the buckets and the lists *)

\* What the steps inside EBR do with objects: the epoch stays, a push goes into
\* bucket 0, and only an exit deletes.
LEMMA EbrDisposal ==
    ASSUME Composed, NEW t \in Threads, Ebr!EbrStep(t)
    PROVE  /\ epoch' = epoch
           /\ \/ UNCHANGED <<item, bag, freed, gone>>
              \/ /\ at[t] = "retire_push" /\ item' = [item EXCEPT ![t] = NULL]
                 /\ bag' = [bag EXCEPT ![t] = [bag[t] EXCEPT ![0] = bag[t][0] \cup {item[t]}]]
                 /\ UNCHANGED <<freed, gone>>
              \/ /\ bag' = [bag EXCEPT ![t] = [b \in 0..2 |-> {}]]
                 /\ freed' = freed \cup UNION {bag[t][b] : b \in 0..2}
                 /\ gone' = gone \cup {t} /\ UNCHANGED item
<1>0. InEpochs(t)
  BY DEF Composed, Where
<1> USE DEF Ebr!Jump, Ebr!NextSlot, Ebr!registry, Ebr!FlipReturns
<1>1. CASE Ebr!Claim(t) \/ Ebr!ClaimFail(t) \/ Ebr!Publish(t) \/ Ebr!PinLoad(t) \/ Ebr!PinStore(t) \/ Ebr!RetireLoad(t)
  BY <1>1 DEF Ebr!Claim, Ebr!ClaimFail, Ebr!Publish, Ebr!PinLoad, Ebr!PinStore, Ebr!RetireLoad
<1>2. CASE Ebr!RetirePush(t)
  <2>1. cur[t] = 0
    BY <1>0 DEF InEpochs
  <2>2. Ebr!Bucket(cur[t]) = 0
    BY <2>1 DEF Ebr!Bucket
  <2> QED
    BY <1>2, <2>2 DEF Ebr!RetirePush
<1>3. CASE Ebr!FlipLoad(t) \/ Ebr!ScanCtl(t) \/ Ebr!ScanSkip(t) \/ Ebr!ScanPinned(t) \/ Ebr!ScanPasses(t) \/ Ebr!FlipFail(t)
  BY <1>3 DEF Ebr!FlipLoad, Ebr!ScanCtl, Ebr!ScanSkip, Ebr!ScanPinned, Ebr!ScanPasses, Ebr!FlipFail
<1>4. CASE Ebr!Flip(t) \/ Ebr!ReclaimCtl(t) \/ Ebr!ReclaimSkip(t) \/ Ebr!ReclaimFree(t) \/ Ebr!ReclaimClear(t)
  <2>1. at[t] \in {"flip_cas", "reclaim_ctl", "reclaim_free", "reclaim_clear"}
    BY <1>4 DEF Ebr!Flip, Ebr!ReclaimCtl, Ebr!ReclaimSkip, Ebr!ReclaimFree, Ebr!ReclaimClear, Ebr!ReclaimNext
  <2>2. guard[t] \in {"none", "hp", "pin", "protect", "held", "over", "unpinned"}
    BY DEF Composed, Types
  <2> QED
    BY <1>0, <2>1, <2>2 DEF InEpochs
<1>5. CASE Ebr!ExitCtl(t) \/ Ebr!ExitOwner(t)
  BY <1>5 DEF Ebr!ExitCtl, Ebr!ExitOwner
<1>6. CASE Ebr!ExitDelete(t)
  BY <1>6 DEF Ebr!ExitDelete, Ebr!Buckets
<1> QED
  BY <1>1, <1>2, <1>3, <1>4, <1>5, <1>6 DEF Ebr!EbrStep

\* What every action does with them.  RetireDummy is the only one to hand an
\* object to EBR, TriggerScan the only one to hand one to the hazard pointers.
LEMMA Disposal ==
    ASSUME Composed, NEW t \in Threads,
           \/ QueueCall(t) \/ MakeHpGuard(t) \/ Pin(t) \/ ReadMode(t) \/ Protect(t)
           \/ Iterate(t) \/ RetireDummy(t)
           \/ ClearHazard(t) \/ Unpin(t) \/ EndHpGuard(t) \/ QueueReturn(t) \/ ThreadExit(t)
           \/ InsideEpochs(t) \/ InsideHazards(t)
           \/ Stalls(t) \/ SwitchMode(t) \/ MoveBucket(t) \/ TriggerScan(t)
    PROVE  \/ Ebr!EbrStep(t) /\ UNCHANGED <<retired, retiring>>
           \/ /\ UNCHANGED <<epoch, item, bag, gone>>
              /\ Iterate(t) \/ UNCHANGED retiring
              /\ freed' \subseteq freed \cup retired[t]
              /\ \E kept \in SUBSET (retired[t] \cup Blanks) : retired' = [retired EXCEPT ![t] = kept]
           \/ RetireDummy(t) /\ UNCHANGED <<epoch, bag, gone, freed, retired>>
<1>0. /\ retired \in [Threads -> SUBSET Objects]
      /\ retired = [retired EXCEPT ![t] = retired[t]]
  BY DEF Composed, Types
<1>1. CASE InsideEpochs(t) \/ Stalls(t)
  BY <1>1, InsideIsEbrStep DEF InsideEpochs, Stalls, glue, hazards
<1>2. CASE RetireDummy(t)
  BY <1>2 DEF RetireDummy, Ebr!Retire, Ebr!Begin, Ebr!registry, hazards
<1>3. CASE Pin(t) \/ Unpin(t)
  BY <1>0, <1>3 DEF Pin, Unpin, Ebr!Guard, Ebr!Begin, Ebr!Leave, Ebr!registry, hazards
<1>4. CASE ThreadExit(t)
  <2>1. retired' = [retired EXCEPT ![t] = {}] /\ UNCHANGED <<epoch, item, bag, gone, freed, retiring>>
    BY <1>4 DEF ThreadExit, Ebr!Exit, Ebr!registry, Hp!Exit, glue
  <2> QED
    BY <2>1
<1>5. CASE InsideHazards(t)
  <2>1. UNCHANGED <<epoch, item, bag, gone, retiring>>
    BY <1>5 DEF InsideHazards, epochs, glue
  <2>2. freed' \subseteq freed \cup retired[t] /\ \E kept : kept \subseteq retired[t] /\ retired' = [retired EXCEPT ![t] = kept]
    BY <1>5, ScansDeleteRetired DEF InsideHazards, Composed
  <2> QED
    BY <2>1, <2>2
<1>6. CASE MakeHpGuard(t) \/ Protect(t) \/ ClearHazard(t) \/ EndHpGuard(t)
  <2>1. UNCHANGED <<epoch, item, bag, gone, retiring, freed>>
    BY <1>6 DEF MakeHpGuard, Protect, ClearHazard, EndHpGuard, epochs
  <2>2. UNCHANGED retired
    BY <1>6 DEF MakeHpGuard, Protect, ClearHazard, EndHpGuard, Hp!GuardOnOwnSlot, Hp!GuardNeedsSlot, Hp!Clear, Hp!EndGuard,
       Hp!ProtectLoad, Hp!ProtectStore, Hp!ProtectRetries, Hp!ProtectReturns, Hp!ProtectEnds
  <2> QED
    BY <1>0, <2>1, <2>2
<1>7. CASE QueueCall(t) \/ Iterate(t)
  BY <1>0, <1>7 DEF QueueCall, Iterate, epochs, hazards, glue
<1>8. CASE ReadMode(t) \/ QueueReturn(t) \/ SwitchMode(t)
  <2>1. UNCHANGED <<epoch, item, bag, gone, retiring, freed, retired>>
    BY <1>8 DEF ReadMode, QueueReturn, SwitchMode, epochs, hazards, glue
  <2> QED
    BY <1>0, <2>1
<1>9. CASE MoveBucket(t)
  <2>1. UNCHANGED <<hazards, freed, bag>>
    BY <1>9, NothingIsMoved, MovedBucketIsEmpty
  <2>2. UNCHANGED <<epoch, item, gone, retiring>>
    BY <1>9 DEF MoveBucket, glue
  <2> QED
    BY <1>0, <2>1, <2>2 DEF hazards
<1>10. CASE TriggerScan(t)
  <2>1. \E o \in Blanks : retired' = [retired EXCEPT ![t] = retired[t] \cup {o}]
    BY <1>10 DEF TriggerScan, Hp!Retire
  <2>2. UNCHANGED <<epoch, item, bag, gone, retiring, freed>>
    BY <1>10 DEF TriggerScan, epochs, glue
  <2> QED
    BY <2>1, <2>2
<1> QED
  BY <1>1, <1>2, <1>3, <1>4, <1>5, <1>6, <1>7, <1>8, <1>9, <1>10

LEMMA FrozenStep ==
    ASSUME Composed, [QueueNext]_queueVars
    PROVE  Frozen'
<1>0. /\ Frozen /\ retired \in [Threads -> SUBSET Objects] /\ bag \in [Threads -> [0..2 -> SUBSET Objects]]
  BY DEF Composed, Types, Lib!LibraryInv, Lib!EbrTypeOK, Lib!Buckets
<1> USE <1>0 DEF Frozen
<1>1. ASSUME UNCHANGED <<epoch, gone, freed, bag, retired>> PROVE Frozen'
  BY <1>1
<1>2. CASE UNCHANGED queueVars
  BY <1>1, <1>2 DEF queueVars, epochs, hazards
<1>3. ASSUME NEW t \in Threads, Ebr!EbrStep(t), UNCHANGED retired PROVE Frozen'
  <2>1. CASE UNCHANGED <<item, bag, freed, gone>>
    BY <1>1, <1>3, <2>1, EbrDisposal
  <2>2. CASE /\ bag' = [bag EXCEPT ![t] = [bag[t] EXCEPT ![0] = bag[t][0] \cup {item[t]}]]
             /\ UNCHANGED <<freed, gone>>
    <3>1. epoch' = epoch
      BY <1>3, EbrDisposal
    <3>2. \A u \in Threads, b \in 1..2 : bag'[u][b] = bag[u][b]
      BY <2>2
    <3> QED
      BY <1>3, <2>2, <3>1, <3>2
  <2>3. CASE bag' = [bag EXCEPT ![t] = [b \in 0..2 |-> {}]] /\ gone' = gone \cup {t}
    <3>1. epoch' = epoch
      BY <1>3, EbrDisposal
    <3>2. \A u \in Threads, b \in 1..2 : bag'[u][b] = {}
      BY <2>3
    <3> QED
      BY <1>3, <2>3, <3>1, <3>2
  <2> QED
    BY <1>3, <2>1, <2>2, <2>3, EbrDisposal
<1>4. ASSUME NEW t \in Threads, UNCHANGED <<epoch, bag, gone>>, freed' \subseteq freed \cup retired[t],
             NEW kept \in SUBSET (retired[t] \cup Blanks), retired' = [retired EXCEPT ![t] = kept]
      PROVE  Frozen'
  BY <1>4
<1>5. ASSUME NEW t \in Threads,
             \/ QueueCall(t) \/ MakeHpGuard(t) \/ Pin(t) \/ ReadMode(t) \/ Protect(t)
             \/ Iterate(t) \/ RetireDummy(t)
             \/ ClearHazard(t) \/ Unpin(t) \/ EndHpGuard(t) \/ QueueReturn(t) \/ ThreadExit(t)
             \/ InsideEpochs(t) \/ InsideHazards(t)
             \/ Stalls(t) \/ SwitchMode(t) \/ MoveBucket(t) \/ TriggerScan(t)
      PROVE  Frozen'
  <2> HIDE DEF Frozen
  <2> QED
    BY <1>1, <1>3, <1>4, <1>5, Disposal
<1> QED
  BY <1>2, <1>5 DEF QueueNext

LEMMA ComposedStep == Composed /\ [QueueNext]_queueVars => Composed'
<1> SUFFICES ASSUME Composed, [QueueNext]_queueVars PROVE Composed'
  OBVIOUS
<1>1. IInv'
  BY StepInv, QueueStepsAreSteps DEF Composed
<1>2. Lib!LibraryInv' /\ Types' /\ (\A u \in Threads : Where(u))' /\ Frozen'
  BY LibraryKept, TypesStep, WhereStep, FrozenStep
<1> QED
  BY <1>1, <1>2 DEF Composed

LEMMA ComposedInit == QueueInit => Composed
<1> SUFFICES ASSUME QueueInit PROVE Composed
  OBVIOUS
<1>1. IInv
  BY InitInv DEF QueueInit
<1>2. Lib!LibraryInv
  <2>1. Lib!EbrInit
    BY DEF QueueInit, Ebr!EbrInit, Lib!EbrInit, Ebr!Slots, Lib!Slots, Ebr!Buckets, Lib!Buckets
  <2> QED
    BY <2>1, Lib!LibraryInitHolds, LibraryAssumptions
<1>3. Types
  <2>1. 0 \in 0..StallLimit /\ 0 \in 0..PoolSize /\ 0 \in 0..MaxEpoch
    BY HybridSizeAssumption
  <2> QED
    BY <2>1 DEF QueueInit, Ebr!EbrInit, Hp!HpInit, Hp!HazardsPerThread, Hp!Places, Types
<1>4. ASSUME NEW t \in Threads PROVE Where(t)
  BY HybridSizeAssumption DEF QueueInit, Init, Ebr!EbrInit, Hp!HpInit, Where, InEpochs, InHazards, InOne
<1>5. Frozen
  BY DEF QueueInit, Ebr!EbrInit, Hp!HpInit, Ebr!Buckets, Frozen
<1> QED
  BY <1>1, <1>2, <1>3, <1>4, <1>5 DEF Composed

\* The inductive invariant of the composition: the list of MSQueue, the library of
\* epochs, where each thread is, and the frozen epoch hold together.
THEOREM ComposedAlways == QueueSpec => []Composed
BY ComposedInit, ComposedStep, PTL DEF QueueSpec

\* dequeue() retires inside its own HybridGuard, so that its try_reclaim() never
\* ends an epoch and every stall hands an empty bucket to the hazard pointers.
THEOREM NothingIsReclaimed == QueueSpec => []NothingReclaimed
<1>1. Composed => NothingReclaimed
  BY DEF Composed, Frozen, NothingReclaimed
<1> QED
  BY <1>1, ComposedAlways, PTL

\* The stages of a HybridGuard, of a stall and of the hazard pointers keep their
\* types; an hp::Guard is used by SLOW threads only, and only while it lives.
THEOREM HybridTypesCorrect == QueueSpec => []HybridTypeOK
<1>1. Composed => HybridTypeOK
  <2> SUFFICES ASSUME Composed PROVE HybridTypeOK
    OBVIOUS
  <2>1. ASSUME NEW t \in use_hp PROVE t \in Threads /\ mode[t] = "SLOW" /\ guards[t] # <<>>
    <3>1. t \in Threads /\ InHazards(t)
      BY <2>1 DEF Composed, Types, Where
    <3>2. Len(guards[t]) = 1 /\ mode[t] = "SLOW"
      BY <2>1, <3>1 DEF InHazards
    <3>3. ASSUME guards[t] = <<>> PROVE FALSE
      <4>1. Len(guards[t]) = 0
        BY <3>3
      <4> QED
        BY <3>2, <4>1
    <3> QED
      BY <3>1, <3>2, <3>3
  <2> QED
    BY <2>1 DEF Composed, Types, Objects, HybridTypeOK
<1> QED
  BY <1>1, ComposedAlways, PTL

----------------------------------------------------------------------------
(* The way of a dummy: from its unlinker's hands into one bucket *)

Handles(t, n) == n \in retiring[t] \/ item[t] = n

Handled(n) == \E t \in Threads : Handles(t, n)
InBucket(n) == \E t \in Threads, b \in 0..2 : n \in bag[t][b]

\* A dummy is in one thread's hands or in one bucket, and was head_'s before.
Once(n) ==
    /\ \A t, u \in Threads : Handles(t, n) /\ Handles(u, n) => t = u
    /\ \A t, u \in Threads, b, c \in 0..2 : n \in bag[t][b] /\ n \in bag[u][c] => t = u /\ b = c
    /\ Handled(n) => ~InBucket(n) /\ n \notin freed
    /\ Handled(n) \/ InBucket(n) \/ n \in freed => Passed(n)

\* A step inside EBR pushes the item into a bucket, or deletes whole buckets.
LEMMA OnceInside ==
    ASSUME Composed, NEW n \in Nodes, Once(n), Passed(n) => Passed(n)',
           NEW t \in Threads, Ebr!EbrStep(t), UNCHANGED retiring
    PROVE  Once(n)'
<1>1. /\ item \in [Threads -> Objects \cup {NULL}] /\ bag \in [Threads -> [0..2 -> SUBSET Objects]]
      /\ NULL \notin Nodes
  BY LibraryAssumptions DEF Composed, Lib!LibraryInv, Lib!EbrTypeOK, Lib!Buckets, Objects
<1>2. CASE UNCHANGED <<item, bag, freed, gone>>
  BY <1>2 DEF Once, Handles, Handled, InBucket
<1>3. CASE /\ at[t] = "retire_push" /\ item' = [item EXCEPT ![t] = NULL]
           /\ bag' = [bag EXCEPT ![t] = [bag[t] EXCEPT ![0] = bag[t][0] \cup {item[t]}]]
           /\ UNCHANGED <<freed, gone>>
  <2>1. retiring[t] = {}
    BY <1>3 DEF Composed, Where, InOne, Free, Types
  <2>2. \A u \in Threads : Handles(u, n)' <=> Handles(u, n) /\ u # t
    BY <1>1, <1>3, <2>1 DEF Handles, Once
  <2>3. \A u \in Threads, c \in 0..2 :
           bag'[u][c] = IF u = t /\ c = 0 THEN bag[u][c] \cup {item[t]} ELSE bag[u][c]
    BY <1>1, <1>3
  <2>4. CASE n = item[t]
    <3>1. Handles(t, n) /\ Handled(n)
      BY <2>4 DEF Handles, Handled
    <3>2. ~Handled(n)' /\ ~InBucket(n) /\ n \notin freed' /\ Passed(n)'
      BY <1>3, <2>2, <3>1 DEF Once, Handled
    <3>3. \A u \in Threads, c \in 0..2 : n \in bag'[u][c] => u = t /\ c = 0
      BY <2>3, <3>2 DEF InBucket
    <3> QED
      BY <3>2, <3>3 DEF Once, Handled
  <2>5. CASE n # item[t]
    <3>1. \A u \in Threads, c \in 0..2 : n \in bag'[u][c] <=> n \in bag[u][c]
      <4>1. ASSUME NEW u \in Threads, NEW c \in 0..2 PROVE n \in bag'[u][c] <=> n \in bag[u][c]
        <5>1. bag'[u][c] = bag[u][c] \cup {item[t]} \/ bag'[u][c] = bag[u][c]
          BY <2>3
        <5> QED
          BY <2>5, <5>1
      <4> QED
        BY <4>1
    <3> QED
      BY <1>3, <2>2, <3>1 DEF Once, Handled, InBucket
  <2> QED
    BY <2>4, <2>5
<1>4. CASE /\ bag' = [bag EXCEPT ![t] = [b \in 0..2 |-> {}]]
           /\ freed' = freed \cup UNION {bag[t][b] : b \in 0..2}
           /\ UNCHANGED item
  <2>1. \A u \in Threads, c \in 0..2 : bag'[u][c] \subseteq bag[u][c]
    BY <1>1, <1>4
  <2>2. \A u \in Threads : Handles(u, n)' <=> Handles(u, n)
    BY <1>4 DEF Handles
  <2>3. InBucket(n)' => InBucket(n)
    BY <2>1 DEF InBucket
  <2>4. n \in freed' => n \in freed \/ InBucket(n)
    BY <1>4 DEF InBucket
  <2>5. \A u, v \in Threads, b, c \in 0..2 : n \in bag'[u][b] /\ n \in bag'[v][c] => u = v /\ b = c
    BY <2>1 DEF Once
  <2> QED
    BY <2>2, <2>3, <2>4, <2>5 DEF Once, Handled
<1> QED
  BY <1>2, <1>3, <1>4, EbrDisposal

\* An access to the queue may unlink a dummy, which its thread then has to retire.
LEMMA OnceUnlinks ==
    ASSUME Composed, NEW n \in Nodes, Once(n), Passed(n) => Passed(n)',
           NEW t \in Threads, Iterate(t)
    PROVE  Once(n)'
<1> USE DEF Composed, Types
<1>1. CASE hi' = hi
  <2>1. retiring' = [retiring EXCEPT ![t] = {}] /\ UNCHANGED <<item, bag, freed>>
    BY <1>1 DEF Iterate, epochs
  <2>2. \A u \in Threads : Handles(u, n)' => Handles(u, n)
    BY <2>1 DEF Handles
  <2> QED
    BY <2>1, <2>2 DEF Once, Handled, InBucket
<1>2. CASE hi' # hi
  <2>1. DeqCas(t)
    BY <1>2, PCStep DEF Iterate
  <2>2. retiring' = [retiring EXCEPT ![t] = {lhead[t]}] /\ UNCHANGED <<item, bag, freed>>
    BY <1>2 DEF Iterate, epochs
  <2>3. lhead[t] = chain[hi] /\ hi' = hi + 1 /\ chain' = chain /\ hi \in 1..Len(chain)
    BY <2>1 DEF DeqCas, StillDummy, IInv, OneList, TypeOK
  <2>4. CASE n = lhead[t]
    <3>1. ~Passed(n)
      BY <2>3, <2>4 DEF Passed, IInv, OneList
    <3>2. ~Handled(n) /\ ~InBucket(n) /\ n \notin freed
      BY <3>1 DEF Once
    <3>3. Passed(n)'
      <4>1. hi \in 1..Len(chain') /\ hi < hi' /\ chain'[hi] = n
        BY <2>3, <2>4, Bounds
      <4> HIDE DEF Composed, Types
      <4> QED
        BY <4>1 DEF Passed
    <3>4. \A u \in Threads : Handles(u, n)' <=> u = t
      BY <2>2, <2>4, <3>2 DEF Handles, Handled
    <3> QED
      BY <2>2, <3>2, <3>3, <3>4 DEF Once, Handled, InBucket
  <2>5. CASE n # lhead[t]
    <3>1. \A u \in Threads : Handles(u, n)' => Handles(u, n)
      BY <2>2, <2>5 DEF Handles
    <3> QED
      BY <2>2, <3>1 DEF Once, Handled, InBucket
  <2> QED
    BY <2>4, <2>5
<1> QED
  BY <1>1, <1>2

LEMMA OnceStep ==
    ASSUME Composed, [QueueNext]_queueVars, NEW n \in Nodes, Once(n)
    PROVE  Once(n)'
<1>0. Passed(n) => Passed(n)'
  BY QueueStepsAreSteps, PassedStays DEF Composed
<1>1. ASSUME UNCHANGED <<retiring, item, bag>>, n \in freed' => n \in freed PROVE Once(n)'
  BY <1>0, <1>1 DEF Once, Handles, Handled, InBucket
<1>2. CASE UNCHANGED queueVars
  <2>1. UNCHANGED <<retiring, item, bag, freed>>
    BY <1>2 DEF queueVars, epochs, glue
  <2> QED
    BY <1>1, <2>1
<1>3. ASSUME NEW t \in Threads, RetireDummy(t) PROVE Once(n)'
  <2>1. PICK m \in retiring[t] : Ebr!Retire(t, m)
    BY <1>3 DEF RetireDummy
  <2>2. /\ retiring' = [retiring EXCEPT ![t] = {}] /\ item' = [item EXCEPT ![t] = m]
        /\ UNCHANGED <<bag, freed>>
    BY <1>3, <2>1 DEF RetireDummy, Ebr!Retire, Ebr!Begin
  <2>3. retiring \in [Threads -> SUBSET Nodes] /\ item \in [Threads -> Objects \cup {NULL}]
    BY DEF Composed, Types, Lib!LibraryInv, Lib!EbrTypeOK
  <2>4. \A u \in Threads : Handles(u, n)' => Handles(u, n)
    BY <2>1, <2>2, <2>3 DEF Handles
  <2> QED
    BY <1>0, <2>2, <2>4 DEF Once, Handled, InBucket
<1>4. ASSUME NEW t \in Threads,
             \/ QueueCall(t) \/ MakeHpGuard(t) \/ Pin(t) \/ ReadMode(t) \/ Protect(t)
             \/ Iterate(t) \/ RetireDummy(t)
             \/ ClearHazard(t) \/ Unpin(t) \/ EndHpGuard(t) \/ QueueReturn(t) \/ ThreadExit(t)
             \/ InsideEpochs(t) \/ InsideHazards(t)
             \/ Stalls(t) \/ SwitchMode(t) \/ MoveBucket(t) \/ TriggerScan(t)
      PROVE  Once(n)'
  <2>1. CASE Ebr!EbrStep(t) /\ UNCHANGED retiring
    BY <1>0, <2>1, OnceInside
  <2>2. CASE Iterate(t)
    BY <1>0, <2>2, OnceUnlinks
  <2>3. CASE UNCHANGED <<retiring, item, bag>> /\ freed' \subseteq freed \cup retired[t]
    <3>1. n \notin retired[t]
      BY HybridNameAssumption DEF Composed, Frozen
    <3> QED
      BY <1>1, <2>3, <3>1
  <2> QED
    BY <1>3, <1>4, <2>1, <2>2, <2>3, Disposal
<1> QED
  BY <1>2, <1>4 DEF QueueNext

LEMMA OnceInit == QueueInit => \A n \in Nodes : Once(n)
BY LibraryAssumptions DEF QueueInit, Ebr!EbrInit, Ebr!Buckets, Once, Handles, Handled, InBucket, Objects

\* A dummy is retired once, by the thread whose CAS on head_ unlinked it, and only
\* after head_ has passed it (dequeue() and retire()), whatever a stall does.
THEOREM DummiesAreRetiredOnce == QueueSpec => []RetiredOnce
<1>0. QueueSpec => []\A n \in Nodes : Once(n)
  <2>1. (\A n \in Nodes : Once(n)) /\ Composed /\ [QueueNext]_queueVars => (\A n \in Nodes : Once(n))'
    BY OnceStep
  <2> QED
    BY <2>1, OnceInit, ComposedAlways, PTL DEF QueueSpec
<1>1. ASSUME Composed, \A n \in Nodes : Once(n) PROVE RetiredOnce
  <2> SUFFICES ASSUME NEW n \in Nodes
               PROVE  /\ Cardinality(Retirers(n)) + Cardinality(BucketsOf(n)) <= 1
                      /\ Retirers(n) # {} => n \notin freed
                      /\ Retirers(n) # {} \/ BucketsOf(n) # {} \/ n \in freed =>
                           \E j \in 1..(hi - 1) : chain[j] = n
    BY DEF RetiredOnce
  <2>1. Once(n) /\ hi \in Nat
    BY <1>1 DEF Composed, IInv, TypeOK
  <2>2. Retirers(n) # {} <=> Handled(n)
    BY DEF Retirers, Handled, Handles
  <2>3. BucketsOf(n) # {} <=> InBucket(n)
    <3>1. ASSUME NEW p \in BucketsOf(n) PROVE InBucket(n)
      <4>1. p[1] \in Threads /\ p[2] \in 0..2 /\ n \in bag[p[1]][p[2]]
        BY <3>1 DEF BucketsOf, Ebr!Buckets
      <4> QED
        BY <4>1 DEF InBucket
    <3>2. ASSUME NEW t \in Threads, NEW b \in 0..2, n \in bag[t][b] PROVE <<t, b>> \in BucketsOf(n)
      BY <3>2 DEF BucketsOf, Ebr!Buckets
    <3> QED
      BY <3>1, <3>2 DEF InBucket
  <2>4. Passed(n) => \E j \in 1..(hi - 1) : chain[j] = n
    BY <2>1 DEF Passed
  <2>5. Retirers(n) = {} \/ \E t : Retirers(n) = {t}
    BY <2>1 DEF Once, Retirers, Handles
  <2>6. BucketsOf(n) = {} \/ \E p : BucketsOf(n) = {p}
    <3>1. \A p, q \in BucketsOf(n) : p = q
      BY <2>1 DEF Once, BucketsOf, Ebr!Buckets
    <3> QED
      BY <3>1
  <2>7. Retirers(n) = {} \/ BucketsOf(n) = {}
    BY <2>1, <2>2, <2>3 DEF Once
  <2>8. Cardinality(Retirers(n)) + Cardinality(BucketsOf(n)) <= 1
    <3>1. Cardinality({}) = 0 /\ \A x : Cardinality({x}) = 1
      BY FS_EmptySet, FS_Singleton
    <3>2. CASE Retirers(n) = {} /\ BucketsOf(n) = {}
      BY <3>1, <3>2
    <3>3. ASSUME NEW t, Retirers(n) = {t}, BucketsOf(n) = {} PROVE Cardinality(Retirers(n)) + Cardinality(BucketsOf(n)) <= 1
      <4>1. Cardinality(Retirers(n)) = 1 /\ Cardinality(BucketsOf(n)) = 0
        BY <3>1, <3>3
      <4> QED
        BY <4>1
    <3>4. ASSUME NEW p, BucketsOf(n) = {p}, Retirers(n) = {} PROVE Cardinality(Retirers(n)) + Cardinality(BucketsOf(n)) <= 1
      <4>1. Cardinality(Retirers(n)) = 0 /\ Cardinality(BucketsOf(n)) = 1
        BY <3>1, <3>4
      <4> QED
        BY <4>1
    <3> QED
      BY <2>5, <2>6, <2>7, <3>2, <3>3, <3>4
  <2> QED
    BY <2>1, <2>2, <2>3, <2>4, <2>8 DEF Once
<1> QED
  BY <1>0, <1>1, ComposedAlways, PTL

----------------------------------------------------------------------------
(* The switch of modes *)

\* u will be found in its slot.
InSlot(u) == slot[u] # 0 /\ at[u] \notin {"exit_ctl", "exit_owner"}

\* While it switches modes, t has made SLOW whom it has come past; then everybody is.
Switching(t) ==
    /\ stall[t] = "switch" =>
         \A u \in present[t] : InSlot(u) /\ (slot[u] < at_slot[t] => mode[u] = "SLOW")
    /\ stall[t] \in {"move", "trigger"} => \A u \in present[t] : mode[u] = "SLOW"

\* A thread stays in its slot until it begins to exit.
LEMMA StaysInSlot ==
    ASSUME Composed, NEW u \in Threads, InSlot(u), NEW t \in Threads,
           \/ QueueCall(t) \/ MakeHpGuard(t) \/ Pin(t) \/ ReadMode(t) \/ Protect(t)
           \/ Iterate(t) \/ RetireDummy(t)
           \/ ClearHazard(t) \/ Unpin(t) \/ EndHpGuard(t) \/ QueueReturn(t) \/ ThreadExit(t)
           \/ InsideEpochs(t) \/ InsideHazards(t)
           \/ Stalls(t) \/ SwitchMode(t) \/ MoveBucket(t) \/ TriggerScan(t)
    PROVE  (InSlot(u)' /\ slot'[u] = slot[u]) \/ (t = u /\ ThreadExit(u))
<1>0. at \in [Threads -> Lib!Places] /\ slot \in [Threads -> Lib!Slots \cup {0}] /\ Lib!Control(u) /\ op[u] \in {"none", "pin_load"}
  BY DEF Composed, Lib!LibraryInv, Lib!EbrTypeOK, Where, InEpochs
<1> USE <1>0 DEF Ebr!Jump, Ebr!NextSlot, Ebr!ReclaimNext, Ebr!FlipReturns, Ebr!registry, InSlot
<1>1. ASSUME UNCHANGED <<at, slot>> PROVE InSlot(u)' /\ slot'[u] = slot[u]
  BY <1>1
<1>2. ASSUME NEW p, at' = [at EXCEPT ![t] = p], UNCHANGED slot, p \notin {"exit_ctl", "exit_owner"}
      PROVE  InSlot(u)' /\ slot'[u] = slot[u]
  BY <1>2
<1>3. CASE \/ QueueCall(t) \/ MakeHpGuard(t) \/ ReadMode(t) \/ Protect(t) \/ Iterate(t) \/ ClearHazard(t)
           \/ EndHpGuard(t) \/ QueueReturn(t) \/ InsideHazards(t) \/ SwitchMode(t) \/ MoveBucket(t) \/ TriggerScan(t)
  BY <1>1, <1>3 DEF QueueCall, MakeHpGuard, ReadMode, Protect, Iterate, ClearHazard, EndHpGuard, QueueReturn,
     InsideHazards, SwitchMode, MoveBucket, TriggerScan, epochs
<1>4. CASE Pin(t) \/ RetireDummy(t) \/ Unpin(t)
  <2>1. UNCHANGED slot /\ \E p \in {"claim", "pin_load", "retire_load", "idle"} : at' = [at EXCEPT ![t] = p]
    BY <1>4 DEF Pin, RetireDummy, Unpin, Ebr!Guard, Ebr!Retire, Ebr!Leave, Ebr!Begin
  <2> QED
    BY <1>2, <2>1
<1>5. CASE ThreadExit(t)
  <2>1. UNCHANGED slot /\ at' = [at EXCEPT ![t] = "exit_ctl"]
    BY <1>5 DEF ThreadExit, Ebr!Exit
  <2> QED
    BY <1>5, <2>1
<1>6. CASE InsideEpochs(t) \/ Stalls(t)
  <2>0. Ebr!EbrStep(t)
    BY <1>6, InsideIsEbrStep
  <2>1. CASE Ebr!Publish(t)
    <3>1. at[t] = "publish" /\ at' = [at EXCEPT ![t] = op[t]] /\ \E s : slot' = [slot EXCEPT ![t] = s]
      BY <2>1 DEF Ebr!Publish
    <3>2. u # t
      BY <3>1 DEF Lib!Control
    <3> QED
      BY <3>1, <3>2
  <2>2. CASE Ebr!ExitCtl(t) \/ Ebr!ExitOwner(t)
    <3>1. /\ at[t] \in {"exit_ctl", "exit_owner"} /\ \E p : at' = [at EXCEPT ![t] = p]
          /\ slot' = slot \/ slot' = [slot EXCEPT ![t] = 0]
      BY <2>2 DEF Ebr!ExitCtl, Ebr!ExitOwner
    <3>2. u # t
      BY <3>1
    <3> QED
      BY <3>1, <3>2
  <2>3. CASE Ebr!Claim(t) \/ Ebr!ClaimFail(t) \/ Ebr!PinLoad(t) \/ Ebr!PinStore(t) \/ Ebr!RetireLoad(t) \/ Ebr!RetirePush(t)
    <3>1. /\ UNCHANGED slot
          /\ \E p \in {"claim", "publish", "exhausted", "pin_store", "idle", "retire_push", "flip_load"} : at' = [at EXCEPT ![t] = p]
      BY <2>3 DEF Ebr!Claim, Ebr!ClaimFail, Ebr!PinLoad, Ebr!PinStore, Ebr!RetireLoad, Ebr!RetirePush
    <3> QED
      BY <1>2, <3>1
  <2>4. CASE Ebr!FlipLoad(t) \/ Ebr!ScanCtl(t) \/ Ebr!ScanSkip(t) \/ Ebr!ScanPinned(t) \/ Ebr!ScanPasses(t) \/ Ebr!Flip(t)
             \/ Ebr!FlipFail(t)
    <3>1. /\ UNCHANGED slot
          /\ \E p \in {"scan_ctl", "scan_epoch", "flip_cas", "idle", "reclaim_ctl"} : at' = [at EXCEPT ![t] = p]
      BY <2>4 DEF Ebr!FlipLoad, Ebr!ScanCtl, Ebr!ScanSkip, Ebr!ScanPinned, Ebr!ScanPasses, Ebr!Flip, Ebr!FlipFail
    <3> QED
      BY <1>2, <3>1
  <2>5. CASE Ebr!ReclaimCtl(t) \/ Ebr!ReclaimSkip(t) \/ Ebr!ReclaimFree(t) \/ Ebr!ReclaimClear(t) \/ Ebr!ExitDelete(t)
    <3>1. /\ UNCHANGED slot
          /\ \E p \in {"reclaim_ctl", "reclaim_free", "reclaim_clear", "idle"} : at' = [at EXCEPT ![t] = p]
      BY <2>5 DEF Ebr!ReclaimCtl, Ebr!ReclaimSkip, Ebr!ReclaimFree, Ebr!ReclaimClear, Ebr!ExitDelete
    <3> QED
      BY <1>2, <3>1
  <2> QED
    BY <2>0, <2>1, <2>2, <2>3, <2>4, <2>5 DEF Ebr!EbrStep
<1> QED
  BY <1>3, <1>4, <1>5, <1>6

\* A thread that is in its slot is in the slot's ctl.
LEMMA FoundInSlot ==
    ASSUME Composed, NEW u \in Threads, InSlot(u)
    PROVE  slot[u] \in 1..PoolSize /\ ctl[slot[u]] = u /\ u # NULL
BY LibraryAssumptions DEF Composed, InSlot, Lib!LibraryInv, Lib!EbrTypeOK, Lib!Slots, Lib!RegistryConsistent

\* The others' switches go on.
LEMMA SwitchGoesOn ==
    ASSUME Composed, NEW f \in Threads, Switching(f), NEW t \in Threads,
           \/ QueueCall(t) \/ MakeHpGuard(t) \/ Pin(t) \/ ReadMode(t) \/ Protect(t)
           \/ Iterate(t) \/ RetireDummy(t)
           \/ ClearHazard(t) \/ Unpin(t) \/ EndHpGuard(t) \/ QueueReturn(t) \/ ThreadExit(t)
           \/ InsideEpochs(t) \/ InsideHazards(t)
           \/ Stalls(t) \/ SwitchMode(t) \/ MoveBucket(t) \/ TriggerScan(t),
           stall'[f] = stall[f], at_slot'[f] = at_slot[f],
           present'[f] \subseteq present[f], ThreadExit(t) => t \notin present'[f],
           \A u \in Threads : mode[u] = "SLOW" => mode'[u] = "SLOW"
    PROVE  Switching(f)'
<1>1. present[f] \subseteq Threads
  BY DEF Composed, Types
<1>2. CASE stall[f] = "switch"
  <2>1. ASSUME NEW u \in present'[f]
        PROVE  InSlot(u)' /\ (slot'[u] < at_slot'[f] => mode'[u] = "SLOW")
    <3>1. u \in Threads /\ InSlot(u) /\ (slot[u] < at_slot[f] => mode[u] = "SLOW")
      BY <1>1, <1>2 DEF Switching
    <3>2. InSlot(u)' /\ slot'[u] = slot[u]
      BY <3>1, StaysInSlot
    <3> QED
      BY <3>1, <3>2
  <2> QED
    BY <1>2, <2>1 DEF Switching
<1>3. CASE stall[f] # "switch"
  BY <1>1, <1>3 DEF Switching
<1> QED
  BY <1>2, <1>3

LEMMA ModesOnlyGrow ==
    ASSUME Composed, [QueueNext]_queueVars
    PROVE  \A u \in Threads : mode[u] = "SLOW" => mode'[u] = "SLOW"
<1>1. CASE \E t \in Threads : SwitchMode(t)
  BY <1>1 DEF SwitchMode
<1>2. CASE ~\E t \in Threads : SwitchMode(t)
  <2>1. UNCHANGED mode
    BY <1>2 DEF QueueNext, queueVars, control, QueueCall, MakeHpGuard, Pin, ReadMode, Protect, Iterate, RetireDummy,
       ClearHazard, Unpin, EndHpGuard, QueueReturn, ThreadExit, InsideEpochs, InsideHazards, Stalls, MoveBucket, TriggerScan
  <2> QED
    BY <2>1
<1> QED
  BY <1>1, <1>2

LEMMA SwitchingStep ==
    ASSUME Composed, Types', \A u \in Threads : Switching(u), [QueueNext]_queueVars, NEW f \in Threads
    PROVE  Switching(f)'
<1>1. CASE UNCHANGED queueVars
  BY <1>1 DEF queueVars, epochs, control, Switching, InSlot
<1>2. ASSUME NEW t \in Threads,
             \/ QueueCall(t) \/ MakeHpGuard(t) \/ Pin(t) \/ ReadMode(t) \/ Protect(t)
             \/ Iterate(t) \/ RetireDummy(t)
             \/ ClearHazard(t) \/ Unpin(t) \/ EndHpGuard(t) \/ QueueReturn(t) \/ ThreadExit(t)
             \/ InsideEpochs(t) \/ InsideHazards(t)
             \/ Stalls(t) \/ SwitchMode(t) \/ MoveBucket(t) \/ TriggerScan(t)
      PROVE  Switching(f)'
  <2>0. \A u \in Threads : mode[u] = "SLOW" => mode'[u] = "SLOW"
    BY ModesOnlyGrow
  <2>a. /\ stall \in [Threads -> {"none", "switch", "move", "trigger"}] /\ at_slot \in [Threads -> 0..PoolSize]
        /\ present \in [Threads -> SUBSET Threads] /\ mode \in [Threads -> {"FAST", "SLOW"}]
        /\ at \in [Threads -> Lib!Places]
    BY DEF Composed, Types, Lib!LibraryInv, Lib!EbrTypeOK
  <2>b. ThreadExit(t) => t \notin present'[f]
    BY DEF ThreadExit
  <2>1. CASE \/ QueueCall(t) \/ MakeHpGuard(t) \/ Pin(t) \/ ReadMode(t) \/ Protect(t) \/ Iterate(t) \/ RetireDummy(t)
             \/ ClearHazard(t) \/ Unpin(t) \/ EndHpGuard(t) \/ QueueReturn(t) \/ InsideEpochs(t) \/ InsideHazards(t)
    <3>1. UNCHANGED <<stall, at_slot, present>>
      BY <2>1 DEF QueueCall, MakeHpGuard, Pin, ReadMode, Protect, Iterate, RetireDummy, ClearHazard, Unpin, EndHpGuard,
         QueueReturn, InsideEpochs, InsideHazards, control
    <3> QED
      BY <1>2, <2>0, <2>b, <3>1, SwitchGoesOn
  <2>2. CASE ThreadExit(t)
    <3>1. UNCHANGED <<stall, at_slot>> /\ present'[f] = present[f] \ {t}
      BY <2>a, <2>2 DEF ThreadExit
    <3> QED
      BY <1>2, <2>0, <2>b, <3>1, SwitchGoesOn
  <2>3. CASE Stalls(t)
    <3>1. \/ UNCHANGED <<stall, at_slot, present>>
          \/ /\ stall' = [stall EXCEPT ![t] = "switch"] /\ at_slot' = [at_slot EXCEPT ![t] = 1]
             /\ present' = [present EXCEPT ![t] = {u \in Threads : at[u] # "exit_ctl" /\ \E s \in 1..PoolSize : ctl[s] = u}]
             /\ UNCHANGED <<slot>> /\ \E p \in {"idle"} : at' = [at EXCEPT ![t] = p]
      BY <2>3 DEF Stalls, Ebr!Slots, Ebr!ScanPinned, Ebr!FlipFail, Ebr!Jump, Ebr!registry
    <3>3. CASE UNCHANGED <<stall, at_slot, present>> \/ f # t
      <4>1. stall'[f] = stall[f] /\ at_slot'[f] = at_slot[f] /\ present'[f] = present[f]
        BY <2>a, <3>1, <3>3
      <4> QED
        BY <1>2, <2>0, <2>b, <4>1, SwitchGoesOn
    <3>4. CASE ~UNCHANGED <<stall, at_slot, present>> /\ f = t
      <4>1. /\ stall'[t] = "switch" /\ at_slot'[t] = 1 /\ slot' = slot
            /\ present'[t] = {u \in Threads : at[u] # "exit_ctl" /\ \E s \in 1..PoolSize : ctl[s] = u}
            /\ \A u \in Threads : at'[u] \in {"idle", at[u]}
        BY <2>a, <3>1, <3>4
      <4>2. ASSUME NEW u \in present'[t] PROVE InSlot(u)' /\ ~(slot'[u] < 1)
        <5>1. PICK s \in 1..PoolSize : ctl[s] = u
          BY <4>1
        <5>2. u \in Threads /\ at[u] # "exit_ctl" /\ u # NULL
          BY <4>1, LibraryAssumptions
        <5>3. slot[u] = s
          BY <5>1, <5>2 DEF Composed, Lib!LibraryInv, Lib!RegistryConsistent, Lib!Slots
        <5>4. at[u] # "exit_owner"
          BY <5>1, <5>2, <5>3 DEF Composed, Lib!LibraryInv, Lib!Control
        <5>5. at'[u] \notin {"exit_ctl", "exit_owner"} /\ slot'[u] = s
          BY <4>1, <5>2, <5>3, <5>4
        <5>6. slot'[u] # 0 /\ ~(slot'[u] < 1)
          BY <5>1, <5>5, HybridSizeAssumption
        <5> QED
          BY <5>5, <5>6 DEF InSlot
      <4> QED
        BY <3>4, <4>1, <4>2 DEF Switching
    <3> QED
      BY <3>3, <3>4
  <2>4. CASE (SwitchMode(t) \/ MoveBucket(t) \/ TriggerScan(t)) /\ f # t
    <3>1. stall'[f] = stall[f] /\ at_slot'[f] = at_slot[f] /\ present'[f] = present[f]
      <4>1. CASE SwitchMode(t)
        BY <2>a, <2>4, <4>1 DEF SwitchMode, NextSlot
      <4>2. CASE MoveBucket(t)
        BY <2>a, <2>4, <4>2 DEF MoveBucket, NextSlot
      <4>3. CASE TriggerScan(t)
        BY <2>a, <2>4, <4>3 DEF TriggerScan
      <4> QED
        BY <2>4, <4>1, <4>2, <4>3
    <3> QED
      BY <1>2, <2>0, <2>b, <3>1, SwitchGoesOn
  <2>5. CASE SwitchMode(t) /\ f = t
    <3> DEFINE s == at_slot[t]
    <3>1. /\ stall[t] = "switch" /\ UNCHANGED <<present, slot, at>>
          /\ stall'[t] = IF s = PoolSize THEN "move" ELSE "switch"
          /\ at_slot'[t] = IF s = PoolSize THEN 1 ELSE s + 1
          /\ mode' = [u \in Threads |-> IF u \in ThisCtl(t) THEN "SLOW" ELSE mode[u]]
      BY <2>a, <2>5 DEF SwitchMode, NextSlot, LastOne, epochs
    <3>2. s \in Nat /\ PoolSize \in Nat \ {0}
      BY <2>a, HybridSizeAssumption
    <3>3. ASSUME NEW u \in present[t]
          PROVE  u \in Threads /\ InSlot(u) /\ slot[u] \in 1..PoolSize /\ (slot[u] <= s => mode'[u] = "SLOW")
      <4>1. u \in Threads /\ InSlot(u) /\ (slot[u] < s => mode[u] = "SLOW")
        BY <2>a, <2>5, <3>1 DEF Switching
      <4>2. slot[u] \in 1..PoolSize /\ ctl[slot[u]] = u /\ u # NULL
        BY <4>1, FoundInSlot
      <4>3. slot[u] = s => u \in ThisCtl(t)
        BY <4>2 DEF ThisCtl
      <4>4. slot[u] <= s => slot[u] = s \/ slot[u] < s
        BY <3>2, <4>2
      <4> QED
        BY <2>0, <3>1, <4>1, <4>2, <4>3, <4>4
    <3>4. CASE s = PoolSize
      <4>1. ASSUME NEW u \in present'[t] PROVE mode'[u] = "SLOW"
        <5>1. u \in present[t]
          BY <3>1
        <5>2. slot[u] <= s
          BY <3>2, <3>3, <3>4, <5>1
        <5> QED
          BY <3>3, <5>1, <5>2
      <4> QED
        BY <2>5, <3>1, <3>4, <4>1 DEF Switching
    <3>5. CASE s # PoolSize
      <4>1. ASSUME NEW u \in present'[t] PROVE InSlot(u)' /\ (slot'[u] < s + 1 => mode'[u] = "SLOW")
        <5>1. u \in present[t]
          BY <3>1
        <5>2. InSlot(u)' /\ slot'[u] = slot[u]
          BY <3>1, <3>3, <5>1 DEF InSlot
        <5>3. slot[u] \in 1..PoolSize
          BY <3>3, <5>1
        <5>4. slot[u] < s + 1 => slot[u] <= s
          BY <3>2, <5>3
        <5> QED
          BY <3>3, <5>1, <5>2, <5>4
      <4> QED
        BY <2>5, <3>1, <3>5, <4>1 DEF Switching
    <3> QED
      BY <3>4, <3>5
  <2>6. CASE MoveBucket(t) /\ f = t
    <3>1. stall[t] = "move" /\ stall'[t] \in {"move", "trigger"} /\ UNCHANGED <<mode, present>>
      BY <2>a, <2>6 DEF MoveBucket, NextSlot
    <3> QED
      BY <2>6, <3>1 DEF Switching
  <2>7. CASE TriggerScan(t) /\ f = t
    <3>1. stall'[t] = "none"
      BY <2>a, <2>7 DEF TriggerScan
    <3> QED
      BY <2>7, <3>1 DEF Switching
  <2> QED
    BY <1>2, <2>1, <2>2, <2>3, <2>4, <2>5, <2>6, <2>7
<1> QED
  BY <1>1, <1>2 DEF QueueNext

\* The switch that follows a stall misses nobody: who was registered, and not
\* exiting, when it began is SLOW when it ends, unless it has begun to exit.
THEOREM SwitchReachesEverybody == QueueSpec => []SwitchReachesAll
<1>1. QueueInit => \A t \in Threads : Switching(t)
  BY DEF QueueInit, Switching
<1>2. Composed /\ Composed' /\ (\A t \in Threads : Switching(t)) /\ [QueueNext]_queueVars => (\A t \in Threads : Switching(t))'
  BY SwitchingStep DEF Composed
<1>3. (\A t \in Threads : Switching(t)) => SwitchReachesAll
  BY DEF Switching, SwitchReachesAll
<1> QED
  BY <1>1, <1>2, <1>3, ComposedAlways, PTL DEF QueueSpec

\* The registry, the scans and the flips are sound under the HybridQueue too.
THEOREM QueueKeepsLibrary == QueueSpec => [](Lib!RegistryConsistent /\ Lib!ScanSeesPins /\ Lib!OneFlipPerEpoch)
<1>1. Composed => Lib!RegistryConsistent /\ Lib!ScanSeesPins /\ Lib!OneFlipPerEpoch
  BY Lib!LibraryPromises, LibraryAssumptions DEF Composed
<1> QED
  BY <1>1, ComposedAlways, PTL

=============================================================================
