---------------------------- MODULE EBRQueueProofs ----------------------------
(* Proofs about lfq::Queue with its reclamation, for every number of threads, *)
(* nodes, values, slots and epochs: the composition is the queue of MSQueue   *)
(* and keeps the invariant of the library; each dummy is retired once; and    *)
(* without force_cleanup() no epoch ever ends.                                *)
EXTENDS EBRQueue, MSQueueProofs, FiniteSetTheorems

\* Its lemmas about the library, which mention nothing of EBRClient.
Lib == INSTANCE EBRProofs WITH
           Objects <- Nodes, Outside <- {}, linked <- {}, refs <- {}, unlinked <- {}

----------------------------------------------------------------------------
(* The queue *)

LEMMA QueueStepsAreSteps == [QueueNext]_queueVars => [Next]_vars
<1> SUFFICES ASSUME [QueueNext]_queueVars PROVE [Next]_vars
  OBVIOUS
<1>1. CASE UNCHANGED queueVars
  BY <1>1 DEF queueVars
<1>2. ASSUME NEW t \in Threads, QueueCall(t) \/ Iterate(t) \/ QueueReturn(t) PROVE Next
  BY <1>2 DEF QueueCall, Iterate, QueueReturn, Next, Step
<1>3. ASSUME NEW t \in Threads,
             StartIteration(t) \/ RetireDummy(t) \/ EndIteration(t) \/ ForceCleanup(t) \/ ThreadExit(t) \/ Inside(t)
      PROVE  UNCHANGED vars
  BY <1>3 DEF StartIteration, RetireDummy, EndIteration, ForceCleanup, ThreadExit, Inside
<1> QED
  BY <1>1, <1>2, <1>3 DEF QueueNext

\* Whatever reclamation does, the accesses to the queue are those of MSQueue.
THEOREM QueueImplementsMSQueue == QueueSpec => Spec
<1>1. QueueInit => Init
  BY DEF QueueInit
<1> QED
  BY <1>1, QueueStepsAreSteps, PTL DEF QueueSpec, Spec

\* So lfq::Queue is a linearizable FIFO queue, whoever retires, flips and exits, as
\* long as a freed node keeps its contents; NothingFreedIsUsed says when none is read.
THEOREM QueueLinearizable == QueueSpec => Linearizable
BY QueueImplementsMSQueue, Linearizability, PTL

----------------------------------------------------------------------------
(* The library *)

GlueTypeOK ==
    /\ guard \in [Threads -> {"none", "held", "over"}]
    /\ retiring \in [Threads -> SUBSET Nodes]
    /\ forced \in BOOLEAN

\* The operations of the library that the queue calls.
Calls(t) ==
    \/ Ebr!Guard(t) \/ Ebr!Leave(t) \/ Ebr!ForceEpochAdvance(t) \/ Ebr!Exit(t)
    \/ \E n \in Nodes : Ebr!Retire(t, n)

LEMMA CallsAreLibrarySteps ==
    ASSUME NEW t \in Threads, Calls(t)
    PROVE  Lib!LibraryStep(t)
<1> USE DEF Ebr!Begin, Lib!Begin, Ebr!Jump, Lib!Jump, Ebr!registry, Lib!registry, Ebr!loop, Lib!loop
<1>1. Ebr!Guard(t) => Lib!Guard(t)
  BY DEF Ebr!Guard, Lib!Guard
<1>2. Ebr!Leave(t) => Lib!Leave(t)
  BY DEF Ebr!Leave, Lib!Leave
<1>3. Ebr!ForceEpochAdvance(t) => Lib!ForceEpochAdvance(t)
  BY DEF Ebr!ForceEpochAdvance, Lib!ForceEpochAdvance
<1>4. Ebr!Exit(t) => Lib!Exit(t)
  BY DEF Ebr!Exit, Lib!Exit
<1>5. \A n \in Nodes : Ebr!Retire(t, n) => Lib!Retire(t, n)
  BY DEF Ebr!Retire, Lib!Retire
<1> QED
  BY <1>1, <1>2, <1>3, <1>4, <1>5 DEF Calls, Lib!LibraryStep, Lib!Called

LEMMA AccessesAreLibrarySteps ==
    ASSUME NEW t \in Threads, Ebr!EbrStep(t)
    PROVE  Lib!LibraryStep(t)
<1> USE DEF Ebr!Jump, Lib!Jump, Ebr!registry, Lib!registry, Ebr!loop, Lib!loop,
            Ebr!NextSlot, Lib!NextSlot, Ebr!AtLastSlot, Lib!AtLastSlot,
            Ebr!FlipReturns, Lib!FlipReturns, Ebr!PinnedInCur, Lib!PinnedInCur,
            Ebr!StillCur, Lib!StillCur, Ebr!IdxOld, Lib!IdxOld, Ebr!Bucket, Lib!Bucket,
            Ebr!ReclaimNext, Lib!ReclaimNext, Ebr!Release, Lib!Release, Ebr!Buckets, Lib!Buckets
<1>1. Ebr!Claim(t) => Lib!Claim(t)
  BY DEF Ebr!Claim, Lib!Claim
<1>2. Ebr!ClaimFail(t) => Lib!ClaimFail(t)
  BY DEF Ebr!ClaimFail, Lib!ClaimFail
<1>3. Ebr!Publish(t) => Lib!Publish(t)
  BY DEF Ebr!Publish, Lib!Publish
<1>4. Ebr!PinLoad(t) => Lib!PinLoad(t)
  BY DEF Ebr!PinLoad, Lib!PinLoad
<1>5. Ebr!PinStore(t) => Lib!PinStore(t)
  BY DEF Ebr!PinStore, Lib!PinStore
<1>6. Ebr!RetireLoad(t) => Lib!RetireLoad(t)
  BY DEF Ebr!RetireLoad, Lib!RetireLoad
<1>7. Ebr!RetirePush(t) => Lib!RetirePush(t)
  BY Zenon DEF Ebr!RetirePush, Lib!RetirePush, Ebr!Cardinality, Lib!Cardinality
<1>8. Ebr!FlipLoad(t) => Lib!FlipLoad(t)
  BY DEF Ebr!FlipLoad, Lib!FlipLoad
<1>9. Ebr!ScanCtl(t) => Lib!ScanCtl(t)
  BY DEF Ebr!ScanCtl, Lib!ScanCtl
<1>10. Ebr!ScanSkip(t) => Lib!ScanSkip(t)
  BY DEF Ebr!ScanSkip, Lib!ScanSkip
<1>11. Ebr!ScanPinned(t) => Lib!ScanPinned(t)
  BY DEF Ebr!ScanPinned, Lib!ScanPinned
<1>12. Ebr!ScanPasses(t) => Lib!ScanPasses(t)
  BY DEF Ebr!ScanPasses, Lib!ScanPasses
<1>13. Ebr!Flip(t) => Lib!Flip(t)
  BY DEF Ebr!Flip, Lib!Flip
<1>14. Ebr!FlipFail(t) => Lib!FlipFail(t)
  BY DEF Ebr!FlipFail, Lib!FlipFail
<1>15. Ebr!ReclaimCtl(t) => Lib!ReclaimCtl(t)
  BY DEF Ebr!ReclaimCtl, Lib!ReclaimCtl
<1>16. Ebr!ReclaimSkip(t) => Lib!ReclaimSkip(t)
  BY DEF Ebr!ReclaimSkip, Lib!ReclaimSkip
<1>17. Ebr!ReclaimFree(t) => Lib!ReclaimFree(t)
  BY DEF Ebr!ReclaimFree, Lib!ReclaimFree
<1>18. Ebr!ReclaimClear(t) => Lib!ReclaimClear(t)
  BY DEF Ebr!ReclaimClear, Lib!ReclaimClear
<1>19. Ebr!ExitCtl(t) => Lib!ExitCtl(t)
  BY DEF Ebr!ExitCtl, Lib!ExitCtl
<1>20. Ebr!ExitOwner(t) => Lib!ExitOwner(t)
  BY DEF Ebr!ExitOwner, Lib!ExitOwner
<1>21. Ebr!ExitDelete(t) => Lib!ExitDelete(t)
  BY DEF Ebr!ExitDelete, Lib!ExitDelete
<1> QED
  BY <1>1, <1>2, <1>3, <1>4, <1>5, <1>6, <1>7, <1>8, <1>9, <1>10, <1>11, <1>12, <1>13, <1>14, <1>15, <1>16, <1>17, <1>18, <1>19, <1>20, <1>21 DEF Ebr!EbrStep, Lib!EbrStep, Lib!LibraryStep

LEMMA QueueStepsInLibrary ==
    ASSUME NEW t \in Threads,
           \/ QueueCall(t) \/ StartIteration(t) \/ Iterate(t) \/ RetireDummy(t)
           \/ EndIteration(t) \/ QueueReturn(t) \/ ForceCleanup(t) \/ ThreadExit(t) \/ Inside(t),
           GlueTypeOK
    PROVE  Lib!LibraryStep(t) \/ UNCHANGED library
<1>1. CASE QueueCall(t) \/ Iterate(t) \/ QueueReturn(t)
  BY <1>1 DEF QueueCall, Iterate, QueueReturn
<1>2. CASE StartIteration(t) \/ RetireDummy(t) \/ EndIteration(t) \/ ForceCleanup(t) \/ ThreadExit(t)
  <2>1. Calls(t)
    BY <1>2 DEF StartIteration, RetireDummy, EndIteration, ForceCleanup, ThreadExit, Calls, GlueTypeOK
  <2> QED
    BY <2>1, CallsAreLibrarySteps
<1>3. CASE Inside(t)
  BY <1>3, AccessesAreLibrarySteps DEF Inside
<1> QED
  BY <1>1, <1>2, <1>3

\* The assumptions of the library, whose objects are the nodes.
LEMMA LibraryAssumptions ==
    /\ PoolSize \in Nat \ {0} /\ Batch \in Nat \ {0} /\ MaxEpoch \in Nat
    /\ NULL \notin Threads /\ NULL \notin Nodes
BY QueuePoolAssumption, QueueThreadAssumption, NullAssumption

LEMMA LibraryKept ==
    ASSUME GlueTypeOK, Lib!LibraryInv, [QueueNext]_queueVars
    PROVE  Lib!LibraryInv'
<1>1. CASE UNCHANGED library
  <2>1. UNCHANGED Lib!ebrVars
    BY <1>1 DEF library, Lib!ebrVars, Lib!registry, Lib!loop
  <2> QED
    BY <2>1, Lib!OutsideStepHolds, LibraryAssumptions
<1>2. ASSUME NEW t \in Threads, Lib!LibraryStep(t) PROVE Lib!LibraryInv'
  BY <1>2, Lib!LibraryStepHolds, LibraryAssumptions
<1> QED
  BY <1>1, <1>2, QueueStepsInLibrary DEF QueueNext, queueVars

----------------------------------------------------------------------------
(* The calls of the one by the other *)

\* A thread inside an operation holds the Guard of its iteration, and has nothing
\* to retire but between its CAS on head_ and ebr::retire(head).
Glue(t) ==
    /\ guard[t] = "held" => pc[t] \notin {"idle", "return"}
    /\ guard[t] = "over" => pc[t] # "idle"
    /\ guard[t] # "over" \/ at[t] # "idle" => retiring[t] = {}

LEMMA AtOfOthers ==
    ASSUME Lib!LibraryInv, NEW t \in Threads, Calls(t) \/ Ebr!EbrStep(t)
    PROVE  \A u \in Threads \ {t} : at'[u] = at[u]
<1> USE DEF Ebr!Jump, Lib!LibraryInv, Lib!EbrTypeOK
<1>1. CASE Calls(t)
  BY <1>1 DEF Calls, Ebr!Guard, Ebr!Leave, Ebr!ForceEpochAdvance, Ebr!Exit, Ebr!Retire, Ebr!Begin
<1>2. CASE Ebr!EbrStep(t)
  <2>1. \E p : at' = [at EXCEPT ![t] = p]
    BY <1>2 DEF Ebr!EbrStep, Ebr!NextSlot, Ebr!ReclaimNext, Ebr!Claim, Ebr!ClaimFail, Ebr!Publish,
        Ebr!PinLoad, Ebr!PinStore, Ebr!RetireLoad, Ebr!RetirePush, Ebr!FlipLoad, Ebr!ScanCtl,
        Ebr!ScanSkip, Ebr!ScanPinned, Ebr!ScanPasses, Ebr!Flip, Ebr!FlipFail, Ebr!ReclaimCtl,
        Ebr!ReclaimSkip, Ebr!ReclaimFree, Ebr!ReclaimClear, Ebr!ExitCtl, Ebr!ExitOwner, Ebr!ExitDelete
  <2> QED
    BY <2>1
<1> QED
  BY <1>1, <1>2

LEMMA GlueStep ==
    ASSUME IInv, Lib!LibraryInv, GlueTypeOK, \A t \in Threads : Glue(t), [QueueNext]_queueVars
    PROVE  GlueTypeOK' /\ (\A t \in Threads : Glue(t))'
<1> USE DEF GlueTypeOK, Glue
<1>1. CASE UNCHANGED queueVars
  BY <1>1 DEF queueVars, vars, library, glue
<1>2. ASSUME NEW t \in Threads, QueueCall(t) \/ QueueReturn(t) PROVE GlueTypeOK' /\ (\A u \in Threads : Glue(u))'
  <2>1. /\ \E p \in PCs : pc' = [pc EXCEPT ![t] = p]
        /\ UNCHANGED <<at, glue>>
        /\ guard[t] = "none" \/ pc[t] = "idle"
        /\ pc[t] # "return" => pc'[t] # "idle"
    <3>1. Call(t) => pc[t] = "idle"
      BY DEF Call, Enqueue, Dequeue, Empty, Goto
    <3>2. (Call(t) \/ Step(t)) /\ (guard[t] = "none" \/ pc[t] = "idle") /\ UNCHANGED <<at, glue>>
      BY <1>2, <3>1 DEF QueueCall, QueueReturn, Step, library
    <3> QED
      BY <3>2, PCStep
  <2>2. guard[t] = "none"
    BY <2>1
  <2> QED
    BY <2>1, <2>2 DEF glue, IInv, TypeOK
<1>3. ASSUME NEW t \in Threads, StartIteration(t) PROVE GlueTypeOK' /\ (\A u \in Threads : Glue(u))'
  BY <1>3, AtOfOthers DEF StartIteration, Calls, vars
<1>4. ASSUME NEW t \in Threads, Iterate(t) PROVE GlueTypeOK' /\ (\A u \in Threads : Glue(u))'
  <2>1. /\ \E p \in PCs : pc' = [pc EXCEPT ![t] = p]
        /\ pc[t] # "return" => pc'[t] # "idle"
        /\ hi' # hi => DeqCas(t)
    BY <1>4, PCStep DEF Iterate
  <2>2. DeqCas(t) => pc'[t] = "return" /\ lhead[t] \in Nodes
    BY DEF DeqCas, Goto, StillDummy, IInv, TypeOK
  <2>3. GlueTypeOK'
    BY <1>4, <2>1, <2>2 DEF Iterate
  <2>4. ASSUME NEW u \in Threads PROVE Glue(u)'
    BY <1>4, <2>1, <2>2 DEF Iterate, library, IInv, TypeOK
  <2> QED
    BY <2>3, <2>4
<1>5. ASSUME NEW t \in Threads, RetireDummy(t) PROVE GlueTypeOK' /\ (\A u \in Threads : Glue(u))'
  <2>1. Calls(t)
    BY <1>5 DEF RetireDummy, Calls
  <2> QED
    BY <1>5, <2>1, AtOfOthers DEF RetireDummy, vars
<1>6. ASSUME NEW t \in Threads, EndIteration(t) PROVE GlueTypeOK' /\ (\A u \in Threads : Glue(u))'
  BY <1>6, AtOfOthers DEF EndIteration, Calls, vars
<1>7. ASSUME NEW t \in Threads, ForceCleanup(t) \/ ThreadExit(t) PROVE GlueTypeOK' /\ (\A u \in Threads : Glue(u))'
  <2>1. Calls(t) /\ pc[t] = "idle" /\ UNCHANGED <<pc, guard, retiring>> /\ forced' \in BOOLEAN
    BY <1>7 DEF ForceCleanup, ThreadExit, Calls, vars, glue
  <2> QED
    BY <2>1, AtOfOthers
<1>8. ASSUME NEW t \in Threads, Inside(t) PROVE GlueTypeOK' /\ (\A u \in Threads : Glue(u))'
  <2>1. at[t] # "idle"
    BY <1>8 DEF Inside, Ebr!EbrStep, Ebr!Jump, Ebr!NextSlot, Ebr!ReclaimNext, Ebr!Claim, Ebr!ClaimFail, Ebr!Publish,
        Ebr!PinLoad, Ebr!PinStore, Ebr!RetireLoad, Ebr!RetirePush, Ebr!FlipLoad, Ebr!ScanCtl,
        Ebr!ScanSkip, Ebr!ScanPinned, Ebr!ScanPasses, Ebr!Flip, Ebr!FlipFail, Ebr!ReclaimCtl,
        Ebr!ReclaimSkip, Ebr!ReclaimFree, Ebr!ReclaimClear, Ebr!ExitCtl, Ebr!ExitOwner, Ebr!ExitDelete
  <2> QED
    BY <1>8, <2>1, AtOfOthers DEF Inside, vars, glue
<1> QED
  BY <1>1, <1>2, <1>3, <1>4, <1>5, <1>6, <1>7, <1>8 DEF QueueNext

----------------------------------------------------------------------------
(* The way of a dummy: unlinked, retired, freed *)

\* t has still to put n into a bucket.
Handles(t, n) == n \in retiring[t] \/ item[t] = n

Handled(n) == \E t \in Threads : Handles(t, n)
InBucket(n) == \E t \in Threads, b \in 0..2 : n \in bag[t][b]

\* A dummy is in one thread's hands or in one bucket, and was head_'s before.
Once(n) ==
    /\ \A t, u \in Threads : Handles(t, n) /\ Handles(u, n) => t = u
    /\ \A t, u \in Threads, b, c \in 0..2 : n \in bag[t][b] /\ n \in bag[u][c] => t = u /\ b = c
    /\ Handled(n) => ~InBucket(n) /\ n \notin freed
    /\ Handled(n) \/ InBucket(n) \/ n \in freed => Passed(n)

\* What an access inside the library does to the retired nodes: push one, or
\* free and forget some that are in buckets.
LEMMA DisposalEffect ==
    ASSUME Lib!LibraryInv, NEW t \in Threads, Ebr!EbrStep(t)
    PROVE  \/ /\ at[t] = "retire_push" /\ item[t] \in Nodes
              /\ item' = [item EXCEPT ![t] = NULL] /\ UNCHANGED freed
              /\ \E b \in 0..2 : \A u \in Threads, c \in 0..2 :
                    bag'[u][c] = IF u = t /\ c = b THEN bag[u][c] \cup {item[t]} ELSE bag[u][c]
           \/ /\ UNCHANGED item
              /\ \A u \in Threads, c \in 0..2 : bag'[u][c] \subseteq bag[u][c]
              /\ \A n \in freed' \ freed : InBucket(n)
<1> USE DEF Ebr!Jump, Ebr!NextSlot, Ebr!ReclaimNext
<1>1. /\ bag \in [Threads -> [0..2 -> SUBSET Nodes]] /\ cur \in [Threads -> Nat]
      /\ item \in [Threads -> Nodes \cup {NULL}]
  BY LibraryAssumptions DEF Lib!LibraryInv, Lib!EbrTypeOK, Lib!Buckets
<1>2. CASE Ebr!RetirePush(t)
  <2> DEFINE b == cur[t] % 3
  <2>1. b \in 0..2 /\ item[t] \in Nodes /\ at[t] = "retire_push"
    <3>1. at[t] = "retire_push"
      BY <1>2 DEF Ebr!RetirePush
    <3>2. item[t] \in Nodes
      BY <3>1 DEF Lib!LibraryInv, Lib!Control
    <3>3. cur[t] \in Nat
      BY <1>1
    <3> QED
      BY <3>1, <3>2, <3>3
  <2>2. bag' = [bag EXCEPT ![t][b] = bag[t][b] \cup {item[t]}]
    BY <1>2 DEF Ebr!RetirePush, Ebr!Bucket
  <2>3. \A u \in Threads, c \in 0..2 :
           bag'[u][c] = IF u = t /\ c = b THEN bag[u][c] \cup {item[t]} ELSE bag[u][c]
    BY <1>1, <2>1, <2>2
  <2>4. item' = [item EXCEPT ![t] = NULL] /\ UNCHANGED freed
    BY <1>2 DEF Ebr!RetirePush
  <2> QED
    BY <2>1, <2>3, <2>4
<1>3. CASE Ebr!ReclaimFree(t)
  <2>1. found[t] \in Threads /\ Ebr!IdxOld(t) \in 0..2
    BY SMTT(30), <1>1, <1>3 DEF Ebr!ReclaimFree, Ebr!IdxOld, Ebr!Bucket, Lib!LibraryInv, Lib!Control
  <2>2. freed' = freed \cup bag[found[t]][Ebr!IdxOld(t)] /\ UNCHANGED <<item, bag>>
    BY <1>3 DEF Ebr!ReclaimFree
  <2> QED
    BY <2>1, <2>2 DEF InBucket
<1>4. CASE Ebr!ReclaimClear(t)
  <2> DEFINE b == Ebr!IdxOld(t)
  <2>1. found[t] \in Threads /\ b \in 0..2
    <3>1. at[t] = "reclaim_clear"
      BY <1>4 DEF Ebr!ReclaimClear
    <3>2. found[t] \in Threads
      BY <3>1 DEF Lib!LibraryInv, Lib!Control
    <3>3. cur[t] \in Nat
      BY <1>1
    <3> QED
      BY <3>2, <3>3 DEF Ebr!IdxOld, Ebr!Bucket
  <2>2. bag' = [bag EXCEPT ![found[t]][b] = {}] /\ UNCHANGED <<item, freed>>
    BY <1>4 DEF Ebr!ReclaimClear
  <2> HIDE DEF b
  <2>3. \A u \in Threads, c \in 0..2 : bag'[u][c] \subseteq bag[u][c]
    BY <1>1, <2>1, <2>2
  <2> QED
    BY <2>2, <2>3
<1>5. CASE Ebr!ExitDelete(t)
  <2>1. /\ freed' = freed \cup UNION {bag[t][b] : b \in 0..2} /\ UNCHANGED item
        /\ bag' = [bag EXCEPT ![t] = [b \in 0..2 |-> {}]]
    BY <1>5 DEF Ebr!ExitDelete, Ebr!Buckets
  <2>2. \A u \in Threads, c \in 0..2 : bag'[u][c] \subseteq bag[u][c]
    BY <1>1, <2>1
  <2> QED
    BY <2>1, <2>2 DEF InBucket
<1>6. CASE Ebr!Claim(t) \/ Ebr!ClaimFail(t) \/ Ebr!Publish(t) \/ Ebr!PinLoad(t) \/ Ebr!PinStore(t)
           \/ Ebr!RetireLoad(t) \/ Ebr!FlipLoad(t) \/ Ebr!ScanCtl(t) \/ Ebr!ScanSkip(t)
           \/ Ebr!ScanPinned(t) \/ Ebr!ScanPasses(t) \/ Ebr!Flip(t) \/ Ebr!FlipFail(t)
           \/ Ebr!ReclaimCtl(t) \/ Ebr!ReclaimSkip(t) \/ Ebr!ExitCtl(t) \/ Ebr!ExitOwner(t)
  <2>1. UNCHANGED <<item, bag, freed>>
    BY <1>6 DEF Ebr!Claim, Ebr!ClaimFail, Ebr!Publish, Ebr!PinLoad, Ebr!PinStore,
        Ebr!RetireLoad, Ebr!FlipLoad, Ebr!ScanCtl, Ebr!ScanSkip, Ebr!ScanPinned, Ebr!ScanPasses,
        Ebr!Flip, Ebr!FlipFail, Ebr!ReclaimCtl, Ebr!ReclaimSkip, Ebr!ExitCtl, Ebr!ExitOwner
  <2> QED
    BY <2>1
<1> QED
  BY <1>2, <1>3, <1>4, <1>5, <1>6 DEF Ebr!EbrStep

LEMMA OnceStep ==
    ASSUME IInv, Lib!LibraryInv, GlueTypeOK, \A t \in Threads : Glue(t),
           [QueueNext]_queueVars, NEW n \in Nodes, Once(n)
    PROVE  Once(n)'
<1> USE DEF GlueTypeOK
<1>0. Passed(n) => Passed(n)'
  BY QueueStepsAreSteps, PassedStays
<1>1. item \in [Threads -> Nodes \cup {NULL}] /\ NULL \notin Nodes
  BY LibraryAssumptions DEF Lib!LibraryInv, Lib!EbrTypeOK
<1>2. ASSUME UNCHANGED <<retiring, item, bag, freed>> PROVE Once(n)'
  BY <1>0, <1>2 DEF Once, Handles, Handled, InBucket
<1>3. CASE UNCHANGED queueVars
  BY <1>2, <1>3 DEF queueVars, library, glue
<1>4. ASSUME NEW t \in Threads, QueueCall(t) \/ QueueReturn(t) PROVE Once(n)'
  BY <1>2, <1>4 DEF QueueCall, QueueReturn, library, glue
<1>5. ASSUME NEW t \in Threads, StartIteration(t) \/ EndIteration(t) \/ ForceCleanup(t) \/ ThreadExit(t) PROVE Once(n)'
  BY <1>2, <1>5 DEF StartIteration, EndIteration, ForceCleanup, ThreadExit, glue,
     Ebr!Guard, Ebr!Leave, Ebr!ForceEpochAdvance, Ebr!Exit, Ebr!Begin
<1>6. ASSUME NEW t \in Threads, Iterate(t), hi' = hi PROVE Once(n)'
  <2>1. retiring' = [retiring EXCEPT ![t] = {}] /\ UNCHANGED <<item, bag, freed>>
    BY <1>6 DEF Iterate, library
  <2>2. \A u \in Threads : Handles(u, n)' => Handles(u, n)
    BY <2>1 DEF Handles
  <2> QED
    BY <1>0, <2>1, <2>2 DEF Once, Handled, InBucket
<1>7. ASSUME NEW t \in Threads, Iterate(t), hi' # hi PROVE Once(n)'
  <2>1. DeqCas(t)
    BY <1>7, PCStep DEF Iterate
  <2>2. retiring' = [retiring EXCEPT ![t] = {lhead[t]}] /\ UNCHANGED <<item, bag, freed>>
    BY <1>7 DEF Iterate, library
  <2>3. lhead[t] = chain[hi] /\ hi' = hi + 1 /\ chain' = chain /\ hi \in 1..Len(chain)
    BY <2>1 DEF DeqCas, StillDummy, IInv, OneList, TypeOK
  <2>4. CASE n = lhead[t]
    <3>1. ~Passed(n)
      BY <2>3, <2>4 DEF Passed, IInv, OneList
    <3>2. ~Handled(n) /\ ~InBucket(n) /\ n \notin freed
      BY <3>1 DEF Once
    <3>3. Passed(n)'
      BY <2>3, <2>4 DEF Passed
    <3>4. \A u \in Threads : Handles(u, n)' <=> u = t
      BY <2>2, <2>4, <3>2 DEF Handles, Handled
    <3> QED
      BY <2>2, <3>2, <3>3, <3>4 DEF Once, Handled, InBucket
  <2>5. CASE n # lhead[t]
    <3>1. \A u \in Threads : Handles(u, n)' => Handles(u, n)
      BY <2>2, <2>5 DEF Handles
    <3> QED
      BY <1>0, <2>2, <3>1 DEF Once, Handled, InBucket
  <2> QED
    BY <2>4, <2>5
<1>8. ASSUME NEW t \in Threads, RetireDummy(t) PROVE Once(n)'
  <2>1. PICK m \in retiring[t] : Ebr!Retire(t, m)
    BY <1>8 DEF RetireDummy
  <2>2. /\ retiring' = [retiring EXCEPT ![t] = {}] /\ item' = [item EXCEPT ![t] = m]
        /\ UNCHANGED <<bag, freed>>
    BY <1>8, <2>1 DEF RetireDummy, Ebr!Retire, Ebr!Begin
  <2>3. \A u \in Threads : Handles(u, n)' => Handles(u, n)
    BY <1>1, <2>1, <2>2 DEF Handles
  <2> QED
    BY <1>0, <2>2, <2>3 DEF Once, Handled, InBucket
<1>9. ASSUME NEW t \in Threads, Inside(t) PROVE Once(n)'
  <2>0. Ebr!EbrStep(t) /\ UNCHANGED retiring
    BY <1>9 DEF Inside, glue
  <2>1. CASE /\ UNCHANGED item
             /\ \A u \in Threads, c \in 0..2 : bag'[u][c] \subseteq bag[u][c]
             /\ \A m \in freed' \ freed : InBucket(m)
    <3>1. \A u \in Threads : Handles(u, n)' <=> Handles(u, n)
      BY <2>0, <2>1 DEF Handles
    <3>2. InBucket(n)' => InBucket(n)
      BY <2>1 DEF InBucket
    <3>3. n \in freed' => n \in freed \/ InBucket(n)
      BY <2>1
    <3>4. \A u, v \in Threads, b, c \in 0..2 : n \in bag'[u][b] /\ n \in bag'[v][c] => u = v /\ b = c
      BY <2>1 DEF Once
    <3> QED
      BY <1>0, <3>1, <3>2, <3>3, <3>4 DEF Once, Handled
  <2>2. ASSUME at[t] = "retire_push", item[t] \in Nodes, item' = [item EXCEPT ![t] = NULL], UNCHANGED freed,
               NEW b \in 0..2,
               \A u \in Threads, c \in 0..2 :
                   bag'[u][c] = IF u = t /\ c = b THEN bag[u][c] \cup {item[t]} ELSE bag[u][c]
        PROVE  Once(n)'
    <3>1. retiring[t] = {}
      BY <2>2 DEF Glue
    <3>2. \A u \in Threads : Handles(u, n)' <=> Handles(u, n) /\ u # t
      BY <1>1, <2>0, <2>2, <3>1 DEF Handles, Once
    <3>3. CASE n = item[t]
      <4>1. Handles(t, n) /\ Handled(n)
        BY <3>3 DEF Handles, Handled
      <4>2. ~Handled(n)' /\ ~InBucket(n) /\ n \notin freed' /\ Passed(n)'
        BY <1>0, <2>2, <3>2, <4>1 DEF Once, Handled
      <4>3. \A u \in Threads, c \in 0..2 : n \in bag'[u][c] => u = t /\ c = b
        BY <2>2, <4>2 DEF InBucket
      <4> QED
        BY <4>2, <4>3 DEF Once, Handled
    <3>4. CASE n # item[t]
      <4>1. \A u \in Threads, c \in 0..2 : n \in bag'[u][c] <=> n \in bag[u][c]
        <5>1. {item[t]} \cap {n} = {}
          BY <3>4
        <5>2. ASSUME NEW u \in Threads, NEW c \in 0..2 PROVE n \in bag'[u][c] <=> n \in bag[u][c]
          BY <2>2, <5>1
        <5> QED
          BY <5>2
      <4> QED
        BY <1>0, <2>2, <3>2, <4>1 DEF Once, Handled, InBucket
    <3> QED
      BY <3>3, <3>4
  <2> QED
    BY <2>0, <2>1, <2>2, DisposalEffect
<1> QED
  BY <1>3, <1>4, <1>5, <1>6, <1>7, <1>8, <1>9 DEF QueueNext

\* The inductive invariant of the composition.
QueueInv ==
    /\ IInv
    /\ Lib!LibraryInv
    /\ GlueTypeOK
    /\ \A t \in Threads : Glue(t)
    /\ \A n \in Nodes : Once(n)

LEMMA QueueInitHolds == QueueInit => QueueInv
<1> SUFFICES ASSUME QueueInit PROVE QueueInv
  OBVIOUS
<1>1. IInv
  BY InitInv DEF QueueInit
<1>2. Lib!LibraryInv
  <2>1. Lib!EbrInit
    BY DEF QueueInit, Ebr!EbrInit, Lib!EbrInit, Ebr!Slots, Lib!Slots, Ebr!Buckets, Lib!Buckets
  <2> QED
    BY <2>1, Lib!LibraryInitHolds, LibraryAssumptions
<1>3. GlueTypeOK /\ \A t \in Threads : Glue(t)
  BY DEF QueueInit, GlueTypeOK, Glue
<1>4. \A n \in Nodes : Once(n)
  BY LibraryAssumptions DEF QueueInit, Ebr!EbrInit, Ebr!Buckets, Once, Handles, Handled, InBucket
<1> QED
  BY <1>1, <1>2, <1>3, <1>4 DEF QueueInv

LEMMA QueueStepHolds == QueueInv /\ [QueueNext]_queueVars => QueueInv'
<1> SUFFICES ASSUME QueueInv, [QueueNext]_queueVars PROVE QueueInv'
  OBVIOUS
<1>1. IInv'
  BY StepInv, QueueStepsAreSteps DEF QueueInv
<1>2. Lib!LibraryInv'
  BY LibraryKept DEF QueueInv
<1>3. GlueTypeOK' /\ (\A t \in Threads : Glue(t))'
  BY GlueStep DEF QueueInv
<1>4. \A n \in Nodes : Once(n)'
  BY OnceStep DEF QueueInv
<1> QED
  BY <1>1, <1>2, <1>3, <1>4 DEF QueueInv

\* The inductive invariant holds of every reachable state.
THEOREM QueueInvariance == QueueSpec => []QueueInv
BY QueueInitHolds, QueueStepHolds, PTL DEF QueueSpec

\* The invariants of the library hold under the queue as under any client.
THEOREM QueueKeepsLibrary == QueueSpec => [](Lib!RegistryConsistent /\ Lib!ScanSeesPins /\ Lib!OneFlipPerEpoch)
<1>1. QueueInv => Lib!RegistryConsistent /\ Lib!ScanSeesPins /\ Lib!OneFlipPerEpoch
  BY Lib!LibraryPromises, LibraryAssumptions DEF QueueInv
<1> QED
  BY <1>1, QueueInvariance, PTL

\* A dummy is retired once, by the thread whose CAS on head_ unlinked it, and only
\* after head_ has passed it (dequeue() and retire()), even when epochs advance.
THEOREM DummiesAreRetiredOnce == QueueSpec => []RetiredOnce
<1>1. ASSUME QueueInv PROVE RetiredOnce
  <2> SUFFICES ASSUME NEW n \in Nodes
               PROVE  /\ Cardinality(Retirers(n)) + Cardinality(BucketsOf(n)) <= 1
                      /\ Retirers(n) # {} => n \notin freed
                      /\ Retirers(n) # {} \/ BucketsOf(n) # {} \/ n \in freed =>
                           \E j \in 1..(hi - 1) : chain[j] = n
    BY DEF RetiredOnce
  <2>1. Once(n) /\ hi \in Nat
    BY <1>1 DEF QueueInv, IInv, TypeOK
  <2>2. Retirers(n) # {} <=> Handled(n)
    BY DEF Retirers, Handled, Handles
  <2>3. BucketsOf(n) # {} <=> InBucket(n)
    <3>1. ASSUME NEW p \in BucketsOf(n) PROVE InBucket(n)
      <4>1. p[1] \in Threads /\ p[2] \in 0..2 /\ n \in bag[p[1]][p[2]]
        BY <3>1 DEF BucketsOf, Ebr!Buckets
      <4> QED
        BY <4>1 DEF InBucket
    <3>2. ASSUME NEW t \in Threads, NEW b \in 0..2, n \in bag[t][b] PROVE <<t, b>> \in BucketsOf(n)
      BY <3>2 DEF BucketsOf, Ebr!Buckets
    <3> QED
      BY <3>1, <3>2 DEF InBucket
  <2>4. Passed(n) => \E j \in 1..(hi - 1) : chain[j] = n
    BY <2>1 DEF Passed
  <2>5. Retirers(n) = {} \/ \E t : Retirers(n) = {t}
    BY <2>1 DEF Once, Retirers, Handles
  <2>6. BucketsOf(n) = {} \/ \E p : BucketsOf(n) = {p}
    <3>1. \A p, q \in BucketsOf(n) : p = q
      BY <2>1 DEF Once, BucketsOf, Ebr!Buckets
    <3> QED
      BY <3>1
  <2>7. Retirers(n) = {} \/ BucketsOf(n) = {}
    BY <2>1, <2>2, <2>3 DEF Once
  <2>8. Cardinality(Retirers(n)) + Cardinality(BucketsOf(n)) <= 1
    <3>1. Cardinality({}) = 0 /\ \A x : Cardinality({x}) = 1
      BY FS_EmptySet, FS_Singleton
    <3>2. CASE Retirers(n) = {} /\ BucketsOf(n) = {}
      BY <3>1, <3>2
    <3>3. ASSUME NEW t, Retirers(n) = {t}, BucketsOf(n) = {} PROVE Cardinality(Retirers(n)) + Cardinality(BucketsOf(n)) <= 1
      <4>1. Cardinality(Retirers(n)) = 1 /\ Cardinality(BucketsOf(n)) = 0
        BY <3>1, <3>3
      <4> QED
        BY <4>1
    <3>4. ASSUME NEW p, BucketsOf(n) = {p}, Retirers(n) = {} PROVE Cardinality(Retirers(n)) + Cardinality(BucketsOf(n)) <= 1
      <4>1. Cardinality(Retirers(n)) = 0 /\ Cardinality(BucketsOf(n)) = 1
        BY <3>1, <3>4
      <4> QED
        BY <4>1
    <3> QED
      BY <2>5, <2>6, <2>7, <3>2, <3>3, <3>4
  <2> QED
    BY <2>1, <2>2, <2>3, <2>4, <2>8 DEF Once
<1> QED
  BY <1>1, QueueInvariance, PTL

----------------------------------------------------------------------------
(* The epoch without force_cleanup() *)

\* Where a thread is that only uses the queue.  When it flips, it is in its own
\* Guard, pinned in the only epoch there is, and so a blocker of its own scan.
FrozenAt(t) ==
    /\ guard[t] = "none" => local[t] = {} /\ at[t] \in {"idle", "exit_ctl", "exit_owner", "exit_delete"}
    /\ guard[t] = "held" =>
         /\ at[t] \in {"idle", "claim", "publish", "pin_load", "pin_store", "exhausted"}
         /\ local[t] = IF at[t] = "idle" THEN {0} ELSE {}
    /\ guard[t] = "over" =>
         /\ at[t] \in {"idle", "retire_load", "retire_push", "flip_load", "scan_ctl", "scan_epoch"}
         /\ local[t] = {0}
    /\ op[t] \in {"none", "pin_load"} /\ cur[t] = 0
    /\ at[t] \in {"scan_ctl", "scan_epoch"} => t \in blockers[t]

Frozen == epoch = 0 /\ (gone = {} => freed = {}) /\ \A t \in Threads : FrozenAt(t)
FrozenInv == ~forced => Frozen

LEMMA FrozenCalls ==
    ASSUME QueueInv, Frozen, NEW t \in Threads,
           StartIteration(t) \/ RetireDummy(t) \/ EndIteration(t) \/ ThreadExit(t)
    PROVE  Frozen'
<1> USE DEF Frozen, FrozenAt, QueueInv, GlueTypeOK, Lib!LibraryInv, Lib!EbrTypeOK, Ebr!Jump, Ebr!registry, Ebr!loop
<1>1. CASE StartIteration(t)
  BY <1>1 DEF StartIteration, Ebr!Guard, Ebr!Begin
<1>2. CASE RetireDummy(t)
  <2>1. guard[t] = "over"
    BY <1>2 DEF RetireDummy, Glue
  <2>2. slot[t] # 0
    <3>1. local[t] # {}
      BY <2>1
    <3> QED
      BY <3>1 DEF Lib!Control
  <2> QED
    BY <1>2, <2>1, <2>2 DEF RetireDummy, Ebr!Retire, Ebr!Begin
<1>3. CASE EndIteration(t)
  BY <1>3 DEF EndIteration, Ebr!Leave
<1>4. CASE ThreadExit(t)
  <2>1. /\ at[t] = "idle" /\ at' = [at EXCEPT ![t] = "exit_ctl"] /\ local[t] = {}
        /\ UNCHANGED <<epoch, gone, local, freed, op, cur, blockers, guard>>
    BY <1>4 DEF ThreadExit, Ebr!Exit, glue
  <2>2. pc[t] = "idle" /\ guard[t] = "none"
    <3>1. pc[t] = "idle" /\ guard[t] # "held" /\ guard[t] # "over"
      BY <1>4 DEF ThreadExit, Glue
    <3> QED
      BY <3>1
  <2>3. FrozenAt(t)'
    BY <2>1, <2>2
  <2>4. ASSUME NEW u \in Threads \ {t} PROVE FrozenAt(u)'
    BY <2>1
  <2> QED
    BY <2>1, <2>3, <2>4
<1> QED
  BY <1>1, <1>2, <1>3, <1>4

LEMMA FrozenAccesses ==
    ASSUME QueueInv, QueueInv', Frozen, NEW t \in Threads, Inside(t)
    PROVE  Frozen'
<1> USE DEF Frozen, FrozenAt, QueueInv, GlueTypeOK, Lib!LibraryInv, Lib!EbrTypeOK, Ebr!Jump, Ebr!registry, Ebr!loop
<1>0. UNCHANGED <<guard, forced>> /\ Ebr!EbrStep(t)
  BY DEF Inside, glue
<1>1. CASE Ebr!Claim(t)
  <2>1. /\ at[t] = "claim" /\ at' = [at EXCEPT ![t] = "publish"]
        /\ UNCHANGED <<epoch, gone, local, freed, op, cur, blockers>>
    BY <1>1 DEF Ebr!Claim
  <2>2. guard[t] = "held" /\ local[t] = {}
    BY <2>1
  <2>3. FrozenAt(t)'
    BY <1>0, <2>1, <2>2
  <2>4. ASSUME NEW u \in Threads \ {t} PROVE FrozenAt(u)'
    BY <1>0, <2>1
  <2> QED
    BY <2>1, <2>3, <2>4
<1>2. CASE Ebr!ClaimFail(t)
  <2>1. /\ at[t] = "claim" /\ \E p \in {"claim", "exhausted"} : at' = [at EXCEPT ![t] = p]
        /\ UNCHANGED <<epoch, gone, local, freed, op, cur, blockers>>
    BY <1>2 DEF Ebr!ClaimFail, Ebr!NextSlot
  <2>2. guard[t] = "held" /\ local[t] = {}
    BY <2>1
  <2>3. FrozenAt(t)'
    BY <1>0, <2>1, <2>2
  <2>4. ASSUME NEW u \in Threads \ {t} PROVE FrozenAt(u)'
    BY <1>0, <2>1
  <2> QED
    BY <2>1, <2>3, <2>4
<1>3. CASE Ebr!Publish(t)
  <2>1. op[t] = "pin_load" /\ guard[t] = "held"
    <3>1. at[t] = "publish"
      BY <1>3 DEF Ebr!Publish
    <3>2. op[t] # "none"
      BY <3>1 DEF Lib!Control
    <3>3. op[t] = "pin_load"
      BY <3>2
    <3> QED
      BY <3>1, <3>3
  <2> QED
    BY <1>0, <1>3, <2>1 DEF Ebr!Publish
<1>4. CASE Ebr!PinLoad(t) \/ Ebr!PinStore(t)
  <2>1. CASE Ebr!PinLoad(t)
    BY <1>0, <2>1 DEF Ebr!PinLoad
  <2>2. CASE Ebr!PinStore(t)
    <3>1. /\ at[t] = "pin_store" /\ at' = [at EXCEPT ![t] = "idle"]
          /\ local' = [local EXCEPT ![t] = {0}] /\ cur' = [cur EXCEPT ![t] = 0]
          /\ UNCHANGED <<epoch, gone, freed, op, blockers>>
      BY <2>2 DEF Ebr!PinStore
    <3>2. guard[t] = "held"
      BY <3>1
    <3>3. FrozenAt(t)'
      BY <1>0, <3>1, <3>2
    <3>4. ASSUME NEW u \in Threads \ {t} PROVE FrozenAt(u)'
      BY <1>0, <3>1
    <3>5. \A u \in Threads : FrozenAt(u)'
      BY <3>3, <3>4
    <3> HIDE DEF FrozenAt
    <3> QED
      BY <3>1, <3>5
  <2> QED
    BY <1>4, <2>1, <2>2
<1>5. CASE Ebr!RetireLoad(t)
  BY <1>0, <1>5 DEF Ebr!RetireLoad
<1>6. CASE Ebr!RetirePush(t)
  <2>1. /\ at[t] = "retire_push" /\ \E p \in {"flip_load", "idle"} : at' = [at EXCEPT ![t] = p]
        /\ cur' = [cur EXCEPT ![t] = 0]
        /\ UNCHANGED <<epoch, gone, local, freed, op, blockers>>
    BY <1>6 DEF Ebr!RetirePush
  <2> QED
    BY <1>0, <2>1
<1>7. CASE Ebr!FlipLoad(t)
  <2>1. local[t] = {0}
    BY <1>7 DEF Ebr!FlipLoad
  <2> QED
    BY <1>0, <1>7, <2>1 DEF Ebr!FlipLoad
<1>8. CASE Ebr!ScanCtl(t)
  BY <1>0, <1>8 DEF Ebr!ScanCtl
<1>9. CASE Ebr!ScanSkip(t) \/ Ebr!ScanPasses(t)
  <2>1. /\ at[t] \in {"scan_ctl", "scan_epoch"}
        /\ \E p \in {"scan_ctl", "flip_cas"} : at' = [at EXCEPT ![t] = p]
        /\ UNCHANGED <<epoch, gone, local, freed, op, cur, blockers>>
    BY <1>9 DEF Ebr!ScanSkip, Ebr!ScanPasses, Ebr!NextSlot
  <2>2. t \in blockers'[t]
    BY <2>1
  <2>3. at'[t] # "flip_cas"
    BY <2>2 DEF Lib!ScanState
  <2> QED
    BY <1>0, <2>1, <2>3
<1>10. CASE Ebr!ScanPinned(t)
  BY <1>0, <1>10 DEF Ebr!ScanPinned, Ebr!FlipReturns
<1>11. CASE Ebr!Flip(t) \/ Ebr!FlipFail(t) \/ Ebr!ReclaimCtl(t) \/ Ebr!ReclaimSkip(t) \/ Ebr!ReclaimFree(t) \/ Ebr!ReclaimClear(t)
  <2>1. at[t] \in {"flip_cas", "reclaim_ctl", "reclaim_free", "reclaim_clear"}
    BY <1>11 DEF Ebr!Flip, Ebr!FlipFail, Ebr!ReclaimCtl, Ebr!ReclaimSkip, Ebr!ReclaimFree, Ebr!ReclaimClear, Ebr!ReclaimNext, Ebr!NextSlot
  <2> QED
    BY <2>1
<1>12. CASE Ebr!ExitCtl(t) \/ Ebr!ExitOwner(t)
  <2>1. /\ at[t] \in {"exit_ctl", "exit_owner"}
        /\ \E p \in {"exit_owner", "exit_delete"} : at' = [at EXCEPT ![t] = p]
        /\ UNCHANGED <<epoch, gone, local, freed, op, cur, blockers>>
    BY <1>12 DEF Ebr!ExitCtl, Ebr!ExitOwner
  <2> QED
    BY <1>0, <2>1
<1>13. CASE Ebr!ExitDelete(t)
  BY <1>0, <1>13 DEF Ebr!ExitDelete
<1> QED
  BY <1>0, <1>1, <1>2, <1>3, <1>4, <1>5, <1>6, <1>7, <1>8, <1>9, <1>10, <1>11, <1>12, <1>13 DEF Ebr!EbrStep

LEMMA FrozenStep == QueueInv /\ QueueInv' /\ FrozenInv /\ [QueueNext]_queueVars => FrozenInv'
<1> SUFFICES ASSUME QueueInv, QueueInv', FrozenInv, [QueueNext]_queueVars, ~forced' PROVE Frozen'
  BY DEF FrozenInv
<1> USE DEF Frozen, FrozenAt
<1>1. CASE UNCHANGED queueVars
  BY <1>1 DEF queueVars, vars, library, glue, FrozenInv
<1>2. ASSUME NEW t \in Threads, QueueCall(t) \/ QueueReturn(t) PROVE Frozen'
  BY <1>2 DEF QueueCall, QueueReturn, library, glue, FrozenInv
<1>3. ASSUME NEW t \in Threads, StartIteration(t) \/ RetireDummy(t) \/ EndIteration(t) \/ ThreadExit(t) PROVE Frozen'
  <2>1. ~forced
    BY <1>3 DEF StartIteration, RetireDummy, EndIteration, ThreadExit, glue
  <2> QED
    BY <1>3, <2>1, FrozenCalls DEF FrozenInv
<1>4. ASSUME NEW t \in Threads, Iterate(t) PROVE Frozen'
  BY <1>4 DEF Iterate, library, FrozenInv, QueueInv, GlueTypeOK
<1>5. ASSUME NEW t \in Threads, ForceCleanup(t) PROVE Frozen'
  BY <1>5 DEF ForceCleanup
<1>6. ASSUME NEW t \in Threads, Inside(t) PROVE Frozen'
  <2>1. ~forced
    BY <1>6 DEF Inside, glue
  <2> QED
    BY <1>6, <2>1, FrozenAccesses DEF FrozenInv
<1> QED
  BY <1>1, <1>2, <1>3, <1>4, <1>5, <1>6 DEF QueueNext

\* dequeue() retires inside its own Guard, so that its try_flip() never succeeds:
\* without force_cleanup() the epoch stays 0 and nothing is freed before a thread
\* exits, however many threads, nodes and slots there are.
THEOREM EpochStaysFrozen == QueueSpec => []EpochFrozen
<1>1. QueueInit => FrozenInv
  BY DEF QueueInit, Ebr!EbrInit, FrozenInv, Frozen, FrozenAt
<1>2. QueueInv /\ FrozenInv => EpochFrozen
  BY DEF FrozenInv, Frozen, EpochFrozen
<1> QED
  BY <1>1, <1>2, FrozenStep, QueueInvariance, PTL DEF QueueSpec

\* As long as nobody has called force_cleanup() and no thread has exited, no
\* operation reads or writes a freed node, and neither head_ nor tail_ is one.
THEOREM NothingFreedIsUsed == QueueSpec => [](~forced /\ gone = {} => NoUseAfterFree)
<1>1. EpochFrozen => (~forced /\ gone = {} => NoUseAfterFree)
  BY DEF EpochFrozen, NoUseAfterFree
<1> QED
  BY <1>1, EpochStaysFrozen, PTL

=============================================================================
