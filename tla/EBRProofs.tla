------------------------------ MODULE EBRProofs ------------------------------
(* Proofs about lfq::ebr, for every number of threads, slots and objects.     *)
(* The first part is what the library keeps true whoever calls it: an         *)
(* inductive invariant of every step of it.  It mentions nothing of a client, *)
(* and the proofs about the queues cite it.  The second part applies it to    *)
(* the clients of EBRClient.                                                  *)
EXTENDS EBRClient, TLAPS

----------------------------------------------------------------------------
(* The library *)

Called(t) ==
    \/ Guard(t) \/ ForceEpochAdvance(t)
    \/ \E o \in Objects : Retire(t, o)

\* Any action of the library, or the start of one of its operations.
LibraryStep(t) ==
    \/ Called(t) \/ Leave(t) \/ Exit(t)
    \/ EbrStep(t)

\* What the place a thread has reached says of its variables.
Control(t) ==
    /\ at[t] \in {"claim", "publish"} => slot[t] = 0 /\ op[t] # "none" /\ index[t] \in Slots
    /\ op[t] # "none" => at[t] \in {"claim", "publish", "exhausted"}
    /\ slot[t] = 0 => local[t] = {}
    /\ at[t] \in {"pin_load", "pin_store", "exit_ctl", "exit_owner"} => slot[t] # 0 /\ local[t] = {}
    /\ at[t] = "exit_owner" => ctl[slot[t]] # t
    /\ at[t] \in {"retire_load", "retire_push"} \/ op[t] = "retire_load" => item[t] \in Objects
    /\ at[t] \in {"scan_ctl", "scan_epoch"} \cup Reclaiming => index[t] \in Slots
    /\ at[t] \in {"scan_epoch", "reclaim_free", "reclaim_clear"} => found[t] \in Threads

\* While f scans, whoever has been pinned all along is still ahead of it.
ScanState(f) ==
    IF at[f] \in {"scan_ctl", "scan_epoch"}
    THEN \A u \in blockers[f] :
            /\ cur[f] \in local[u]
            /\ index[f] <= slot[u]
            /\ at[f] = "scan_epoch" /\ index[f] = slot[u] => found[f] = u
    ELSE blockers[f] = {}

\* A reclaimer's epoch is over.
ReclaimState(t) == at[t] \in Reclaiming => cur[t] < epoch

\* The inductive invariant: the registry and the scans need each other.
LibraryInv ==
    /\ EbrTypeOK
    /\ \A t \in Threads : Control(t)
    /\ RegistryConsistent
    /\ \A t \in Threads : ScanState(t)
    /\ \A t \in Threads : ReclaimState(t)
    /\ OneFlipPerEpoch

\* A call enters init_thread() or, for a registered thread, its operation.
Entries == {"claim", "pin_load", "retire_load", "flip_load"}

LEMMA BeginEffect ==
    ASSUME LibraryInv, NEW t \in Threads, NEW first \in Entries \ {"claim"}, Begin(t, first)
    PROVE  /\ at[t] = "idle" /\ at'[t] \in Entries
           /\ \A f \in Threads \ {t} : at'[f] = at[f] /\ index'[f] = index[f]
           /\ at' \in [Threads -> Places] /\ index' \in [Threads -> Slots \cup {0}]
           /\ op' \in [Threads -> Operations]
           /\ UNCHANGED <<epoch, owner, ctl, slot, gone, local, bag, freed, cur, found, blockers>>
<1> USE DEF Begin, Jump, registry, Entries, Operations, Places, LibraryInv, EbrTypeOK
<1>1. 1 \in Slots
  BY PoolAssumption DEF Slots
<1>2. CASE slot[t] = 0
  <2>1. /\ at[t] = "idle" /\ at' = [at EXCEPT ![t] = "claim"]
        /\ op' = [op EXCEPT ![t] = first] /\ index' = [index EXCEPT ![t] = 1]
    BY <1>2
  <2>2. at' \in [Threads -> Places] /\ op' \in [Threads -> Operations]
    BY <2>1
  <2>3. index' \in [Threads -> Slots \cup {0}]
    BY <1>1, <2>1
  <2> QED
    BY <2>1, <2>2, <2>3
<1>3. CASE slot[t] # 0
  BY SMTT(30), <1>3
<1> QED
  BY <1>2, <1>3

LEMMA CallEffect ==
    ASSUME LibraryInv, NEW t \in Threads, Called(t)
    PROVE  /\ at[t] = "idle" /\ at'[t] \in Entries
           /\ \A f \in Threads \ {t} : at'[f] = at[f] /\ index'[f] = index[f]
           /\ at' \in [Threads -> Places] /\ index' \in [Threads -> Slots \cup {0}]
           /\ op' \in [Threads -> Operations]
           /\ UNCHANGED <<epoch, owner, ctl, slot, gone, local, bag, freed, cur, found, blockers>>
           /\ item' \in [Threads -> Objects \cup {NULL}]
<1>1. \E first \in Entries \ {"claim"} : Begin(t, first)
  BY DEF Called, Guard, ForceEpochAdvance, Retire, Entries
<1>2. item' \in [Threads -> Objects \cup {NULL}]
  BY DEF Called, Guard, ForceEpochAdvance, Retire, LibraryInv, EbrTypeOK
<1> QED
  BY <1>1, <1>2, BeginEffect

\* Types.
LEMMA TypeStep ==
    ASSUME LibraryInv, NEW t \in Threads, LibraryStep(t)
    PROVE  EbrTypeOK'
<1> USE PoolAssumption, EpochAssumption, NullThreadAssumption DEF LibraryInv, Jump, registry, loop, EbrTypeOK, Control, Places, Operations, Slots, Buckets, Reclaiming
<1>1. CASE Called(t)
  BY <1>1, CallEffect
<1>2. CASE Claim(t)
  BY <1>2 DEF Claim
<1>3. CASE ClaimFail(t)
  BY <1>3 DEF ClaimFail, NextSlot, AtLastSlot
<1>4. CASE Publish(t)
  BY <1>4 DEF Publish
<1>5. CASE PinLoad(t)
  BY <1>5 DEF PinLoad
<1>6. CASE PinStore(t)
  BY <1>6 DEF PinStore
<1>7. CASE Leave(t)
  BY <1>7 DEF Leave
<1>8. CASE RetireLoad(t)
  BY <1>8 DEF RetireLoad
<1>9. CASE RetirePush(t)
  BY <1>9 DEF RetirePush, Buckets, Bucket
<1>10. CASE FlipLoad(t)
  BY <1>10 DEF FlipLoad
<1>11. CASE ScanCtl(t)
  BY <1>11 DEF ScanCtl
<1>12. CASE ScanSkip(t)
  BY <1>12 DEF ScanSkip, NextSlot, AtLastSlot
<1>13. CASE ScanPinned(t)
  BY <1>13 DEF ScanPinned, FlipReturns
<1>14. CASE ScanPasses(t)
  BY <1>14 DEF ScanPasses, NextSlot, AtLastSlot, PinnedInCur
<1>15. CASE Flip(t)
  BY <1>15 DEF Flip, StillCur
<1>16. CASE FlipFail(t)
  BY <1>16 DEF FlipFail, FlipReturns
<1>17. CASE ReclaimCtl(t)
  BY <1>17 DEF ReclaimCtl
<1>18. CASE ReclaimSkip(t)
  BY <1>18 DEF ReclaimSkip, ReclaimNext, NextSlot, AtLastSlot
<1>19. CASE ReclaimFree(t)
  <2>1. IdxOld(t) \in Buckets /\ found[t] \in Threads
    BY <1>19 DEF ReclaimFree, IdxOld, Bucket
  <2>2. bag[found[t]][IdxOld(t)] \subseteq Objects
    BY <2>1
  <2>3. /\ at[t] = "reclaim_free" /\ at' = [at EXCEPT ![t] = "reclaim_clear"]
        /\ freed' = freed \cup bag[found[t]][IdxOld(t)]
        /\ UNCHANGED <<epoch, registry, local, bag, op, loop, item, blockers>>
    BY <1>19 DEF ReclaimFree
  <2> QED
    BY <2>2, <2>3
<1>20. CASE ReclaimClear(t)
  <2>1. IdxOld(t) \in Buckets /\ found[t] \in Threads
    BY <1>20 DEF ReclaimClear, ReclaimNext, NextSlot, IdxOld, Bucket
  <2>2. bag' = [bag EXCEPT ![found[t]] = [bag[found[t]] EXCEPT ![IdxOld(t)] = {}]]
    BY <1>20 DEF ReclaimClear
  <2>3. bag' \in [Threads -> [Buckets -> SUBSET Objects]]
    BY <2>1, <2>2
  <2> QED
    BY <1>20, <2>3 DEF ReclaimClear, ReclaimNext, NextSlot, AtLastSlot
<1>21. CASE Exit(t)
  BY <1>21 DEF Exit
<1>22. CASE ExitCtl(t)
  BY <1>22 DEF ExitCtl, Release
<1>23. CASE ExitOwner(t)
  BY <1>23 DEF ExitOwner, Release
<1>24. CASE ExitDelete(t)
  BY <1>24 DEF ExitDelete
<1> QED
  BY <1>1, <1>2, <1>3, <1>4, <1>5, <1>6, <1>7, <1>8, <1>9, <1>10, <1>11, <1>12, <1>13, <1>14, <1>15, <1>16, <1>17, <1>18, <1>19, <1>20, <1>21, <1>22, <1>23, <1>24 DEF LibraryStep, EbrStep

\* Places.
LEMMA ControlStep ==
    ASSUME LibraryInv, NEW t \in Threads, LibraryStep(t)
    PROVE  \A u \in Threads : Control(u)'
<1> USE PoolAssumption, EpochAssumption, NullThreadAssumption DEF LibraryInv, Jump, registry, loop, EbrTypeOK, Control, RegistryConsistent, Places, Operations, Slots, Buckets, Reclaiming
<1>1. CASE Called(t)
  <2>1. CASE slot[t] = 0
    <3>1. CASE Guard(t)
      BY <2>1, <3>1 DEF Guard, Begin
    <3>2. CASE ForceEpochAdvance(t)
      BY <2>1, <3>2 DEF ForceEpochAdvance, Begin
    <3>3. ASSUME NEW o \in Objects, Retire(t, o) PROVE \A u \in Threads : Control(u)'
      BY <2>1, <3>3 DEF Retire, Begin
    <3> QED
      BY <1>1, <3>1, <3>2, <3>3 DEF Called
  <2>2. CASE slot[t] # 0
    <3>1. CASE Guard(t)
      BY <2>2, <3>1 DEF Guard, Begin
    <3>2. CASE ForceEpochAdvance(t)
      BY <2>2, <3>2 DEF ForceEpochAdvance, Begin
    <3>3. ASSUME NEW o \in Objects, Retire(t, o) PROVE \A u \in Threads : Control(u)'
      BY <2>2, <3>3 DEF Retire, Begin
    <3> QED
      BY <1>1, <3>1, <3>2, <3>3 DEF Called
  <2> QED
    BY <2>1, <2>2
<1>2. CASE Claim(t)
  BY <1>2 DEF Claim
<1>3. CASE ClaimFail(t)
  BY <1>3 DEF ClaimFail, NextSlot, AtLastSlot
<1>4. CASE Publish(t)
  <2> DEFINE s == index[t]
  <2>1. /\ at[t] = "publish" /\ at' = [at EXCEPT ![t] = op[t]] /\ op' = [op EXCEPT ![t] = "none"]
        /\ s \in Slots /\ s # 0 /\ slot[t] = 0 /\ local[t] = {} /\ slot' = [slot EXCEPT ![t] = s]
        /\ ctl' = [ctl EXCEPT ![s] = t] /\ index' = [index EXCEPT ![t] = 0]
        /\ UNCHANGED <<local, item, found>> /\ op[t] \in {"pin_load", "retire_load", "flip_load"}
    BY <1>4 DEF Publish
  <2>2. Control(t)'
    BY <2>1
  <2>3. ASSUME NEW u \in Threads \ {t} PROVE Control(u)'
    BY <2>1
  <2> QED
    BY <2>2, <2>3
<1>5. CASE PinLoad(t)
  BY <1>5 DEF PinLoad
<1>6. CASE PinStore(t)
  BY <1>6 DEF PinStore
<1>7. CASE Leave(t)
  BY <1>7 DEF Leave
<1>8. CASE RetireLoad(t)
  BY <1>8 DEF RetireLoad
<1>9. CASE RetirePush(t)
  <2>1. /\ at[t] = "retire_push" /\ at' \in {[at EXCEPT ![t] = "flip_load"], [at EXCEPT ![t] = "idle"]}
        /\ item' = [item EXCEPT ![t] = NULL]
        /\ UNCHANGED <<slot, local, op, ctl, index, found>>
    BY <1>9 DEF RetirePush
  <2>2. Control(t)'
    BY <2>1
  <2>3. ASSUME NEW u \in Threads \ {t} PROVE Control(u)'
    BY <2>1
  <2> QED
    BY <2>2, <2>3
<1>10. CASE FlipLoad(t)
  <2>1. /\ at[t] = "flip_load" /\ at' = [at EXCEPT ![t] = "scan_ctl"]
        /\ index' = [index EXCEPT ![t] = 1] /\ 1 \in Slots
        /\ UNCHANGED <<slot, local, op, ctl, item, found>>
    BY <1>10 DEF FlipLoad
  <2>2. Control(t)'
    BY <2>1
  <2>3. ASSUME NEW u \in Threads \ {t} PROVE Control(u)'
    BY <2>1
  <2> QED
    BY <2>2, <2>3
<1>11. CASE ScanCtl(t)
  BY <1>11 DEF ScanCtl
<1>12. CASE ScanSkip(t)
  BY <1>12 DEF ScanSkip, NextSlot, AtLastSlot
<1>13. CASE ScanPinned(t)
  BY <1>13 DEF ScanPinned, FlipReturns
<1>14. CASE ScanPasses(t)
  BY <1>14 DEF ScanPasses, NextSlot, AtLastSlot, PinnedInCur
<1>15. CASE Flip(t)
  <2>1. /\ at[t] = "flip_cas" /\ at' = [at EXCEPT ![t] = "reclaim_ctl"]
        /\ index' = [index EXCEPT ![t] = 1] /\ 1 \in Slots
        /\ UNCHANGED <<slot, local, op, ctl, item, found>>
    BY <1>15 DEF Flip
  <2>2. Control(t)'
    BY <2>1
  <2>3. ASSUME NEW u \in Threads \ {t} PROVE Control(u)'
    BY <2>1
  <2> QED
    BY <2>2, <2>3
<1>16. CASE FlipFail(t)
  BY <1>16 DEF FlipFail, FlipReturns
<1>17. CASE ReclaimCtl(t)
  BY <1>17 DEF ReclaimCtl
<1>18. CASE ReclaimSkip(t)
  BY <1>18 DEF ReclaimSkip, ReclaimNext, NextSlot, AtLastSlot
<1>19. CASE ReclaimFree(t)
  BY <1>19 DEF ReclaimFree, Buckets, IdxOld, Bucket
<1>20. CASE ReclaimClear(t)
  BY SMTT(30), <1>20 DEF ReclaimClear, ReclaimNext, NextSlot, AtLastSlot, Buckets, IdxOld, Bucket
<1>21. CASE Exit(t)
  BY <1>21 DEF Exit
<1>22. CASE ExitCtl(t)
  BY <1>22 DEF ExitCtl, Release
<1>23. CASE ExitOwner(t)
  BY <1>23 DEF ExitOwner, Release
<1>24. CASE ExitDelete(t)
  <2>1. /\ at[t] = "exit_delete" /\ at' = [at EXCEPT ![t] = "idle"]
        /\ UNCHANGED <<slot, local, op, ctl, item, found, index>>
    BY <1>24 DEF ExitDelete
  <2>2. Control(t)'
    BY <2>1
  <2>3. ASSUME NEW u \in Threads \ {t} PROVE Control(u)'
    BY <2>1
  <2> QED
    BY <2>2, <2>3
<1> QED
  BY <1>1, <1>2, <1>3, <1>4, <1>5, <1>6, <1>7, <1>8, <1>9, <1>10, <1>11, <1>12, <1>13, <1>14, <1>15, <1>16, <1>17, <1>18, <1>19, <1>20, <1>21, <1>22, <1>23, <1>24 DEF LibraryStep, EbrStep

\* The registry.
LEMMA RegistryStep ==
    ASSUME LibraryInv, NEW t \in Threads, LibraryStep(t)
    PROVE  RegistryConsistent'
<1> USE PoolAssumption, EpochAssumption, NullThreadAssumption DEF LibraryInv, Jump, registry, loop, EbrTypeOK, Control, RegistryConsistent, Places, Operations, Slots, Buckets, Reclaiming
<1>1. CASE Called(t)
  <2>1. CASE slot[t] = 0
    <3>1. CASE Guard(t)
      BY <2>1, <3>1 DEF Guard, Begin
    <3>2. CASE ForceEpochAdvance(t)
      BY <2>1, <3>2 DEF ForceEpochAdvance, Begin
    <3>3. ASSUME NEW o \in Objects, Retire(t, o) PROVE RegistryConsistent'
      BY <2>1, <3>3 DEF Retire, Begin
    <3> QED
      BY <1>1, <3>1, <3>2, <3>3 DEF Called
  <2>2. CASE slot[t] # 0
    <3>1. CASE Guard(t)
      BY <2>2, <3>1 DEF Guard, Begin
    <3>2. CASE ForceEpochAdvance(t)
      BY <2>2, <3>2 DEF ForceEpochAdvance, Begin
    <3>3. ASSUME NEW o \in Objects, Retire(t, o) PROVE RegistryConsistent'
      BY <2>2, <3>3 DEF Retire, Begin
    <3> QED
      BY <1>1, <3>1, <3>2, <3>3 DEF Called
  <2> QED
    BY <2>1, <2>2
<1>2. CASE Claim(t)
  BY <1>2 DEF Claim
<1>3. CASE ClaimFail(t)
  BY <1>3 DEF ClaimFail, NextSlot, AtLastSlot
<1>4. CASE Publish(t)
  <2> DEFINE s == index[t]
  <2>1. /\ at[t] = "publish" /\ at' = [at EXCEPT ![t] = op[t]]
        /\ s \in Slots /\ s # 0 /\ slot[t] = 0 /\ slot' = [slot EXCEPT ![t] = s] /\ owner[s] = t
        /\ ctl' = [ctl EXCEPT ![s] = t] /\ index' = [index EXCEPT ![t] = 0]
        /\ UNCHANGED owner /\ op[t] \in {"pin_load", "retire_load", "flip_load"}
    BY <1>4 DEF Publish
  <2>2. \A u \in Threads \ {t} : slot'[u] = slot[u] /\ at'[u] = at[u] /\ index'[u] = index[u]
    BY <2>1
  <2>3. \A u \in Threads \ {t} : slot[u] # s
    BY <2>1
  <2>4. ASSUME NEW u \in Threads
        PROVE  /\ slot'[u] # 0 => owner'[slot'[u]] = u
               /\ slot'[u] # 0 /\ at'[u] # "exit_owner" => ctl'[slot'[u]] = u
               /\ at'[u] = "publish" => owner'[index'[u]] = u
    BY <2>1, <2>2, <2>3
  <2>5. ASSUME NEW i \in Slots, owner'[i] # NULL
        PROVE  slot'[owner'[i]] = i \/ (at'[owner'[i]] = "publish" /\ index'[owner'[i]] = i)
    BY <2>1, <2>2, <2>5
  <2>6. ASSUME NEW i \in Slots, ctl'[i] # NULL PROVE slot'[ctl'[i]] = i
    BY <2>1, <2>2, <2>6
  <2> QED
    BY <2>4, <2>5, <2>6
<1>5. CASE PinLoad(t)
  BY <1>5 DEF PinLoad
<1>6. CASE PinStore(t)
  BY <1>6 DEF PinStore
<1>7. CASE Leave(t)
  BY <1>7 DEF Leave
<1>8. CASE RetireLoad(t)
  BY <1>8 DEF RetireLoad
<1>9. CASE RetirePush(t)
  BY <1>9 DEF RetirePush, Buckets, Bucket
<1>10. CASE FlipLoad(t)
  BY <1>10 DEF FlipLoad
<1>11. CASE ScanCtl(t)
  BY <1>11 DEF ScanCtl
<1>12. CASE ScanSkip(t)
  BY <1>12 DEF ScanSkip, NextSlot, AtLastSlot
<1>13. CASE ScanPinned(t)
  BY <1>13 DEF ScanPinned, FlipReturns
<1>14. CASE ScanPasses(t)
  BY <1>14 DEF ScanPasses, NextSlot, AtLastSlot, PinnedInCur
<1>15. CASE Flip(t)
  BY <1>15 DEF Flip, StillCur
<1>16. CASE FlipFail(t)
  BY <1>16 DEF FlipFail, FlipReturns
<1>17. CASE ReclaimCtl(t)
  BY <1>17 DEF ReclaimCtl
<1>18. CASE ReclaimSkip(t)
  BY <1>18 DEF ReclaimSkip, ReclaimNext, NextSlot, AtLastSlot
<1>19. CASE ReclaimFree(t)
  BY <1>19 DEF ReclaimFree, Buckets, IdxOld, Bucket
<1>20. CASE ReclaimClear(t)
  BY <1>20 DEF ReclaimClear, ReclaimNext, NextSlot, AtLastSlot, Buckets, IdxOld, Bucket
<1>21. CASE Exit(t)
  BY <1>21 DEF Exit
<1>22. CASE ExitCtl(t)
  BY <1>22 DEF ExitCtl, Release
<1>23. CASE ExitOwner(t)
  <2> DEFINE s == slot[t]
  <2>1. /\ at[t] = "exit_owner" /\ at' = [at EXCEPT ![t] = "exit_delete"]
        /\ s \in Slots /\ s # 0 /\ owner[s] = t /\ ctl[s] # t
        /\ owner' = [owner EXCEPT ![s] = NULL] /\ slot' = [slot EXCEPT ![t] = 0]
        /\ UNCHANGED <<ctl, index>>
    BY <1>23 DEF ExitOwner, Release
  <2>2. \A u \in Threads \ {t} : slot'[u] = slot[u] /\ at'[u] = at[u] /\ slot[u] # s
    BY <2>1
  <2>3. \A u \in Threads \ {t} : at[u] = "publish" => index[u] # s
    BY <2>1
  <2>4. ASSUME NEW u \in Threads
        PROVE  /\ slot'[u] # 0 => owner'[slot'[u]] = u
               /\ slot'[u] # 0 /\ at'[u] # "exit_owner" => ctl'[slot'[u]] = u
               /\ at'[u] = "publish" => owner'[index'[u]] = u
    BY <2>1, <2>2, <2>3
  <2>5. ASSUME NEW i \in Slots, owner'[i] # NULL
        PROVE  slot'[owner'[i]] = i \/ (at'[owner'[i]] = "publish" /\ index'[owner'[i]] = i)
    BY <2>1, <2>2, <2>5
  <2>6. ASSUME NEW i \in Slots, ctl'[i] # NULL PROVE slot'[ctl'[i]] = i
    BY <2>1, <2>2, <2>6
  <2> QED
    BY <2>4, <2>5, <2>6
<1>24. CASE ExitDelete(t)
  BY <1>24 DEF ExitDelete
<1> QED
  BY <1>1, <1>2, <1>3, <1>4, <1>5, <1>6, <1>7, <1>8, <1>9, <1>10, <1>11, <1>12, <1>13, <1>14, <1>15, <1>16, <1>17, <1>18, <1>19, <1>20, <1>21, <1>22, <1>23, <1>24 DEF LibraryStep, EbrStep

\* The scans.
LEMMA ScanStep ==
    ASSUME LibraryInv, NEW t \in Threads, LibraryStep(t)
    PROVE  \A u \in Threads : ScanState(u)'
<1> USE PoolAssumption, EpochAssumption, NullThreadAssumption DEF LibraryInv, Jump, registry, loop, EbrTypeOK, Control, RegistryConsistent, Places, Operations, Slots, Buckets, Reclaiming
<1>1. CASE Called(t)
  <2>1. /\ at[t] = "idle" /\ at'[t] \in Entries /\ UNCHANGED <<epoch, cur, found, local, slot, blockers>>
        /\ \A f \in Threads \ {t} : at'[f] = at[f] /\ index'[f] = index[f]
    BY <1>1, CallEffect
  <2>2. ScanState(t)'
    BY <2>1 DEF Entries, ScanState
  <2>3. ASSUME NEW u \in Threads \ {t} PROVE ScanState(u)'
    BY <2>1 DEF ScanState
  <2> QED
    BY <2>2, <2>3
<1>2. CASE Claim(t)
  BY <1>2 DEF Claim, ScanState
<1>3. CASE ClaimFail(t)
  BY <1>3 DEF ClaimFail, NextSlot, AtLastSlot, ScanState
<1>4. CASE Publish(t)
  BY <1>4 DEF Publish, ScanState
<1>5. CASE PinLoad(t)
  BY <1>5 DEF PinLoad, ScanState
<1>6. CASE PinStore(t)
  BY <1>6 DEF PinStore, ScanState
<1>7. CASE Leave(t)
  BY <1>7 DEF Leave, ScanState
<1>8. CASE RetireLoad(t)
  BY <1>8 DEF RetireLoad, ScanState
<1>9. CASE RetirePush(t)
  BY <1>9 DEF RetirePush, Buckets, Bucket, ScanState
<1>10. CASE FlipLoad(t)
  BY <1>10 DEF FlipLoad, ScanState
<1>11. CASE ScanCtl(t)
  BY <1>11 DEF ScanCtl, ScanState
<1>12. CASE ScanSkip(t)
  <2>1. at[t] = "scan_ctl" /\ index[t] \in Slots /\ ctl[index[t]] = NULL
    BY <1>12 DEF ScanSkip, NextSlot, ScanState
  <2>2. \A u \in blockers[t] : u \in Threads /\ slot[u] \in Slots /\ index[t] < slot[u]
    BY <2>1, <1>12 DEF ScanSkip, NextSlot, PinnedInCur, ScanState
  <2>3. ScanState(t)'
    <3>1. CASE index[t] = PoolSize
      <4>1. blockers[t] = {}
        BY <2>1, <2>2, <3>1 DEF ScanState
      <4> QED
        BY <4>1, <2>1, <3>1, <1>12 DEF ScanSkip, NextSlot, NextSlot, AtLastSlot, ScanState
    <3>2. CASE index[t] # PoolSize
      <4>1. /\ at'[t] = "scan_ctl" /\ index'[t] = index[t] + 1
            /\ UNCHANGED <<blockers, cur, local, slot>>
        BY <2>1, <3>2, <1>12 DEF ScanSkip, NextSlot, NextSlot, AtLastSlot, ScanState
      <4>2. \A u \in blockers[t] : cur[t] \in local[u] /\ index[t] + 1 <= slot[u]
        BY <2>1, <2>2 DEF ScanState
      <4> QED
        BY <4>1, <4>2 DEF ScanState
    <3> QED
      BY <3>1, <3>2
  <2>4. ASSUME NEW f \in Threads \ {t} PROVE ScanState(f)'
    BY <2>4, <1>12 DEF ScanSkip, NextSlot, NextSlot, AtLastSlot, ScanState
  <2> QED
    BY <2>3, <2>4
<1>13. CASE ScanPinned(t)
  BY <1>13 DEF ScanPinned, FlipReturns, ScanState
<1>14. CASE ScanPasses(t)
  <2>1. at[t] = "scan_epoch" /\ index[t] \in Slots /\ cur[t] \notin local[found[t]]
    BY <1>14 DEF ScanPasses, NextSlot, PinnedInCur, ScanState
  <2>2. \A u \in blockers[t] : u \in Threads /\ slot[u] \in Slots /\ index[t] < slot[u]
    BY <2>1, <1>14 DEF ScanPasses, NextSlot, PinnedInCur, PinnedInCur, ScanState
  <2>3. ScanState(t)'
    <3>1. CASE index[t] = PoolSize
      <4>1. blockers[t] = {}
        BY <2>1, <2>2, <3>1 DEF ScanState
      <4> QED
        BY <4>1, <2>1, <3>1, <1>14 DEF ScanPasses, NextSlot, PinnedInCur, NextSlot, AtLastSlot, ScanState
    <3>2. CASE index[t] # PoolSize
      <4>1. /\ at'[t] = "scan_ctl" /\ index'[t] = index[t] + 1
            /\ UNCHANGED <<blockers, cur, local, slot>>
        BY <2>1, <3>2, <1>14 DEF ScanPasses, NextSlot, PinnedInCur, NextSlot, AtLastSlot, ScanState
      <4>2. \A u \in blockers[t] : cur[t] \in local[u] /\ index[t] + 1 <= slot[u]
        BY <2>1, <2>2 DEF ScanState
      <4> QED
        BY <4>1, <4>2 DEF ScanState
    <3> QED
      BY <3>1, <3>2
  <2>4. ASSUME NEW f \in Threads \ {t} PROVE ScanState(f)'
    BY <2>4, <1>14 DEF ScanPasses, NextSlot, PinnedInCur, NextSlot, AtLastSlot, ScanState
  <2> QED
    BY <2>3, <2>4
<1>15. CASE Flip(t)
  BY <1>15 DEF Flip, StillCur, ScanState
<1>16. CASE FlipFail(t)
  BY <1>16 DEF FlipFail, FlipReturns, ScanState
<1>17. CASE ReclaimCtl(t)
  BY <1>17 DEF ReclaimCtl, ScanState
<1>18. CASE ReclaimSkip(t)
  BY <1>18 DEF ReclaimSkip, ReclaimNext, NextSlot, AtLastSlot, ScanState
<1>19. CASE ReclaimFree(t)
  BY <1>19 DEF ReclaimFree, Buckets, IdxOld, Bucket, ScanState
<1>20. CASE ReclaimClear(t)
  BY <1>20 DEF ReclaimClear, ReclaimNext, NextSlot, AtLastSlot, Buckets, IdxOld, Bucket, ScanState
<1>21. CASE Exit(t)
  BY <1>21 DEF Exit, ScanState
<1>22. CASE ExitCtl(t)
  BY <1>22 DEF ExitCtl, Release, ScanState
<1>23. CASE ExitOwner(t)
  BY <1>23 DEF ExitOwner, Release, ScanState
<1>24. CASE ExitDelete(t)
  BY <1>24 DEF ExitDelete, ScanState
<1> QED
  BY <1>1, <1>2, <1>3, <1>4, <1>5, <1>6, <1>7, <1>8, <1>9, <1>10, <1>11, <1>12, <1>13, <1>14, <1>15, <1>16, <1>17, <1>18, <1>19, <1>20, <1>21, <1>22, <1>23, <1>24 DEF LibraryStep, EbrStep

\* The reclaimers.
LEMMA ReclaimStep ==
    ASSUME LibraryInv, NEW t \in Threads, LibraryStep(t)
    PROVE  (\A u \in Threads : ReclaimState(u)') /\ OneFlipPerEpoch'
<1> USE PoolAssumption, EpochAssumption, NullThreadAssumption DEF LibraryInv, Jump, registry, loop, EbrTypeOK, ReclaimState, OneFlipPerEpoch, Places, Operations, Slots, Buckets, Reclaiming
<1>1. CASE Called(t)
  <2>1. /\ at[t] = "idle" /\ at'[t] \in Entries /\ UNCHANGED <<epoch, cur, found, local, slot, blockers>>
        /\ \A f \in Threads \ {t} : at'[f] = at[f] /\ index'[f] = index[f]
    BY <1>1, CallEffect
  <2> QED
    BY <2>1 DEF Entries
<1>2. CASE Claim(t)
  BY <1>2 DEF Claim
<1>3. CASE ClaimFail(t)
  BY <1>3 DEF ClaimFail, NextSlot, AtLastSlot
<1>4. CASE Publish(t)
  BY <1>4 DEF Publish
<1>5. CASE PinLoad(t)
  BY <1>5 DEF PinLoad
<1>6. CASE PinStore(t)
  BY <1>6 DEF PinStore
<1>7. CASE Leave(t)
  BY <1>7 DEF Leave
<1>8. CASE RetireLoad(t)
  BY <1>8 DEF RetireLoad
<1>9. CASE RetirePush(t)
  BY <1>9 DEF RetirePush, Buckets, Bucket
<1>10. CASE FlipLoad(t)
  BY <1>10 DEF FlipLoad
<1>11. CASE ScanCtl(t)
  BY <1>11 DEF ScanCtl
<1>12. CASE ScanSkip(t)
  BY <1>12 DEF ScanSkip, NextSlot, AtLastSlot
<1>13. CASE ScanPinned(t)
  BY <1>13 DEF ScanPinned, FlipReturns
<1>14. CASE ScanPasses(t)
  BY <1>14 DEF ScanPasses, NextSlot, AtLastSlot, PinnedInCur
<1>15. CASE Flip(t)
  BY <1>15 DEF Flip, StillCur
<1>16. CASE FlipFail(t)
  BY <1>16 DEF FlipFail, FlipReturns
<1>17. CASE ReclaimCtl(t)
  BY <1>17 DEF ReclaimCtl
<1>18. CASE ReclaimSkip(t)
  BY <1>18 DEF ReclaimSkip, ReclaimNext, NextSlot, AtLastSlot
<1>19. CASE ReclaimFree(t)
  BY <1>19 DEF ReclaimFree, Buckets, IdxOld, Bucket
<1>20. CASE ReclaimClear(t)
  BY <1>20 DEF ReclaimClear, ReclaimNext, NextSlot, AtLastSlot, Buckets, IdxOld, Bucket
<1>21. CASE Exit(t)
  BY <1>21 DEF Exit
<1>22. CASE ExitCtl(t)
  BY <1>22 DEF ExitCtl, Release
<1>23. CASE ExitOwner(t)
  BY <1>23 DEF ExitOwner, Release
<1>24. CASE ExitDelete(t)
  BY <1>24 DEF ExitDelete
<1> QED
  BY <1>1, <1>2, <1>3, <1>4, <1>5, <1>6, <1>7, <1>8, <1>9, <1>10, <1>11, <1>12, <1>13, <1>14, <1>15, <1>16, <1>17, <1>18, <1>19, <1>20, <1>21, <1>22, <1>23, <1>24 DEF LibraryStep, EbrStep

LEMMA LibraryInitHolds == EbrInit => LibraryInv
<1> SUFFICES ASSUME EbrInit PROVE LibraryInv
  OBVIOUS
<1> USE PoolAssumption, EpochAssumption, NullThreadAssumption DEF EbrInit, Slots, Buckets, Reclaiming
<1>1. EbrTypeOK
  BY DEF EbrTypeOK, Places, Operations
<1>2. \A t \in Threads : Control(t) /\ ScanState(t) /\ ReclaimState(t)
  BY DEF Control, ScanState, ReclaimState
<1>3. RegistryConsistent /\ OneFlipPerEpoch
  BY DEF RegistryConsistent, OneFlipPerEpoch
<1> QED
  BY <1>1, <1>2, <1>3 DEF LibraryInv

\* A step of the library keeps the invariant.
LEMMA LibraryStepHolds ==
    ASSUME LibraryInv, NEW t \in Threads, LibraryStep(t)
    PROVE  LibraryInv'
BY TypeStep, ControlStep, RegistryStep, ScanStep, ReclaimStep DEF LibraryInv

\* So does a step outside the library, even one that deletes objects ...
LEMMA OutsideDeletionHolds ==
    ASSUME LibraryInv, freed' \subseteq Objects,
           UNCHANGED <<epoch, registry, local, bag, at, op, loop, item, blockers>>
    PROVE  LibraryInv'
<1> USE DEF registry, loop, LibraryInv
<1>1. EbrTypeOK'
  BY DEF EbrTypeOK
<1>2. (\A t \in Threads : Control(t))'
  BY DEF Control
<1>3. RegistryConsistent' /\ OneFlipPerEpoch'
  BY DEF RegistryConsistent, OneFlipPerEpoch
<1>4. (\A t \in Threads : ScanState(t) /\ ReclaimState(t))'
  BY DEF ScanState, ReclaimState
<1> QED
  BY <1>1, <1>2, <1>3, <1>4

\* ... and one that does not.
LEMMA OutsideStepHolds ==
    ASSUME LibraryInv, UNCHANGED ebrVars
    PROVE  LibraryInv'
BY OutsideDeletionHolds DEF ebrVars, LibraryInv, EbrTypeOK

\* Every flip that is about to be made has seen all the pins.
LEMMA LibraryPromises == LibraryInv => EbrTypeOK /\ RegistryConsistent /\ ScanSeesPins /\ OneFlipPerEpoch
BY DEF LibraryInv, ScanSeesPins, ScanState

----------------------------------------------------------------------------
(* Its clients *)

ClientTypeOK ==
    /\ linked \subseteq Objects
    /\ refs \in [Threads -> SUBSET Objects]
    /\ unlinked \in [Threads -> SUBSET Objects]

\* The inductive invariant: that of the library, and the types of the client.
IInv == LibraryInv /\ ClientTypeOK

LEMMA InitHolds == Init => IInv
BY LibraryInitHolds DEF Init, IInv, ClientTypeOK

LEMMA NextHolds == IInv /\ [Next]_vars => IInv'
<1> SUFFICES ASSUME IInv, [Next]_vars PROVE IInv'
  OBVIOUS
<1>1. ASSUME UNCHANGED vars PROVE IInv'
  BY <1>1, OutsideStepHolds DEF vars, clientVars, IInv, ClientTypeOK
<1>2. ASSUME NEW t \in Threads, EnterGuard(t) PROVE IInv'
  <2>1. LibraryStep(t) /\ ClientTypeOK'
    BY <1>2 DEF EnterGuard, LibraryStep, Called, clientVars, ClientTypeOK, IInv
  <2> QED
    BY <2>1, LibraryStepHolds DEF IInv
<1>3. ASSUME NEW t \in Threads, LeaveGuard(t) PROVE IInv'
  <2>1. LibraryStep(t) /\ ClientTypeOK'
    BY <1>3 DEF LeaveGuard, LibraryStep, ClientTypeOK, IInv
  <2> QED
    BY <2>1, LibraryStepHolds DEF IInv
<1>4. ASSUME NEW t \in Threads, NEW o \in Objects, Find(t, o) \/ Unlink(t, o) PROVE IInv'
  <2>1. UNCHANGED ebrVars /\ ClientTypeOK'
    BY <1>4 DEF Find, Unlink, ClientTypeOK, IInv
  <2> QED
    BY <2>1, OutsideStepHolds DEF IInv
<1>5. ASSUME NEW t \in Threads, RetireUnlinked(t) PROVE IInv'
  <2>1. LibraryStep(t) /\ ClientTypeOK'
    BY <1>5 DEF RetireUnlinked, LibraryStep, Called, ClientTypeOK, IInv
  <2> QED
    BY <2>1, LibraryStepHolds DEF IInv
<1>6. ASSUME NEW t \in Threads, ForceCleanup(t) PROVE IInv'
  <2>1. LibraryStep(t) /\ ClientTypeOK'
    BY <1>6 DEF ForceCleanup, LibraryStep, Called, clientVars, ClientTypeOK, IInv
  <2> QED
    BY <2>1, LibraryStepHolds DEF IInv
<1>7. ASSUME NEW t \in Threads, ExitThread(t) PROVE IInv'
  <2>1. LibraryStep(t) /\ ClientTypeOK'
    BY <1>7 DEF ExitThread, LibraryStep, clientVars, ClientTypeOK, IInv
  <2> QED
    BY <2>1, LibraryStepHolds DEF IInv
<1>8. ASSUME NEW t \in Threads, Inside(t) PROVE IInv'
  <2>1. LibraryStep(t) /\ ClientTypeOK'
    BY <1>8 DEF Inside, LibraryStep, clientVars, ClientTypeOK, IInv
  <2> QED
    BY <2>1, LibraryStepHolds DEF IInv
<1> QED
  BY <1>1, <1>2, <1>3, <1>4, <1>5, <1>6, <1>7, <1>8 DEF Next

\* The inductive invariant holds of every reachable state.
THEOREM Invariance == Spec => []IInv
BY InitHolds, NextHolds, PTL DEF Spec

\* The variables of the library keep their types: no slot index leaves the pool,
\* no epoch passes the bound.
THEOREM TypeCorrect == Spec => []EbrTypeOK
<1>1. IInv => EbrTypeOK
  BY LibraryPromises DEF IInv
<1> QED
  BY <1>1, Invariance, PTL

\* A registered thread owns one slot, and the scans find it there until it exits
\* (init_thread() and ~ThreadCleanup).
THEOREM RegistryStaysConsistent == Spec => []RegistryConsistent
<1>1. IInv => RegistryConsistent
  BY LibraryPromises DEF IInv
<1> QED
  BY <1>1, Invariance, PTL

\* try_flip() reaches its CAS only if everybody who was pinned in the epoch when
\* it was loaded has left in the meantime.
THEOREM PinsStopFlips == Spec => []ScanSeesPins
<1>1. IInv => ScanSeesPins
  BY LibraryPromises DEF IInv
<1> QED
  BY <1>1, Invariance, PTL

\* The CAS of try_flip() gives each epoch to one reclaimer.
THEOREM FlipsAreExclusive == Spec => []OneFlipPerEpoch
<1>1. IInv => OneFlipPerEpoch
  BY LibraryPromises DEF IInv
<1> QED
  BY <1>1, Invariance, PTL

=============================================================================
