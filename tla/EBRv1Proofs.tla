----------------------------- MODULE EBRv1Proofs -----------------------------
(* Proofs about version 1 of the reclamation library, for every number of     *)
(* threads, entries, objects and epochs.                                      *)
EXTENDS EBRv1, TLAPS, FiniteSetTheorems

\* A step of t, while the assertion on the index has not failed.
Step(t) ==
    /\ \A u \in Threads : at[u] # "overrun"
    /\ Guard(t) \/ Leave(t) \/ (\E o \in Objects : Retire(t, o)) \/ Inside(t)

\* How far t has come with its registration.
Registration(t) ==
    /\ entry[t] <= nthreads
    /\ t \in registered => entry[t] \in Entries /\ table[entry[t]] = t /\ op[t] = "none"
    /\ t \notin registered =>
          /\ at[t] \in {"idle", "count", "store", "overrun"}
          /\ local[t] = {} /\ \A b \in Buckets : bag[t][b] = {}
    /\ at[t] \in {"count", "store"} => t \notin registered /\ op[t] # "none"
    /\ t \notin registered /\ at[t] \in {"idle", "count"} => entry[t] = 0
    /\ at[t] = "store" => entry[t] \in Entries

\* The indices: each has been taken once, by those that the counter counts.
Indexed == {t \in Threads : entry[t] # 0}
Indices ==
    /\ nthreads = Cardinality(Indexed)
    /\ \A t, u \in Threads : entry[t] = entry[u] /\ entry[t] # 0 => t = u
    /\ \A k \in Entries : table[k] # NULL => table[k] \in registered /\ entry[table[k]] = k
    /\ nthreads <= MaxThreads \/ \E t \in Threads : at[t] = "overrun"

\* What the place a thread has reached says of its variables.
Control(t) ==
    /\ at[t] \in {"scan", "reclaim_free", "reclaim_clear"} => n[t] \in Entries /\ i[t] \in 1..n[t]
    /\ at[t] = "reclaim_clear" => Found(t) # {}
    /\ at[t] \in {"pin_load", "pin_store"} => local[t] = {}
    /\ at[t] \in {"retire_load", "retire_push"} \/ op[t] = "retire_load" => item[t] \in Objects

\* While f scans, whoever has been pinned all along is still ahead of it.
ScanState(f) ==
    IF at[f] \in {"scan_bound", "scan"}
    THEN \A u \in blockers[f] :
            /\ cur[f] \in local[u]
            /\ at[f] = "scan" => entry[u] \in i[f]..n[f]
    ELSE blockers[f] = {}

\* A reclaimer's epoch is over.
ReclaimState(t) == at[t] \in Reclaiming => cur[t] < epoch

\* What a reclaimer has still to free is ahead of it, in a bucket that nobody is
\* about to clear.
Ahead(f, o, u) ==
    /\ u \in Threads \ Swept(IdxOld(f))
    /\ o \in bag[u][IdxOld(f)]
    /\ at[f] # "reclaim_bound" => entry[u] \in i[f]..n[f]
DueState(f) ==
    /\ at[f] \notin Reclaiming => due[f] = {}
    /\ \A o \in due[f] \ freed : \E u \in Threads : Ahead(f, o, u)

\* The inductive invariant.
IInv ==
    /\ TypeOK
    /\ \A t \in Threads : Registration(t)
    /\ Indices
    /\ \A t \in Threads : Control(t)
    /\ \A t \in Threads : ScanState(t)
    /\ \A t \in Threads : ReclaimState(t)
    /\ OneFlipPerEpoch
    /\ \A t \in Threads : DueState(t)

LEMMA BucketType == \A e \in Nat : Bucket(e) \in Buckets
BY DEF Bucket, Buckets

\* The number of indices that have been taken.
LEMMA IndexedFinite == IsFiniteSet(Indexed) /\ Cardinality(Indexed) \in Nat /\ Cardinality(Indexed) <= Cardinality(Threads)
BY ThreadsAssumption, FS_Subset, FS_CardinalityType DEF Indexed

\* What fetch_add() changes.
Counts(t) ==
    /\ nthreads \in Nat /\ nthreads' = nthreads + 1 /\ nthreads' = Cardinality(Indexed')
    /\ nthreads' \in 0..Cardinality(Threads)
    /\ entry[t] = 0 /\ entry' = [entry EXCEPT ![t] = nthreads']
    /\ \A u \in Threads : entry[u] \in Nat /\ entry[u] <= nthreads
    /\ at[t] = "count"
    /\ at' = [at EXCEPT ![t] = IF nthreads' <= MaxThreads THEN "store" ELSE "overrun"]

LEMMA CountStep ==
    ASSUME IInv, NEW t \in Threads, Count(t)
    PROVE  Counts(t)
<1>1. /\ IsFiniteSet(Indexed) /\ Cardinality(Indexed) \in Nat
      /\ nthreads = Cardinality(Indexed) /\ nthreads \in Nat
  BY IndexedFinite DEF IInv, Indices
<1>0. entry \in [Threads -> 0..Cardinality(Threads)] /\ at \in [Threads -> Places]
  BY DEF IInv, TypeOK
<1>2. IsFiniteSet(Indexed') /\ Cardinality(Indexed') \in Nat /\ Cardinality(Indexed') <= Cardinality(Threads) /\ Cardinality(Threads) \in Nat
  BY ThreadsAssumption, FS_Subset, FS_CardinalityType DEF Indexed
<1>3. entry[t] = 0 /\ nthreads' = nthreads + 1 /\ entry' = [entry EXCEPT ![t] = nthreads + 1]
  BY DEF Count, Jump, Increment, Registration, IInv
<1>4. t \notin Indexed /\ Indexed' = Indexed \cup {t}
  <2>1. nthreads + 1 # 0
    BY <1>1
  <2>2. \A u \in Threads : entry'[u] = IF u = t THEN nthreads + 1 ELSE entry[u]
    BY <1>0, <1>3
  <2> QED
    BY <1>3, <2>1, <2>2 DEF Indexed
<1>5. Cardinality(Indexed') = Cardinality(Indexed) + 1
  BY <1>1, <1>4, FS_AddElement
<1>6. \A u \in Threads : entry[u] \in Nat /\ entry[u] <= nthreads
  BY <1>0, <1>1, FS_CardinalityType, ThreadsAssumption DEF IInv, Registration
<1>7. at[t] = "count" /\ at' = [at EXCEPT ![t] = IF nthreads + 1 <= MaxThreads THEN "store" ELSE "overrun"]
  BY DEF Count, Jump, Fits
<1> QED
  BY <1>1, <1>2, <1>3, <1>5, <1>6, <1>7 DEF Counts

LEMMA NoOverrun ==
    ASSUME IInv, NEW t \in Threads, Step(t)
    PROVE  nthreads \in Nat /\ nthreads <= MaxThreads
BY IndexedFinite DEF IInv, Indices, Step

LEMMA BeginEffect ==
    ASSUME IInv, NEW t \in Threads, NEW first \in {"pin_load", "retire_load"}, Begin(t, first)
    PROVE  /\ at[t] = "idle"
           /\ \A u \in Threads \ {t} : at'[u] = at[u] /\ op'[u] = op[u]
           /\ IF t \in registered
              THEN at'[t] = first /\ op'[t] = op[t]
              ELSE at'[t] = "count" /\ op'[t] = first
           /\ at' \in [Threads -> Places]
           /\ op' \in [Threads -> {"none", "pin_load", "retire_load"}]
           /\ UNCHANGED <<epoch, nthreads, table, entry, registered, local, bag, freed, cur, i, n, blockers, due>>
<1> USE DEF IInv, TypeOK, Jump, registry, loop, Places, Begin
<1>1. CASE t \in registered
  BY SMTT(30), <1>1
<1>2. CASE t \notin registered
  <2>1. at[t] = "idle" /\ at' = [at EXCEPT ![t] = "count"] /\ op' = [op EXCEPT ![t] = first]
    BY <1>2
  <2>2. at' \in [Threads -> Places] /\ op' \in [Threads -> {"none", "pin_load", "retire_load"}]
    BY <2>1
  <2> QED
    BY <1>2, <2>1, <2>2
<1> QED
  BY <1>1, <1>2

LEMMA InsideRegistered ==
    ASSUME IInv, NEW t \in Threads, Step(t), at[t] \notin {"idle", "count", "store"}
    PROVE  t \in registered /\ op[t] = "none" /\ nthreads \in Entries
<1>1. t \in registered /\ Registration(t)
  BY DEF IInv, Registration, Step
<1> QED
  BY <1>1, NoOverrun, SizeAssumption DEF Registration, Entries

\* What a call, of Guard or of retire(), changes.
Calls(t) ==
    /\ at[t] = "idle"
    /\ \A u \in Threads \ {t} : at'[u] = at[u] /\ op'[u] = op[u] /\ item'[u] = item[u]
    /\ IF t \in registered
       THEN at'[t] \in {"pin_load", "retire_load"} /\ op'[t] = op[t]
       ELSE at'[t] = "count" /\ op'[t] \in {"pin_load", "retire_load"}
    /\ at'[t] = "pin_load" => local[t] = {}
    /\ at'[t] = "retire_load" \/ op'[t] = "retire_load" => item'[t] \in Objects
    /\ at' \in [Threads -> Places]
    /\ op' \in [Threads -> {"none", "pin_load", "retire_load"}]
    /\ item' \in [Threads -> Objects \cup {NULL}] /\ fresh' \subseteq Objects
    /\ UNCHANGED <<epoch, nthreads, table, entry, registered, local, bag, freed, cur, i, n, blockers, due>>

LEMMA CallEffect ==
    ASSUME IInv, NEW t \in Threads, Guard(t) \/ \E o \in Objects : Retire(t, o)
    PROVE  Calls(t)
<1>0. item \in [Threads -> Objects \cup {NULL}] /\ fresh \subseteq Objects /\ (op[t] = "retire_load" => item[t] \in Objects)
  BY DEF IInv, TypeOK, Control
<1>1. CASE Guard(t)
  <2>1. Begin(t, "pin_load") /\ local[t] = {} /\ UNCHANGED <<item, fresh>>
    BY <1>1 DEF Guard
  <2> QED
    BY <1>0, <2>1, BeginEffect DEF Calls
<1>2. CASE \E o \in Objects : Retire(t, o)
  <2>1. PICK o \in Objects : Retire(t, o)
    BY <1>2
  <2>2. Begin(t, "retire_load") /\ item' = [item EXCEPT ![t] = o] /\ fresh' = fresh \ {o}
    BY <2>1 DEF Retire
  <2>3. at'[t] # "pin_load"
    BY <2>2, BeginEffect
  <2> QED
    BY <1>0, <2>2, <2>3, BeginEffect DEF Calls
<1> QED
  BY <1>1, <1>2

\* Types.
LEMMA TypeStep ==
    ASSUME IInv, NEW t \in Threads, Step(t)
    PROVE  TypeOK'
<1>1. CASE Guard(t) \/ \E o \in Objects : Retire(t, o)
  <2>1. Calls(t)
    BY <1>1, CallEffect
  <2>2. \A u \in Threads : at'[u] # "overrun" => entry'[u] <= MaxThreads
    BY <2>1 DEF Calls, IInv, TypeOK
  <2> QED
    BY <2>1, <2>2 DEF Calls, IInv, TypeOK
<1>2. CASE Count(t)
  <2>1. Counts(t)
    BY <1>2, CountStep
  <2>2. entry' \in [Threads -> 0..Cardinality(Threads)] /\ at' \in [Threads -> Places]
    BY <2>1 DEF Counts, IInv, TypeOK, Places
  <2>3. \A u \in Threads : at'[u] # "overrun" => entry'[u] <= MaxThreads
    BY <2>1 DEF Counts, IInv, TypeOK
  <2> QED
    BY <1>2, <2>1, <2>2, <2>3 DEF Counts, Count, IInv, TypeOK, loop
<1> USE SizeAssumption, NullAssumption, ThreadsAssumption, BucketType DEF IInv, TypeOK, Jump,
        registry, loop, Places, Entries, Registration, Control
<1>3. CASE Leave(t)
  BY <1>3 DEF Leave
<1>4. CASE Store(t)
  BY <1>4 DEF Store
<1>5. CASE PinLoad(t)
  BY <1>5 DEF PinLoad, Load
<1>6. CASE PinStore(t)
  BY <1>6 DEF PinStore
<1>7. CASE RetireLoad(t)
  BY <1>7 DEF RetireLoad, Load
<1>8. CASE RetirePush(t)
  BY <1>8 DEF RetirePush
<1>9. CASE FlipLoad(t)
  BY <1>9 DEF FlipLoad, Load
<1>10. CASE ScanBound(t)
  BY SMTT(30), <1>10, NoOverrun DEF ScanBound, ReadBound
<1>11. CASE ScanPinned(t)
  BY <1>11 DEF ScanPinned, FlipReturns
<1>12. CASE ScanPasses(t)
  BY <1>12 DEF ScanPasses, NextThread, AtLast
<1>13. CASE Flip(t)
  BY <1>13 DEF Flip, StillCur, DueIn, IdxOld
<1>14. CASE FlipFail(t)
  BY <1>14 DEF FlipFail, FlipReturns, StillCur
<1>15. CASE ReclaimBound(t)
  BY <1>15, NoOverrun, SMTT(30) DEF ReclaimBound, ReadBound
<1>16. CASE ReclaimFree(t)
  BY <1>16, SMTT(30) DEF ReclaimFree, IdxOld, Found
<1>17. CASE ReclaimSkip(t)
  BY <1>17 DEF ReclaimSkip, ReclaimNext, NextThread, AtLast
<1>18. CASE ReclaimClear(t)
  BY <1>18 DEF ReclaimClear, ReclaimNext, NextThread, AtLast, IdxOld
<1> QED
  BY <1>1, <1>2, <1>3, <1>4, <1>5, <1>6, <1>7, <1>8, <1>9, <1>10, <1>11, <1>12, <1>13, <1>14,
     <1>15, <1>16, <1>17, <1>18 DEF Step, Inside

\* What a step of t leaves alone.
LEMMA Frame ==
    ASSUME IInv, NEW t \in Threads, Step(t)
    PROVE  /\ \A u \in Threads \ {t} :
                 /\ at'[u] = at[u] /\ op'[u] = op[u] /\ cur'[u] = cur[u] /\ item'[u] = item[u]
                 /\ i'[u] = i[u] /\ n'[u] = n[u] /\ due'[u] = due[u]
                 /\ entry'[u] = entry[u] /\ local'[u] = local[u]
                 /\ blockers'[u] \subseteq blockers[u]
                 /\ u \in registered' <=> u \in registered
           /\ nthreads' \in Nat /\ nthreads <= nthreads' /\ registered \subseteq registered'
           /\ \A k \in Entries : table[k] # NULL => table'[k] = table[k]
           /\ t \in registered => entry'[t] = entry[t]
<1>1. CASE Guard(t) \/ \E o \in Objects : Retire(t, o)
  <2>1. Calls(t)
    BY <1>1, CallEffect
  <2> QED
    BY <2>1, SizeAssumption, NullAssumption DEF IInv, TypeOK, Jump, registry, loop,
       Registration, Calls
<1>2. CASE Count(t)
  <2>1. Counts(t)
    BY <1>2, CountStep
  <2> QED
    BY <1>2, <2>1, SizeAssumption, NullAssumption DEF IInv, TypeOK, Jump, registry, loop,
       Registration, Counts, Count
<1> USE SizeAssumption, NullAssumption DEF IInv, TypeOK, Jump, registry, loop, Registration
<1>3. CASE Leave(t)
  BY <1>3 DEF Leave
<1>4. CASE Store(t)
  <2>1. at[t] = "store" /\ t \notin registered
    BY <1>4 DEF Store
  <2>2. ASSUME NEW k \in Entries, k = entry[t], table[k] # NULL
        PROVE  FALSE
    <3>1. table[k] \in Threads /\ table[k] \in registered /\ entry[table[k]] = entry[t] /\ entry[t] # 0
      BY <2>2 DEF Indices, Entries
    <3> QED
      BY <2>1, <3>1 DEF Indices
  <2>3. \A k \in Entries : table[k] # NULL => table'[k] = table[k]
    BY <1>4, <2>2 DEF Store
  <2> QED
    BY <1>4, <2>1, <2>3 DEF Store
<1>5. CASE PinLoad(t)
  BY <1>5 DEF PinLoad, Load
<1>6. CASE PinStore(t)
  BY <1>6 DEF PinStore
<1>7. CASE RetireLoad(t)
  BY <1>7 DEF RetireLoad, Load
<1>8. CASE RetirePush(t)
  BY <1>8 DEF RetirePush
<1>9. CASE FlipLoad(t)
  BY <1>9 DEF FlipLoad, Load
<1>10. CASE ScanBound(t)
  BY <1>10 DEF ScanBound, ReadBound
<1>11. CASE ScanPinned(t)
  BY <1>11 DEF ScanPinned, FlipReturns
<1>12. CASE ScanPasses(t)
  BY <1>12 DEF ScanPasses, NextThread, AtLast
<1>13. CASE Flip(t)
  BY <1>13 DEF Flip, StillCur
<1>14. CASE FlipFail(t)
  BY <1>14 DEF FlipFail, FlipReturns, StillCur
<1>15. CASE ReclaimBound(t)
  BY <1>15 DEF ReclaimBound, ReadBound
<1>16. CASE ReclaimFree(t)
  BY <1>16 DEF ReclaimFree
<1>17. CASE ReclaimSkip(t)
  BY <1>17 DEF ReclaimSkip, ReclaimNext, NextThread, AtLast
<1>18. CASE ReclaimClear(t)
  BY <1>18 DEF ReclaimClear, ReclaimNext, NextThread, AtLast
<1> QED
  BY <1>1, <1>2, <1>3, <1>4, <1>5, <1>6, <1>7, <1>8, <1>9, <1>10, <1>11, <1>12, <1>13, <1>14,
     <1>15, <1>16, <1>17, <1>18 DEF Step, Inside

\* The registration of every thread.
LEMMA RegistrationStep ==
    ASSUME IInv, NEW t \in Threads, Step(t)
    PROVE  \A u \in Threads : Registration(u)'
<1>1. CASE Guard(t) \/ \E o \in Objects : Retire(t, o)
  <2>1. Calls(t)
    BY <1>1, CallEffect
  <2> QED
    BY <2>1, SizeAssumption, NullAssumption DEF IInv, TypeOK, Jump, registry, loop, Places,
       Entries, Indices, Registration, Control, Calls
<1>2. CASE Count(t)
  <2>1. Counts(t)
    BY <1>2, CountStep
  <2> QED
    BY <1>2, <2>1, SizeAssumption, NullAssumption DEF IInv, TypeOK, Jump, registry, loop,
       Places, Entries, Indices, Registration, Control, Counts, Count
<1> USE SizeAssumption, NullAssumption DEF IInv, TypeOK, Jump, registry, loop, Places, Entries,
        Indices, Registration, Control
<1>3. CASE Leave(t)
  BY <1>3 DEF Leave
<1>4. CASE Store(t)
  BY <1>4 DEF Store
<1>5. CASE PinLoad(t)
  BY <1>5 DEF PinLoad, Load
<1>6. CASE PinStore(t)
  BY <1>6 DEF PinStore
<1>7. CASE RetireLoad(t)
  BY <1>7 DEF RetireLoad, Load
<1>8. CASE RetirePush(t)
  BY <1>8 DEF RetirePush
<1>9. CASE FlipLoad(t)
  BY <1>9 DEF FlipLoad, Load
<1>10. CASE ScanBound(t)
  BY <1>10 DEF ScanBound, ReadBound
<1>11. CASE ScanPinned(t)
  BY <1>11 DEF ScanPinned, FlipReturns
<1>12. CASE ScanPasses(t)
  BY <1>12 DEF ScanPasses, NextThread, AtLast
<1>13. CASE Flip(t)
  BY <1>13 DEF Flip, StillCur
<1>14. CASE FlipFail(t)
  BY <1>14 DEF FlipFail, FlipReturns, StillCur
<1>15. CASE ReclaimBound(t)
  BY <1>15 DEF ReclaimBound, ReadBound
<1>16. CASE ReclaimFree(t)
  BY <1>16 DEF ReclaimFree
<1>17. CASE ReclaimSkip(t)
  BY <1>17 DEF ReclaimSkip, ReclaimNext, NextThread, AtLast
<1>18. CASE ReclaimClear(t)
  BY <1>18 DEF ReclaimClear, ReclaimNext, NextThread, AtLast
<1> QED
  BY <1>1, <1>2, <1>3, <1>4, <1>5, <1>6, <1>7, <1>8, <1>9, <1>10, <1>11, <1>12, <1>13, <1>14,
     <1>15, <1>16, <1>17, <1>18 DEF Step, Inside

\* The indices.
LEMMA IndicesStep ==
    ASSUME IInv, NEW t \in Threads, Step(t)
    PROVE  Indices'
<1>1. CASE Guard(t) \/ \E o \in Objects : Retire(t, o)
  <2>1. Calls(t)
    BY <1>1, CallEffect
  <2> QED
    BY <2>1, SizeAssumption, NullAssumption, NoOverrun DEF IInv, TypeOK, Jump, registry, loop,
       Entries, Indices, Indexed, Registration, Calls
<1>2. CASE Count(t)
  <2>1. Counts(t)
    BY <1>2, CountStep
  <2>2. \A u \in Threads : entry'[u] = IF u = t THEN nthreads + 1 ELSE entry[u]
    BY <2>1 DEF Counts, IInv, TypeOK
  <2>3. \A u, w \in Threads : entry'[u] = entry'[w] /\ entry'[u] # 0 => u = w
    BY <2>1, <2>2 DEF Counts, IInv, Indices
  <2>4. nthreads' <= MaxThreads \/ \E u \in Threads : at'[u] = "overrun"
    BY <2>1 DEF Counts, IInv, TypeOK
  <2>5. \A k \in Entries : table'[k] # NULL => table'[k] \in registered' /\ entry'[table'[k]] = k
    BY <1>2, <2>1, <2>2 DEF Count, Counts, IInv, Indices, Registration, TypeOK, Entries
  <2> QED
    BY <2>1, <2>3, <2>4, <2>5 DEF Counts, Indices, Indexed
<1> USE SizeAssumption, NullAssumption, NoOverrun DEF IInv, TypeOK, Jump, registry, loop,
        Entries, Indices, Indexed, Registration
<1>3. CASE Leave(t)
  BY <1>3 DEF Leave
<1>4. CASE Store(t)
  BY <1>4 DEF Store
<1>5. CASE PinLoad(t)
  BY <1>5 DEF PinLoad, Load
<1>6. CASE PinStore(t)
  BY <1>6 DEF PinStore
<1>7. CASE RetireLoad(t)
  BY <1>7 DEF RetireLoad, Load
<1>8. CASE RetirePush(t)
  BY <1>8 DEF RetirePush
<1>9. CASE FlipLoad(t)
  BY <1>9 DEF FlipLoad, Load
<1>10. CASE ScanBound(t)
  BY <1>10 DEF ScanBound, ReadBound
<1>11. CASE ScanPinned(t)
  BY <1>11 DEF ScanPinned, FlipReturns
<1>12. CASE ScanPasses(t)
  BY <1>12 DEF ScanPasses, NextThread, AtLast
<1>13. CASE Flip(t)
  BY <1>13 DEF Flip, StillCur
<1>14. CASE FlipFail(t)
  BY <1>14 DEF FlipFail, FlipReturns, StillCur
<1>15. CASE ReclaimBound(t)
  BY <1>15 DEF ReclaimBound, ReadBound
<1>16. CASE ReclaimFree(t)
  BY <1>16, SMTT(30) DEF ReclaimFree
<1>17. CASE ReclaimSkip(t)
  BY <1>17 DEF ReclaimSkip, ReclaimNext, NextThread, AtLast
<1>18. CASE ReclaimClear(t)
  BY SMTT(30), <1>18 DEF ReclaimClear, ReclaimNext, NextThread, AtLast
<1> QED
  BY <1>1, <1>2, <1>3, <1>4, <1>5, <1>6, <1>7, <1>8, <1>9, <1>10, <1>11, <1>12, <1>13, <1>14,
     <1>15, <1>16, <1>17, <1>18 DEF Step, Inside

LEMMA ControlOthers ==
    ASSUME IInv, NEW t \in Threads, Step(t), NEW u \in Threads \ {t}
    PROVE  Control(u)'
<1>1. u \in Threads /\ Control(u)
  BY DEF IInv
<1>2. at[u] = "reclaim_clear" => i[u] \in Entries
  BY <1>1, SizeAssumption DEF Control, Entries
<1>3. at[u] = "reclaim_clear" => Found(u)' # {}
  BY <1>1, <1>2, Frame DEF Control, Found
<1> QED
  BY <1>1, <1>3, Frame DEF Control

\* The loops and the locals.
LEMMA ControlStep ==
    ASSUME IInv, NEW t \in Threads, Step(t)
    PROVE  Control(t)'
<1>1. CASE Guard(t) \/ \E o \in Objects : Retire(t, o)
  <2>1. Calls(t)
    BY <1>1, CallEffect
  <2> QED
    BY <2>1 DEF Calls, Control, IInv, TypeOK, Registration, Found
<1>2. CASE Count(t)
  <2>1. Counts(t)
    BY <1>2, CountStep
  <2> QED
    BY <1>2, <2>1 DEF Counts, Count, Control, IInv, TypeOK, Registration, Found, Places
<1> USE SizeAssumption, NullAssumption DEF IInv, TypeOK, Jump, registry, loop, Places, Entries,
        Indices, Registration, Control, Found
<1>3. CASE Leave(t)
  BY <1>3 DEF Leave
<1>4. CASE Store(t)
  BY <1>4 DEF Store
<1>5. CASE PinLoad(t)
  BY <1>5 DEF PinLoad, Load
<1>6. CASE PinStore(t)
  BY <1>6 DEF PinStore
<1>7. CASE RetireLoad(t)
  BY <1>7 DEF RetireLoad, Load
<1>8. CASE RetirePush(t)
  <2>1. op[t] = "none" /\ UNCHANGED <<op, local>>
    BY <1>8, InsideRegistered DEF RetirePush
  <2>2. at'[t] \in {"flip_load", "idle"}
    BY <1>8 DEF RetirePush
  <2> QED
    BY <2>1, <2>2
<1>9. CASE FlipLoad(t)
  BY <1>9 DEF FlipLoad, Load
<1>10. CASE ScanBound(t)
  <2>0. at[t] \notin {"idle", "count", "store"}
    BY <1>10 DEF ScanBound, ReadBound
  <2>1. nthreads \in Entries
    BY <2>0, InsideRegistered
  <2>2. n'[t] = nthreads /\ i'[t] = 1 /\ at'[t] \in {"scan", "reclaim_free"} /\ UNCHANGED <<local, item, op>>
    BY <1>10 DEF ScanBound, ReadBound
  <2> QED
    BY <2>1, <2>2
<1>11. CASE ScanPinned(t)
  BY <1>11 DEF ScanPinned, FlipReturns
<1>12. CASE ScanPasses(t)
  BY <1>12 DEF ScanPasses, NextThread, AtLast
<1>13. CASE Flip(t)
  BY <1>13 DEF Flip, StillCur
<1>14. CASE FlipFail(t)
  BY <1>14 DEF FlipFail, FlipReturns, StillCur
<1>15. CASE ReclaimBound(t)
  <2>0. at[t] \notin {"idle", "count", "store"}
    BY <1>15 DEF ReclaimBound, ReadBound
  <2>1. nthreads \in Entries
    BY <2>0, InsideRegistered
  <2>2. n'[t] = nthreads /\ i'[t] = 1 /\ at'[t] \in {"scan", "reclaim_free"} /\ UNCHANGED <<local, item, op>>
    BY <1>15 DEF ReclaimBound, ReadBound
  <2> QED
    BY <2>1, <2>2
<1>16. CASE ReclaimFree(t)
  BY <1>16 DEF ReclaimFree
<1>17. CASE ReclaimSkip(t)
  BY <1>17 DEF ReclaimSkip, ReclaimNext, NextThread, AtLast
<1>18. CASE ReclaimClear(t)
  BY <1>18 DEF ReclaimClear, ReclaimNext, NextThread, AtLast
<1> QED
  BY <1>1, <1>2, <1>3, <1>4, <1>5, <1>6, <1>7, <1>8, <1>9, <1>10, <1>11, <1>12, <1>13, <1>14,
     <1>15, <1>16, <1>17, <1>18 DEF Step, Inside

\* Only Leave removes a pin, and it removes the blocker.
LEMMA KeepsPin ==
    ASSUME IInv, NEW t \in Threads, Step(t)
    PROVE  \A f \in Threads \ {t} : t \in blockers'[f] => local[t] \subseteq local'[t]
<1>1. CASE Guard(t) \/ \E o \in Objects : Retire(t, o)
  <2>1. Calls(t)
    BY <1>1, CallEffect
  <2> QED
    BY <2>1 DEF Calls
<1>2. CASE Count(t)
  <2>1. Counts(t)
    BY <1>2, CountStep
  <2> QED
    BY <1>2 DEF Count
<1> USE DEF IInv, TypeOK, Jump, registry, loop, Control
<1>3. CASE Leave(t)
  BY <1>3 DEF Leave
<1>4. CASE Store(t)
  BY <1>4 DEF Store
<1>5. CASE PinLoad(t)
  BY <1>5 DEF PinLoad, Load
<1>6. CASE PinStore(t)
  BY <1>6 DEF PinStore
<1>7. CASE RetireLoad(t)
  BY <1>7 DEF RetireLoad, Load
<1>8. CASE RetirePush(t)
  BY <1>8 DEF RetirePush
<1>9. CASE FlipLoad(t)
  BY <1>9 DEF FlipLoad, Load
<1>10. CASE ScanBound(t)
  BY <1>10 DEF ScanBound, ReadBound
<1>11. CASE ScanPinned(t)
  BY <1>11 DEF ScanPinned, FlipReturns
<1>12. CASE ScanPasses(t)
  BY <1>12 DEF ScanPasses, NextThread, AtLast
<1>13. CASE Flip(t)
  BY <1>13 DEF Flip, StillCur
<1>14. CASE FlipFail(t)
  BY <1>14 DEF FlipFail, FlipReturns, StillCur
<1>15. CASE ReclaimBound(t)
  BY <1>15 DEF ReclaimBound, ReadBound
<1>16. CASE ReclaimFree(t)
  BY <1>16 DEF ReclaimFree
<1>17. CASE ReclaimSkip(t)
  BY <1>17 DEF ReclaimSkip, ReclaimNext, NextThread, AtLast
<1>18. CASE ReclaimClear(t)
  BY <1>18 DEF ReclaimClear, ReclaimNext, NextThread, AtLast
<1> QED
  BY <1>1, <1>2, <1>3, <1>4, <1>5, <1>6, <1>7, <1>8, <1>9, <1>10, <1>11, <1>12, <1>13, <1>14,
     <1>15, <1>16, <1>17, <1>18 DEF Step, Inside

LEMMA ScanOthers ==
    ASSUME IInv, NEW t \in Threads, Step(t), NEW f \in Threads \ {t}
    PROVE  ScanState(f)'
<1>1. ScanState(f) /\ blockers'[f] \subseteq blockers[f] /\ blockers[f] \subseteq Threads
  BY Frame DEF IInv, TypeOK
<1>2. /\ at'[f] = at[f] /\ cur'[f] = cur[f] /\ i'[f] = i[f] /\ n'[f] = n[f]
  BY Frame
<1>3. ASSUME NEW u \in blockers'[f], at[f] \in {"scan_bound", "scan"}
      PROVE  cur[f] \in local'[u] /\ entry'[u] = entry[u]
  <2>1. u \in Threads /\ cur[f] \in local[u]
    BY <1>1, <1>3 DEF ScanState
  <2>2. u \in registered
    BY <2>1 DEF IInv, Registration
  <2>3. entry'[u] = entry[u]
    BY <2>1, <2>2, Frame
  <2>4. CASE u # t
    BY <2>1, <2>3, <2>4, Frame
  <2>5. CASE u = t
    BY <1>3, <2>1, <2>2, <2>3, <2>5, KeepsPin
  <2> QED
    BY <2>4, <2>5
<1> QED
  BY <1>1, <1>2, <1>3 DEF ScanState

\* A scan comes to every blocker.
LEMMA ScanSelf ==
    ASSUME IInv, NEW t \in Threads, Step(t)
    PROVE  ScanState(t)'
<1>1. CASE Guard(t) \/ \E o \in Objects : Retire(t, o)
  <2>1. Calls(t)
    BY <1>1, CallEffect
  <2> QED
    BY <2>1 DEF Calls, IInv, TypeOK, ScanState
<1>2. CASE Count(t)
  <2>1. Counts(t)
    BY <1>2, CountStep
  <2> QED
    BY <1>2, <2>1 DEF Counts, Count, IInv, TypeOK, ScanState
<1> USE SizeAssumption, NullAssumption DEF IInv, TypeOK, Jump, registry, loop, Entries,
        Registration, Control, ScanState
<1>3. CASE Leave(t)
  <2>1. at[t] = "idle" /\ at'[t] = "idle"
    BY <1>3 DEF Leave
  <2>2. blockers'[t] = blockers[t] \ {t}
    BY <1>3 DEF Leave
  <2>3. blockers[t] = {}
    BY <2>1
  <2> QED
    BY <2>1, <2>2, <2>3
<1>4. CASE Store(t)
  BY <1>4 DEF Store
<1>5. CASE PinLoad(t)
  BY <1>5 DEF PinLoad, Load
<1>6. CASE PinStore(t)
  BY <1>6 DEF PinStore
<1>7. CASE RetireLoad(t)
  BY <1>7 DEF RetireLoad, Load
<1>8. CASE RetirePush(t)
  BY <1>8 DEF RetirePush
<1>9. CASE FlipLoad(t)
  BY <1>9 DEF FlipLoad, Load
<1>10. CASE ScanBound(t)
  <2>1. at'[t] = "scan" /\ i'[t] = 1 /\ n'[t] = nthreads /\ UNCHANGED <<blockers, cur, local, entry>>
    BY <1>10 DEF ScanBound, ReadBound
  <2>2. \A u \in blockers[t] : u \in registered /\ cur[t] \in local[u]
    BY <1>10 DEF ScanBound, ReadBound
  <2>3. \A u \in blockers[t] : entry[u] \in 1..nthreads
    BY <2>2, NoOverrun
  <2> QED
    BY <2>1, <2>2, <2>3
<1>11. CASE ScanPinned(t)
  BY <1>11 DEF ScanPinned, FlipReturns
<1>12. CASE ScanPasses(t)
  <2>1. at[t] = "scan" /\ i[t] \in 1..n[t] /\ n[t] \in Entries /\ ~PinnedInCur(t)
    BY <1>12 DEF ScanPasses, NextThread
  <2>2. \A u \in blockers[t] : u \in registered /\ cur[t] \in local[u] /\ entry[u] \in i[t]..n[t] /\ table[entry[u]] = u
    BY <2>1
  <2>3. \A u \in blockers[t] : entry[u] # i[t]
    BY <2>1, <2>2 DEF PinnedInCur, Found
  <2>4. \A u \in blockers[t] : i[t] + 1 <= entry[u] /\ i[t] < n[t]
    BY <2>1, <2>2, <2>3
  <2>5. CASE AtLast(t)
    <3>1. blockers[t] = {}
      BY <2>1, <2>4, <2>5 DEF AtLast
    <3> QED
      BY <1>12, <2>5, <3>1 DEF ScanPasses, NextThread
  <2>6. CASE ~AtLast(t)
    <3>1. at'[t] = "scan" /\ i'[t] = i[t] + 1 /\ n'[t] = n[t] /\ UNCHANGED <<blockers, cur, local, entry>>
      BY <1>12, <2>6 DEF ScanPasses, NextThread
    <3> QED
      BY <2>1, <2>2, <2>4, <3>1
  <2> QED
    BY <2>5, <2>6
<1>13. CASE Flip(t)
  BY <1>13 DEF Flip, StillCur
<1>14. CASE FlipFail(t)
  BY <1>14 DEF FlipFail, FlipReturns, StillCur
<1>15. CASE ReclaimBound(t)
  BY <1>15 DEF ReclaimBound, ReadBound
<1>16. CASE ReclaimFree(t)
  BY <1>16 DEF ReclaimFree
<1>17. CASE ReclaimSkip(t)
  BY <1>17 DEF ReclaimSkip, ReclaimNext, NextThread, AtLast
<1>18. CASE ReclaimClear(t)
  BY <1>18 DEF ReclaimClear, ReclaimNext, NextThread, AtLast
<1> QED
  BY <1>1, <1>2, <1>3, <1>4, <1>5, <1>6, <1>7, <1>8, <1>9, <1>10, <1>11, <1>12, <1>13, <1>14,
     <1>15, <1>16, <1>17, <1>18 DEF Step, Inside

\* A reclaimer's epoch is over, and is its own.
LEMMA ReclaimStep ==
    ASSUME IInv, NEW t \in Threads, Step(t)
    PROVE  (\A u \in Threads : ReclaimState(u)') /\ OneFlipPerEpoch'
<1>1. CASE Guard(t) \/ \E o \in Objects : Retire(t, o)
  <2>1. Calls(t)
    BY <1>1, CallEffect
  <2> QED
    BY <2>1 DEF Calls, IInv, TypeOK, Reclaiming, ReclaimState, OneFlipPerEpoch
<1>2. CASE Count(t)
  <2>1. Counts(t)
    BY <1>2, CountStep
  <2> QED
    BY <1>2, <2>1 DEF Counts, Count, IInv, TypeOK, Reclaiming, ReclaimState, OneFlipPerEpoch
<1> USE SizeAssumption DEF IInv, TypeOK, Jump, registry, loop, Reclaiming, ReclaimState,
        OneFlipPerEpoch, Registration
<1>3. CASE Leave(t)
  BY <1>3 DEF Leave
<1>4. CASE Store(t)
  <2>1. op[t] \in {"pin_load", "retire_load"} /\ UNCHANGED <<cur, epoch>>
    BY <1>4 DEF Store
  <2>2. at' = [at EXCEPT ![t] = op[t]]
    BY <1>4 DEF Store
  <2>3. \A u \in Threads : at'[u] \in Reclaiming => at[u] \in Reclaiming
    BY <2>1, <2>2
  <2> QED
    BY <2>1, <2>3
<1>5. CASE PinLoad(t)
  BY <1>5 DEF PinLoad, Load
<1>6. CASE PinStore(t)
  BY <1>6 DEF PinStore
<1>7. CASE RetireLoad(t)
  BY <1>7 DEF RetireLoad, Load
<1>8. CASE RetirePush(t)
  BY <1>8 DEF RetirePush
<1>9. CASE FlipLoad(t)
  BY <1>9 DEF FlipLoad, Load
<1>10. CASE ScanBound(t)
  BY <1>10 DEF ScanBound, ReadBound
<1>11. CASE ScanPinned(t)
  BY <1>11 DEF ScanPinned, FlipReturns
<1>12. CASE ScanPasses(t)
  BY <1>12 DEF ScanPasses, NextThread, AtLast
<1>13. CASE Flip(t)
  BY <1>13 DEF Flip, StillCur
<1>14. CASE FlipFail(t)
  BY <1>14 DEF FlipFail, FlipReturns, StillCur
<1>15. CASE ReclaimBound(t)
  BY <1>15 DEF ReclaimBound, ReadBound
<1>16. CASE ReclaimFree(t)
  BY <1>16 DEF ReclaimFree
<1>17. CASE ReclaimSkip(t)
  BY <1>17 DEF ReclaimSkip, ReclaimNext, NextThread, AtLast
<1>18. CASE ReclaimClear(t)
  BY <1>18 DEF ReclaimClear, ReclaimNext, NextThread, AtLast
<1> QED
  BY <1>1, <1>2, <1>3, <1>4, <1>5, <1>6, <1>7, <1>8, <1>9, <1>10, <1>11, <1>12, <1>13, <1>14,
     <1>15, <1>16, <1>17, <1>18 DEF Step, Inside

\* What changes of the buckets and of what is freed.
LEMMA BagStep ==
    ASSUME IInv, NEW t \in Threads, Step(t)
    PROVE  /\ freed \subseteq freed'
           /\ at'[t] = "reclaim_clear" => ReclaimFree(t)
           /\ \A u \in Threads, b \in Buckets :
                 ~(at[t] = "reclaim_clear" /\ u \in Found(t) /\ b = IdxOld(t)) => bag[u][b] \subseteq bag'[u][b]
           /\ at'[t] \notin Reclaiming => due'[t] = {}
           /\ due[t] # due'[t] =>
                 Flip(t) \/ (due'[t] = {} /\ (ReclaimSkip(t) \/ ReclaimClear(t)) /\ AtLast(t))
<1>1. CASE Guard(t) \/ \E o \in Objects : Retire(t, o)
  <2>1. Calls(t)
    BY <1>1, CallEffect
  <2> QED
    BY <2>1 DEF Calls, IInv, TypeOK, DueState, Reclaiming
<1>2. CASE Count(t)
  <2>1. Counts(t)
    BY <1>2, CountStep
  <2> QED
    BY SMTT(30), <1>2, <2>1 DEF Counts, Count, IInv, TypeOK, DueState, Reclaiming
<1> USE DEF IInv, TypeOK, Jump, registry, loop, Registration, Reclaiming, DueState
<1>3. CASE Leave(t)
  BY SMTT(30), <1>3 DEF Leave
<1>4. CASE Store(t)
  BY SMTT(30), <1>4 DEF Store
<1>5. CASE PinLoad(t)
  BY <1>5 DEF PinLoad, Load
<1>6. CASE PinStore(t)
  BY <1>6 DEF PinStore
<1>7. CASE RetireLoad(t)
  BY <1>7 DEF RetireLoad, Load
<1>8. CASE RetirePush(t)
  <2>1. at[t] = "retire_push" /\ at'[t] \in {"flip_load", "idle"} /\ UNCHANGED <<freed, due>>
    BY <1>8 DEF RetirePush
  <2>2. bag' = [bag EXCEPT ![t][Bucket(cur[t])] = bag[t][Bucket(cur[t])] \cup {item[t]}]
    BY <1>8 DEF RetirePush
  <2>3. \A u \in Threads, b \in Buckets : bag[u][b] \subseteq bag'[u][b]
    BY <2>2
  <2> QED
    BY <2>1, <2>3
<1>9. CASE FlipLoad(t)
  BY <1>9 DEF FlipLoad, Load
<1>10. CASE ScanBound(t)
  BY <1>10 DEF ScanBound, ReadBound
<1>11. CASE ScanPinned(t)
  BY <1>11 DEF ScanPinned, FlipReturns
<1>12. CASE ScanPasses(t)
  BY <1>12 DEF ScanPasses, NextThread, AtLast
<1>13. CASE Flip(t)
  <2>1. at'[t] = "reclaim_bound" /\ UNCHANGED <<freed, bag>>
    BY <1>13 DEF Flip
  <2> QED
    BY <1>13, <2>1
<1>14. CASE FlipFail(t)
  <2>1. /\ at' = [at EXCEPT ![t] = "idle"] /\ at[t] = "flip_cas"
        /\ UNCHANGED <<bag, freed, due>>
    BY <1>14 DEF FlipFail, FlipReturns, StillCur
  <2>2. due[t] = {}
    BY <2>1
  <2> QED
    BY <2>1, <2>2
<1>15. CASE ReclaimBound(t)
  BY <1>15 DEF ReclaimBound, ReadBound
<1>16. CASE ReclaimFree(t)
  BY <1>16 DEF ReclaimFree
<1>17. CASE ReclaimSkip(t)
  BY <1>17 DEF ReclaimSkip, ReclaimNext, NextThread, AtLast
<1>18. CASE ReclaimClear(t)
  BY <1>18 DEF ReclaimClear, ReclaimNext, NextThread, AtLast
<1> QED
  BY <1>1, <1>2, <1>3, <1>4, <1>5, <1>6, <1>7, <1>8, <1>9, <1>10, <1>11, <1>12, <1>13, <1>14,
     <1>15, <1>16, <1>17, <1>18 DEF Step, Inside

\* How a reclamation goes on.
LEMMA ReclaimingSteps ==
    ASSUME IInv, NEW t \in Threads, Step(t)
    PROVE  at'[t] \in Reclaiming =>
             Flip(t) \/ ReclaimSkip(t) \/ ReclaimClear(t) \/ ReclaimBound(t) \/ ReclaimFree(t)
<1>1. CASE Guard(t) \/ \E o \in Objects : Retire(t, o)
  <2>1. Calls(t)
    BY <1>1, CallEffect
  <2> QED
    BY <2>1 DEF Calls, Reclaiming
<1>2. CASE Count(t)
  <2>1. Counts(t)
    BY <1>2, CountStep
  <2> QED
    BY <2>1 DEF Counts, Reclaiming, IInv, TypeOK
<1> USE DEF IInv, TypeOK, Jump, Registration, Reclaiming
<1>3. CASE Leave(t)
  BY <1>3 DEF Leave
<1>4. CASE Store(t)
  BY <1>4 DEF Store
<1>5. CASE PinLoad(t)
  BY <1>5 DEF PinLoad, Load
<1>6. CASE PinStore(t)
  BY <1>6 DEF PinStore
<1>7. CASE RetireLoad(t)
  BY <1>7 DEF RetireLoad, Load
<1>8. CASE RetirePush(t)
  BY <1>8 DEF RetirePush
<1>9. CASE FlipLoad(t)
  BY <1>9 DEF FlipLoad, Load
<1>10. CASE ScanBound(t)
  BY <1>10 DEF ScanBound, ReadBound
<1>11. CASE ScanPinned(t)
  BY <1>11 DEF ScanPinned, FlipReturns
<1>12. CASE ScanPasses(t)
  BY <1>12 DEF ScanPasses, NextThread, AtLast
<1>13. CASE Flip(t)
  BY <1>13 DEF Flip, StillCur
<1>14. CASE FlipFail(t)
  BY <1>14 DEF FlipFail, FlipReturns, StillCur
<1>15. CASE ReclaimBound(t)
  BY <1>15 DEF ReclaimBound, ReadBound
<1>16. CASE ReclaimFree(t)
  BY <1>16 DEF ReclaimFree
<1>17. CASE ReclaimSkip(t)
  BY <1>17 DEF ReclaimSkip, ReclaimNext, NextThread, AtLast
<1>18. CASE ReclaimClear(t)
  BY <1>18 DEF ReclaimClear, ReclaimNext, NextThread, AtLast
<1> QED
  BY <1>1, <1>2, <1>3, <1>4, <1>5, <1>6, <1>7, <1>8, <1>9, <1>10, <1>11, <1>12, <1>13, <1>14,
     <1>15, <1>16, <1>17, <1>18 DEF Step, Inside

\* An object that is due to somebody stays where it is until it is freed.
LEMMA Survives ==
    ASSUME IInv, NEW t \in Threads, Step(t), NEW b \in Buckets,
           NEW u \in Threads \ Swept(b), NEW o \in bag[u][b], o \notin freed'
    PROVE  /\ u \notin Swept(b)' /\ o \in bag'[u][b]
           /\ u \in registered /\ entry'[u] = entry[u]
<1>1. u \in registered
  BY DEF IInv, Registration
<1>2. entry'[u] = entry[u]
  BY <1>1, Frame
<1>3. ASSUME NEW r \in Threads, at'[r] = "reclaim_clear", IdxOld(r)' = b, u \in Found(r)'
      PROVE  FALSE
  <2>1. CASE r = t
    <3>1. ReclaimFree(t)
      BY <1>3, <2>1, BagStep
    <3>2. u \in Found(t) /\ IdxOld(t) = b /\ freed' = freed \cup UNION {bag[w][IdxOld(t)] : w \in Found(t)}
      BY <1>3, <2>1, <3>1 DEF ReclaimFree, registry, loop, Found, IdxOld
    <3> QED
      BY <3>2
  <2>2. CASE r # t
    <3>1. at[r] = "reclaim_clear" /\ cur'[r] = cur[r] /\ i'[r] = i[r]
      BY <1>3, <2>2, Frame
    <3>2. Found(r) # {} /\ i[r] \in Entries
      BY <3>1, SizeAssumption DEF IInv, Control, Entries
    <3>3. Found(r)' = Found(r)
      BY <3>1, <3>2, Frame DEF Found
    <3>4. IdxOld(r) = b
      BY <1>3, <3>1 DEF IdxOld
    <3> QED
      BY <1>3, <3>1, <3>3, <3>4 DEF Swept
  <2> QED
    BY <2>1, <2>2
<1>4. u \notin Swept(b)'
  BY <1>3 DEF Swept
<1>5. ~(at[t] = "reclaim_clear" /\ u \in Found(t) /\ b = IdxOld(t))
  BY DEF Swept
<1>6. o \in bag'[u][b]
  BY <1>5, BagStep
<1> QED
  BY <1>1, <1>2, <1>4, <1>6

LEMMA IdxOldType == ASSUME IInv, NEW t \in Threads PROVE IdxOld(t) \in Buckets
BY BucketType DEF IInv, TypeOK, IdxOld

\* After the last entry nothing is due any more; before it, what is due is ahead.
LEMMA Advances ==
    ASSUME IInv, NEW t \in Threads, ReclaimSkip(t) \/ ReclaimClear(t), NEW o \in due[t] \ freed
    PROVE  ~AtLast(t) /\ \E u \in Threads : Ahead(t, o, u) /\ u \in registered /\ entry[u] \in (i[t] + 1)..n[t]
<1>1. at[t] \in {"reclaim_free", "reclaim_clear"} /\ (at[t] = "reclaim_free" => Found(t) = {})
  BY DEF ReclaimSkip, ReclaimClear, ReclaimNext, NextThread, Jump
<1>2. PICK u \in Threads : Ahead(t, o, u)
  BY DEF IInv, DueState
<1>3. u \in registered /\ entry[u] \in Entries /\ table[entry[u]] = u /\ entry[u] \in i[t]..n[t]
  BY <1>1, <1>2, IdxOldType DEF Ahead, IInv, Registration
<1>4. u \notin Found(t)
  BY <1>1, <1>2 DEF Ahead, Swept
<1>5. entry[u] # i[t]
  BY <1>3, <1>4, NullAssumption DEF Found
<1>6. n[t] \in Nat /\ i[t] \in Nat /\ entry[u] \in Nat
  BY <1>1, <1>3, SizeAssumption DEF IInv, Control, Entries
<1> QED
  BY <1>2, <1>3, <1>5, <1>6 DEF AtLast

LEMMA DueOthers ==
    ASSUME IInv, NEW t \in Threads, Step(t), NEW f \in Threads \ {t}
    PROVE  DueState(f)'
<1>1. /\ at'[f] = at[f] /\ i'[f] = i[f] /\ n'[f] = n[f] /\ cur'[f] = cur[f] /\ due'[f] = due[f]
      /\ DueState(f) /\ IdxOld(f)' = IdxOld(f) /\ IdxOld(f) \in Buckets
  BY Frame, IdxOldType DEF IInv, IdxOld
<1>2. ASSUME NEW o \in due'[f] \ freed'
      PROVE  \E u \in Threads : Ahead(f, o, u)'
  <2>1. o \in due[f] \ freed /\ o \notin freed'
    BY <1>1, <1>2, BagStep
  <2>2. PICK u \in Threads : Ahead(f, o, u)
    BY <1>1, <2>1 DEF DueState
  <2> QED
    BY <1>1, <2>1, <2>2, Survives DEF Ahead
<1> QED
  BY <1>1, <1>2 DEF DueState

LEMMA DueSelf ==
    ASSUME IInv, NEW t \in Threads, Step(t)
    PROVE  DueState(t)'
<1>0. PICK b \in Buckets : b = IdxOld(t) /\ DueState(t)
  BY IdxOldType DEF IInv
<1>1. CASE Flip(t)
  <2>1. /\ due'[t] = DueIn(b) /\ cur' = cur /\ at'[t] = "reclaim_bound"
    BY <1>0, <1>1 DEF Flip, Jump, IInv, TypeOK
  <2>2. IdxOld(t)' = b
    BY <1>0, <2>1 DEF IdxOld
  <2>3. ASSUME NEW o \in due'[t] \ freed'
        PROVE  \E u \in Threads : Ahead(t, o, u)'
    <3>1. PICK u \in Threads \ Swept(b) : o \in bag[u][b]
      BY <2>1, <2>3 DEF DueIn
    <3>2. u \notin Swept(b)' /\ o \in bag'[u][b]
      BY <1>0, <2>3, <3>1, Survives
    <3> QED
      BY <2>1, <2>2, <3>2 DEF Ahead
  <2> QED
    BY <2>1, <2>3 DEF DueState, Reclaiming
<1>2. CASE ~Flip(t) /\ at'[t] \notin Reclaiming
  <2>1. due'[t] = {}
    BY <1>2, BagStep
  <2> QED
    BY <2>1 DEF DueState
<1>3. CASE ReclaimSkip(t) \/ ReclaimClear(t)
  <2>1. CASE AtLast(t)
    <3>1. due'[t] = {}
      BY <1>3, <2>1 DEF ReclaimSkip, ReclaimClear, ReclaimNext, IInv, TypeOK
    <3> QED
      BY <3>1 DEF DueState
  <2>2. CASE ~AtLast(t)
    <3>1. /\ at'[t] = "reclaim_free" /\ i'[t] = i[t] + 1 /\ n'[t] = n[t] /\ cur'[t] = cur[t] /\ due'[t] = due[t]
          /\ freed' = freed
      BY <1>3, <2>2 DEF ReclaimSkip, ReclaimClear, ReclaimNext, NextThread, Jump, IInv, TypeOK
    <3>2. ASSUME NEW o \in due'[t] \ freed'
          PROVE  \E u \in Threads : Ahead(t, o, u)'
      <4>1. PICK u \in Threads : Ahead(t, o, u) /\ entry[u] \in (i[t] + 1)..n[t]
        BY <1>3, <3>1, <3>2, Advances
      <4>2. u \notin Swept(b)' /\ o \in bag'[u][b] /\ entry'[u] = entry[u]
        BY <1>0, <3>2, <4>1, Survives DEF Ahead
      <4> QED
        BY <1>0, <3>1, <4>1, <4>2 DEF Ahead, IdxOld
    <3> QED
      BY <3>1, <3>2 DEF DueState, Reclaiming
  <2> QED
    BY <2>1, <2>2
<1>4. CASE ReclaimBound(t)
  <2>1. /\ at[t] = "reclaim_bound" /\ at'[t] = "reclaim_free" /\ i'[t] = 1 /\ n'[t] = nthreads
        /\ cur' = cur /\ due' = due /\ freed' = freed
    BY <1>4 DEF ReclaimBound, ReadBound, Jump, IInv, TypeOK
  <2>2. ASSUME NEW o \in due'[t] \ freed'
        PROVE  \E u \in Threads : Ahead(t, o, u)'
    <3>1. PICK u \in Threads : Ahead(t, o, u)
      BY <1>0, <2>1, <2>2 DEF DueState
    <3>2. u \notin Swept(b)' /\ o \in bag'[u][b] /\ entry'[u] = entry[u] /\ u \in registered
      BY <1>0, <2>2, <3>1, Survives DEF Ahead
    <3>3. entry[u] \in 1..nthreads
      BY <3>2, NoOverrun DEF IInv, Registration, Entries
    <3> QED
      BY <1>0, <2>1, <3>1, <3>2, <3>3 DEF Ahead, IdxOld
  <2> QED
    BY <2>1, <2>2 DEF DueState, Reclaiming
<1>5. CASE ReclaimFree(t)
  <2>1. /\ at[t] = "reclaim_free" /\ at'[t] = "reclaim_clear" /\ i' = i /\ n' = n /\ cur' = cur /\ due' = due
        /\ freed \subseteq freed'
    BY <1>5 DEF ReclaimFree, Jump, loop, IInv, TypeOK
  <2>2. ASSUME NEW o \in due'[t] \ freed'
        PROVE  \E u \in Threads : Ahead(t, o, u)'
    <3>1. PICK u \in Threads : Ahead(t, o, u)
      BY <1>0, <2>1, <2>2 DEF DueState
    <3>2. u \notin Swept(b)' /\ o \in bag'[u][b] /\ entry'[u] = entry[u]
      BY <1>0, <2>2, <3>1, Survives DEF Ahead
    <3> QED
      BY <1>0, <2>1, <3>1, <3>2 DEF Ahead, IdxOld
  <2> QED
    BY <2>1, <2>2 DEF DueState, Reclaiming
<1>6. at'[t] \in Reclaiming => Flip(t) \/ ReclaimSkip(t) \/ ReclaimClear(t) \/ ReclaimBound(t) \/ ReclaimFree(t)
  BY ReclaimingSteps
<1> QED
  BY <1>1, <1>2, <1>3, <1>4, <1>5, <1>6

LEMMA StepHolds ==
    ASSUME IInv, [Next]_vars
    PROVE  IInv'
<1>1. CASE Next
  <2>1. PICK t \in Threads : Step(t)
    BY <1>1 DEF Next, Step
  <2>2. TypeOK' /\ Indices' /\ \A u \in Threads : Registration(u)' /\ ReclaimState(u)'
    BY <2>1, TypeStep, IndicesStep, RegistrationStep, ReclaimStep
  <2>3. OneFlipPerEpoch'
    BY <2>1, ReclaimStep
  <2>4. \A u \in Threads : Control(u)' /\ ScanState(u)' /\ DueState(u)'
    BY <2>1, ControlStep, ControlOthers, ScanSelf, ScanOthers, DueSelf, DueOthers
  <2> QED
    BY <2>2, <2>3, <2>4 DEF IInv
<1>2. CASE UNCHANGED vars
  <2> USE <1>2 DEF vars, registry, loop
  <2>1. TypeOK' /\ Indices' /\ OneFlipPerEpoch'
    BY DEF IInv, TypeOK, Indices, Indexed, OneFlipPerEpoch
  <2>2. ASSUME NEW u \in Threads
        PROVE  Registration(u)' /\ Control(u)' /\ ScanState(u)' /\ ReclaimState(u)'
    BY DEF IInv, Registration, Control, Found, ScanState, ReclaimState
  <2>3. ASSUME NEW u \in Threads
        PROVE  DueState(u)'
    <3>1. DueState(u)
      BY DEF IInv
    <3>2. \A o, w : Ahead(u, o, w)' <=> Ahead(u, o, w)
      BY DEF Ahead, IdxOld, Swept, Found
    <3> QED
      BY <3>1, <3>2 DEF DueState
  <2> QED
    BY <2>1, <2>2, <2>3 DEF IInv
<1> QED
  BY <1>1, <1>2

THEOREM InitHolds == Init => IInv
<1> SUFFICES ASSUME Init
             PROVE  IInv
  OBVIOUS
<1> USE DEF Init
<1>1. TypeOK
  BY ThreadsAssumption, SizeAssumption, FS_CardinalityType DEF TypeOK, Places
<1>2. Indices
  <2>1. Indexed = {}
    BY DEF Indexed
  <2> QED
    BY <2>1, FS_EmptySet, SizeAssumption DEF Indices
<1>3. \A t \in Threads : Registration(t) /\ Control(t)
  BY DEF Registration, Control
<1>4. \A t \in Threads : ScanState(t) /\ ReclaimState(t) /\ DueState(t)
  BY DEF ScanState, ReclaimState, DueState, Reclaiming
<1>5. OneFlipPerEpoch
  BY DEF OneFlipPerEpoch, Reclaiming
<1> QED
  BY <1>1, <1>2, <1>3, <1>4, <1>5 DEF IInv

\* The inductive invariant holds in every reachable state.
THEOREM Invariance == Spec => []IInv
BY InitHolds, StepHolds, PTL DEF Spec

\* No variable leaves its type: no index passes the table unless the assertion
\* has failed (lockfree_queue_ebr_v1.hpp:86-87), no loop reads past it.
THEOREM TypeCorrect == Spec => []TypeOK
<1>1. IInv => TypeOK
  BY DEF IInv
<1> QED
  BY <1>1, Invariance, PTL

\* A registered thread is in the table for good, in an entry of its own below the
\* bound of every loop (lockfree_queue_ebr_v1.hpp:81-91).
THEOREM RegisteredStayVisible == Spec => []RegisteredVisible
<1>1. IInv => RegisteredVisible
  BY DEF IInv, Registration, Indices, TypeOK, RegisteredVisible
<1> QED
  BY <1>1, Invariance, PTL

\* try_flip() never ends an epoch in which somebody was pinned when it loaded the
\* epoch and still is (lockfree_queue_ebr_v1.hpp:117-130).
THEOREM PinsStopFlips == Spec => []ScanSeesPins
<1>1. IInv => ScanSeesPins
  BY DEF IInv, ScanState, ScanSeesPins
<1> QED
  BY <1>1, Invariance, PTL

\* No two threads reclaim after the same flip (lockfree_queue_ebr_v1.hpp:128-144).
THEOREM FlipsAreExclusive == Spec => []OneFlipPerEpoch
<1>1. IInv => OneFlipPerEpoch
  BY DEF IInv
<1> QED
  BY <1>1, Invariance, PTL

\* A reclamation frees all that was due when the epoch ended, although threads
\* register and retire during its loop (lockfree_queue_ebr_v1.hpp:133-144).
THEOREM ReclamationsAreComplete == Spec => ReclaimComplete
<1>1. ASSUME IInv, [Next]_vars
      PROVE  [\A t \in Threads : due[t] # {} /\ due'[t] = {} => due[t] \subseteq freed']_vars
  <2> SUFFICES ASSUME NEW f \in Threads, due[f] # {}, due'[f] = {}
               PROVE  due[f] \subseteq freed'
    OBVIOUS
  <2>1. CASE UNCHANGED vars
    BY <2>1 DEF vars
  <2>2. CASE Next
    <3>1. PICK t \in Threads : Step(t)
      BY <2>2 DEF Next, Step
    <3>2. t = f
      BY <1>1, <3>1, Frame
    <3>3. CASE Flip(f)
      BY <1>1, <3>3 DEF IInv, DueState, Flip, Jump, Reclaiming
    <3>4. CASE (ReclaimSkip(f) \/ ReclaimClear(f)) /\ AtLast(f)
      <4>1. due[f] \subseteq freed
        BY <1>1, <3>4, Advances
      <4> QED
        BY <1>1, <3>1, <3>2, <4>1, BagStep
    <3> QED
      BY <1>1, <3>1, <3>2, <3>3, <3>4, BagStep
  <2> QED
    BY <1>1, <2>1, <2>2
<1> QED
  BY <1>1, Invariance, PTL DEF Spec, ReclaimComplete

=============================================================================
