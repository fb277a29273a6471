---------------------------- MODULE HPQueueProofs ----------------------------
(* Proofs about lfq::HPQueue, for every number of threads, nodes, values and  *)
(* slots: its accesses to the queue are those of MSQueue, no node is deleted  *)
(* twice, retired lists stay short, and hazards protect what is read as long  *)
(* as no slot is shared between threads.                                      *)
EXTENDS HPQueue, MSQueueProofs, FiniteSetTheorems

----------------------------------------------------------------------------
(* The queue *)

LEMMA ReadsAreSteps == \A t \in Threads : ReadProtected(t) => Step(t)
BY DEF ReadProtected, Step

LEMMA QueueStepsAreSteps == [QueueNext]_queueVars => [Next]_vars
<1> SUFFICES ASSUME [QueueNext]_queueVars PROVE [Next]_vars
  OBVIOUS
<1>1. CASE UNCHANGED queueVars
  BY <1>1 DEF queueVars
<1>2. ASSUME NEW t \in Threads, QueueCall(t) \/ ProtectReturns(t) \/ Iterate(t) \/ QueueReturn(t) PROVE Next
  <2>1. Return(t) => Step(t)
    BY DEF Step
  <2> QED
    BY <1>2, <2>1, ReadsAreSteps DEF QueueCall, ProtectReturns, Iterate, QueueReturn, Next
<1>3. ASSUME NEW t \in Threads,
             \/ MakeGuard(t) \/ Protect(t) \/ ClearHeadGuard(t) \/ RetireDummy(t)
             \/ EndGuard(t) \/ ThreadExit(t) \/ Inside(t)
      PROVE  UNCHANGED vars
  BY <1>3 DEF MakeGuard, Protect, ClearHeadGuard, RetireDummy, EndGuard, ThreadExit, Inside
<1> QED
  BY <1>1, <1>2, <1>3 DEF QueueNext

\* Whatever reclamation does, the accesses to the queue are those of MSQueue.
THEOREM QueueImplementsMSQueue == QueueSpec => Spec
<1>1. QueueInit => Init
  BY DEF QueueInit
<1> QED
  BY <1>1, QueueStepsAreSteps, PTL DEF QueueSpec, Spec

\* So lfq::HPQueue is a linearizable FIFO queue, however its Guards share slots, as
\* long as a deleted node keeps its contents; OneConsumerIsProtected says when none
\* is read.
THEOREM QueueLinearizable == QueueSpec => Linearizable
BY QueueImplementsMSQueue, Linearizability, PTL

----------------------------------------------------------------------------
(* Where a step leaves the retired nodes *)

ListTypeOK ==
    /\ old \in [Threads -> SUBSET Nodes]
    /\ retired \in [Threads -> SUBSET Nodes]
    /\ snapshot \in [Threads -> SUBSET Nodes]
    /\ at \in [Threads -> Hp!Places]
    /\ index \in [Threads -> Nat]

\* The lists, and what is known while they are scanned, stay as they are.
ListsKept(t) ==
    /\ UNCHANGED <<old, retired, freed, snapshot>>
    /\ \E p \in Hp!Places : at' = [at EXCEPT ![t] = p]
    /\ at[t] # "scan" /\ at'[t] # "scan"
    /\ \E i \in Nat : index' = [index EXCEPT ![t] = i]

\* A dummy has just been unlinked.
ListsUnlink(t) ==
    /\ DeqCas(t)
    /\ old' = [old EXCEPT ![t] = {lhead[t]}]
    /\ at[t] = "idle"
    /\ UNCHANGED <<retired, freed, snapshot, at, index>>

\* The lists of a thread that has exited are gone.
ListsLost(t) ==
    /\ at[t] # "scan"
    /\ t \notin gone /\ gone' = gone \cup {t}
    /\ UNCHANGED <<hi, chain>>
    /\ retired' = [retired EXCEPT ![t] = {}]
    /\ UNCHANGED <<old, freed, snapshot, at, index>>

ListsTakeDummy(t) == RetireDummy(t)
ListsScanned(t) == Hp!ScanLoad(t) /\ UNCHANGED old

LEMMA ListSteps ==
    ASSUME IInv, ListTypeOK, [QueueNext]_queueVars
    PROVE  \/ UNCHANGED <<old, retired, freed, snapshot, at, index>>
           \/ \E t \in Threads : \/ ListsKept(t) \/ ListsUnlink(t) \/ ListsLost(t)
                                 \/ ListsTakeDummy(t) \/ ListsScanned(t)
<1> USE DEF ListTypeOK, Hp!Jump, Hp!Places
<1>1. CASE UNCHANGED queueVars
  BY <1>1 DEF queueVars, library, glue
<1>2. ASSUME NEW t \in Threads, QueueCall(t) \/ QueueReturn(t)
      PROVE  UNCHANGED <<old, retired, freed, snapshot, at, index>>
  BY <1>2 DEF QueueCall, QueueReturn, library, glue
<1>3. ASSUME NEW t \in Threads, MakeGuard(t) PROVE ListsKept(t)
  <2>1. UNCHANGED <<old, retired, freed, snapshot>> /\ at[t] = "idle"
    BY <1>3 DEF MakeGuard, Hp!GuardOnOwnSlot, Hp!GuardNeedsSlot, glue
  <2>2. \E p \in {"idle", "acquire"}, i \in {index[t], 1} :
           at' = [at EXCEPT ![t] = p] /\ index' = [index EXCEPT ![t] = i]
    BY <1>3 DEF MakeGuard, Hp!GuardOnOwnSlot, Hp!GuardNeedsSlot
  <2> QED
    BY <2>1, <2>2 DEF ListsKept
<1>4. ASSUME NEW t \in Threads, Protect(t) \/ ProtectReturns(t) PROVE ListsKept(t)
  <2>1. UNCHANGED <<old, retired, freed, snapshot, index>> /\ at[t] \in {"idle", "store", "check"}
    BY <1>4 DEF Protect, ProtectReturns, Hp!ProtectLoad, Hp!ProtectStore, Hp!ProtectRetries,
                Hp!ProtectReturns, Hp!ProtectEnds, glue
  <2>2. \E p \in {"store", "check", "idle"} : at' = [at EXCEPT ![t] = p]
    BY <1>4 DEF Protect, ProtectReturns, Hp!ProtectLoad, Hp!ProtectStore, Hp!ProtectRetries,
                Hp!ProtectReturns, Hp!ProtectEnds
  <2>3. index' = [index EXCEPT ![t] = index[t]] /\ index[t] \in Nat
    BY <2>1
  <2> QED
    BY <2>1, <2>2, <2>3 DEF ListsKept
<1>5. ASSUME NEW t \in Threads, Iterate(t)
      PROVE  UNCHANGED <<old, retired, freed, snapshot, at, index>> \/ ListsUnlink(t)
  BY <1>5, OnlyDeqCasMovesHead DEF Iterate, library, glue, ListsUnlink
<1>6. ASSUME NEW t \in Threads, ClearHeadGuard(t) \/ EndGuard(t) PROVE ListsKept(t)
  <2>1. UNCHANGED <<old, retired, freed, snapshot, index>> /\ at[t] = "idle" /\ at' = [at EXCEPT ![t] = "idle"]
    BY <1>6 DEF ClearHeadGuard, EndGuard, Hp!Clear, Hp!EndGuard, glue
  <2>2. index' = [index EXCEPT ![t] = index[t]] /\ index[t] \in Nat
    BY <2>1
  <2> QED
    BY <2>1, <2>2 DEF ListsKept
<1>7. ASSUME NEW t \in Threads, ThreadExit(t) PROVE ListsLost(t)
  BY <1>7 DEF ThreadExit, Hp!Exit, glue, vars, shared, history, ListsLost
<1>8. ASSUME NEW t \in Threads, Inside(t) PROVE ListsKept(t) \/ ListsScanned(t)
  <2>1. CASE Hp!ScanLoad(t)
    BY <1>8, <2>1 DEF Inside, glue, ListsScanned
  <2>2. CASE Hp!Acquire(t) \/ Hp!AcquireFail(t)
    <3>1. UNCHANGED <<old, retired, freed, snapshot>> /\ at[t] = "acquire"
      BY <1>8, <2>2 DEF Inside, Hp!Acquire, Hp!AcquireFail, glue
    <3>2. \E p \in {"idle", "acquire", "exhausted"}, i \in {0, index[t] + 1} :
             at' = [at EXCEPT ![t] = p] /\ index' = [index EXCEPT ![t] = i]
      BY <2>2 DEF Hp!Acquire, Hp!AcquireFail, Hp!NextIndex
    <3>3. \E p \in Hp!Places : at' = [at EXCEPT ![t] = p] /\ p # "scan"
      BY <3>2
    <3>4. \E i \in Nat : index' = [index EXCEPT ![t] = i]
      <4>1. index[t] \in Nat
        OBVIOUS
      <4>2. 0 \in Nat /\ index[t] + 1 \in Nat
        BY <4>1
      <4>3. index' = [index EXCEPT ![t] = 0] \/ index' = [index EXCEPT ![t] = index[t] + 1]
        BY <3>2
      <4> QED
        BY <4>2, <4>3
    <3> QED
      BY <3>1, <3>3, <3>4 DEF ListsKept
  <2> QED
    BY <1>8, <2>1, <2>2 DEF Inside, Hp!HpStep
<1> QED
  BY <1>1, <1>2, <1>3, <1>4, <1>5, <1>6, <1>7, <1>8 DEF QueueNext, ListsTakeDummy

----------------------------------------------------------------------------
(* The way of a dummy: unlinked, retired, deleted *)

Holds(t, n) == n \in old[t] \cup retired[t]
Held(n) == \E t \in Threads : Holds(t, n)

\* A dummy is in the hands of one thread until it is deleted.
Once(n) ==
    /\ \A t, u \in Threads : Holds(t, n) /\ Holds(u, n) => t = u
    /\ Held(n) => n \notin freed
    /\ Held(n) \/ n \in freed => Passed(n)

\* A scan starts with the dummy in the list, and has seen fewer pointers than the
\* number of the slot that it has come to.
Short(t) ==
    /\ IsFiniteSet(retired[t]) /\ Cardinality(retired[t]) <= LongestList
    /\ at[t] # "scan" => Cardinality(retired[t]) < LongestList /\ snapshot[t] = {}
    /\ at[t] = "scan" =>
         /\ old[t] = {}
         /\ index[t] \in 1..SlotCount
         /\ IsFiniteSet(snapshot[t]) /\ Cardinality(snapshot[t]) < index[t]

\* The inductive invariant.
ListInv ==
    /\ IInv
    /\ ListTypeOK
    /\ \A t \in Threads : Short(t)
    /\ \A n \in Nodes : Once(n)

LEMMA SameCardinality == \A S : Hp!Cardinality(S) = Cardinality(S)
BY Zenon DEF Hp!Cardinality, Cardinality

LEMMA LimitFacts == LongestList \in Nat /\ LongestList > SlotCount /\ LongestList >= ScanAt /\ SlotCount \in Nat \ {0} /\ ScanAt \in Nat \ {0}
BY HPAssumption DEF LongestList

\* What a dummy's retirement changes.
LEMMA TakeDummyEffect ==
    ASSUME ListTypeOK, NEW t \in Threads, ListsTakeDummy(t)
    PROVE  \E m \in Nodes :
             /\ m \in old[t] /\ at[t] = "idle"
             /\ old' = [old EXCEPT ![t] = {}]
             /\ retired' = [retired EXCEPT ![t] = retired[t] \cup {m}]
             /\ UNCHANGED <<freed, snapshot>>
             /\ \/ /\ Cardinality(retired[t] \cup {m}) >= ScanAt
                   /\ at' = [at EXCEPT ![t] = "scan"] /\ index' = [index EXCEPT ![t] = 1]
                \/ /\ ~(Cardinality(retired[t] \cup {m}) >= ScanAt)
                   /\ at' = [at EXCEPT ![t] = "idle"] /\ index' = [index EXCEPT ![t] = 0]
<1>1. PICK m \in old[t] : Hp!Retire(t, m)
  BY DEF ListsTakeDummy, RetireDummy
<1>2. m \in Nodes
  BY DEF ListTypeOK
<1>3. old' = [old EXCEPT ![t] = {}]
  BY DEF ListsTakeDummy, RetireDummy
<1>4. Hp!Cardinality(retired[t] \cup {m}) = Cardinality(retired[t] \cup {m})
  BY SameCardinality
<1>5. /\ at[t] = "idle" /\ retired' = [retired EXCEPT ![t] = retired[t] \cup {m}] /\ UNCHANGED <<freed, snapshot>>
      /\ \/ /\ Hp!Cardinality(retired[t] \cup {m}) >= ScanAt
            /\ at' = [at EXCEPT ![t] = "scan"] /\ index' = [index EXCEPT ![t] = 1]
         \/ /\ ~(Hp!Cardinality(retired[t] \cup {m}) >= ScanAt)
            /\ at' = [at EXCEPT ![t] = "idle"] /\ index' = [index EXCEPT ![t] = 0]
  BY <1>1 DEF Hp!Retire, Hp!Jump
<1> QED
  BY <1>1, <1>2, <1>3, <1>4, <1>5

\* What a load of a scan changes.
Seen(t) == snapshot[t] \cup ({hazard[index[t]]} \cap Nodes)

LEMMA ScannedEffect ==
    ASSUME NEW t \in Threads, ListsScanned(t)
    PROVE  /\ at[t] = "scan" /\ UNCHANGED old
           /\ \/ /\ index[t] = SlotCount
                 /\ at' = [at EXCEPT ![t] = "idle"] /\ index' = [index EXCEPT ![t] = 0]
                 /\ freed' = freed \cup (retired[t] \ Seen(t))
                 /\ retired' = [retired EXCEPT ![t] = retired[t] \cap Seen(t)]
                 /\ snapshot' = [snapshot EXCEPT ![t] = {}]
              \/ /\ index[t] # SlotCount
                 /\ at' = [at EXCEPT ![t] = "scan"] /\ index' = [index EXCEPT ![t] = index[t] + 1]
                 /\ snapshot' = [snapshot EXCEPT ![t] = Seen(t)]
                 /\ UNCHANGED <<freed, retired>>
BY DEF ListsScanned, Hp!ScanLoad, Hp!Jump, Hp!LastSlot, Hp!NextIndex, Hp!Kept, Seen

LEMMA UnlinkEffect ==
    ASSUME IInv, ListTypeOK, NEW t \in Threads, ListsUnlink(t)
    PROVE  /\ lhead[t] = chain[hi] /\ hi' = hi + 1 /\ chain' = chain /\ hi \in 1..Len(chain)
           /\ lhead[t] \in Nodes
BY DEF ListsUnlink, DeqCas, StillDummy, IInv, OneList, TypeOK

LEMMA ListTypeStep ==
    ASSUME ListInv, [QueueNext]_queueVars
    PROVE  ListTypeOK'
<1> USE DEF ListInv, ListTypeOK
<1>1. CASE UNCHANGED <<old, retired, freed, snapshot, at, index>>
  BY <1>1
<1>2. ASSUME NEW t \in Threads, ListsKept(t) \/ ListsLost(t) PROVE ListTypeOK'
  BY <1>2 DEF ListsKept, ListsLost
<1>3. ASSUME NEW t \in Threads, ListsUnlink(t) PROVE ListTypeOK'
  BY <1>3, UnlinkEffect DEF ListsUnlink
<1>4. ASSUME NEW t \in Threads, ListsTakeDummy(t) PROVE ListTypeOK'
  <2>1. PICK m \in Nodes :
           /\ old' = [old EXCEPT ![t] = {}] /\ retired' = [retired EXCEPT ![t] = retired[t] \cup {m}]
           /\ UNCHANGED <<freed, snapshot>>
           /\ \E p \in {"scan", "idle"}, i \in {0, 1} : at' = [at EXCEPT ![t] = p] /\ index' = [index EXCEPT ![t] = i]
    BY <1>4, TakeDummyEffect
  <2>2. retired[t] \cup {m} \in SUBSET Nodes
    OBVIOUS
  <2> QED
    BY <2>1, <2>2 DEF Hp!Places
<1>5. ASSUME NEW t \in Threads, ListsScanned(t) PROVE ListTypeOK'
  <2>1. Seen(t) \in SUBSET Nodes /\ index[t] + 1 \in Nat /\ 0 \in Nat /\ {"idle", "scan"} \subseteq Hp!Places
    BY DEF Seen, Hp!Places
  <2> HIDE DEF Seen, Hp!Places
  <2> QED
    BY <1>5, <2>1, ScannedEffect
<1> QED
  BY <1>1, <1>2, <1>3, <1>4, <1>5, ListSteps

LEMMA ShortStep ==
    ASSUME ListInv, [QueueNext]_queueVars, NEW u \in Threads
    PROVE  Short(u)'
<1> USE DEF ListInv, ListTypeOK
<1>0. Short(u)
  OBVIOUS
<1>1. ASSUME retired'[u] = retired[u] \/ retired'[u] = {}, snapshot'[u] = snapshot[u],
             old'[u] = old[u], at'[u] = at[u], index'[u] = index[u]
      PROVE  Short(u)'
  <2>1. CASE retired'[u] = retired[u]
    BY <1>0, <1>1, <2>1 DEF Short
  <2>2. CASE retired'[u] = {}
    <3>1. IsFiniteSet(retired'[u]) /\ Cardinality(retired'[u]) = 0
      BY <2>2, FS_EmptySet
    <3>2. Cardinality(retired'[u]) < LongestList /\ Cardinality(retired'[u]) <= LongestList
      BY <3>1, LimitFacts
    <3> QED
      BY <1>0, <1>1, <3>1, <3>2 DEF Short
  <2> QED
    BY <1>1, <2>1, <2>2
<1>2. CASE UNCHANGED <<old, retired, freed, snapshot, at, index>>
  BY <1>1, <1>2
<1>3. ASSUME NEW t \in Threads, ListsKept(t) PROVE Short(u)'
  <2>1. CASE u = t
    BY <1>0, <1>3, <2>1 DEF ListsKept, Short
  <2>2. CASE u # t
    BY <1>1, <1>3, <2>2 DEF ListsKept
  <2> QED
    BY <2>1, <2>2
<1>4. ASSUME NEW t \in Threads, ListsUnlink(t) PROVE Short(u)'
  <2>1. CASE u = t
    BY <1>0, <1>4, <2>1 DEF ListsUnlink, Short
  <2>2. CASE u # t
    BY <1>1, <1>4, <2>2 DEF ListsUnlink
  <2> QED
    BY <2>1, <2>2
<1>5. ASSUME NEW t \in Threads, ListsLost(t) PROVE Short(u)'
  BY <1>1, <1>5 DEF ListsLost
<1>6. ASSUME NEW t \in Threads, ListsTakeDummy(t) PROVE Short(u)'
  <2>1. CASE u = t
    <3>1. PICK m \in Nodes :
             /\ m \in old[t] /\ at[t] = "idle"
             /\ old' = [old EXCEPT ![t] = {}]
             /\ retired' = [retired EXCEPT ![t] = retired[t] \cup {m}]
             /\ UNCHANGED <<freed, snapshot>>
             /\ \/ /\ Cardinality(retired[t] \cup {m}) >= ScanAt
                   /\ at' = [at EXCEPT ![t] = "scan"] /\ index' = [index EXCEPT ![t] = 1]
                \/ /\ ~(Cardinality(retired[t] \cup {m}) >= ScanAt)
                   /\ at' = [at EXCEPT ![t] = "idle"] /\ index' = [index EXCEPT ![t] = 0]
      BY <1>6, TakeDummyEffect
    <3>2. /\ IsFiniteSet(retired[t]) /\ Cardinality(retired[t]) < LongestList /\ snapshot[t] = {}
      BY <1>0, <2>1, <3>1 DEF Short
    <3>3. /\ IsFiniteSet(retired[t] \cup {m}) /\ Cardinality(retired[t] \cup {m}) \in Nat
          /\ Cardinality(retired[t] \cup {m}) <= Cardinality(retired[t]) + 1
          /\ Cardinality(retired[t]) \in Nat
      <4>1. Cardinality(retired[t]) \in Nat
        BY <3>2, FS_CardinalityType
      <4>2. /\ IsFiniteSet(retired[t] \cup {m})
            /\ Cardinality(retired[t] \cup {m}) = IF m \in retired[t] THEN Cardinality(retired[t]) ELSE Cardinality(retired[t]) + 1
        BY <3>2, FS_AddElement
      <4> QED
        BY <4>1, <4>2
    <3>4. retired'[t] = retired[t] \cup {m} /\ snapshot'[t] = {} /\ old'[t] = {}
      BY <3>1, <3>2
    <3>5. Cardinality(retired'[t]) <= LongestList /\ IsFiniteSet(retired'[t])
      BY <3>2, <3>3, <3>4, LimitFacts
    <3>6. CASE at'[t] = "scan" /\ index'[t] = 1
      <4>1. IsFiniteSet(snapshot'[t]) /\ Cardinality(snapshot'[t]) = 0
        BY <3>4, FS_EmptySet
      <4> QED
        BY <2>1, <3>4, <3>5, <3>6, <4>1, LimitFacts DEF Short
    <3>7. CASE at'[t] = "idle" /\ ~(Cardinality(retired[t] \cup {m}) >= ScanAt)
      <4>1. Cardinality(retired'[t]) < LongestList
        BY <3>3, <3>4, <3>7, LimitFacts
      <4> QED
        BY <2>1, <3>4, <3>5, <3>7, <4>1 DEF Short
    <3> QED
      BY <3>1, <3>6, <3>7
  <2>2. CASE u # t
    <3>1. /\ retired'[u] = retired[u] /\ old'[u] = old[u] /\ UNCHANGED snapshot
          /\ at'[u] = at[u] /\ index'[u] = index[u]
      <4>1. PICK m \in Nodes :
               /\ old' = [old EXCEPT ![t] = {}]
               /\ retired' = [retired EXCEPT ![t] = retired[t] \cup {m}]
               /\ UNCHANGED snapshot
               /\ \E p \in {"scan", "idle"}, i \in {0, 1} : at' = [at EXCEPT ![t] = p] /\ index' = [index EXCEPT ![t] = i]
        BY <1>6, TakeDummyEffect
      <4> QED
        BY <2>2, <4>1
    <3> QED
      BY <1>1, <3>1
  <2> QED
    BY <2>1, <2>2
<1>7. ASSUME NEW t \in Threads, ListsScanned(t) PROVE Short(u)'
  <2>1. CASE u = t
    <3>1. /\ at[t] = "scan" /\ index[t] \in 1..SlotCount /\ old[t] = {}
          /\ IsFiniteSet(snapshot[t]) /\ Cardinality(snapshot[t]) < index[t]
          /\ IsFiniteSet(retired[t]) /\ Cardinality(retired[t]) <= LongestList
      BY <1>0, <1>7, <2>1, ScannedEffect DEF Short
    <3>2. IsFiniteSet(Seen(t)) /\ Cardinality(Seen(t)) \in Nat /\ Cardinality(Seen(t)) <= index[t]
      <4>1. Seen(t) = snapshot[t] \/ Seen(t) = snapshot[t] \cup {hazard[index[t]]}
        BY DEF Seen
      <4>2. Cardinality(snapshot[t]) \in Nat
        BY <3>1, FS_CardinalityType
      <4>3. /\ IsFiniteSet(snapshot[t] \cup {hazard[index[t]]})
            /\ Cardinality(snapshot[t] \cup {hazard[index[t]]}) =
                 IF hazard[index[t]] \in snapshot[t] THEN Cardinality(snapshot[t]) ELSE Cardinality(snapshot[t]) + 1
        BY <3>1, FS_AddElement
      <4>4. index[t] \in Nat
        OBVIOUS
      <4>5. /\ Cardinality(snapshot[t] \cup {hazard[index[t]]}) \in Nat
            /\ Cardinality(snapshot[t] \cup {hazard[index[t]]}) <= index[t]
        BY <3>1, <4>2, <4>3, <4>4
      <4>6. Cardinality(snapshot[t]) <= index[t]
        BY <3>1, <4>2, <4>4
      <4> HIDE DEF Seen
      <4> QED
        BY <3>1, <4>1, <4>2, <4>3, <4>5, <4>6
    <3>3. CASE /\ index[t] = SlotCount /\ at' = [at EXCEPT ![t] = "idle"]
               /\ retired' = [retired EXCEPT ![t] = retired[t] \cap Seen(t)]
               /\ snapshot' = [snapshot EXCEPT ![t] = {}]
      <4>1. /\ IsFiniteSet(retired[t] \cap Seen(t)) /\ Cardinality(retired[t] \cap Seen(t)) <= Cardinality(Seen(t))
            /\ Cardinality(retired[t] \cap Seen(t)) \in Nat
        <5>1. retired[t] \cap Seen(t) \in SUBSET Seen(t)
          OBVIOUS
        <5> QED
          BY <3>2, <5>1, FS_Subset, FS_CardinalityType
      <4>2. at'[t] = "idle" /\ retired'[t] = retired[t] \cap Seen(t) /\ snapshot'[t] = {}
        BY <3>3
      <4> HIDE DEF Seen
      <4>3. Cardinality(retired'[t]) < LongestList
        BY <3>2, <3>3, <4>1, <4>2, LimitFacts
      <4> QED
        BY <2>1, <4>1, <4>2, <4>3, LimitFacts DEF Short
    <3>4. CASE /\ index[t] # SlotCount /\ UNCHANGED <<old, retired>>
               /\ at' = [at EXCEPT ![t] = "scan"] /\ index' = [index EXCEPT ![t] = index[t] + 1]
               /\ snapshot' = [snapshot EXCEPT ![t] = Seen(t)]
      <4>1. at'[t] = "scan" /\ index'[t] = index[t] + 1 /\ snapshot'[t] = Seen(t) /\ old'[t] = {} /\ retired'[t] = retired[t]
        BY <3>1, <3>4
      <4>2. index'[t] \in 1..SlotCount
        BY <3>1, <3>4, <4>1, LimitFacts
      <4> QED
        BY <2>1, <3>1, <3>2, <4>1, <4>2 DEF Short
    <3> QED
      BY <1>7, <3>3, <3>4, ScannedEffect
  <2>2. CASE u # t
    BY <1>1, <1>7, <2>2, ScannedEffect
  <2> QED
    BY <2>1, <2>2
<1> QED
  BY <1>2, <1>3, <1>4, <1>5, <1>6, <1>7, ListSteps

LEMMA OnceStep ==
    ASSUME ListInv, [QueueNext]_queueVars, NEW n \in Nodes
    PROVE  Once(n)'
<1> USE DEF ListInv, ListTypeOK
<1>0. Once(n) /\ (Passed(n) => Passed(n)')
  BY QueueStepsAreSteps, PassedStays
<1>1. ASSUME \A u \in Threads : Holds(u, n)' => Holds(u, n), UNCHANGED freed
      PROVE  Once(n)'
  BY <1>0, <1>1 DEF Once, Held
<1>2. CASE UNCHANGED <<old, retired, freed, snapshot, at, index>>
  BY <1>1, <1>2 DEF Holds
<1>3. ASSUME NEW t \in Threads, ListsKept(t) PROVE Once(n)'
  BY <1>1, <1>3 DEF ListsKept, Holds
<1>4. ASSUME NEW t \in Threads, ListsUnlink(t) PROVE Once(n)'
  <2>1. /\ lhead[t] = chain[hi] /\ hi' = hi + 1 /\ chain' = chain /\ hi \in 1..Len(chain)
    BY <1>4, UnlinkEffect
  <2>2. old' = [old EXCEPT ![t] = {lhead[t]}] /\ UNCHANGED <<retired, freed>>
    BY <1>4 DEF ListsUnlink
  <2>3. CASE n = lhead[t]
    <3>1. ~Passed(n)
      BY <2>1, <2>3 DEF Passed, IInv, OneList
    <3>2. ~Held(n) /\ n \notin freed
      BY <1>0, <3>1 DEF Once
    <3>3. Passed(n)'
      BY <2>1, <2>3 DEF Passed
    <3>4. \A u \in Threads : Holds(u, n)' => u = t
      BY <2>2, <3>2 DEF Holds, Held
    <3> QED
      BY <2>2, <3>2, <3>3, <3>4 DEF Once
  <2>4. CASE n # lhead[t]
    BY <1>1, <2>2, <2>4 DEF Holds
  <2> QED
    BY <2>3, <2>4
<1>5. ASSUME NEW t \in Threads, ListsLost(t) PROVE Once(n)'
  BY <1>1, <1>5 DEF ListsLost, Holds
<1>6. ASSUME NEW t \in Threads, ListsTakeDummy(t) PROVE Once(n)'
  <2>1. PICK m \in old[t] :
           /\ old' = [old EXCEPT ![t] = {}] /\ retired' = [retired EXCEPT ![t] = retired[t] \cup {m}]
           /\ UNCHANGED freed
    BY <1>6, TakeDummyEffect
  <2> QED
    BY <1>1, <2>1 DEF Holds
<1>7. ASSUME NEW t \in Threads, ListsScanned(t) PROVE Once(n)'
  <2>1. at[t] = "scan" /\ old[t] = {} /\ UNCHANGED old
    BY <1>7, ScannedEffect DEF Short
  <2>2. CASE UNCHANGED <<freed, retired>>
    BY <1>1, <2>1, <2>2 DEF Holds
  <2>3. CASE /\ freed' = freed \cup (retired[t] \ Seen(t))
             /\ retired' = [retired EXCEPT ![t] = retired[t] \cap Seen(t)]
    <3>1. \A u \in Threads : Holds(u, n)' => Holds(u, n)
      BY <2>1, <2>3 DEF Holds
    <3>2. n \in freed' => n \in freed \/ (Holds(t, n) /\ ~Holds(t, n)')
      BY <2>1, <2>3 DEF Holds
    <3>3. Held(n)' => n \notin freed'
      BY <1>0, <3>1, <3>2 DEF Once, Held
    <3> QED
      BY <1>0, <3>1, <3>2, <3>3 DEF Once, Held
  <2> QED
    BY <1>7, <2>2, <2>3, ScannedEffect
<1> QED
  BY <1>2, <1>3, <1>4, <1>5, <1>6, <1>7, ListSteps

LEMMA ListInitHolds == QueueInit => ListInv
<1> SUFFICES ASSUME QueueInit PROVE ListInv
  OBVIOUS
<1> USE DEF QueueInit, Hp!HpInit
<1>1. IInv
  BY InitInv
<1>2. ListTypeOK
  BY DEF ListTypeOK, Hp!Places
<1>3. \A t \in Threads : Short(t)
  <2>1. IsFiniteSet({}) /\ Cardinality({}) = 0
    BY FS_EmptySet
  <2>2. 0 <= LongestList /\ 0 < LongestList
    BY LimitFacts
  <2> QED
    BY <2>1, <2>2 DEF Short
<1>4. \A n \in Nodes : Once(n)
  BY DEF Once, Held, Holds
<1> QED
  BY <1>1, <1>2, <1>3, <1>4 DEF ListInv

LEMMA ListStepHolds == ListInv /\ [QueueNext]_queueVars => ListInv'
<1> SUFFICES ASSUME ListInv, [QueueNext]_queueVars PROVE ListInv'
  OBVIOUS
<1>1. IInv'
  BY StepInv, QueueStepsAreSteps DEF ListInv
<1> QED
  BY <1>1, ListTypeStep, ShortStep, OnceStep DEF ListInv

\* The inductive invariant holds of every reachable state.
THEOREM ListInvariance == QueueSpec => []ListInv
BY ListInitHolds, ListStepHolds, PTL DEF QueueSpec

\* A dummy is retired by the thread that unlinked it and deleted once, after
\* head_ has passed it (dequeue(), retire() and scan()).
THEOREM NodesAreFreedOnce == QueueSpec => []FreedOnce
<1>1. ASSUME ListInv PROVE FreedOnce
  <2> SUFFICES ASSUME NEW n \in Nodes
               PROVE  /\ Cardinality(Holders(n)) + Cardinality({n} \cap freed) <= 1
                      /\ Holders(n) # {} \/ n \in freed => \E i \in 1..(hi - 1) : chain[i] = n
    BY DEF FreedOnce
  <2>1. Once(n) /\ hi \in Nat
    BY <1>1 DEF ListInv, IInv, TypeOK
  <2>2. Holders(n) # {} <=> Held(n)
    BY DEF Holders, Held, Holds
  <2>3. Passed(n) => \E i \in 1..(hi - 1) : chain[i] = n
    BY <2>1 DEF Passed
  <2>4. Holders(n) = {} \/ \E t : Holders(n) = {t}
    BY <2>1 DEF Once, Holders, Holds
  <2>5. {n} \cap freed = IF n \in freed THEN {n} ELSE {}
    OBVIOUS
  <2>6. Cardinality({}) = 0 /\ \A x : Cardinality({x}) = 1
    BY FS_EmptySet, FS_Singleton
  <2>7. Cardinality(Holders(n)) + Cardinality({n} \cap freed) <= 1
    <3>1. CASE Holders(n) = {}
      <4>1. Cardinality(Holders(n)) = 0 /\ Cardinality({n} \cap freed) \in {0, 1}
        BY <2>5, <2>6, <3>1
      <4> QED
        BY <4>1
    <3>2. ASSUME NEW t, Holders(n) = {t} PROVE Cardinality(Holders(n)) + Cardinality({n} \cap freed) <= 1
      <4>1. n \notin freed
        BY <2>1, <2>2, <3>2 DEF Once
      <4>2. Cardinality(Holders(n)) = 1 /\ Cardinality({n} \cap freed) = 0
        BY <2>5, <2>6, <3>2, <4>1
      <4> QED
        BY <4>2
    <3> QED
      BY <2>4, <3>1, <3>2
  <2> QED
    BY <2>1, <2>2, <2>3, <2>7 DEF Once
<1> QED
  BY <1>1, ListInvariance, PTL

\* scan() keeps no more objects than there are slots, so that a list never grows
\* past R or past what the slots can protect and one more.
THEOREM ListsStayShort == QueueSpec => []RetiredBounded
<1>1. ListInv => RetiredBounded
  BY DEF ListInv, Short, RetiredBounded
<1> QED
  BY <1>1, ListInvariance, PTL

----------------------------------------------------------------------------
(* Slots and Guards *)

SlotTypeOK ==
    /\ hazard \in [Hp!Slots -> Nodes \cup {NULL, Reserved}]
    /\ mine \in [Threads -> [1..2 -> 0..SlotCount]]
    /\ guards \in [Threads -> Seq(Hp!Slots)]
    /\ ptr \in [Threads -> SUBSET Pointers]
    /\ duty \in [Threads -> Duties]

Mine(t, s) == \E j \in 1..2 : mine[t][j] = s

\* The Guards of a thread use its own slots, and a thread that needs a slot has none.
Owned(t) ==
    /\ \A k \in 1..Len(guards[t]) : Mine(t, guards[t][k])
    /\ at[t] = "acquire" => (\A j \in 1..2 : mine[t][j] = 0) /\ index[t] \in Hp!Slots

\* Where an operation of the queue has all its Guards for sure.
Bare == {"idle", "return", "enq_tail", "deq_head", "emp_head"}

\* Where a thread is in the library, by where it is in the queue.
Stage(t) ==
    /\ at[t] \notin {"idle", "scan"} => pc[t] \in Protects
    /\ at[t] = "scan" \/ duty[t] # "none" => pc[t] = "return" /\ Len(guards[t]) = 2
    /\ pc[t] = "idle" => Len(guards[t]) = 0
    /\ pc[t] # "return" => Len(guards[t]) <= GuardsWanted(t)
    /\ pc[t] \notin Bare \/ at[t] \in {"store", "check"} => Guarded(t)

SlotInv ==
    /\ SlotTypeOK
    /\ \A t \in Threads : Owned(t) /\ Stage(t)

LEMMA SlotsFact == Hp!Slots = 1..SlotCount /\ 1 \in Hp!Slots /\ 0 \notin Hp!Slots /\ 0..SlotCount = Hp!Slots \cup {0}
BY HPAssumption DEF Hp!Slots

\* A new Guard uses one of the thread's entries, and if that one is empty the
\* other is too.
LEMMA ChoiceFacts ==
    ASSUME SlotTypeOK, NEW t \in Threads
    PROVE  /\ Hp!Choice(t) \in 1..2
           /\ mine[t][Hp!Choice(t)] = 0 => \A j \in 1..2 : mine[t][j] = 0
<1>1. CASE \A k \in 1..2 : mine[t][k] = 0
  BY <1>1 DEF Hp!Choice, Hp!HazardsPerThread
<1>2. CASE \E k \in 1..2 : mine[t][k] # 0
  <2>1. \E k \in 1..2 : mine[t][k] # 0 /\ \A j \in 1..(k - 1) : mine[t][j] = 0
    <3>1. CASE mine[t][1] # 0
      <4>1. \A j \in 1..(1 - 1) : mine[t][j] = 0
        OBVIOUS
      <4> QED
        BY <3>1, <4>1
    <3>2. CASE mine[t][1] = 0
      <4>1. mine[t][2] # 0
        BY <1>2, <3>2
      <4>2. \A j \in 1..(2 - 1) : mine[t][j] = 0
        BY <3>2
      <4> QED
        BY <4>1, <4>2
    <3> QED
      BY <3>1, <3>2
  <2> QED
    BY <1>2, <2>1 DEF Hp!Choice, Hp!HazardsPerThread
<1> QED
  BY <1>1, <1>2

\* What a step does to the Guards of its thread, and with which slot.
Turns(t) == \E i \in Nat : index' = [index EXCEPT ![t] = i]
GuardMade(t) ==
    \E s \in Hp!Slots :
        /\ Mine(t, s) /\ pc[t] \in Protects /\ ~Guarded(t) /\ at[t] = "idle"
        /\ at' = at
        /\ guards' = [guards EXCEPT ![t] = Append(guards[t], s)]
        /\ UNCHANGED <<hazard, mine, index, ptr, pc, ltail, lhead, duty>>
GuardWaits(t) ==
    /\ at[t] = "idle" /\ pc[t] \in Protects /\ (\A j \in 1..2 : mine[t][j] = 0)
    /\ at' = [at EXCEPT ![t] = "acquire"] /\ index' = [index EXCEPT ![t] = 1]
    /\ UNCHANGED <<hazard, mine, guards, ptr, pc, ltail, lhead, duty>>
SlotTaken(t) ==
    /\ at[t] = "acquire" /\ index[t] \in Hp!Slots /\ hazard[index[t]] = NULL
    /\ at' = [at EXCEPT ![t] = "idle"]
    /\ hazard' = [hazard EXCEPT ![index[t]] = Reserved]
    /\ \E k \in 1..2 : mine' = [mine EXCEPT ![t] = [mine[t] EXCEPT ![k] = index[t]]]
    /\ guards' = [guards EXCEPT ![t] = Append(guards[t], index[t])]
    /\ Turns(t) /\ UNCHANGED <<ptr, pc, ltail, lhead, duty>>
SlotRefused(t) ==
    /\ at[t] = "acquire" /\ index[t] \in Hp!Slots
    /\ \/ index[t] = SlotCount /\ at' = [at EXCEPT ![t] = "exhausted"] /\ Turns(t)
       \/ /\ index[t] # SlotCount /\ at' = [at EXCEPT ![t] = "acquire"]
          /\ index' = [index EXCEPT ![t] = index[t] + 1]
    /\ UNCHANGED <<hazard, mine, guards, ptr, pc, ltail, lhead, duty>>
Loaded(t) ==
    /\ at[t] = "idle" /\ at' = [at EXCEPT ![t] = "store"] /\ pc[t] \in Protects /\ Guarded(t)
    /\ ptr' = [ptr EXCEPT ![t] = {Source(t)}]
    /\ UNCHANGED <<hazard, mine, guards, index, pc, ltail, lhead, duty>>
Stored(t) ==
    /\ at[t] = "store" /\ at' = [at EXCEPT ![t] = "check"] /\ pc[t] \in Protects /\ Guarded(t)
    /\ \E p \in ptr[t] : hazard' = [hazard EXCEPT ![guards[t][GuardUsed(t)]] = p]
    /\ UNCHANGED <<mine, guards, index, ptr, pc, ltail, lhead, duty>>
Retried(t) ==
    /\ at[t] = "check" /\ at' = [at EXCEPT ![t] = "idle"] /\ pc[t] \in Protects
    /\ ptr' = [ptr EXCEPT ![t] = {}]
    /\ UNCHANGED <<hazard, mine, guards, index, pc, ltail, lhead, duty>>
Validated(t) ==
    /\ at[t] = "check" /\ at' = [at EXCEPT ![t] = "idle"] /\ pc[t] \in Protects
    /\ ptr[t] = {Source(t)} /\ ReadProtected(t)
    /\ ptr' = [ptr EXCEPT ![t] = {}]
    /\ UNCHANGED <<hazard, mine, guards, index, duty>>
Iterated(t) ==
    /\ at[t] = "idle" /\ pc[t] \notin Protects \cup {"return"} /\ Step(t)
    /\ duty' = duty \/ (DeqCas(t) /\ duty' = [duty EXCEPT ![t] = "clear"])
    /\ UNCHANGED <<hazard, mine, guards, at, index, ptr>>
Cleared(t) ==
    /\ duty[t] = "clear" /\ at[t] = "idle" /\ duty' = [duty EXCEPT ![t] = "retire"]
    /\ hazard' = [hazard EXCEPT ![guards[t][1]] = NULL]
    /\ at' = at
    /\ UNCHANGED <<mine, guards, index, ptr, pc, ltail, lhead>>
RetiredOne(t) ==
    /\ duty[t] = "retire" /\ at[t] = "idle" /\ duty' = [duty EXCEPT ![t] = "none"]
    /\ \E p \in {"idle", "scan"} : at' = [at EXCEPT ![t] = p]
    /\ Turns(t) /\ UNCHANGED <<hazard, mine, guards, ptr, pc, ltail, lhead>>
GuardEnded(t) ==
    /\ pc[t] = "return" /\ duty[t] = "none" /\ at[t] = "idle" /\ guards[t] # <<>>
    /\ hazard' = [hazard EXCEPT ![guards[t][Len(guards[t])]] = NULL]
    /\ guards' = [guards EXCEPT ![t] = SubSeq(guards[t], 1, Len(guards[t]) - 1)]
    /\ at' = at
    /\ UNCHANGED <<mine, index, ptr, pc, ltail, lhead, duty>>
Left(t) ==
    /\ pc[t] = "idle" /\ at[t] = "idle" /\ guards[t] = <<>>
    /\ mine' = [mine EXCEPT ![t] = [k \in 1..2 |-> 0]]
    /\ at' = at
    /\ UNCHANGED <<hazard, guards, index, ptr, pc, ltail, lhead, duty>>
ScansOn(t) ==
    /\ at[t] = "scan" /\ \E p \in {"idle", "scan"} : at' = [at EXCEPT ![t] = p]
    /\ Turns(t) /\ UNCHANGED <<hazard, mine, guards, ptr, pc, ltail, lhead, duty>>
Begun(t) ==
    /\ at[t] = "idle" /\ Call(t)
    /\ UNCHANGED <<hazard, mine, guards, at, index, ptr, duty>>
Ended(t) ==
    /\ guards[t] = <<>> /\ Return(t)
    /\ UNCHANGED <<hazard, mine, guards, at, index, ptr, duty>>

SlotStep(t) ==
    \/ GuardMade(t) \/ GuardWaits(t) \/ SlotTaken(t) \/ SlotRefused(t) \/ Loaded(t) \/ Stored(t)
    \/ Retried(t) \/ Validated(t) \/ Iterated(t) \/ Cleared(t) \/ RetiredOne(t) \/ GuardEnded(t)
    \/ Left(t) \/ ScansOn(t) \/ Begun(t) \/ Ended(t)

LEMMA SlotSteps ==
    ASSUME ListInv, SlotInv, [QueueNext]_queueVars
    PROVE  UNCHANGED queueVars \/ \E t \in Threads : SlotStep(t)
<1> USE DEF Hp!Jump
<1>0. /\ at \in [Threads -> Hp!Places] /\ index \in [Threads -> Nat] /\ IInv
      /\ SlotTypeOK /\ \A t \in Threads : Owned(t) /\ Stage(t)
  BY DEF ListInv, ListTypeOK, SlotInv
<1>1. ASSUME NEW t \in Threads, QueueCall(t) PROVE Begun(t)
  BY <1>1 DEF QueueCall, library, glue, Begun
<1>2. ASSUME NEW t \in Threads, MakeGuard(t) PROVE GuardMade(t) \/ GuardWaits(t)
  <2>1. Hp!Choice(t) \in 1..2 /\ (mine[t][Hp!Choice(t)] = 0 => \A j \in 1..2 : mine[t][j] = 0)
    BY <1>0, ChoiceFacts
  <2>2. pc[t] \in Protects /\ ~Guarded(t) /\ at[t] = "idle" /\ UNCHANGED <<pc, ltail, lhead, duty>>
    BY <1>2 DEF MakeGuard, Hp!GuardOnOwnSlot, Hp!GuardNeedsSlot, vars, locals, glue
  <2>3. CASE Hp!GuardOnOwnSlot(t)
    <3>1. /\ at' = [at EXCEPT ![t] = "idle"] /\ UNCHANGED <<hazard, mine, index, ptr>> /\ mine[t][Hp!Choice(t)] # 0
          /\ guards' = [guards EXCEPT ![t] = Append(guards[t], mine[t][Hp!Choice(t)])]
      BY <2>3 DEF Hp!GuardOnOwnSlot
    <3>2. mine[t][Hp!Choice(t)] \in Hp!Slots /\ Mine(t, mine[t][Hp!Choice(t)])
      BY <1>0, <2>1, <3>1, SlotsFact DEF SlotTypeOK, Mine
    <3>3. at' = at
      BY <1>0, <2>2, <3>1
    <3> QED
      BY <2>2, <3>1, <3>2, <3>3 DEF GuardMade
  <2>4. CASE Hp!GuardNeedsSlot(t)
    BY <2>1, <2>2, <2>4 DEF Hp!GuardNeedsSlot, GuardWaits
  <2> QED
    BY <1>2, <2>3, <2>4 DEF MakeGuard
<1>3. ASSUME NEW t \in Threads, Protect(t) PROVE Loaded(t) \/ Stored(t) \/ Retried(t)
  <2>1. pc[t] \in Protects /\ Guarded(t) /\ UNCHANGED <<pc, ltail, lhead, duty>>
    BY <1>3 DEF Protect, vars, locals, glue
  <2>2. CASE Hp!ProtectLoad(t, Source(t))
    BY <2>1, <2>2 DEF Hp!ProtectLoad, Loaded
  <2>3. CASE Hp!ProtectStore(t, GuardUsed(t))
    BY <2>1, <2>3 DEF Hp!ProtectStore, Stored
  <2>4. CASE Hp!ProtectRetries(t, Source(t))
    BY <2>1, <2>4 DEF Hp!ProtectRetries, Hp!ProtectEnds, Retried
  <2> QED
    BY <1>3, <2>2, <2>3, <2>4 DEF Protect
<1>4. ASSUME NEW t \in Threads, ProtectReturns(t) PROVE Validated(t)
  BY <1>4 DEF ProtectReturns, Hp!ProtectReturns, Hp!ProtectEnds, Hp!Stable, glue, Validated
<1>5. ASSUME NEW t \in Threads, Iterate(t) PROVE Iterated(t)
  BY <1>0, <1>5, OnlyDeqCasMovesHead DEF Iterate, library, glue, Iterated
<1>6. ASSUME NEW t \in Threads, ClearHeadGuard(t) PROVE Cleared(t)
  <2>1. at[t] = "idle" /\ at' = [at EXCEPT ![t] = "idle"]
    BY <1>6 DEF ClearHeadGuard, Hp!Clear
  <2>2. at' = at
    BY <1>0, <2>1
  <2> QED
    BY <1>6, <2>1, <2>2 DEF ClearHeadGuard, Hp!Clear, vars, locals, Cleared
<1>7. ASSUME NEW t \in Threads, RetireDummy(t) PROVE RetiredOne(t)
  <2>1. PICK n \in old[t] : Hp!Retire(t, n)
    BY <1>7 DEF RetireDummy
  <2>2. /\ at[t] = "idle" /\ \E p \in {"idle", "scan"} : at' = [at EXCEPT ![t] = p]
        /\ \E i \in {0, 1} : index' = [index EXCEPT ![t] = i]
        /\ UNCHANGED <<hazard, mine, guards, ptr>>
    BY <2>1 DEF Hp!Retire
  <2>3. Turns(t)
    BY <2>2 DEF Turns
  <2> QED
    BY <1>7, <2>2, <2>3 DEF RetireDummy, vars, locals, RetiredOne
<1>8. ASSUME NEW t \in Threads, EndGuard(t) PROVE GuardEnded(t)
  <2>1. at[t] = "idle" /\ at' = [at EXCEPT ![t] = "idle"]
    BY <1>8 DEF EndGuard, Hp!EndGuard
  <2>2. at' = at
    BY <1>0, <2>1
  <2> QED
    BY <1>8, <2>1, <2>2 DEF EndGuard, Hp!EndGuard, vars, locals, glue, GuardEnded
<1>9. ASSUME NEW t \in Threads, QueueReturn(t) PROVE Ended(t)
  BY <1>9 DEF QueueReturn, library, glue, Ended
<1>10. ASSUME NEW t \in Threads, ThreadExit(t) PROVE Left(t)
  <2>1. at[t] = "idle" /\ at' = [at EXCEPT ![t] = "idle"]
    BY <1>10 DEF ThreadExit, Hp!Exit
  <2>2. at' = at
    BY <1>0, <2>1
  <2> QED
    BY <1>10, <2>1, <2>2 DEF ThreadExit, Hp!Exit, Hp!HazardsPerThread, vars, locals, glue, Left
<1>11. ASSUME NEW t \in Threads, Inside(t) PROVE SlotTaken(t) \/ SlotRefused(t) \/ ScansOn(t)
  <2>0. UNCHANGED <<pc, ltail, lhead, duty>> /\ index[t] \in Nat
    BY <1>0, <1>11 DEF Inside, vars, locals, glue
  <2>1. CASE Hp!Acquire(t)
    <3>1. /\ at[t] = "acquire" /\ hazard[index[t]] = NULL /\ at' = [at EXCEPT ![t] = "idle"]
          /\ hazard' = [hazard EXCEPT ![index[t]] = Reserved]
          /\ mine' = [mine EXCEPT ![t] = [mine[t] EXCEPT ![Hp!Choice(t)] = index[t]]]
          /\ guards' = [guards EXCEPT ![t] = Append(guards[t], index[t])]
          /\ index' = [index EXCEPT ![t] = 0] /\ ptr' = ptr
      BY <2>1 DEF Hp!Acquire
    <3>2. index[t] \in Hp!Slots /\ Hp!Choice(t) \in 1..2
      BY <1>0, <3>1, ChoiceFacts DEF Owned
    <3>3. Turns(t)
      BY <3>1 DEF Turns
    <3> QED
      BY <2>0, <3>1, <3>2, <3>3 DEF SlotTaken
  <2>2. CASE Hp!AcquireFail(t)
    <3>1. at[t] = "acquire" /\ UNCHANGED <<hazard, mine, guards, ptr>>
      BY <2>2 DEF Hp!AcquireFail
    <3>2. index[t] \in Hp!Slots
      BY <1>0, <3>1 DEF Owned
    <3>3. CASE index[t] = SlotCount
      <4>1. at' = [at EXCEPT ![t] = "exhausted"] /\ index' = [index EXCEPT ![t] = 0]
        BY <2>2, <3>3 DEF Hp!AcquireFail, Hp!LastSlot, Hp!NextIndex
      <4>2. Turns(t)
        BY <4>1 DEF Turns
      <4> QED
        BY <2>0, <3>1, <3>2, <3>3, <4>1, <4>2 DEF SlotRefused
    <3>4. CASE index[t] # SlotCount
      <4>1. at' = [at EXCEPT ![t] = "acquire"] /\ index' = [index EXCEPT ![t] = index[t] + 1]
        BY <2>2, <3>4 DEF Hp!AcquireFail, Hp!LastSlot, Hp!NextIndex
      <4> QED
        BY <2>0, <3>1, <3>2, <3>4, <4>1 DEF SlotRefused
    <3> QED
      BY <3>3, <3>4
  <2>3. CASE Hp!ScanLoad(t)
    <3>1. at[t] = "scan" /\ \E p \in {"idle", "scan"} : at' = [at EXCEPT ![t] = p]
      BY <2>3 DEF Hp!ScanLoad
    <3>2. \E i \in {0, index[t] + 1} : index' = [index EXCEPT ![t] = i]
      BY <2>3 DEF Hp!ScanLoad, Hp!NextIndex
    <3>3. Turns(t)
      <4>1. 0 \in Nat /\ index[t] + 1 \in Nat
        BY <2>0
      <4> QED
        BY <3>2, <4>1 DEF Turns
    <3>4. UNCHANGED <<hazard, mine, guards, ptr>>
      BY <2>3 DEF Hp!ScanLoad
    <3> QED
      BY <2>0, <3>1, <3>3, <3>4 DEF ScansOn
  <2> QED
    BY <1>11, <2>1, <2>2, <2>3 DEF Inside, Hp!HpStep
<1> HIDE DEF Hp!Jump
<1> QED
  BY <1>1, <1>2, <1>3, <1>4, <1>5, <1>6, <1>7, <1>8, <1>9, <1>10, <1>11 DEF QueueNext, SlotStep

\* A step of one thread leaves to the others where they are and what is theirs.
Same(u) ==
    /\ pc'[u] = pc[u] /\ ltail'[u] = ltail[u] /\ lhead'[u] = lhead[u]
    /\ guards'[u] = guards[u] /\ mine'[u] = mine[u] /\ ptr'[u] = ptr[u]
    /\ at'[u] = at[u] /\ index'[u] = index[u] /\ duty'[u] = duty[u]

LEMMA LocalsOfOthers ==
    ASSUME IInv, NEW t \in Threads, NEW u \in Threads \ {t}, Call(t) \/ Step(t)
    PROVE  pc'[u] = pc[u] /\ ltail'[u] = ltail[u] /\ lhead'[u] = lhead[u]
<1> USE DEF Goto, EnqAgain, DeqAgain, TailCAS, shared, locals, history
<1>0. TypeOK
  BY DEF IInv
<1>1. CASE Call(t)
  BY <1>0, <1>1 DEF Call, Enqueue, Dequeue, Empty, TypeOK
<1>2. CASE EnqTail(t) \/ EnqNext(t) \/ EnqRetry(t) \/ EnqCheck(t)
  BY <1>0, <1>2 DEF EnqTail, EnqNext, EnqRetry, EnqCheck, TypeOK
<1>3. CASE EnqLink(t) \/ EnqLinkFail(t) \/ EnqSwing(t) \/ EnqHelp(t)
  BY <1>0, <1>3 DEF EnqLink, EnqLinkFail, EnqSwing, EnqHelp, TypeOK
<1>4. CASE DeqHead(t) \/ DeqTail(t) \/ DeqNext(t) \/ DeqRetry(t) \/ DeqNothing(t)
  BY <1>0, <1>4 DEF DeqHead, DeqTail, DeqNext, DeqRetry, DeqNothing, TypeOK
<1>5. CASE DeqCheck(t) \/ DeqHelp(t) \/ DeqVal(t) \/ DeqCas(t) \/ DeqCasFail(t)
  BY <1>0, <1>5 DEF DeqCheck, DeqHelp, DeqVal, DeqCas, DeqCasFail, TypeOK
<1>6. CASE EmpHead(t) \/ EmpNext(t) \/ Return(t)
  BY <1>0, <1>6 DEF EmpHead, EmpNext, Return, TypeOK
<1> QED
  BY <1>1, <1>2, <1>3, <1>4, <1>5, <1>6 DEF Step

LEMMA OthersStay ==
    ASSUME ListInv, SlotInv, NEW t \in Threads, SlotStep(t), NEW u \in Threads \ {t}
    PROVE  Same(u)
<1>0. /\ at \in [Threads -> Hp!Places] /\ index \in [Threads -> Nat] /\ IInv
      /\ guards \in [Threads -> Seq(Hp!Slots)] /\ mine \in [Threads -> [1..2 -> 0..SlotCount]]
      /\ ptr \in [Threads -> SUBSET Pointers] /\ duty \in [Threads -> Duties]
  BY DEF ListInv, ListTypeOK, SlotInv, SlotTypeOK
<1>1. CASE GuardMade(t) \/ GuardWaits(t) \/ SlotRefused(t)
  BY <1>0, <1>1 DEF GuardMade, GuardWaits, SlotRefused, Turns, Same
<1>2. CASE SlotTaken(t)
  <2>1. PICK k \in 1..2 : mine' = [mine EXCEPT ![t] = [mine[t] EXCEPT ![k] = index[t]]]
    BY <1>2 DEF SlotTaken
  <2>2. mine'[u] = mine[u]
    BY <1>0, <2>1
  <2> QED
    BY <1>0, <1>2, <2>2 DEF SlotTaken, Turns, Same
<1>3. CASE Loaded(t) \/ Stored(t) \/ Retried(t) \/ Cleared(t) \/ Left(t)
  <2>1. CASE Loaded(t)
    <3>1. \E p : ptr' = [ptr EXCEPT ![t] = p]
      BY <2>1 DEF Loaded
    <3>2. ptr'[u] = ptr[u]
      BY <1>0, <3>1
    <3>3. at'[u] = at[u] /\ UNCHANGED <<mine, guards, index, pc, ltail, lhead, duty>>
      BY <1>0, <2>1 DEF Loaded
    <3> QED
      BY <3>2, <3>3 DEF Same
  <2>3. CASE Stored(t)
    BY <1>0, <2>3 DEF Stored, Same
  <2>4. CASE Retried(t)
    <3>1. \E p : ptr' = [ptr EXCEPT ![t] = p]
      BY <2>4 DEF Retried
    <3>2. ptr'[u] = ptr[u]
      BY <1>0, <3>1
    <3>3. at'[u] = at[u] /\ UNCHANGED <<mine, guards, index, pc, ltail, lhead, duty>>
      BY <1>0, <2>4 DEF Retried
    <3> QED
      BY <3>2, <3>3 DEF Same
  <2>2. CASE Cleared(t) \/ Left(t)
    BY <1>0, <2>2 DEF Cleared, Left, Same
  <2> QED
    BY <1>3, <2>1, <2>2, <2>3, <2>4
<1>6. CASE GuardEnded(t)
  <2>1. \E g : guards' = [guards EXCEPT ![t] = g]
    BY <1>6 DEF GuardEnded
  <2>2. guards'[u] = guards[u]
    BY <1>0, <2>1
  <2> QED
    BY <1>0, <1>6, <2>2 DEF GuardEnded, Same
<1>4. CASE RetiredOne(t) \/ ScansOn(t)
  BY <1>0, <1>4 DEF RetiredOne, ScansOn, Turns, Same
<1>5. CASE Validated(t) \/ Iterated(t) \/ Begun(t) \/ Ended(t)
  <2>1. Call(t) \/ Step(t)
    BY <1>5, ReadsAreSteps DEF Validated, Iterated, Begun, Ended, Step
  <2>2. pc'[u] = pc[u] /\ ltail'[u] = ltail[u] /\ lhead'[u] = lhead[u]
    BY <1>0, <2>1, LocalsOfOthers
  <2> QED
    BY <1>0, <1>5, <2>2 DEF Validated, Iterated, Begun, Ended, Same
<1> QED
  BY <1>1, <1>2, <1>3, <1>4, <1>5, <1>6 DEF SlotStep

LEMMA SlotTypeStep ==
    ASSUME ListInv, SlotInv, NEW t \in Threads, SlotStep(t)
    PROVE  SlotTypeOK'
<1>0. /\ IInv /\ TypeOK /\ Owned(t) /\ Stage(t) /\ SlotTypeOK
  BY DEF ListInv, SlotInv, IInv
<1>1. /\ hazard \in [Hp!Slots -> Nodes \cup {NULL, Reserved}]
      /\ mine \in [Threads -> [1..2 -> 0..SlotCount]]
      /\ guards \in [Threads -> Seq(Hp!Slots)]
      /\ ptr \in [Threads -> SUBSET Pointers]
      /\ duty \in [Threads -> Duties]
  BY <1>0 DEF SlotTypeOK
<1>2. ASSUME NEW s \in Hp!Slots, guards' = [guards EXCEPT ![t] = Append(guards[t], s)]
      PROVE  guards' \in [Threads -> Seq(Hp!Slots)]
  <2>1. Append(guards[t], s) \in Seq(Hp!Slots)
    BY <1>1, AppendProperties
  <2> QED
    BY <1>1, <1>2, <2>1
<1>3. ASSUME NEW x \in Nodes \cup {NULL, Reserved}, NEW s, hazard' = [hazard EXCEPT ![s] = x]
      PROVE  hazard' \in [Hp!Slots -> Nodes \cup {NULL, Reserved}]
  BY <1>1, <1>3
<1>4. CASE GuardMade(t)
  <2>1. PICK s \in Hp!Slots : guards' = [guards EXCEPT ![t] = Append(guards[t], s)]
    BY <1>4 DEF GuardMade
  <2>2. UNCHANGED <<hazard, mine, ptr, duty>>
    BY <1>4 DEF GuardMade
  <2> QED
    BY <1>1, <1>2, <2>1, <2>2 DEF SlotTypeOK
<1>5. CASE GuardWaits(t) \/ SlotRefused(t) \/ ScansOn(t) \/ Begun(t) \/ Ended(t)
  BY <1>1, <1>5 DEF GuardWaits, SlotRefused, ScansOn, Begun, Ended, SlotTypeOK
<1>6. CASE SlotTaken(t)
  <2>1. PICK k \in 1..2 : mine' = [mine EXCEPT ![t] = [mine[t] EXCEPT ![k] = index[t]]]
    BY <1>6 DEF SlotTaken
  <2>2. index[t] \in Hp!Slots /\ index[t] \in 0..SlotCount
    BY <1>6, SlotsFact DEF SlotTaken
  <2>3. [mine[t] EXCEPT ![k] = index[t]] \in [1..2 -> 0..SlotCount]
    BY <1>1, <2>2
  <2>4. mine' \in [Threads -> [1..2 -> 0..SlotCount]]
    BY <1>1, <2>1, <2>3
  <2>5. guards' \in [Threads -> Seq(Hp!Slots)]
    BY <1>2, <1>6, <2>2 DEF SlotTaken
  <2>6. hazard' \in [Hp!Slots -> Nodes \cup {NULL, Reserved}] /\ UNCHANGED <<ptr, duty>>
    BY <1>3, <1>6 DEF SlotTaken
  <2> QED
    BY <1>1, <2>4, <2>5, <2>6 DEF SlotTypeOK
<1>7. CASE Loaded(t)
  <2>1. Source(t) \in Pointers
    <3>1. head \in Nodes /\ tail \in Nodes /\ Nodes \subseteq Pointers
      BY <1>0 DEF TypeOK, Pointers
    <3>2. pc[t] = "deq_next" => lhead[t] \in Nodes
      BY <1>0, Followed DEF DequeuePCs
    <3>3. \A n \in Nodes : next[n] \in Pointers
      BY <1>0 DEF TypeOK
    <3> QED
      BY <3>1, <3>2, <3>3 DEF Source
  <2> QED
    BY <1>1, <1>7, <2>1 DEF Loaded, SlotTypeOK
<1>8. CASE Stored(t)
  <2>1. PICK p \in ptr[t] : hazard' = [hazard EXCEPT ![guards[t][GuardUsed(t)]] = p]
    BY <1>8 DEF Stored
  <2>2. p \in Nodes \cup {NULL, Reserved}
    BY <1>1 DEF Pointers
  <2>3. hazard' \in [Hp!Slots -> Nodes \cup {NULL, Reserved}]
    BY <1>3, <2>1, <2>2
  <2> QED
    BY <1>1, <1>8, <2>3 DEF Stored, SlotTypeOK
<1>9. CASE Retried(t) \/ Validated(t)
  BY <1>1, <1>9 DEF Retried, Validated, SlotTypeOK
<1>10. CASE Iterated(t)
  BY <1>1, <1>10 DEF Iterated, SlotTypeOK, Duties
<1>11. CASE Cleared(t)
  <2>1. hazard' \in [Hp!Slots -> Nodes \cup {NULL, Reserved}]
    BY <1>3, <1>11 DEF Cleared
  <2> QED
    BY <1>1, <1>11, <2>1 DEF Cleared, SlotTypeOK, Duties
<1>12. CASE RetiredOne(t)
  BY <1>1, <1>12 DEF RetiredOne, SlotTypeOK, Duties
<1>13. CASE GuardEnded(t)
  <2>1. guards[t] \in Seq(Hp!Slots) /\ Len(guards[t]) \in Nat /\ Len(guards[t]) # 0
    BY <1>1, <1>13, EmptySeq DEF GuardEnded
  <2>2. SubSeq(guards[t], 1, Len(guards[t]) - 1) \in Seq(Hp!Slots)
    BY <2>1, SubSeqProperties
  <2>3. hazard' \in [Hp!Slots -> Nodes \cup {NULL, Reserved}]
    BY <1>3, <1>13 DEF GuardEnded
  <2> QED
    BY <1>1, <1>13, <2>2, <2>3 DEF GuardEnded, SlotTypeOK
<1>14. CASE Left(t)
  <2>1. [k \in 1..2 |-> 0] \in [1..2 -> 0..SlotCount]
    BY SlotsFact
  <2> QED
    BY <1>1, <1>14, <2>1 DEF Left, SlotTypeOK
<1> QED
  BY <1>4, <1>5, <1>6, <1>7, <1>8, <1>9, <1>10, <1>11, <1>12, <1>13, <1>14 DEF SlotStep

LEMMA OwnedStep ==
    ASSUME ListInv, SlotInv, NEW t \in Threads, SlotStep(t)
    PROVE  Owned(t)'
<1>0. /\ Owned(t) /\ Stage(t) /\ SlotTypeOK
      /\ at \in [Threads -> Hp!Places] /\ index \in [Threads -> Nat]
  BY DEF ListInv, ListTypeOK, SlotInv
<1>1. /\ mine \in [Threads -> [1..2 -> 0..SlotCount]]
      /\ guards \in [Threads -> Seq(Hp!Slots)]
      /\ guards[t] \in Seq(Hp!Slots) /\ Len(guards[t]) \in Nat
  BY <1>0 DEF SlotTypeOK
<1>2. ASSUME UNCHANGED <<mine, guards>>, at'[t] # "acquire" \/ (at'[t] = at[t] /\ index'[t] = index[t])
      PROVE  Owned(t)'
  BY <1>0, <1>2 DEF Owned, Mine
<1>3. CASE GuardMade(t)
  <2>1. PICK s \in Hp!Slots : Mine(t, s) /\ guards' = [guards EXCEPT ![t] = Append(guards[t], s)]
    BY <1>3 DEF GuardMade
  <2>2. mine' = mine /\ at'[t] = "idle"
    BY <1>3 DEF GuardMade
  <2>3. guards'[t] = Append(guards[t], s)
    BY <1>1, <2>1
  <2>4. \A k \in 1..Len(guards'[t]) : (k \in 1..Len(guards[t]) /\ guards'[t][k] = guards[t][k]) \/ guards'[t][k] = s
    BY <1>1, <2>3, AppendProperties
  <2>5. \A k \in 1..Len(guards'[t]) : Mine(t, guards'[t][k])
    BY <1>0, <2>1, <2>4 DEF Owned
  <2> QED
    BY <2>2, <2>5 DEF Owned, Mine
<1>4. CASE GuardWaits(t)
  <2>1. at'[t] = "acquire" /\ index'[t] = 1 /\ UNCHANGED <<mine, guards>> /\ \A j \in 1..2 : mine[t][j] = 0
    BY <1>0, <1>4 DEF GuardWaits
  <2> QED
    BY <1>0, <2>1, SlotsFact DEF Owned, Mine, Hp!Slots
<1>5. CASE SlotTaken(t)
  <2>1. PICK k \in 1..2 : mine' = [mine EXCEPT ![t] = [mine[t] EXCEPT ![k] = index[t]]]
    BY <1>5 DEF SlotTaken
  <2>2. at[t] = "acquire" /\ at'[t] = "idle" /\ guards' = [guards EXCEPT ![t] = Append(guards[t], index[t])] /\ index[t] \in Hp!Slots
    BY <1>0, <1>5 DEF SlotTaken
  <2>3. Len(guards[t]) = 0
    <3>1. ASSUME Len(guards[t]) # 0 PROVE FALSE
      <4>1. 1 \in 1..Len(guards[t])
        BY <1>1, <3>1
      <4>2. Mine(t, guards[t][1]) /\ guards[t][1] \in Hp!Slots
        BY <1>0, <1>1, <4>1, ElementOfSeq DEF Owned
      <4> QED
        BY <1>0, <2>2, <4>2, SlotsFact DEF Owned, Mine
    <3> QED
      BY <3>1
  <2>4. guards'[t] = Append(guards[t], index[t]) /\ mine'[t] = [mine[t] EXCEPT ![k] = index[t]]
    BY <1>1, <2>1, <2>2
  <2>5. Len(guards'[t]) = 1 /\ guards'[t][1] = index[t]
    BY <1>1, <2>2, <2>3, <2>4, AppendProperties
  <2>6. mine'[t][k] = index[t]
    BY <1>1, <2>4
  <2>7. \A i \in 1..Len(guards'[t]) : \E j \in 1..2 : mine'[t][j] = guards'[t][i]
    BY <2>5, <2>6
  <2> QED
    BY <2>2, <2>7 DEF Owned, Mine
<1>6. CASE SlotRefused(t)
  <2>1. UNCHANGED <<mine, guards>> /\ at[t] = "acquire" /\ index[t] \in Hp!Slots
    BY <1>6 DEF SlotRefused
  <2>2. \/ at'[t] = "exhausted"
        \/ index[t] # SlotCount /\ at'[t] = "acquire" /\ index'[t] = index[t] + 1
    BY <1>0, <1>6 DEF SlotRefused
  <2>3. index[t] # SlotCount => index[t] + 1 \in Hp!Slots
    BY <2>1, HPAssumption DEF Hp!Slots
  <2>4. (\A j \in 1..2 : mine[t][j] = 0)
    BY <1>0, <2>1 DEF Owned
  <2> QED
    BY <1>0, <2>1, <2>2, <2>3, <2>4 DEF Owned, Mine
<1>7. CASE Loaded(t) \/ Stored(t) \/ Retried(t) \/ Validated(t) \/ Iterated(t)
  BY <1>0, <1>2, <1>7 DEF Loaded, Stored, Retried, Validated, Iterated
<1>8. CASE Cleared(t) \/ RetiredOne(t) \/ ScansOn(t)
  BY <1>0, <1>2, <1>8 DEF Cleared, RetiredOne, ScansOn
<1>9. CASE GuardEnded(t)
  <2>1. /\ guards' = [guards EXCEPT ![t] = SubSeq(guards[t], 1, Len(guards[t]) - 1)] /\ at'[t] = "idle"
        /\ mine' = mine /\ Len(guards[t]) # 0
    BY <1>0, <1>1, <1>9, EmptySeq DEF GuardEnded
  <2>2. guards'[t] = SubSeq(guards[t], 1, Len(guards[t]) - 1)
    BY <1>1, <2>1
  <2>3. \A k \in 1..Len(guards'[t]) : k \in 1..Len(guards[t]) /\ guards'[t][k] = guards[t][k]
    BY <1>1, <2>1, <2>2, SubSeqProperties
  <2> QED
    BY <1>0, <2>1, <2>3 DEF Owned, Mine
<1>10. CASE Left(t)
  <2>1. guards'[t] = <<>> /\ at'[t] = "idle"
    BY <1>10 DEF Left
  <2>2. Len(guards'[t]) = 0
    BY <2>1
  <2> QED
    BY <2>1, <2>2 DEF Owned
<1>11. CASE Begun(t) \/ Ended(t)
  BY <1>2, <1>11 DEF Begun, Ended
<1> QED
  BY <1>3, <1>4, <1>5, <1>6, <1>7, <1>8, <1>9, <1>10, <1>11 DEF SlotStep

\* Where the steps of the queue lead, for the threads that hold Guards.
LEMMA IterationStays ==
    ASSUME IInv, NEW t \in Threads, Step(t), pc[t] \notin Protects \cup {"return"}
    PROVE  /\ pc[t] \in EnqueuePCs => pc'[t] \in (EnqueuePCs \ {"enq_next"}) \cup {"return"}
           /\ pc[t] \in DequeuePCs => pc'[t] \in DequeuePCs \cup {"return"}
           /\ pc[t] = "emp_next" => pc'[t] = "return"
           /\ pc[t] # "idle"
           /\ pc'[t] \in {"enq_check", "enq_link"} => pc[t] \in {"enq_next", "enq_check"} /\ ltail'[t] = ltail[t]
           /\ DeqCas(t) => pc[t] = "deq_cas" /\ pc'[t] = "return"
<1> USE DEF Goto, EnqAgain, DeqAgain, TailCAS, shared, locals, history, Protects, EnqueuePCs, DequeuePCs
<1>0. TypeOK
  BY DEF IInv
<1>1. CASE EnqTail(t) \/ DeqHead(t) \/ DeqNext(t) \/ EmpHead(t) \/ Return(t)
  BY <1>1 DEF EnqTail, DeqHead, DeqNext, EmpHead, Return
<1>2. CASE EnqNext(t) \/ EnqRetry(t) \/ EnqCheck(t)
  BY <1>0, <1>2 DEF EnqNext, EnqRetry, EnqCheck, TypeOK, DeqCas
<1>3. CASE EnqLink(t) \/ EnqLinkFail(t) \/ EnqSwing(t) \/ EnqHelp(t)
  BY <1>0, <1>3 DEF EnqLink, EnqLinkFail, EnqSwing, EnqHelp, TypeOK, DeqCas
<1>4. CASE DeqTail(t) \/ DeqRetry(t) \/ DeqNothing(t)
  BY <1>0, <1>4 DEF DeqTail, DeqRetry, DeqNothing, TypeOK, DeqCas
<1>5. CASE DeqCheck(t) \/ DeqHelp(t) \/ DeqVal(t) \/ DeqCas(t) \/ DeqCasFail(t)
  BY <1>0, <1>5 DEF DeqCheck, DeqHelp, DeqVal, DeqCas, DeqCasFail, TypeOK
<1>6. CASE EmpNext(t)
  BY <1>0, <1>6 DEF EmpNext, TypeOK, DeqCas
<1> QED
  BY <1>1, <1>2, <1>3, <1>4, <1>5, <1>6 DEF Step

\* The last load of protect() is the step of the queue that it is called for.
LEMMA ReadLeads ==
    ASSUME IInv, NEW t \in Threads, ReadProtected(t)
    PROVE  \/ pc[t] = "enq_tail" /\ pc'[t] = "enq_next" /\ ltail'[t] = tail
           \/ pc[t] = "deq_head" /\ pc'[t] = "deq_tail"
           \/ pc[t] = "deq_next" /\ pc'[t] = "deq_check"
           \/ pc[t] = "emp_head" /\ pc'[t] = "emp_next" /\ lhead'[t] = head
BY DEF IInv, TypeOK, ReadProtected, EnqTail, DeqHead, DeqNext, EmpHead, Goto

LEMMA StageStep ==
    ASSUME ListInv, SlotInv, NEW t \in Threads, SlotStep(t)
    PROVE  Stage(t)'
<1>0. /\ Owned(t) /\ Stage(t) /\ SlotTypeOK /\ IInv
      /\ at \in [Threads -> Hp!Places] /\ pc \in [Threads -> PCs]
  BY DEF ListInv, ListTypeOK, SlotInv, IInv, TypeOK
<1>1. /\ guards \in [Threads -> Seq(Hp!Slots)] /\ duty \in [Threads -> Duties]
      /\ guards[t] \in Seq(Hp!Slots) /\ Len(guards[t]) \in Nat
  BY <1>0 DEF SlotTypeOK
<1>2. CASE GuardMade(t)
  <2>1. PICK s \in Hp!Slots : guards' = [guards EXCEPT ![t] = Append(guards[t], s)]
    BY <1>2 DEF GuardMade
  <2>2. Len(guards'[t]) = Len(guards[t]) + 1
    BY <1>1, <2>1, AppendProperties
  <2>3. UNCHANGED <<at, pc, duty>> /\ at[t] = "idle" /\ pc[t] \in {"enq_tail", "deq_head", "deq_next", "emp_head"} /\ ~Guarded(t)
    BY <1>2 DEF GuardMade, Protects
  <2>4. pc[t] \in Bare
    BY <1>0, <2>3 DEF Stage
  <2>5. pc[t] \in {"enq_tail", "deq_head", "emp_head"}
    BY <2>3, <2>4 DEF Bare
  <2>6. Len(guards[t]) <= GuardsWanted(t) /\ Len(guards[t]) # GuardsWanted(t) /\ GuardsWanted(t) \in {1, 2}
    BY <1>0, <2>3, <2>5 DEF Stage, Guarded, GuardsWanted
  <2>7. Len(guards[t]) + 1 <= GuardsWanted(t)
    BY <1>1, <2>6
  <2>8. GuardsWanted(t)' = GuardsWanted(t)
    BY <2>3 DEF GuardsWanted
  <2>9. duty[t] = "none"
    BY <1>0, <2>5 DEF Stage
  <2> QED
    BY <2>2, <2>3, <2>5, <2>7, <2>8, <2>9 DEF Stage, Bare
<1>3. CASE GuardWaits(t)
  <2>1. at'[t] = "acquire" /\ UNCHANGED <<guards, pc, duty>> /\ pc[t] \in Protects
    BY <1>0, <1>3 DEF GuardWaits
  <2> QED
    BY <1>0, <2>1 DEF Stage, GuardsWanted, Guarded
<1>4. CASE SlotTaken(t)
  <2>1. at[t] = "acquire" /\ at'[t] = "idle" /\ guards' = [guards EXCEPT ![t] = Append(guards[t], index[t])] /\ index[t] \in Hp!Slots /\ UNCHANGED <<pc, duty>>
    BY <1>0, <1>4 DEF SlotTaken
  <2>2. Len(guards[t]) = 0
    <3>1. ASSUME Len(guards[t]) # 0 PROVE FALSE
      <4>1. 1 \in 1..Len(guards[t])
        BY <1>1, <3>1
      <4>2. Mine(t, guards[t][1]) /\ guards[t][1] \in Hp!Slots
        BY <1>0, <1>1, <4>1, ElementOfSeq DEF Owned
      <4> QED
        BY <1>0, <2>1, <4>2, SlotsFact DEF Owned, Mine
    <3> QED
      BY <3>1
  <2>3. Len(guards'[t]) = 1
    BY <1>1, <2>1, <2>2, AppendProperties
  <2>4. pc[t] \in {"enq_tail", "deq_head", "deq_next", "emp_head"}
    BY <1>0, <2>1 DEF Stage, Protects
  <2>5. pc[t] \in Bare
    BY <1>0, <2>2, <2>4 DEF Stage, Guarded, GuardsWanted
  <2>6. duty[t] = "none"
    BY <1>0, <2>4 DEF Stage
  <2>7. pc'[t] \in Bare /\ pc'[t] # "return" /\ pc'[t] # "idle" /\ GuardsWanted(t)' \in {1, 2}
    BY <2>1, <2>4, <2>5 DEF GuardsWanted
  <2>8. Len(guards'[t]) <= GuardsWanted(t)'
    BY <2>3, <2>7
  <2>9. duty'[t] = "none" /\ at'[t] = "idle"
    BY <2>1, <2>6
  <2> QED
    BY <2>7, <2>8, <2>9 DEF Stage
<1>5. CASE SlotRefused(t)
  <2>1. at[t] = "acquire" /\ at'[t] \in {"acquire", "exhausted"} /\ UNCHANGED <<guards, pc, duty>>
    BY <1>0, <1>5 DEF SlotRefused
  <2> QED
    BY <1>0, <2>1 DEF Stage, GuardsWanted, Guarded
<1>6. CASE Loaded(t) \/ Stored(t) \/ Retried(t)
  <2>1. at'[t] \in {"idle", "store", "check"} /\ UNCHANGED <<guards, pc, duty>> /\ pc[t] \in Protects
    BY <1>0, <1>6 DEF Loaded, Stored, Retried
  <2>2. Guarded(t)
    BY <1>0, <1>6 DEF Loaded, Stored, Retried, Stage
  <2> QED
    BY <1>0, <2>1, <2>2 DEF Stage, GuardsWanted, Guarded
<1>7. CASE Validated(t)
  <2>1. at[t] = "check" /\ at'[t] = "idle" /\ UNCHANGED <<guards, duty>> /\ ReadProtected(t)
    BY <1>0, <1>7 DEF Validated
  <2>2. Guarded(t)
    BY <1>0, <2>1 DEF Stage
  <2>3. /\ \/ pc[t] = "enq_tail" /\ pc'[t] = "enq_next" 
           \/ pc[t] = "deq_head" /\ pc'[t] = "deq_tail"
           \/ pc[t] = "deq_next" /\ pc'[t] = "deq_check"
           \/ pc[t] = "emp_head" /\ pc'[t] = "emp_next"
    BY <1>0, <2>1, ReadLeads
  <2>4. GuardsWanted(t)' = GuardsWanted(t) /\ GuardsWanted(t) \in {1, 2}
    BY <2>3 DEF GuardsWanted, DequeuePCs
  <2>5. duty[t] = "none"
    BY <1>0, <2>3 DEF Stage
  <2>6. Guarded(t)' /\ Len(guards'[t]) <= GuardsWanted(t)'
    BY <2>1, <2>2, <2>4 DEF Guarded
  <2> QED
    BY <2>1, <2>3, <2>5, <2>6 DEF Stage
<1>8. CASE Iterated(t)
  <2>1. /\ at[t] = "idle" /\ at' = at /\ guards' = guards /\ pc[t] \notin Protects \cup {"return"} /\ Step(t)
        /\ duty' = duty \/ (DeqCas(t) /\ duty' = [duty EXCEPT ![t] = "clear"])
    BY <1>8 DEF Iterated
  <2>2. /\ pc[t] \in EnqueuePCs => pc'[t] \in (EnqueuePCs \ {"enq_next"}) \cup {"return"}
        /\ pc[t] \in DequeuePCs => pc'[t] \in DequeuePCs \cup {"return"}
        /\ pc[t] = "emp_next" => pc'[t] = "return"
        /\ pc[t] # "idle"
        /\ DeqCas(t) => pc[t] = "deq_cas" /\ pc'[t] = "return"
    BY <1>0, <2>1, IterationStays
  <2>3. pc[t] \in EnqueuePCs \/ pc[t] \in DequeuePCs \/ pc[t] = "emp_next"
    BY <1>0, <2>1, <2>2 DEF PCs, EmptyPCs, Protects
  <2>4. Guarded(t) /\ duty[t] = "none"
    BY <1>0, <2>1, <2>3 DEF Stage, Protects, Bare, EnqueuePCs, DequeuePCs
  <2>5. pc'[t] # "return" => GuardsWanted(t)' = GuardsWanted(t) /\ pc'[t] # "idle"
    BY <2>2, <2>3 DEF GuardsWanted, EnqueuePCs, DequeuePCs
  <2>6. GuardsWanted(t) \in {1, 2} /\ (pc[t] = "deq_cas" => GuardsWanted(t) = 2)
    BY DEF GuardsWanted, DequeuePCs
  <2>7. pc'[t] # "return" => Guarded(t)' /\ Len(guards'[t]) <= GuardsWanted(t)'
    BY <2>1, <2>4, <2>5, <2>6 DEF Guarded
  <2>8. pc'[t] # "return" => duty'[t] = "none"
    BY <2>1, <2>2, <2>4
  <2>9. duty'[t] # "none" => Len(guards'[t]) = 2
    BY <2>1, <2>2, <2>4, <2>6 DEF Guarded
  <2>10. pc'[t] # "idle"
    BY <2>2, <2>3 DEF EnqueuePCs, DequeuePCs
  <2> QED
    BY <2>1, <2>7, <2>8, <2>9, <2>10 DEF Stage, Bare
<1>9. CASE Cleared(t) \/ RetiredOne(t)
  <2>1. /\ duty[t] # "none" /\ duty'[t] \in {"retire", "none"} /\ at'[t] \in {"idle", "scan"}
        /\ UNCHANGED <<guards, pc>>
    BY <1>0, <1>1, <1>9 DEF Cleared, RetiredOne
  <2>2. pc[t] = "return" /\ Len(guards[t]) = 2
    BY <1>0, <2>1 DEF Stage
  <2> QED
    BY <2>1, <2>2 DEF Stage, Bare
<1>10. CASE GuardEnded(t)
  <2>1. pc[t] = "return" /\ duty[t] = "none" /\ at[t] = "idle" /\ UNCHANGED <<at, pc, duty>>
    BY <1>10 DEF GuardEnded
  <2> QED
    BY <2>1 DEF Stage, Bare
<1>11. CASE Left(t)
  BY <1>0, <1>11 DEF Left, Stage, GuardsWanted, Guarded
<1>12. CASE ScansOn(t)
  <2>1. at[t] = "scan" /\ at'[t] \in {"idle", "scan"} /\ UNCHANGED <<guards, pc, duty>>
    BY <1>0, <1>12 DEF ScansOn
  <2>2. pc[t] = "return"
    BY <1>0, <2>1 DEF Stage
  <2> QED
    BY <1>0, <2>1, <2>2 DEF Stage, GuardsWanted, Guarded, Bare
<1>13. CASE Begun(t)
  <2>1. at[t] = "idle" /\ pc[t] = "idle" /\ pc'[t] \in {"enq_tail", "deq_head", "emp_head"} /\ UNCHANGED <<at, guards, duty>>
    BY <1>0, <1>13 DEF Begun, Call, Enqueue, Dequeue, Empty, Goto
  <2>2. Len(guards[t]) = 0 /\ duty[t] = "none"
    BY <1>0, <2>1 DEF Stage
  <2>3. GuardsWanted(t)' \in {1, 2}
    BY DEF GuardsWanted
  <2> QED
    BY <2>1, <2>2, <2>3 DEF Stage, Bare
<1>14. CASE Ended(t)
  <2>1. pc[t] = "return" /\ pc'[t] = "idle" /\ guards[t] = <<>> /\ UNCHANGED <<at, guards, duty>>
    BY <1>0, <1>14 DEF Ended, Return, Goto
  <2>2. Len(guards[t]) = 0
    BY <2>1
  <2>3. at[t] = "idle" /\ duty[t] = "none"
    <3>1. at[t] # "scan" /\ duty[t] = "none"
      BY <1>0, <2>2 DEF Stage
    <3>2. pc[t] \notin Protects
      BY <2>1 DEF Protects
    <3> QED
      BY <1>0, <3>1, <3>2 DEF Stage
  <2>4. GuardsWanted(t)' \in {1, 2}
    BY DEF GuardsWanted
  <2> QED
    BY <2>1, <2>2, <2>3, <2>4 DEF Stage, Bare
<1> QED
  BY <1>2, <1>3, <1>4, <1>5, <1>6, <1>7, <1>8, <1>9, <1>10, <1>11, <1>12, <1>13, <1>14 DEF SlotStep

LEMMA SlotInitHolds == QueueInit => SlotInv
<1> SUFFICES ASSUME QueueInit PROVE SlotInv
  OBVIOUS
<1> USE DEF QueueInit, Hp!HpInit, Init
<1>1. SlotTypeOK
  <2>1. \A t \in Threads : [k \in 1..2 |-> 0] \in [1..2 -> 0..SlotCount]
    BY SlotsFact
  <2>2. mine \in [Threads -> [1..2 -> 0..SlotCount]]
    BY <2>1 DEF Hp!HazardsPerThread
  <2>3. guards \in [Threads -> Seq(Hp!Slots)]
    BY EmptySeq
  <2> QED
    BY <2>2, <2>3 DEF SlotTypeOK, Duties
<1>2. ASSUME NEW t \in Threads PROVE Owned(t) /\ Stage(t)
  <2>1. guards[t] = <<>> /\ Len(guards[t]) = 0 /\ at[t] = "idle" /\ pc[t] = "idle" /\ duty[t] = "none"
    BY EmptySeq
  <2>2. GuardsWanted(t) \in {1, 2}
    BY DEF GuardsWanted
  <2> QED
    BY <2>1, <2>2 DEF Owned, Stage, Bare
<1> QED
  BY <1>1, <1>2 DEF SlotInv

LEMMA SlotStepHolds == ListInv /\ SlotInv /\ [QueueNext]_queueVars => SlotInv'
<1> SUFFICES ASSUME ListInv, SlotInv, [QueueNext]_queueVars PROVE SlotInv'
  OBVIOUS
<1>1. CASE UNCHANGED queueVars
  <2>1. UNCHANGED <<hazard, mine, guards, ptr, duty, at, index, pc>>
    BY <1>1 DEF queueVars, vars, library, glue
  <2>2. SlotTypeOK'
    BY <2>1 DEF SlotInv, SlotTypeOK
  <2>3. \A t \in Threads : Owned(t)'
    BY <2>1 DEF SlotInv, Owned, Mine
  <2>4. \A t \in Threads : Stage(t)'
    BY <2>1 DEF SlotInv, Stage, Guarded, GuardsWanted
  <2> QED
    BY <2>2, <2>3, <2>4 DEF SlotInv
<1>2. ASSUME NEW t \in Threads, SlotStep(t) PROVE SlotInv'
  <2>1. ASSUME NEW u \in Threads PROVE Owned(u)' /\ Stage(u)'
    <3>1. CASE u = t
      BY <1>2, <3>1, OwnedStep, StageStep
    <3>2. CASE u # t
      <4>1. Same(u)
        BY <1>2, <3>2, OthersStay
      <4>2. Owned(u) /\ Stage(u)
        BY DEF SlotInv
      <4> QED
        BY <4>1, <4>2 DEF Same, Owned, Mine, Stage, Guarded, GuardsWanted
    <3> QED
      BY <3>1, <3>2
  <2> QED
    BY <1>2, <2>1, SlotTypeStep DEF SlotInv
<1> QED
  BY <1>1, <1>2, SlotSteps

\* A thread's Guards stay in its own slots, and where it is in the queue tells
\* which Guards it has (Guard, ~Guard and acquire_slot()).
THEOREM SlotInvariance == QueueSpec => []SlotInv
BY SlotInitHolds, SlotStepHolds, ListInvariance, PTL DEF QueueSpec

----------------------------------------------------------------------------
(* What a hazard protects *)

\* The hazard in slot s keeps n from being deleted: whichever scan has come past
\* the slot with n in its list has seen it there.
Covers(s, n) ==
    /\ hazard[s] = n
    /\ n \notin freed
    /\ \A u \in Threads : at[u] = "scan" /\ n \in retired[u] /\ s < index[u] => n \in snapshot[u]

\* What enqueue() and empty() hold from the validation to the last access.
Watched(t) ==
    IF pc[t] \in {"enq_next", "enq_check", "enq_link"} THEN {ltail[t]}
    ELSE IF pc[t] = "emp_next" THEN {lhead[t]} ELSE {}

Protected(t) == \A n \in Watched(t) : n \in Nodes /\ Covers(guards[t][1], n)

\* What protect() is about to validate is in the slot.
Checking(t) ==
    at[t] \in {"store", "check"} /\ pc[t] \in {"enq_tail", "emp_head"} =>
        \E n \in Nodes : ptr[t] = {n} /\ (at[t] = "check" => hazard[guards[t][1]] = n)

Safe ==
    /\ ListInv
    /\ SlotInv
    /\ \A t \in Threads : Protected(t) /\ Checking(t)

\* What is still in the queue has not been retired.
LEMMA QueuedCovers ==
    ASSUME ListInv
    PROVE  /\ head \in Nodes /\ tail \in Nodes /\ head \notin freed /\ tail \notin freed
           /\ \A s : hazard[s] = head => Covers(s, head)
           /\ \A s : hazard[s] = tail => Covers(s, tail)
           /\ \A i \in hi..Len(chain) : chain[i] \notin freed
<1>1. /\ Len(chain) \in Nat /\ hi \in Nat /\ ti \in Nat
      /\ 1 <= hi /\ hi <= ti /\ ti <= Len(chain)
      /\ \A i \in 1..Len(chain) : chain[i] \in Nodes
  BY Bounds DEF ListInv
<1>2. head = chain[hi] /\ tail = chain[ti] /\ \A i, j \in 1..Len(chain) : chain[i] = chain[j] => i = j
  BY DEF ListInv, IInv, OneList
<1>3. ASSUME NEW i \in hi..Len(chain) PROVE chain[i] \notin freed /\ \A u \in Threads : chain[i] \notin retired[u]
  <2>1. i \in 1..Len(chain) /\ chain[i] \in Nodes
    BY <1>1
  <2>2. ~Passed(chain[i])
    <3>1. ASSUME NEW j \in Nat, 1 <= j, j < hi, chain[j] = chain[i] PROVE FALSE
      <4>1. j \in 1..Len(chain) /\ j # i
        BY <1>1, <3>1
      <4> QED
        BY <1>2, <2>1, <3>1, <4>1
    <3> QED
      BY <3>1 DEF Passed
  <2>3. Once(chain[i])
    BY <2>1 DEF ListInv
  <2> QED
    BY <2>2, <2>3 DEF Once, Held, Holds
<1>4. hi \in hi..Len(chain) /\ ti \in hi..Len(chain) /\ hi \in 1..Len(chain) /\ ti \in 1..Len(chain)
  BY <1>1
<1>5. ASSUME NEW n, n \notin freed, \A u \in Threads : n \notin retired[u], NEW s, hazard[s] = n
      PROVE  Covers(s, n)
  BY <1>5 DEF Covers
<1> QED
  BY <1>1, <1>2, <1>3, <1>4, <1>5

\* No scan, retirement or exit deletes what a hazard covers.
LEMMA CoverKept ==
    ASSUME ListInv, [QueueNext]_queueVars, NEW s \in Hp!Slots, NEW n \in Nodes,
           Covers(s, n), hazard'[s] = n
    PROVE  Covers(s, n)'
<1>0. /\ IInv /\ ListTypeOK /\ \A t \in Threads : Short(t)
      /\ retired \in [Threads -> SUBSET Nodes]
      /\ snapshot \in [Threads -> SUBSET Nodes]
      /\ at \in [Threads -> Hp!Places]
      /\ index \in [Threads -> Nat]
      /\ s \in 1..SlotCount /\ SlotCount \in Nat
  BY SlotsFact, HPAssumption DEF ListInv, ListTypeOK
<1>1. /\ hazard[s] = n /\ n \notin freed
      /\ \A u \in Threads : at[u] = "scan" /\ n \in retired[u] /\ s < index[u] => n \in snapshot[u]
  BY DEF Covers
<1>2. CASE UNCHANGED <<old, retired, freed, snapshot, at, index>>
  BY <1>1, <1>2 DEF Covers
<1>3. ASSUME NEW t \in Threads, ListsKept(t) PROVE Covers(s, n)'
  <2>1. UNCHANGED <<retired, freed, snapshot>> /\ at'[t] # "scan"
        /\ (\A u \in Threads \ {t} : at'[u] = at[u] /\ index'[u] = index[u])
    BY <1>0, <1>3 DEF ListsKept
  <2> QED
    BY <1>1, <2>1 DEF Covers
<1>4. ASSUME NEW t \in Threads, ListsUnlink(t) \/ ListsLost(t) PROVE Covers(s, n)'
  <2>1. UNCHANGED <<freed, snapshot, at, index>> /\ \A u \in Threads : retired'[u] \subseteq retired[u]
    BY <1>0, <1>4 DEF ListsUnlink, ListsLost
  <2> QED
    BY <1>1, <2>1 DEF Covers
<1>5. ASSUME NEW t \in Threads, ListsTakeDummy(t) PROVE Covers(s, n)'
  <2>1. PICK m \in Nodes :
             /\ retired' = [retired EXCEPT ![t] = retired[t] \cup {m}]
             /\ UNCHANGED <<freed, snapshot>>
             /\ \/ at' = [at EXCEPT ![t] = "scan"] /\ index' = [index EXCEPT ![t] = 1]
                \/ at' = [at EXCEPT ![t] = "idle"] /\ index' = [index EXCEPT ![t] = 0]
    BY <1>0, <1>5, TakeDummyEffect
  <2>2. at'[t] = "scan" => index'[t] = 1
    BY <1>0, <2>1
  <2>3. ~(s < 1)
    BY <1>0
  <2>4. \A u \in Threads \ {t} : at'[u] = at[u] /\ index'[u] = index[u] /\ retired'[u] = retired[u]
    BY <1>0, <2>1
  <2> QED
    BY <1>1, <2>1, <2>2, <2>3, <2>4 DEF Covers
<1>6. ASSUME NEW t \in Threads, ListsScanned(t) PROVE Covers(s, n)'
  <2>1. at[t] = "scan" /\ index[t] \in 1..SlotCount
    BY <1>0, <1>6, ScannedEffect DEF Short
  <2>2. n \in retired[t] /\ (s < index[t] \/ s = index[t]) => n \in Seen(t)
    BY <1>1, <2>1 DEF Seen
  <2>3. CASE /\ index[t] = SlotCount
             /\ at' = [at EXCEPT ![t] = "idle"] /\ index' = [index EXCEPT ![t] = 0]
             /\ freed' = freed \cup (retired[t] \ Seen(t))
             /\ retired' = [retired EXCEPT ![t] = retired[t] \cap Seen(t)]
             /\ snapshot' = [snapshot EXCEPT ![t] = {}]
    <3>1. s < index[t] \/ s = index[t]
      BY <1>0, <2>3
    <3>2. n \notin freed'
      BY <1>1, <2>2, <2>3, <3>1
    <3>3. at'[t] = "idle"
      BY <1>0, <2>3
    <3>4. \A u \in Threads \ {t} : at'[u] = at[u] /\ index'[u] = index[u] /\ retired'[u] = retired[u] /\ snapshot'[u] = snapshot[u]
      BY <1>0, <2>3
    <3> QED
      BY <1>1, <3>2, <3>3, <3>4 DEF Covers
  <2>4. CASE /\ index[t] # SlotCount
             /\ at' = [at EXCEPT ![t] = "scan"] /\ index' = [index EXCEPT ![t] = index[t] + 1]
             /\ snapshot' = [snapshot EXCEPT ![t] = Seen(t)]
             /\ UNCHANGED <<freed, retired>>
    <3>1. index'[t] = index[t] + 1 /\ snapshot'[t] = Seen(t) /\ retired'[t] = retired[t]
      BY <1>0, <2>4
    <3>2. s < index'[t] => s < index[t] \/ s = index[t]
      BY <1>0, <2>1, <3>1
    <3>3. \A u \in Threads \ {t} : at'[u] = at[u] /\ index'[u] = index[u] /\ retired'[u] = retired[u] /\ snapshot'[u] = snapshot[u]
      BY <1>0, <2>4
    <3> HIDE DEF Seen
    <3> QED
      BY <1>1, <2>2, <2>4, <3>1, <3>2, <3>3 DEF Covers
  <2> QED
    BY <1>6, <2>3, <2>4, ScannedEffect
<1> QED
  BY <1>0, <1>2, <1>3, <1>4, <1>5, <1>6, ListSteps

\* Nobody else writes a slot that is one thread's own.
LEMMA HazardKept ==
    ASSUME ListInv, SlotInv, OwnSlots, NEW t \in Threads, SlotStep(t), NEW u \in Threads \ {t},
           NEW s \in Hp!Slots, Mine(u, s), hazard[s] \in Nodes
    PROVE  hazard'[s] = hazard[s]
<1>0. /\ hazard \in [Hp!Slots -> Nodes \cup {NULL, Reserved}]
      /\ mine \in [Threads -> [1..2 -> 0..SlotCount]]
      /\ guards[t] \in Seq(Hp!Slots) /\ Len(guards[t]) \in Nat
      /\ Owned(t) /\ Stage(t)
  BY DEF SlotInv, SlotTypeOK
<1>1. ~Mine(t, s)
  <2>1. DOMAIN mine[t] = 1..2 /\ DOMAIN mine[u] = 1..2
    BY <1>0
  <2> QED
    BY <2>1 DEF Mine, OwnSlots
<1>2. ASSUME NEW k \in 1..Len(guards[t]) PROVE guards[t][k] # s
  BY <1>0, <1>1 DEF Owned
<1>3. ASSUME NEW x, NEW r, r # s, hazard' = [hazard EXCEPT ![r] = x]
      PROVE  hazard'[s] = hazard[s]
  BY <1>0, <1>3
<1>4. CASE GuardMade(t) \/ GuardWaits(t) \/ SlotRefused(t) \/ Loaded(t) \/ Retried(t) \/ Validated(t)
  BY <1>4 DEF GuardMade, GuardWaits, SlotRefused, Loaded, Retried, Validated
<1>5. CASE Iterated(t) \/ RetiredOne(t) \/ Left(t) \/ ScansOn(t) \/ Begun(t) \/ Ended(t)
  BY <1>5 DEF Iterated, RetiredOne, Left, ScansOn, Begun, Ended
<1>6. CASE SlotTaken(t)
  BY <1>3, <1>6, NullAssumption DEF SlotTaken
<1>7. CASE Stored(t)
  <2>1. Len(guards[t]) = GuardsWanted(t)
    BY <1>7 DEF Stored, Guarded
  <2>2. GuardUsed(t) \in 1..Len(guards[t])
    BY <2>1 DEF GuardUsed, GuardsWanted, DequeuePCs
  <2> QED
    BY <1>2, <1>3, <1>7, <2>2 DEF Stored
<1>8. CASE Cleared(t)
  <2>1. Len(guards[t]) = 2
    BY <1>0, <1>8 DEF Cleared, Stage
  <2> QED
    BY <1>2, <1>3, <1>8, <2>1 DEF Cleared
<1>9. CASE GuardEnded(t)
  <2>1. Len(guards[t]) \in 1..Len(guards[t])
    BY <1>0, <1>9, EmptySeq DEF GuardEnded
  <2> QED
    BY <1>2, <1>3, <1>9, <2>1 DEF GuardEnded
<1> QED
  BY <1>4, <1>5, <1>6, <1>7, <1>8, <1>9 DEF SlotStep

LEMMA ProtectedOfOthers ==
    ASSUME Safe, OwnSlots, [QueueNext]_queueVars,
           NEW t \in Threads, SlotStep(t), NEW u \in Threads \ {t}
    PROVE  Protected(u)' /\ Checking(u)'
<1>0. /\ ListInv /\ SlotInv /\ Owned(u) /\ Stage(u) /\ Protected(u) /\ Checking(u)
      /\ guards[u] \in Seq(Hp!Slots) /\ Len(guards[u]) \in Nat
  BY DEF Safe, SlotInv, SlotTypeOK
<1>1. Same(u)
  BY <1>0, OthersStay
<1>2. ASSUME Guarded(u)
      PROVE  guards[u][1] \in Hp!Slots /\ Mine(u, guards[u][1])
  <2>1. 1 \in 1..Len(guards[u])
    BY <1>2 DEF Guarded, GuardsWanted
  <2> QED
    BY <1>0, <2>1, ElementOfSeq DEF Owned
<1>3. Protected(u)'
  <2>1. SUFFICES ASSUME NEW n \in Watched(u) PROVE n \in Nodes /\ Covers(guards[u][1], n)'
    <3>1. Watched(u)' = Watched(u) /\ guards'[u] = guards[u]
      BY <1>1 DEF Watched, Same
    <3> QED
      BY <2>1, <3>1 DEF Protected, Covers
  <2>2. n \in Nodes /\ Covers(guards[u][1], n)
    BY <1>0 DEF Protected
  <2>3. pc[u] \notin Bare
    BY DEF Watched, Bare
  <2>4. guards[u][1] \in Hp!Slots /\ Mine(u, guards[u][1]) /\ guards'[u] = guards[u]
    BY <1>0, <1>1, <1>2, <2>3 DEF Stage, Same
  <2>5. hazard'[guards[u][1]] = n
    BY <1>0, <2>2, <2>4, HazardKept DEF Covers
  <2> QED
    BY <1>0, <2>2, <2>4, <2>5, CoverKept DEF Covers
<1>4. Checking(u)'
  <2>1. SUFFICES ASSUME at[u] \in {"store", "check"}, pc[u] \in {"enq_tail", "emp_head"}
                 PROVE  \E n \in Nodes : ptr[u] = {n} /\ (at[u] = "check" => hazard'[guards[u][1]] = n)
    BY <1>1, <2>1 DEF Checking, Same
  <2>2. PICK n \in Nodes : ptr[u] = {n} /\ (at[u] = "check" => hazard[guards[u][1]] = n)
    BY <1>0, <2>1 DEF Checking
  <2>3. guards[u][1] \in Hp!Slots /\ Mine(u, guards[u][1])
    BY <1>0, <1>2, <2>1 DEF Stage
  <2>4. hazard[guards[u][1]] = n => hazard'[guards[u][1]] = n
    BY <1>0, <2>3, HazardKept
  <2> QED
    BY <2>2, <2>4
<1> QED
  BY <1>3, <1>4

LEMMA ProtectedOwn ==
    ASSUME Safe, [QueueNext]_queueVars, NEW t \in Threads, SlotStep(t)
    PROVE  Protected(t)'
<1>0. /\ ListInv /\ SlotInv /\ IInv /\ Owned(t) /\ Stage(t) /\ Protected(t) /\ Checking(t)
      /\ guards[t] \in Seq(Hp!Slots) /\ Len(guards[t]) \in Nat /\ pc \in [Threads -> PCs]
  BY DEF Safe, SlotInv, SlotTypeOK, ListInv, IInv, TypeOK
<1>1. Guarded(t) => guards[t][1] \in Hp!Slots
  <2>1. Guarded(t) => 1 \in 1..Len(guards[t])
    BY DEF Guarded, GuardsWanted
  <2> QED
    BY <1>0, <2>1, ElementOfSeq
<1>2. ASSUME Watched(t)' = {} PROVE Protected(t)'
  BY <1>2 DEF Protected
<1>3. CASE Validated(t)
  <2>1. /\ at[t] = "check" /\ ptr[t] = {Source(t)} /\ ReadProtected(t) /\ UNCHANGED <<hazard, guards>>
    BY <1>3 DEF Validated
  <2>2. CASE pc[t] \in {"deq_head", "deq_next"}
    <3>1. Watched(t)' = {}
      BY <1>0, <2>1, <2>2, ReadLeads DEF Watched
    <3> QED
      BY <1>2, <3>1
  <2>3. CASE pc[t] \in {"enq_tail", "emp_head"}
    <3>1. PICK n \in Nodes : ptr[t] = {n} /\ hazard[guards[t][1]] = n
      BY <1>0, <2>1, <2>3 DEF Checking
    <3>2. n = Source(t)
      BY <2>1, <3>1
    <3>3. Source(t) = IF pc[t] = "enq_tail" THEN tail ELSE head
      BY <2>3 DEF Source
    <3>4. Covers(guards[t][1], n)
      BY <1>0, <3>1, <3>2, <3>3, QueuedCovers
    <3>5. Guarded(t)
      BY <1>0, <2>1 DEF Stage
    <3>6. Covers(guards[t][1], n)'
      <4>1. hazard'[guards[t][1]] = n /\ guards' = guards
        BY <2>1, <3>1
      <4> QED
        BY <1>0, <1>1, <3>4, <3>5, <4>1, CoverKept DEF Covers
    <3>7. Watched(t)' = {n}
      BY <1>0, <2>1, <2>3, <3>2, <3>3, ReadLeads DEF Watched
    <3> QED
      BY <3>6, <3>7 DEF Protected
  <2> QED
    BY <1>0, <2>1, <2>2, <2>3, ReadLeads
<1>4. CASE Iterated(t)
  <2>1. /\ pc[t] \notin Protects \cup {"return"} /\ Step(t) /\ UNCHANGED <<hazard, guards>>
    BY <1>4 DEF Iterated
  <2>2. /\ pc[t] \in EnqueuePCs => pc'[t] \in (EnqueuePCs \ {"enq_next"}) \cup {"return"}
        /\ pc[t] \in DequeuePCs => pc'[t] \in DequeuePCs \cup {"return"}
        /\ pc[t] = "emp_next" => pc'[t] = "return"
        /\ pc[t] # "idle"
        /\ pc'[t] \in {"enq_check", "enq_link"} => pc[t] \in {"enq_next", "enq_check"} /\ ltail'[t] = ltail[t]
    BY <1>0, <2>1, IterationStays
  <2>3. pc[t] \in EnqueuePCs \/ pc[t] \in DequeuePCs \/ pc[t] = "emp_next"
    BY <1>0, <2>1, <2>2 DEF PCs, EmptyPCs, Protects
  <2>4. pc'[t] \notin {"enq_next", "emp_next"}
    BY <2>2, <2>3 DEF EnqueuePCs, DequeuePCs
  <2>5. CASE pc'[t] \in {"enq_check", "enq_link"}
    <3>1. Watched(t)' = {ltail[t]} /\ Watched(t) = {ltail[t]} /\ pc[t] \in {"enq_next", "enq_check"}
      BY <2>2, <2>5 DEF Watched
    <3>2. ltail[t] \in Nodes /\ Covers(guards[t][1], ltail[t])
      BY <1>0, <3>1 DEF Protected
    <3>3. Guarded(t)
      BY <1>0, <3>1 DEF Stage, Bare
    <3>4. hazard'[guards[t][1]] = ltail[t] /\ guards' = guards
      BY <2>1, <3>2 DEF Covers
    <3>5. Covers(guards[t][1], ltail[t])'
      <4>1. ltail'[t] = ltail[t]
        BY <2>2, <2>5
      <4> QED
        BY <1>0, <1>1, <3>2, <3>3, <3>4, <4>1, CoverKept DEF Covers
    <3> QED
      BY <2>2, <2>5, <3>1, <3>2, <3>5 DEF Protected
  <2>6. CASE pc'[t] \notin {"enq_check", "enq_link"}
    <3>1. Watched(t)' = {}
      BY <2>4, <2>6 DEF Watched
    <3> QED
      BY <1>2, <3>1
  <2> QED
    BY <2>5, <2>6
<1>5. CASE Begun(t) \/ Ended(t)
  <2>1. pc'[t] \in {"idle", "enq_tail", "deq_head", "emp_head"}
    BY <1>0, <1>5 DEF Begun, Ended, Call, Enqueue, Dequeue, Empty, Return, Goto
  <2>2. Watched(t)' = {}
    BY <2>1 DEF Watched
  <2> QED
    BY <1>2, <2>2
<1>6. CASE \/ GuardMade(t) \/ GuardWaits(t) \/ SlotTaken(t) \/ SlotRefused(t) \/ Loaded(t) \/ Stored(t)
           \/ Retried(t) \/ Cleared(t) \/ RetiredOne(t) \/ GuardEnded(t) \/ Left(t) \/ ScansOn(t)
  <2>1. pc[t] \in Protects \cup {"idle", "return"} /\ pc' = pc
    <3>1. CASE GuardMade(t) \/ GuardWaits(t) \/ Loaded(t) \/ Stored(t) \/ Retried(t)
      BY <3>1 DEF GuardMade, GuardWaits, Loaded, Stored, Retried
    <3>2. CASE SlotTaken(t) \/ SlotRefused(t) \/ ScansOn(t)
      BY <1>0, <3>2 DEF SlotTaken, SlotRefused, ScansOn, Stage
    <3>3. CASE Cleared(t) \/ RetiredOne(t) \/ GuardEnded(t) \/ Left(t)
      BY <1>0, <3>3 DEF Cleared, RetiredOne, GuardEnded, Left, Stage
    <3> QED
      BY <1>6, <3>1, <3>2, <3>3
  <2>2. Watched(t)' = {}
    BY <2>1 DEF Watched, Protects
  <2> QED
    BY <1>2, <2>2
<1> QED
  BY <1>3, <1>4, <1>5, <1>6 DEF SlotStep

LEMMA CheckingOwn ==
    ASSUME Safe, NEW t \in Threads, SlotStep(t)
    PROVE  Checking(t)'
<1>0. /\ ListInv /\ Owned(t) /\ Stage(t) /\ Checking(t)
      /\ at \in [Threads -> Hp!Places] /\ ptr \in [Threads -> SUBSET Pointers]
      /\ hazard \in [Hp!Slots -> Nodes \cup {NULL, Reserved}]
      /\ guards[t] \in Seq(Hp!Slots) /\ Len(guards[t]) \in Nat
  BY DEF Safe, SlotInv, SlotTypeOK, ListInv, ListTypeOK
<1>1. ASSUME at'[t] \notin {"store", "check"} PROVE Checking(t)'
  BY <1>1 DEF Checking
<1>2. CASE Loaded(t)
  <2>1. at'[t] = "store" /\ pc' = pc /\ ptr'[t] = {Source(t)}
    BY <1>0, <1>2 DEF Loaded
  <2>2. pc[t] \in {"enq_tail", "emp_head"} => Source(t) \in Nodes
    BY <1>0, QueuedCovers DEF Source
  <2> QED
    BY <2>1, <2>2 DEF Checking
<1>3. CASE Stored(t)
  <2>1. at[t] = "store" /\ at'[t] = "check" /\ UNCHANGED <<pc, guards, ptr>>
    BY <1>0, <1>3 DEF Stored
  <2>2. SUFFICES ASSUME pc[t] \in {"enq_tail", "emp_head"}
                 PROVE  \E n \in Nodes : ptr[t] = {n} /\ hazard'[guards[t][1]] = n
    BY <2>1, <2>2 DEF Checking
  <2>3. PICK n \in Nodes : ptr[t] = {n}
    BY <1>0, <2>1, <2>2 DEF Checking
  <2>4. hazard' = [hazard EXCEPT ![guards[t][1]] = n]
    BY <1>3, <2>2, <2>3 DEF Stored, GuardUsed
  <2>5. 1 \in 1..Len(guards[t])
    BY <1>0, <2>1 DEF Stage, Guarded, GuardsWanted
  <2>6. guards[t][1] \in Hp!Slots
    BY <1>0, <2>5, ElementOfSeq
  <2> QED
    BY <1>0, <2>3, <2>4, <2>6
<1>4. CASE GuardMade(t) \/ GuardWaits(t) \/ SlotTaken(t) \/ SlotRefused(t) \/ Retried(t)
  <2>1. at'[t] \notin {"store", "check"}
    BY <1>0, <1>4 DEF GuardMade, GuardWaits, SlotTaken, SlotRefused, Retried
  <2> QED
    BY <1>1, <2>1
<1>5. CASE Validated(t) \/ Iterated(t) \/ Cleared(t) \/ RetiredOne(t) \/ GuardEnded(t)
  <2>1. at'[t] \notin {"store", "check"}
    BY <1>0, <1>5 DEF Validated, Iterated, Cleared, RetiredOne, GuardEnded
  <2> QED
    BY <1>1, <2>1
<1>6. CASE Left(t) \/ ScansOn(t) \/ Begun(t)
  <2>1. at'[t] \notin {"store", "check"}
    BY <1>0, <1>6 DEF Left, ScansOn, Begun
  <2> QED
    BY <1>1, <2>1
<1>7. CASE Ended(t)
  <2>1. pc[t] = "return" /\ at' = at
    BY <1>7 DEF Ended, Return, Goto
  <2>2. at'[t] \notin {"store", "check"}
    BY <1>0, <2>1 DEF Stage, Protects
  <2> QED
    BY <1>1, <2>2
<1> QED
  BY <1>2, <1>3, <1>4, <1>5, <1>6, <1>7 DEF SlotStep

LEMMA SafeInitHolds == QueueInit => Safe
<1> SUFFICES ASSUME QueueInit PROVE Safe
  OBVIOUS
<1>1. \A t \in Threads : at[t] = "idle" /\ pc[t] = "idle"
  BY DEF QueueInit, Init, Hp!HpInit
<1>2. \A t \in Threads : Protected(t) /\ Checking(t)
  BY <1>1 DEF Protected, Watched, Checking
<1> QED
  BY <1>2, ListInitHolds, SlotInitHolds DEF Safe

LEMMA SafeStepHolds == Safe /\ OwnSlots /\ [QueueNext]_queueVars => Safe'
<1> SUFFICES ASSUME Safe, OwnSlots, [QueueNext]_queueVars PROVE Safe'
  OBVIOUS
<1>1. ListInv' /\ SlotInv'
  BY ListStepHolds, SlotStepHolds DEF Safe
<1>2. CASE UNCHANGED queueVars
  <2>1. /\ UNCHANGED <<hazard, guards, ptr, at, index, pc, ltail, lhead, retired, snapshot, freed>>
    BY <1>2 DEF queueVars, vars, locals, library
  <2> QED
    BY <1>1, <2>1 DEF Safe, Protected, Watched, Covers, Checking
<1>3. ASSUME NEW t \in Threads, SlotStep(t) PROVE Safe'
  <2>1. ASSUME NEW u \in Threads PROVE Protected(u)' /\ Checking(u)'
    BY <1>3, ProtectedOwn, CheckingOwn, ProtectedOfOthers
  <2> QED
    BY <1>1, <2>1 DEF Safe
<1> QED
  BY <1>2, <1>3, SlotSteps DEF Safe

\* What enqueue() and empty() read and write, and where head_ and tail_ point, has
\* not been deleted.
OneGuardProtects ==
    /\ \A t \in Threads : pc[t] \notin DequeuePCs => Accessed(t) \cap freed = {}
    /\ {head, tail} \cap freed = {}

LEMMA SafeProtects == Safe => OneGuardProtects
<1> SUFFICES ASSUME Safe PROVE OneGuardProtects
  OBVIOUS
<1>1. {head, tail} \cap freed = {}
  BY QueuedCovers DEF Safe
<1>2. ASSUME NEW t \in Threads, pc[t] \notin DequeuePCs PROVE Accessed(t) \cap freed = {}
  <2>1. Accessed(t) \subseteq Watched(t)
    BY <1>2 DEF Accessed, Watched, DequeuePCs
  <2>2. \A n \in Watched(t) : n \notin freed
    BY DEF Safe, Protected, Covers
  <2> QED
    BY <2>1, <2>2
<1> QED
  BY <1>1, <1>2 DEF OneGuardProtects

\* As long as no slot has been shared between threads, protect() and scan() protect
\* what enqueue() and empty() access, however many threads dequeue, retire, scan
\* and exit meanwhile.
THEOREM OneGuardSuffices == QueueSpec /\ []OwnSlots => []OneGuardProtects
BY SafeInitHolds, SafeStepHolds, SafeProtects, PTL DEF QueueSpec

----------------------------------------------------------------------------
(* One consumer *)

\* Nobody but the one consumer moves head_, so that the dummy it has read is the
\* dummy until its CAS.
DummyStays ==
    \A t \in Threads :
        /\ pc[t] \in DequeuePCs => t \in Consumers
        /\ pc[t] \in DequeuePCs \ {"deq_head"} => lhead[t] = head

LEMMA HeadStays ==
    ASSUME IInv, NEW t \in Threads, Call(t) \/ Step(t)
    PROVE  /\ head' = head \/ (DeqCas(t) /\ pc[t] = "deq_cas")
           /\ pc'[t] \in DequeuePCs => pc[t] \in DequeuePCs \/ t \in Consumers
           /\ pc'[t] \in DequeuePCs \ {"deq_head"} =>
                /\ pc[t] \in DequeuePCs /\ head' = head
                /\ lhead'[t] = IF pc[t] = "deq_head" THEN head ELSE lhead[t]
<1> USE DEF Goto, EnqAgain, DeqAgain, TailCAS, shared, locals, history, EnqueuePCs, DequeuePCs
<1>0. TypeOK
  BY DEF IInv
<1>1. CASE Call(t)
  BY <1>0, <1>1 DEF Call, Enqueue, Dequeue, Empty, TypeOK
<1>2. CASE EnqTail(t) \/ EnqNext(t) \/ EnqRetry(t) \/ EnqCheck(t)
  BY <1>0, <1>2 DEF EnqTail, EnqNext, EnqRetry, EnqCheck, TypeOK
<1>3. CASE EnqLink(t) \/ EnqLinkFail(t) \/ EnqSwing(t) \/ EnqHelp(t)
  BY <1>0, <1>3 DEF EnqLink, EnqLinkFail, EnqSwing, EnqHelp, TypeOK
<1>4. CASE DeqHead(t) \/ DeqTail(t) \/ DeqNext(t)
  BY <1>0, <1>4 DEF DeqHead, DeqTail, DeqNext, TypeOK
<1>5. CASE DeqRetry(t) \/ DeqNothing(t) \/ DeqCheck(t)
  BY <1>0, <1>5 DEF DeqRetry, DeqNothing, DeqCheck, TypeOK
<1>6. CASE DeqHelp(t) \/ DeqVal(t) \/ DeqCas(t) \/ DeqCasFail(t)
  BY <1>0, <1>6 DEF DeqHelp, DeqVal, DeqCas, DeqCasFail, TypeOK
<1>7. CASE EmpHead(t) \/ EmpNext(t) \/ Return(t)
  BY <1>0, <1>7 DEF EmpHead, EmpNext, Return, TypeOK
<1> QED
  BY <1>1, <1>2, <1>3, <1>4, <1>5, <1>6, <1>7 DEF Step

LEMMA DummyStep ==
    ASSUME \E c : Consumers = {c}, IInv, DummyStays, [Next]_vars
    PROVE  DummyStays'
<1>1. CASE UNCHANGED vars
  BY <1>1 DEF vars, shared, locals, DummyStays
<1>2. ASSUME NEW t \in Threads, Call(t) \/ Step(t) PROVE DummyStays'
  <2>1. ASSUME NEW u \in Threads
        PROVE  /\ pc'[u] \in DequeuePCs => u \in Consumers
               /\ pc'[u] \in DequeuePCs \ {"deq_head"} => lhead'[u] = head'
    <3>1. CASE u = t
      BY <1>2, <3>1, HeadStays DEF DummyStays
    <3>2. CASE u # t
      <4>1. pc'[u] = pc[u] /\ lhead'[u] = lhead[u]
        BY <1>2, <3>2, LocalsOfOthers
      <4>2. ASSUME pc[u] \in DequeuePCs PROVE head' = head
        <5>1. u \in Consumers
          BY <4>2 DEF DummyStays
        <5>2. t \notin Consumers
          BY <3>2, <5>1
        <5>3. pc[t] # "deq_cas"
          BY <5>2 DEF DummyStays, DequeuePCs
        <5> QED
          BY <1>2, <5>3, HeadStays
      <4> QED
        BY <4>1, <4>2 DEF DummyStays
    <3> QED
      BY <3>1, <3>2
  <2> QED
    BY <2>1 DEF DummyStays
<1> QED
  BY <1>1, <1>2 DEF Next

\* What the consumer reads is head_'s node and the one behind it.
LEMMA ConsumerReads ==
    ASSUME ListInv, DummyStays, NEW t \in Threads, pc[t] \in DequeuePCs
    PROVE  Accessed(t) \cap freed = {}
<1>0. IInv /\ DequeueLocals(t) /\ head = chain[hi]
  BY DEF ListInv, IInv, LocalsStayValid, OneList
<1>1. /\ Len(chain) \in Nat /\ hi \in Nat /\ 1 <= hi /\ hi <= Len(chain)
      /\ \A i, j \in 1..Len(chain) : chain[i] = chain[j] => i = j
  BY <1>0, Bounds DEF IInv, OneList
<1>2. CASE pc[t] = "deq_next"
  <2>1. lhead[t] = head
    BY <1>2 DEF DummyStays, DequeuePCs
  <2>2. head \notin freed
    BY QueuedCovers
  <2> QED
    BY <1>2, <2>1, <2>2 DEF Accessed
<1>3. CASE pc[t] = "deq_val"
  <2>1. lhead[t] = head
    BY <1>3 DEF DummyStays, DequeuePCs
  <2>2. PICK i \in 1..hi : lhead[t] = chain[i] /\ i < Len(chain) /\ lnext[t] = chain[i + 1]
    BY <1>0, <1>3 DEF DequeueLocals, DequeuePCs
  <2>3. i = hi
    <3>1. i \in 1..Len(chain) /\ hi \in 1..Len(chain)
      BY <1>1
    <3>2. chain[i] = chain[hi]
      BY <1>0, <2>1, <2>2
    <3> QED
      BY <1>1, <3>1, <3>2
  <2>4. i + 1 \in hi..Len(chain)
    BY <1>1, <2>2, <2>3
  <2>5. lnext[t] \notin freed
    BY <2>2, <2>4, QueuedCovers
  <2> QED
    BY <1>3, <2>5 DEF Accessed
<1> QED
  BY <1>2, <1>3 DEF Accessed, DequeuePCs

LEMMA ConsumerProtected == Safe /\ DummyStays => NoUseAfterFree
<1> SUFFICES ASSUME Safe, DummyStays PROVE NoUseAfterFree
  OBVIOUS
<1> QED
  BY SafeProtects, ConsumerReads DEF Safe, OneGuardProtects, NoUseAfterFree

LEMMA DummyInitHolds == QueueInit => DummyStays
BY DEF QueueInit, Init, DummyStays, DequeuePCs

\* With one consumer, and as long as no slot has been shared between threads,
\* nothing that has been deleted is read or written, whoever exits.
THEOREM OneConsumerIsProtected ==
    ASSUME \E c : Consumers = {c}
    PROVE  QueueSpec /\ []OwnSlots => []NoUseAfterFree
<1>1. Safe /\ DummyStays /\ OwnSlots /\ [QueueNext]_queueVars => Safe' /\ DummyStays'
  BY SafeStepHolds, DummyStep, QueueStepsAreSteps DEF Safe, ListInv
<1> QED
  BY <1>1, SafeInitHolds, DummyInitHolds, ConsumerProtected, PTL DEF QueueSpec

\* As long as nobody has exited a slot that was shared stays shared.
LEMMA SharingStays ==
    ASSUME gone' = {}, SlotInv, ListInv, [QueueNext]_queueVars, OwnSlots'
    PROVE  OwnSlots
<1>0. mine \in [Threads -> [1..2 -> 0..SlotCount]] /\ mine' \in [Threads -> [1..2 -> 0..SlotCount]]
  BY SlotStepHolds DEF SlotInv, SlotTypeOK
<1>1. ASSUME \A t \in Threads, s \in Hp!Slots : Mine(t, s) => Mine(t, s)'
      PROVE  OwnSlots
  <2>1. \A t \in Threads : DOMAIN mine[t] = 1..2 /\ DOMAIN mine'[t] = 1..2
    BY <1>0
  <2> QED
    BY <1>1, <2>1 DEF OwnSlots, Mine
<1>2. ASSUME UNCHANGED mine PROVE OwnSlots
  BY <1>1, <1>2 DEF Mine
<1>3. CASE UNCHANGED queueVars
  BY <1>2, <1>3 DEF queueVars, library
<1>4. ASSUME NEW t \in Threads, Inside(t) PROVE OwnSlots
  <2>1. CASE Hp!Acquire(t)
    <3>1. at[t] = "acquire" /\ mine' = [mine EXCEPT ![t] = [mine[t] EXCEPT ![Hp!Choice(t)] = index[t]]]
      BY <2>1 DEF Hp!Acquire, Hp!Jump
    <3>2. \A j \in 1..2 : mine[t][j] = 0
      BY <3>1 DEF SlotInv, Owned
    <3>3. \A s \in Hp!Slots : ~Mine(t, s)
      BY <3>2, SlotsFact DEF Mine
    <3>4. \A u \in Threads \ {t} : mine'[u] = mine[u]
      BY <1>0, <3>1
    <3>5. \A u \in Threads, s \in Hp!Slots : Mine(u, s) => Mine(u, s)'
      BY <3>3, <3>4 DEF Mine
    <3> QED
      BY <1>1, <3>5
  <2>2. CASE Hp!AcquireFail(t) \/ Hp!ScanLoad(t)
    BY <1>2, <2>2 DEF Hp!AcquireFail, Hp!ScanLoad
  <2> QED
    BY <1>4, <2>1, <2>2 DEF Inside, Hp!HpStep
<1>5. ASSUME NEW t \in Threads, MakeGuard(t) \/ Protect(t) \/ ProtectReturns(t)
      PROVE  UNCHANGED mine
  BY <1>5 DEF MakeGuard, Protect, ProtectReturns, Hp!GuardOnOwnSlot, Hp!GuardNeedsSlot, Hp!ProtectLoad,
              Hp!ProtectStore, Hp!ProtectRetries, Hp!ProtectReturns, Hp!ProtectEnds
<1>6. ASSUME NEW t \in Threads, \/ QueueCall(t) \/ Iterate(t) \/ ClearHeadGuard(t) \/ RetireDummy(t)
                                \/ EndGuard(t) \/ QueueReturn(t)
      PROVE  UNCHANGED mine
  BY <1>6 DEF QueueCall, Iterate, ClearHeadGuard, RetireDummy, EndGuard, QueueReturn, library,
              Hp!Clear, Hp!Retire, Hp!EndGuard
<1>7. \A t \in Threads : ~ThreadExit(t)
  BY DEF ThreadExit, Hp!Exit
<1> QED
  BY <1>2, <1>3, <1>4, <1>5, <1>6, <1>7 DEF QueueNext

\* Those that have exited are among those that may, and do not come back.
LEMMA GoneStep ==
    ASSUME [QueueNext]_queueVars
    PROVE  gone' = gone \/ \E t \in Exiters : ThreadExit(t) /\ gone' = gone \cup {t}
<1>1. ASSUME NEW t \in Threads, ThreadExit(t) PROVE t \in Exiters /\ gone' = gone \cup {t}
  BY <1>1 DEF ThreadExit, Hp!Exit
<1>2. ASSUME NEW t \in Threads, MakeGuard(t) \/ Protect(t) \/ ProtectReturns(t) PROVE gone' = gone
  BY <1>2 DEF MakeGuard, Protect, ProtectReturns, Hp!GuardOnOwnSlot, Hp!GuardNeedsSlot, Hp!ProtectLoad,
              Hp!ProtectStore, Hp!ProtectRetries, Hp!ProtectReturns, Hp!ProtectEnds
<1>3. ASSUME NEW t \in Threads, \/ QueueCall(t) \/ Iterate(t) \/ ClearHeadGuard(t) \/ RetireDummy(t)
                                \/ EndGuard(t) \/ QueueReturn(t) \/ Inside(t)
      PROVE  gone' = gone
  BY <1>3 DEF QueueCall, Iterate, ClearHeadGuard, RetireDummy, EndGuard, QueueReturn, library, Inside,
              Hp!Clear, Hp!Retire, Hp!EndGuard, Hp!HpStep, Hp!Acquire, Hp!AcquireFail, Hp!ScanLoad
<1>4. CASE UNCHANGED queueVars
  BY <1>4 DEF queueVars, library
<1> QED
  BY <1>1, <1>2, <1>3, <1>4 DEF QueueNext

\* With one consumer, and when no other thread exits, hazards protect in every state
\* in which no slot is shared.
THEOREM OwnSlotsProtect ==
    ASSUME \E c : Consumers = {c}, Exiters \subseteq Consumers
    PROVE  QueueSpec => []OwnSlotProtects
<1> DEFINE Inv == ListInv /\ SlotInv /\ DummyStays /\ gone \subseteq Exiters /\ (OwnSlots /\ gone = {} => Safe)
<1>1. QueueInit => Inv
  BY SafeInitHolds, DummyInitHolds DEF Safe, QueueInit, Hp!HpInit
<1>2. Inv /\ [QueueNext]_queueVars => Inv'
  <2> SUFFICES ASSUME Inv, [QueueNext]_queueVars PROVE Inv'
    OBVIOUS
  <2>1. ListInv' /\ SlotInv' /\ DummyStays'
    BY ListStepHolds, SlotStepHolds, DummyStep, QueueStepsAreSteps DEF ListInv
  <2>2. gone' \subseteq Exiters /\ (gone' = {} => gone = {})
    BY GoneStep
  <2>3. OwnSlots' /\ gone' = {} => Safe'
    BY <2>2, SharingStays, SafeStepHolds
  <2> QED
    BY <2>1, <2>2, <2>3
<1>3. Inv => OwnSlotProtects
  BY ConsumerProtected DEF OwnSlotProtects
<1> QED
  BY <1>1, <1>2, <1>3, PTL DEF QueueSpec

----------------------------------------------------------------------------
(* What exits lose *)

\* What dequeue() has unlinked is in its hands until it is retired.
HandedOver(t) == old[t] = {} \/ (duty[t] # "none" /\ \E m : old[t] = {m})

Lost == {n \in Nodes : Passed(n) /\ ~Held(n) /\ n \notin freed}

LEMMA ForgottenIsLost == ListInv => Forgotten = Lost
<1> SUFFICES ASSUME ListInv PROVE Forgotten = Lost
  OBVIOUS
<1>1. /\ hi \in Nat /\ hi <= Len(chain) /\ Len(chain) \in Nat
      /\ \A i \in 1..Len(chain) : chain[i] \in Nodes
  BY Bounds DEF ListInv
<1>2. \A n : Passed(n) <=> \E i \in 1..(hi - 1) : chain[i] = n
  BY <1>1 DEF Passed
<1>3. \A n : Passed(n) => n \in Nodes
  BY <1>1 DEF Passed
<1>4. \A n : Holders(n) = {} <=> ~Held(n)
  BY DEF Holders, Held, Holds
<1>5. \A n : n \in {chain[i] : i \in 1..(hi - 1)} <=> Passed(n)
  BY <1>2
<1>6. \A n : n \in Forgotten <=> Passed(n) /\ ~Held(n) /\ n \notin freed
  BY <1>4, <1>5 DEF Forgotten
<1>7. \A n : n \in Lost <=> Passed(n) /\ ~Held(n) /\ n \notin freed
  BY <1>3 DEF Lost
<1> QED
  BY <1>6, <1>7

LEMMA HandedOverStep ==
    ASSUME ListInv, [QueueNext]_queueVars, NEW u \in Threads, HandedOver(u), duty \in [Threads -> Duties]
    PROVE  HandedOver(u)'
<1> USE DEF HandedOver, ListInv, ListTypeOK
<1>1. CASE UNCHANGED glue
  BY <1>1 DEF glue
<1>2. CASE UNCHANGED queueVars
  BY <1>1, <1>2 DEF queueVars
<1>3. ASSUME NEW t \in Threads, Iterate(t) PROVE HandedOver(u)'
  <2>1. CASE UNCHANGED glue
    BY <1>1, <2>1
  <2>2. CASE old' = [old EXCEPT ![t] = {lhead[t]}] /\ duty' = [duty EXCEPT ![t] = "clear"]
    BY <2>2
  <2> QED
    BY <1>3, <2>1, <2>2 DEF Iterate
<1>4. ASSUME NEW t \in Threads, ClearHeadGuard(t) PROVE HandedOver(u)'
  BY <1>4 DEF ClearHeadGuard
<1>5. ASSUME NEW t \in Threads, RetireDummy(t) PROVE HandedOver(u)'
  BY <1>5 DEF RetireDummy
<1>6. ASSUME NEW t \in Threads,
             \/ QueueCall(t) \/ MakeGuard(t) \/ Protect(t) \/ ProtectReturns(t) \/ EndGuard(t)
             \/ QueueReturn(t) \/ ThreadExit(t) \/ Inside(t)
      PROVE  UNCHANGED glue
  BY <1>6 DEF QueueCall, MakeGuard, Protect, ProtectReturns, EndGuard, QueueReturn, ThreadExit, Inside
<1> QED
  BY <1>1, <1>2, <1>3, <1>4, <1>5, <1>6 DEF QueueNext

\* head_ moves by the unlinking of a dummy only.
LEMMA HeadUnlinks ==
    ASSUME IInv, ListTypeOK, [QueueNext]_queueVars, hi' # hi
    PROVE  \E t \in Threads : ListsUnlink(t)
<1>1. ~(UNCHANGED vars)
  BY DEF vars, history
<1>2. ASSUME NEW t \in Threads, QueueCall(t) \/ ProtectReturns(t) \/ QueueReturn(t) PROVE FALSE
  <2>1. ~Call(t) /\ ~Return(t)
    BY DEF Call, Enqueue, Dequeue, Empty, Return, history
  <2>2. ASSUME ReadProtected(t) PROVE FALSE
    BY <2>2 DEF ReadProtected, EnqTail, DeqHead, DeqNext, EmpHead, history
  <2> QED
    BY <1>2, <2>1, <2>2 DEF QueueCall, ProtectReturns, QueueReturn
<1>3. ASSUME NEW t \in Threads, Iterate(t) PROVE ListsUnlink(t)
  BY <1>3, OnlyDeqCasMovesHead DEF Iterate, library, ListsUnlink
<1>4. ASSUME NEW t \in Threads,
             \/ MakeGuard(t) \/ Protect(t) \/ ClearHeadGuard(t) \/ RetireDummy(t)
             \/ EndGuard(t) \/ ThreadExit(t) \/ Inside(t)
      PROVE  UNCHANGED vars
  BY <1>4 DEF MakeGuard, Protect, ClearHeadGuard, RetireDummy, EndGuard, ThreadExit, Inside
<1>5. ~(UNCHANGED queueVars)
  BY <1>1 DEF queueVars
<1> QED
  BY <1>1, <1>2, <1>3, <1>4, <1>5 DEF QueueNext

\* A step forgets no dummy, and the exit of a thread no more than its list.
LEMMA LostStep ==
    ASSUME ListInv, SlotInv, [QueueNext]_queueVars, \A t \in Threads : HandedOver(t)
    PROVE  \/ \E t \in Threads \ gone : /\ gone' = gone \cup {t}
                                        /\ at[t] # "scan" /\ Lost' \subseteq Lost \cup retired[t]
           \/ gone' = gone /\ Lost' \subseteq Lost
<1> USE DEF ListInv, ListTypeOK
<1>1. ASSUME NEW t \in Threads, ListsLost(t)
      PROVE  t \notin gone /\ gone' = gone \cup {t} /\ at[t] # "scan" /\ Lost' \subseteq Lost \cup retired[t]
  <2>1. /\ retired' = [retired EXCEPT ![t] = {}] /\ UNCHANGED <<old, freed, hi, chain>>
        /\ t \notin gone /\ gone' = gone \cup {t} /\ at[t] # "scan"
    BY <1>1 DEF ListsLost
  <2>2. ASSUME NEW n \in Nodes, Passed(n)', ~Held(n)', n \notin freed', n \notin retired[t]
        PROVE  Passed(n) /\ ~Held(n) /\ n \notin freed
    <3>1. Passed(n)
      BY <2>1, <2>2 DEF Passed
    <3>2. \A u \in Threads : Holds(u, n) => Holds(u, n)'
      BY <2>1, <2>2 DEF Holds
    <3> QED
      BY <2>1, <2>2, <3>1, <3>2 DEF Held
  <2> QED
    BY <2>1, <2>2 DEF Lost
<1>2. ASSUME \A n \in Nodes : Passed(n)' => Passed(n) \/ Held(n)',
             \A n \in Nodes : Held(n) => Held(n)' \/ n \in freed', freed \subseteq freed'
      PROVE  Lost' \subseteq Lost
  BY <1>2 DEF Lost
<1>3. ASSUME NEW t \in Threads, ListsUnlink(t) PROVE Lost' \subseteq Lost
  <2>1. /\ lhead[t] = chain[hi] /\ hi' = hi + 1 /\ chain' = chain /\ hi \in 1..Len(chain)
    BY <1>3, UnlinkEffect
  <2>2. old' = [old EXCEPT ![t] = {lhead[t]}] /\ UNCHANGED <<retired, freed>> /\ DeqCas(t)
    BY <1>3 DEF ListsUnlink
  <2>3. old[t] = {}
    <3>1. pc[t] = "deq_cas"
      BY <2>2 DEF DeqCas, Goto
    <3>2. duty[t] = "none"
      BY <3>1 DEF SlotInv, Stage
    <3> QED
      BY <3>2 DEF HandedOver
  <2>4. \A u \in Threads, n \in Nodes : Holds(u, n) => Holds(u, n)'
    BY <2>2, <2>3 DEF Holds
  <2>5. \A n \in Nodes : n = lhead[t] => Holds(t, n)'
    BY <2>2 DEF Holds
  <2>6. ASSUME NEW n \in Nodes, Passed(n)', n # lhead[t] PROVE Passed(n)
    <3>1. PICK i \in Nat : 1 <= i /\ i < hi' /\ chain'[i] = n
      BY <2>6 DEF Passed
    <3>2. i # hi /\ hi \in Nat
      BY <2>1, <2>6, <3>1
    <3>3. i < hi
      BY <2>1, <3>1, <3>2
    <3> QED
      BY <2>1, <3>1, <3>3 DEF Passed
  <2>7. \A n \in Nodes : n = lhead[t] => Held(n)'
    BY <2>5 DEF Held
  <2>8. \A n \in Nodes : Held(n) => Held(n)'
    BY <2>4 DEF Held
  <2> QED
    BY <1>2, <2>2, <2>6, <2>7, <2>8
<1>4. ASSUME hi' = hi, NEW t \in Threads, ListsKept(t) \/ ListsTakeDummy(t) \/ ListsScanned(t)
      PROVE  Lost' \subseteq Lost
  <2>1. \A n \in Nodes : Passed(n)' => Passed(n)
    BY <1>4, PassedBefore, QueueStepsAreSteps
  <2>2. CASE ListsKept(t)
    <3>1. UNCHANGED <<old, retired, freed>>
      BY <2>2 DEF ListsKept
    <3> QED
      BY <1>2, <2>1, <3>1 DEF Held, Holds
  <2>3. CASE ListsTakeDummy(t)
    <3>1. PICK m \in Nodes :
             /\ m \in old[t] /\ old' = [old EXCEPT ![t] = {}]
             /\ retired' = [retired EXCEPT ![t] = retired[t] \cup {m}] /\ UNCHANGED freed
      BY <2>3, TakeDummyEffect
    <3>2. old[t] = {m}
      BY <3>1 DEF HandedOver
    <3>3. \A u \in Threads, n \in Nodes : Holds(u, n) => Holds(u, n)'
      BY <3>1, <3>2 DEF Holds
    <3>4. \A n \in Nodes : Held(n) => Held(n)'
      BY <3>3 DEF Held
    <3> QED
      BY <1>2, <2>1, <3>1, <3>4
  <2>4. CASE ListsScanned(t)
    <3>1. UNCHANGED old
      BY <2>4, ScannedEffect
    <3>2. CASE UNCHANGED <<freed, retired>>
      BY <1>2, <2>1, <3>1, <3>2 DEF Held, Holds
    <3>3. CASE /\ freed' = freed \cup (retired[t] \ Seen(t))
               /\ retired' = [retired EXCEPT ![t] = retired[t] \cap Seen(t)]
      <4> HIDE DEF Seen
      <4>1. \A u \in Threads, n \in Nodes : Holds(u, n) => Holds(u, n)' \/ n \in freed'
        BY <3>1, <3>3 DEF Holds
      <4>2. \A n \in Nodes : Held(n) => Held(n)' \/ n \in freed'
        BY <4>1 DEF Held
      <4> QED
        BY <1>2, <2>1, <3>3, <4>2
    <3> QED
      BY <2>4, <3>2, <3>3, ScannedEffect
  <2> QED
    BY <1>4, <2>2, <2>3, <2>4
<1>5. ASSUME hi' = hi, UNCHANGED <<old, retired, freed, snapshot, at, index>>
      PROVE  Lost' \subseteq Lost
  <2>1. \A n \in Nodes : Passed(n)' => Passed(n)
    BY <1>5, PassedBefore, QueueStepsAreSteps
  <2> QED
    BY <1>2, <1>5, <2>1 DEF Held, Holds
<1>6. CASE gone' = gone
  <2>1. \A t \in Threads : ~ListsLost(t)
    BY <1>6 DEF ListsLost
  <2>2. Lost' \subseteq Lost
    <3>1. CASE hi' = hi
      BY <1>4, <1>5, <2>1, <3>1, <1>3, ListSteps
    <3>2. CASE hi' # hi
      BY <1>3, <3>2, HeadUnlinks
    <3> QED
      BY <3>1, <3>2
  <2> QED
    BY <1>6, <2>2
<1>7. ASSUME NEW t \in Threads, ThreadExit(t) PROVE ListsLost(t)
  BY <1>7 DEF ThreadExit, Hp!Exit, Hp!Jump, glue, vars, history, ListsLost
<1> QED
  BY <1>1, <1>6, <1>7, GoneStep, HPAssumption

\* So many dummies are lost as the threads that have exited can have had.
LossBounded ==
    /\ IsFiniteSet(gone) /\ IsFiniteSet(Lost)
    /\ Cardinality(Lost) <= Cardinality(gone) * (LongestList - 1)

LEMMA LossStep ==
    ASSUME ListInv, SlotInv, [QueueNext]_queueVars, \A t \in Threads : HandedOver(t), LossBounded
    PROVE  LossBounded'
<1> DEFINE g == Cardinality(gone)
           l == Cardinality(Lost)
           k == LongestList - 1
<1>1. /\ IsFiniteSet(gone) /\ IsFiniteSet(Lost) /\ l <= g * k
      /\ g \in Nat /\ l \in Nat /\ k \in Nat
  BY FS_CardinalityType, LimitFacts DEF LossBounded
<1>2. CASE gone' = gone /\ Lost' \subseteq Lost
  <2>1. IsFiniteSet(Lost') /\ Cardinality(Lost') <= l /\ Cardinality(Lost') \in Nat
    BY <1>1, <1>2, FS_Subset, FS_CardinalityType
  <2>2. Cardinality(Lost') <= g * k
    <3>1. g * k \in Nat
      BY <1>1
    <3> HIDE DEF g, l, k
    <3> QED
      BY <1>1, <2>1, <3>1
  <2> QED
    BY <1>1, <1>2, <2>1, <2>2 DEF LossBounded
<1>3. ASSUME NEW t \in Threads \ gone, gone' = gone \cup {t}, at[t] # "scan",
             Lost' \subseteq Lost \cup retired[t]
      PROVE  LossBounded'
  <2>1. IsFiniteSet(gone') /\ Cardinality(gone') = g + 1
    BY <1>1, <1>3, FS_AddElement
  <2>2. IsFiniteSet(retired[t]) /\ Cardinality(retired[t]) < LongestList /\ Cardinality(retired[t]) \in Nat
    BY <1>3, FS_CardinalityType DEF ListInv, Short
  <2>3. /\ IsFiniteSet(Lost \cup retired[t])
        /\ Cardinality(Lost \cup retired[t]) = l + Cardinality(retired[t]) - Cardinality(Lost \cap retired[t])
    BY <1>1, <2>2, FS_Union
  <2>4. Cardinality(Lost \cap retired[t]) \in Nat
    BY <1>1, FS_Intersection, FS_CardinalityType
  <2>5. IsFiniteSet(Lost') /\ Cardinality(Lost') <= Cardinality(Lost \cup retired[t]) /\ Cardinality(Lost') \in Nat
    BY <1>3, <2>3, FS_Subset, FS_CardinalityType
  <2>6. Cardinality(Lost') <= l + k
    <3> HIDE DEF l
    <3> QED
      BY <1>1, <2>2, <2>3, <2>4, <2>5, LimitFacts
  <2>7. g * k \in Nat /\ (g + 1) * k = g * k + k
    <3> HIDE DEF g, k
    <3> QED
      BY <1>1
  <2>8. Cardinality(Lost') <= (g + 1) * k
    <3> HIDE DEF g, l, k
    <3> QED
      BY <1>1, <2>5, <2>6, <2>7
  <2> QED
    BY <2>1, <2>5, <2>8 DEF LossBounded
<1> QED
  BY <1>2, <1>3, LostStep

\* Nothing that has been unlinked is forgotten but by the exit of a thread, whose
\* list of at most max(R, slots + 1) - 1 nodes nobody deletes (the destructor of
\* retired_list, lockfree_queue_hp.hpp:83, retire() and scan()).
THEOREM ExitsLoseLists == QueueSpec => []LostOnlyByExit
<1> DEFINE Inv == ListInv /\ SlotInv /\ (\A t \in Threads : HandedOver(t)) /\ LossBounded
<1>1. QueueInit => Inv
  <2> SUFFICES ASSUME QueueInit PROVE Inv
    OBVIOUS
  <2>1. \A t \in Threads : HandedOver(t)
    BY DEF QueueInit, HandedOver
  <2>2. gone = {} /\ Lost = {}
    <3>1. \A n : ~Passed(n)
      BY DEF QueueInit, Init, Passed
    <3> QED
      BY <3>1 DEF QueueInit, Hp!HpInit, Lost
  <2>3. LossBounded
    <3>1. IsFiniteSet({}) /\ Cardinality({}) = 0
      BY FS_EmptySet
    <3>2. 0 <= 0 * (LongestList - 1)
      BY LimitFacts
    <3> QED
      BY <2>2, <3>1, <3>2 DEF LossBounded
  <2> QED
    BY <2>1, <2>3, ListInitHolds, SlotInitHolds
<1>2. Inv /\ [QueueNext]_queueVars => Inv'
  <2> SUFFICES ASSUME Inv, [QueueNext]_queueVars PROVE Inv'
    OBVIOUS
  <2>1. ListInv' /\ SlotInv' /\ LossBounded'
    BY ListStepHolds, SlotStepHolds, LossStep
  <2>2. ASSUME NEW u \in Threads PROVE HandedOver(u)'
    BY HandedOverStep DEF SlotInv, SlotTypeOK
  <2> QED
    BY <2>1, <2>2
<1>3. Inv => LostOnlyByExit
  BY ForgottenIsLost DEF LossBounded, LostOnlyByExit
<1> QED
  BY <1>1, <1>2, <1>3, PTL DEF QueueSpec

=============================================================================
