---------------------------- MODULE HarnessProofs ----------------------------
(* Proofs about the programs that drive the queues, for every list of them:   *)
(* messages keep their order, are measured once and are not lost; for those   *)
(* whose jumps stay in their codes, types and what a barrier promises; and,   *)
(* for those whose text follows the rules of Outlines, that what they say     *)
(* about themselves is so.  What is reported of the latencies holds for any   *)
(* of them.                                                                   *)
EXTENDS Outlines, SequenceTheorems, FiniteSetTheorems, FunctionTheorems,
        WellFoundedInduction, TLAPS

----------------------------------------------------------------------------
(* The order of the messages *)

\* The order in which a producer makes its messages, numbered from 1, is kept in
\* the queue, and whatever is still there is later than what has been measured.
Orders ==
    /\ made \in [Threads -> Nat]
    /\ DOMAIN measured = Threads
    /\ queue \in Seq(Threads \X Nat)
    /\ \A i \in 1..Len(queue) : queue[i][2] <= made[queue[i][1]]
    /\ \A i, j \in 1..Len(queue) : i < j /\ queue[i][1] = queue[j][1] => queue[i][2] < queue[j][2]
    /\ \A t \in Threads : \A m \in measured[t] :
          /\ m \in Threads \X Nat /\ m[2] <= made[m[1]]
          /\ \A i \in 1..Len(queue) : queue[i][1] = m[1] => m[2] < queue[i][2]

\* All steps but Put and Take leave messages alone.
MessagesStay == UNCHANGED <<program, made, queue, measured>>

LEMMA ProgramStays == [Next]_vars => UNCHANGED program
<1> SUFFICES ASSUME [Next]_vars PROVE UNCHANGED program
  OBVIOUS
<1>1. CASE UNCHANGED vars
  BY <1>1 DEF vars
<1>2. ASSUME NEW t \in Threads, Step(t) PROVE UNCHANGED program
  BY <1>2 DEF Step, Test, Check, Put, Take, Sample, CountMade, CountTaken, Arrive, PassBarrier, Signal, Await
<1> QED
  BY <1>1, <1>2 DEF Next, Terminated

LEMMA MessageSteps ==
    ASSUME [Next]_vars
    PROVE  \/ MessagesStay
           \/ \E t \in Threads : Put(t, Now(t))
           \/ \E t \in Threads : Take(t, Now(t))
<1>1. CASE UNCHANGED vars
  BY <1>1 DEF vars, MessagesStay
<1>2. ASSUME NEW t \in Threads, NEW now,
             \/ Test(t, now) \/ Check(t, now) \/ Sample(t, now)
             \/ CountMade(t, now) \/ CountTaken(t, now)
             \/ Arrive(t, now) \/ PassBarrier(t, now) \/ Signal(t, now) \/ Await(t, now)
      PROVE  MessagesStay
  BY <1>2 DEF MessagesStay, Test, Check, Sample, CountMade, CountTaken, Arrive, PassBarrier, Signal, Await
<1> QED
  BY <1>1, <1>2 DEF Next, Step, Terminated

LEMMA PutOrders ==
    ASSUME Orders, NEW t \in Threads, Put(t, Now(t))
    PROVE  Orders'
<1> DEFINE m == <<t, made[t] + 1>>
<1> USE DEF Orders
<1>1. /\ Threads' = Threads
      /\ made' = [made EXCEPT ![t] = made[t] + 1] /\ UNCHANGED measured
      /\ queue' = Append(queue, m) \/ UNCHANGED queue
  BY DEF Put, Threads, Workers, Prog
<1>2. /\ made' \in [Threads -> Nat] /\ m \in Threads \X Nat
      /\ \A u \in Threads : made[u] <= made'[u]
      /\ made'[t] = made[t] + 1
  BY <1>1
<1>3. Len(queue) \in Nat /\ \A i \in 1..Len(queue) : queue[i] \in Threads \X Nat
  BY LenProperties, ElementOfSeq
<1>4. CASE UNCHANGED queue
  <2>1. \A i \in 1..Len(queue') : queue'[i][2] <= made'[queue'[i][1]]
    <3> SUFFICES ASSUME NEW i \in 1..Len(queue) PROVE queue[i][2] <= made'[queue[i][1]]
      BY <1>4
    <3>1. queue[i][1] \in Threads /\ queue[i][2] \in Nat /\ queue[i][2] <= made[queue[i][1]]
      BY <1>3
    <3> QED
      BY SMTT(30), <1>2, <3>1
  <2>2. \A u \in Threads : \A n \in measured[u] : n[2] <= made'[n[1]]
    <3> SUFFICES ASSUME NEW u \in Threads, NEW n \in measured[u] PROVE n[2] <= made'[n[1]]
      OBVIOUS
    <3>1. n[1] \in Threads /\ n[2] \in Nat /\ n[2] <= made[n[1]]
      OBVIOUS
    <3> QED
      BY <1>2, <3>1
  <2> QED
    BY SMTT(30), <1>1, <1>2, <1>4, <2>1, <2>2
<1>5. CASE queue' = Append(queue, m)
  <2> DEFINE k == Len(queue)
  <2>1. /\ queue' \in Seq(Threads \X Nat) /\ Len(queue') = k + 1
        /\ queue'[k + 1] = m /\ \A i \in 1..k : queue'[i] = queue[i]
    BY <1>2, <1>3, <1>5, AppendProperties
  <2>2. m[1] = t /\ m[2] = made[t] + 1
    OBVIOUS
  <2> HIDE DEF m
  <2>3. \A i \in 1..k : queue[i][1] = t => queue[i][2] < m[2]
    BY SMTT(30), <1>2, <1>3, <2>2
  <2>4. \A u \in Threads : \A n \in measured[u] : n[1] = t => n[2] < m[2]
    BY <1>2, <2>2
  <2>5. ASSUME NEW i \in 1..(k + 1) PROVE queue'[i][2] <= made'[queue'[i][1]]
    <3>1. CASE i = k + 1
      BY <1>2, <2>1, <2>2, <3>1
    <3>2. CASE i \in 1..k
      <4>1. queue[i][1] \in Threads /\ queue[i][2] \in Nat
        BY <1>3, <3>2
      <4>2. queue[i][2] <= made[queue[i][1]]
        BY <3>2
      <4>3. made[queue[i][1]] <= made'[queue[i][1]] /\ made[queue[i][1]] \in Nat /\ made'[queue[i][1]] \in Nat
        BY <1>2, <4>1
      <4> QED
        <5>1. queue[i][2] <= made'[queue[i][1]]
          BY SMTT(30), <4>1, <4>2, <4>3
        <5> QED
          BY <2>1, <3>2, <5>1
    <3> QED
      BY <1>3, <3>1, <3>2
  <2>6. ASSUME NEW i \in 1..(k + 1), NEW j \in 1..(k + 1), i < j, queue'[i][1] = queue'[j][1]
        PROVE  queue'[i][2] < queue'[j][2]
    <3>1. i \in 1..k
      BY <1>3, <2>6
    <3>2. CASE j = k + 1
      BY <2>1, <2>2, <2>3, <2>6, <3>1, <3>2
    <3>3. CASE j \in 1..k
      BY <2>1, <2>6, <3>1, <3>3
    <3> QED
      BY <1>3, <3>2, <3>3
  <2>7. ASSUME NEW u \in Threads, NEW n \in measured[u], NEW i \in 1..(k + 1), queue'[i][1] = n[1]
        PROVE  n[2] < queue'[i][2]
    <3>1. CASE i = k + 1
      BY <2>1, <2>2, <2>4, <2>7, <3>1
    <3>2. CASE i \in 1..k
      BY <2>1, <2>7, <3>2
    <3> QED
      BY <1>3, <3>1, <3>2
  <2>8. \A u \in Threads : \A n \in measured[u] : n[2] <= made'[n[1]]
    BY <1>2
  <2> QED
    BY SMTT(30), <1>1, <1>2, <2>1, <2>5, <2>6, <2>7, <2>8
<1> QED
  BY <1>1, <1>4, <1>5

\* What a dequeue leaves of the queue, and whom it gives the first message.
Received(t) ==
    /\ queue # <<>>
    /\ Len(queue') = Len(queue) - 1 /\ queue' \in Seq(Threads \X Nat)
    /\ \A i \in 1..Len(queue') : queue'[i] = queue[i + 1]
    /\ measured' = [measured EXCEPT ![t] = measured[t] \cup {queue[1]}]

LEMMA TakeReceives ==
    ASSUME Orders, NEW t \in Threads, Take(t, Now(t))
    PROVE  /\ Threads' = Threads /\ UNCHANGED made
           /\ Received(t) \/ (queue = <<>> /\ UNCHANGED <<queue, measured>>)
<1>1. Threads' = Threads /\ UNCHANGED made
  BY DEF Take, Threads, Workers, Prog
<1>2. CASE queue = <<>>
  BY <1>1, <1>2 DEF Take, Receive
<1>3. CASE queue # <<>>
  <2>1. /\ queue \in Seq(Threads \X Nat) /\ Len(queue) \in Nat \ {0}
    BY <1>3, EmptySeq, LenProperties DEF Orders
  <2>2. /\ queue' = SubSeq(queue, 1, 0) \o SubSeq(queue, 2, Len(queue))
        /\ measured' = [measured EXCEPT ![t] = measured[t] \cup {queue[1]}]
    BY <1>3 DEF Take, Receive, FrontOf
  <2> DEFINE rest == SubSeq(queue, 2, Len(queue))
  <2>3. /\ rest \in Seq(Threads \X Nat) /\ Len(rest) = Len(queue) - 1
        /\ \A i \in 1..(Len(queue) - 1) : rest[i] = queue[i + 1]
    <3>1. 2 \in Int /\ Len(queue) \in Int /\ \A i \in 2..Len(queue) : queue[i] \in Threads \X Nat
      BY <2>1, ElementOfSeq
    <3>2. /\ rest \in Seq(Threads \X Nat)
          /\ Len(rest) = IF 2 <= Len(queue) THEN Len(queue) - 2 + 1 ELSE 0
          /\ \A i \in 1..(Len(queue) - 2 + 1) : rest[i] = queue[2 + i - 1]
      BY <3>1, SubSeqProperties
    <3> HIDE DEF rest
    <3>3. Len(rest) = Len(queue) - 1
      <4> DEFINE n == Len(queue)
      <4>1. n \in Nat \ {0} /\ Len(rest) = IF 2 <= n THEN n - 2 + 1 ELSE 0
        BY <2>1, <3>2
      <4> HIDE DEF n
      <4>2. Len(rest) = n - 1
        BY <4>1
      <4> QED
        BY <4>2 DEF n
    <3>4. \A i \in 1..(Len(queue) - 1) : i \in 1..(Len(queue) - 2 + 1) /\ 2 + i - 1 = i + 1
      BY <2>1
    <3> QED
      BY <3>2, <3>3, <3>4
  <2>4. SubSeq(queue, 1, 0) = <<>>
    BY SubSeqEmpty
  <2> HIDE DEF rest
  <2>5. queue' = rest
    BY <2>2, <2>3, <2>4, ConcatEmptySeq DEF rest
  <2> QED
    BY <1>1, <1>3, <2>2, <2>3, <2>5 DEF Received
<1> QED
  BY <1>2, <1>3

LEMMA TakeOrders ==
    ASSUME Orders, NEW t \in Threads, Take(t, Now(t))
    PROVE  Orders'
<1>1. Threads' = Threads /\ UNCHANGED made
  BY TakeReceives
<1>2. CASE UNCHANGED <<queue, measured>>
  BY <1>1, <1>2 DEF Orders
<1>3. CASE Received(t)
  <2> DEFINE k == Len(queue')
  <2> USE DEF Orders
  <2>1. /\ k \in Nat /\ Len(queue) = k + 1
        /\ \A i \in 1..k : queue'[i] = queue[i + 1] /\ i + 1 \in 1..(k + 1)
        /\ \A i \in 1..(k + 1) : queue[i] \in Threads \X Nat
    <3>1. Len(queue) \in Nat /\ Len(queue') \in Nat /\ \A i \in 1..Len(queue) : queue[i] \in Threads \X Nat
      BY <1>3, LenProperties, ElementOfSeq DEF Received
    <3>2. Len(queue') = Len(queue) - 1 /\ \A i \in 1..Len(queue') : queue'[i] = queue[i + 1]
      BY <1>3 DEF Received
    <3>3. Len(queue) = k + 1
      BY <3>1, <3>2
    <3>4. \A i \in 1..k : i + 1 \in 1..(k + 1)
      BY <3>1
    <3> QED
      BY <3>1, <3>2, <3>3, <3>4
  <2>2. queue' \in Seq(Threads \X Nat) /\ DOMAIN measured' = Threads
    BY <1>3 DEF Received
  <2> HIDE DEF k
  <2>3. \A i \in 1..k : queue'[i][2] <= made[queue'[i][1]]
    <3>1. \A i \in 1..(k + 1) : queue[i][2] <= made[queue[i][1]]
      BY <2>1
    <3> QED
      BY <2>1, <3>1
  <2>4. ASSUME NEW i \in 1..k, NEW j \in 1..k, i < j, queue'[i][1] = queue'[j][1]
        PROVE  queue'[i][2] < queue'[j][2]
    <3>1. i + 1 \in 1..(k + 1) /\ j + 1 \in 1..(k + 1) /\ i + 1 < j + 1
      BY <2>1, <2>4
    <3>2. queue[i + 1][1] = queue[j + 1][1]
      BY <2>1, <2>4
    <3>3. queue[i + 1][2] < queue[j + 1][2]
      BY <2>1, <3>1, <3>2
    <3> QED
      BY <2>1, <3>3
  <2>5. 1 \in 1..(k + 1) /\ \A i \in 1..k : queue'[i][1] = queue[1][1] => queue[1][2] < queue'[i][2]
    <3>1. 1 \in 1..(k + 1) /\ \A i \in 1..k : 1 < i + 1
      BY <2>1
    <3>2. \A j \in 1..(k + 1) : 1 < j /\ queue[1][1] = queue[j][1] => queue[1][2] < queue[j][2]
      BY <2>1, <3>1
    <3> QED
      BY <2>1, <3>1, <3>2
  <2>6. ASSUME NEW u \in Threads, NEW m \in measured'[u]
        PROVE  /\ m \in Threads \X Nat /\ m[2] <= made[m[1]]
               /\ \A i \in 1..k : queue'[i][1] = m[1] => m[2] < queue'[i][2]
    <3>1. CASE m \in measured[u]
      <4>1. \A i \in 1..(k + 1) : queue[i][1] = m[1] => m[2] < queue[i][2]
        BY <2>1, <3>1
      <4> QED
        BY <2>1, <3>1, <4>1
    <3>2. CASE m = queue[1]
      BY <2>1, <2>5, <3>2
    <3> QED
      BY <1>3, <3>1, <3>2 DEF Received
  <2> QED
    BY <1>1, <2>2, <2>3, <2>4, <2>6 DEF k
<1> QED
  BY <1>2, <1>3, TakeReceives

LEMMA OrdersStep == Orders /\ [Next]_vars => Orders'
<1> SUFFICES ASSUME Orders, [Next]_vars PROVE Orders'
  OBVIOUS
<1>1. CASE MessagesStay
  BY <1>1 DEF MessagesStay, Orders, Threads, Workers, Prog
<1> QED
  BY <1>1, MessageSteps, PutOrders, TakeOrders

LEMMA OrdersInit == Init => Orders
<1> SUFFICES ASSUME Init PROVE Orders
  OBVIOUS
<1>1. queue = <<>> /\ Len(queue) = 0
  BY EmptySeq DEF Init
<1> QED
  BY <1>1, EmptySeq DEF Init, Orders

\* The queue is first in, first out, and each message is dequeued once: in every
\* program that could be written down, one consumer sees the messages of one
\* producer in the order in which they were made.
THEOREM OrderIsKept == Spec => InOrder
<1> DEFINE Step1 == \A t \in Threads : \A m \in measured'[t] \ measured[t] :
                       /\ m \notin AllMeasured
                       /\ \A n \in measured[t] : n[1] = m[1] => n[2] < m[2]
<1>1. Orders /\ [Next]_vars => [Step1]_vars
  <2> SUFFICES ASSUME Orders, Next, NEW u \in Threads, NEW m \in measured'[u] \ measured[u]
               PROVE  /\ m \notin AllMeasured
                      /\ \A n \in measured[u] : n[1] = m[1] => n[2] < m[2]
    OBVIOUS
  <2>1. CASE MessagesStay
    BY <2>1 DEF MessagesStay
  <2>2. ASSUME NEW t \in Threads, Put(t, Now(t)) PROVE FALSE
    BY <2>2 DEF Put
  <2>3. ASSUME NEW t \in Threads, Take(t, Now(t))
        PROVE  /\ m \notin AllMeasured
               /\ \A n \in measured[u] : n[1] = m[1] => n[2] < m[2]
    <3>1. Received(t)
      BY <2>3, TakeReceives
    <3>2. m = queue[1]
      BY <3>1 DEF Received, Orders
    <3>3. 1 \in 1..Len(queue) /\ queue[1] \in Threads \X Nat
      BY <3>1, EmptySeq, LenProperties, ElementOfSeq DEF Received, Orders
    <3>4. \A w \in Threads : \A n \in measured[w] : n \in Threads \X Nat /\ (n[1] = m[1] => n[2] < m[2])
      BY <3>2, <3>3 DEF Orders
    <3>5. m \notin AllMeasured
      BY <3>2, <3>3, <3>4 DEF AllMeasured
    <3> QED
      BY <3>4, <3>5
  <2> QED
    BY <2>1, <2>2, <2>3, MessageSteps
<1> QED
  BY <1>1, OrdersInit, OrdersStep, PTL DEF Spec, InOrder

----------------------------------------------------------------------------
(* Types *)

Typed ==
    /\ program \in DOMAIN Programs
    /\ DOMAIN at = Threads /\ \A t \in Threads : at[t] \in 1..(Len(Code(t)) + 1)
    /\ Len(queue) <= Prog.capacity
    /\ running \in BOOLEAN /\ started \in BOOLEAN /\ arrived \subseteq Threads
    /\ burst \in Nat /\ spawned \in Nat /\ produced \in Nat /\ consumed \in Nat
    /\ refused \subseteq Threads \X Nat
    /\ \A t \in Threads : IsFiniteSet(measured[t])
    /\ stats.latencies \in Seq(0..MaxLatency)

LEMMA ProgramIsCode ==
    ASSUME program \in DOMAIN Programs
    PROVE  /\ \A t \in Threads : IsCode(Code(t))
           /\ Prog.capacity \in Nat /\ Prog.barrier \in Nat /\ Prog.running \in BOOLEAN
           /\ Threads \subseteq 0..MaxThreads
<1>1. ProgramsAssumption!(program)
  BY ProgramsAssumption
<1>2. ASSUME NEW t \in Threads PROVE IsCode(Code(t))
  BY <1>1 DEF Code, Threads, Workers, Prog
<1>3. Threads \subseteq 0..MaxThreads
  BY <1>1, BoundAssumption DEF Threads, Workers, Prog, Main
<1> QED
  BY <1>1, <1>2, <1>3 DEF Prog

\* The thread that moves is at an instruction of its code, and goes to one of the
\* two successors that this has.
Moves(t) ==
    /\ Now(t) # "done"
    /\ \E jump \in {Here(t).yes, Here(t).no} : at' = [at EXCEPT ![t] = at[t] + jump]

LEMMA MoveSteps ==
    ASSUME [Next]_vars
    PROVE  \/ UNCHANGED <<at, arrived>>
           \/ \E t \in Threads : Arrive(t, Now(t))
           \/ \E t \in Threads : Moves(t) /\ UNCHANGED arrived /\ (Now(t) = "barrier" => PassBarrier(t, Now(t)))
<1> USE DEF Moves, Decide, Advance, Now
<1>1. CASE UNCHANGED vars
  BY <1>1 DEF vars
<1>2. ASSUME NEW t \in Threads, NEW now, now = Now(t),
             \/ Test(t, now) \/ Check(t, now) \/ Put(t, now) \/ Take(t, now) \/ Sample(t, now)
             \/ CountMade(t, now) \/ CountTaken(t, now) \/ Signal(t, now) \/ Await(t, now)
      PROVE  Moves(t) /\ UNCHANGED arrived /\ Now(t) # "barrier"
  <2>1. CASE Test(t, now) \/ Check(t, now)
    BY <1>2, <2>1 DEF Test, Check
  <2>2. CASE Put(t, now) \/ Take(t, now) \/ Sample(t, now)
    BY <1>2, <2>2 DEF Put, Take, Sample
  <2>3. CASE CountMade(t, now) \/ CountTaken(t, now)
    BY <1>2, <2>3 DEF CountMade, CountTaken
  <2>4. CASE Signal(t, now)
    BY <1>2, <2>4 DEF Signal
  <2>5. CASE Await(t, now)
    BY <1>2, <2>5 DEF Await
  <2> QED
    BY <1>2, <2>1, <2>2, <2>3, <2>4, <2>5
<1>3. ASSUME NEW t \in Threads, PassBarrier(t, Now(t)) PROVE Moves(t) /\ UNCHANGED arrived
  BY <1>3 DEF PassBarrier
<1> QED
  BY <1>1, <1>2, <1>3 DEF Next, Step, Terminated

LEMMA PlacesKept ==
    ASSUME Typed, [Next]_vars
    PROVE  /\ Threads' = Threads /\ \A t \in Threads : Code(t)' = Code(t)
           /\ DOMAIN at' = Threads /\ \A t \in Threads : at'[t] \in 1..(Len(Code(t)) + 1)
           /\ arrived' \subseteq Threads
<1> USE DEF Typed
<1>1. Threads' = Threads /\ \A t \in Threads : Code(t)' = Code(t)
  BY ProgramStays DEF Threads, Workers, Prog, Code
<1>2. CASE UNCHANGED <<at, arrived>>
  BY <1>1, <1>2
<1>3. ASSUME NEW t \in Threads, Arrive(t, Now(t)) PROVE UNCHANGED at /\ arrived' \subseteq Threads
  BY <1>3 DEF Arrive
<1>4. ASSUME NEW t \in Threads, Moves(t)
      PROVE  DOMAIN at' = Threads /\ \A u \in Threads : at'[u] \in 1..(Len(Code(u)) + 1)
  <2>1. IsCode(Code(t))
    BY ProgramIsCode
  <2>2. at[t] \in 1..Len(Code(t))
    BY <1>4, <2>1 DEF Moves, Now, Done, IsCode
  <2>3. PICK jump \in {Here(t).yes, Here(t).no} : at' = [at EXCEPT ![t] = at[t] + jump]
    BY <1>4 DEF Moves
  <2>4. at[t] + jump \in 1..(Len(Code(t)) + 1)
    BY <2>1, <2>2, <2>3 DEF IsCode, Here
  <2> QED
    BY <2>3, <2>4
<1> QED
  BY <1>1, <1>2, <1>3, <1>4, MoveSteps

LEMMA FlagsKept ==
    ASSUME Typed, [Next]_vars
    PROVE  running' \in BOOLEAN /\ started' \in BOOLEAN /\ burst' \in Nat /\ spawned' \in Nat
<1>0. running \in BOOLEAN /\ started \in BOOLEAN /\ burst \in Nat /\ spawned \in Nat
  BY DEF Typed
<1>1. CASE UNCHANGED vars
  BY <1>0, <1>1 DEF vars
<1>2. ASSUME NEW t \in Threads, NEW now, Signal(t, now)
      PROVE  running' \in BOOLEAN /\ started' \in BOOLEAN /\ burst' \in Nat /\ spawned' \in Nat
  <2>1. running' \in {running, TRUE, FALSE} /\ started' \in {started, TRUE}
    BY <1>2 DEF Signal
  <2>2. burst' \in {burst, burst + 1} /\ spawned' \in {spawned, spawned + 1}
    BY <1>2 DEF Signal
  <2>3. running' \in BOOLEAN /\ started' \in BOOLEAN
    BY <1>0, <2>1
  <2>4. burst' \in Nat /\ spawned' \in Nat
    BY <1>0, <2>2
  <2> QED
    BY <2>3, <2>4
<1>3. ASSUME NEW t \in Threads, NEW now,
             \/ Test(t, now) \/ Check(t, now) \/ Put(t, now) \/ Take(t, now) \/ Sample(t, now)
             \/ CountMade(t, now) \/ CountTaken(t, now)
             \/ Arrive(t, now) \/ PassBarrier(t, now) \/ Await(t, now)
      PROVE  UNCHANGED flags
  BY <1>3 DEF flags, Test, Check, Put, Take, Sample, CountMade, CountTaken, Arrive, PassBarrier, Await
<1> QED
  BY <1>0, <1>1, <1>2, <1>3 DEF Next, Step, Terminated, flags

LEMMA CountersKept ==
    ASSUME Typed, Orders, [Next]_vars
    PROVE  produced' \in Nat /\ consumed' \in Nat
<1>0. produced \in Nat /\ consumed \in Nat
  BY DEF Typed
<1>1. CASE UNCHANGED vars
  BY <1>0, <1>1 DEF vars
<1>2. ASSUME NEW t \in Threads, NEW now, CountMade(t, now) PROVE produced' \in Nat /\ consumed' \in Nat
  <2>1. Cardinality(Messages(t) \ refused) \in Nat
    <3>1. made[t] \in Int /\ 1 \in Int
      BY DEF Orders
    <3>2. IsFiniteSet(1..made[t]) /\ IsFiniteSet({t})
      BY <3>1, FS_Interval, FS_Singleton
    <3>3. IsFiniteSet(Messages(t))
      BY <3>2, FS_Product DEF Messages
    <3> QED
      BY <3>3, FS_Subset, FS_CardinalityType
  <2>2. produced' \in {produced + 1, produced + Cardinality(Messages(t) \ refused)} /\ UNCHANGED consumed
    BY <1>2 DEF CountMade, AddedTo
  <2> QED
    BY <1>0, <2>1, <2>2
<1>3. ASSUME NEW t \in Threads, NEW now, CountTaken(t, now) PROVE produced' \in Nat /\ consumed' \in Nat
  <2>1. Cardinality(measured[t]) \in Nat
    BY FS_CardinalityType DEF Typed
  <2>2. consumed' \in {consumed + 1, consumed + Cardinality(measured[t])} /\ UNCHANGED produced
    BY <1>3 DEF CountTaken, AddedTo
  <2> QED
    BY <1>0, <2>1, <2>2
<1>4. ASSUME NEW t \in Threads, NEW now,
             \/ Test(t, now) \/ Check(t, now) \/ Put(t, now) \/ Take(t, now) \/ Sample(t, now)
             \/ Arrive(t, now) \/ PassBarrier(t, now) \/ Signal(t, now) \/ Await(t, now)
      PROVE  UNCHANGED counters
  BY <1>4 DEF counters, Test, Check, Put, Take, Sample, Arrive, PassBarrier, Signal, Await
<1> QED
  BY <1>0, <1>1, <1>2, <1>3, <1>4 DEF Next, Step, Terminated, counters

LEMMA MessagesKept ==
    ASSUME Typed, Orders, [Next]_vars
    PROVE  /\ Len(queue') <= Prog.capacity
           /\ refused' \subseteq Threads \X Nat
           /\ \A t \in Threads : IsFiniteSet(measured'[t])
<1>0. /\ queue \in Seq(Threads \X Nat) /\ Len(queue) \in Nat /\ Prog.capacity \in Nat
      /\ Len(queue) <= Prog.capacity /\ refused \subseteq Threads \X Nat
      /\ \A t \in Threads : IsFiniteSet(measured[t])
  BY LenProperties, ProgramIsCode DEF Orders, Typed
<1>1. CASE UNCHANGED vars
  BY <1>0, <1>1 DEF vars
<1>2. ASSUME NEW t \in Threads, NEW now, Put(t, now)
      PROVE  /\ Len(queue') <= Prog.capacity
             /\ refused' \subseteq Threads \X Nat
             /\ UNCHANGED measured
  <2> DEFINE m == <<t, made[t] + 1>>
  <2>1. made'[t] = made[t] + 1 /\ m \in Threads \X Nat
    BY <1>2 DEF Put, Orders
  <2>2. CASE HasRoom
    <3>1. queue' = Append(queue, m) /\ UNCHANGED <<refused, measured>>
      BY <1>2, <2>1, <2>2 DEF Put
    <3>2. Len(queue') = Len(queue) + 1
      BY <1>0, <2>1, <3>1, AppendProperties
    <3> QED
      BY <1>0, <2>2, <3>1, <3>2 DEF HasRoom
  <2>3. CASE ~HasRoom
    BY <1>0, <1>2, <2>1, <2>3 DEF Put
  <2> QED
    BY <2>2, <2>3
<1>3. ASSUME NEW t \in Threads, Take(t, Now(t))
      PROVE  /\ Len(queue') <= Prog.capacity
             /\ \A u \in Threads : IsFiniteSet(measured'[u])
             /\ UNCHANGED refused
  <2>1. UNCHANGED refused
    BY <1>3 DEF Take
  <2>2. CASE Received(t)
    <3>1. IsFiniteSet(measured[t] \cup {queue[1]})
      BY <1>0, FS_AddElement
    <3>2. Len(queue') = Len(queue) - 1
      BY <2>2 DEF Received
    <3>3. Len(queue') <= Prog.capacity
      BY <1>0, <3>2
    <3> QED
      BY <1>0, <2>1, <2>2, <3>1, <3>3 DEF Received, Orders
  <2>3. CASE UNCHANGED <<queue, measured>>
    BY <1>0, <2>1, <2>3
  <2> QED
    BY <1>3, <2>2, <2>3, TakeReceives
<1>4. ASSUME NEW t \in Threads, NEW now,
             \/ Test(t, now) \/ Check(t, now) \/ Sample(t, now)
             \/ CountMade(t, now) \/ CountTaken(t, now)
             \/ Arrive(t, now) \/ PassBarrier(t, now) \/ Signal(t, now) \/ Await(t, now)
      PROVE  UNCHANGED <<queue, refused, measured>>
  BY <1>4 DEF Test, Check, Sample, CountMade, CountTaken, Arrive, PassBarrier, Signal, Await
<1> QED
  BY <1>0, <1>1, <1>2, <1>3, <1>4 DEF Next, Step, Terminated

LEMMA StatsKept ==
    ASSUME Typed, [Next]_vars
    PROVE  stats'.latencies \in Seq(0..MaxLatency)
<1> USE DEF Typed
<1>1. CASE UNCHANGED vars
  BY <1>1 DEF vars
<1>2. ASSUME NEW t \in Threads, NEW now, Sample(t, now) PROVE stats'.latencies \in Seq(0..MaxLatency)
  <2>1. PICK latency \in 0..MaxLatency : stats' = AddMeasurement(stats, latency)
    BY <1>2 DEF Sample
  <2>2. stats'.latencies = Append(stats.latencies, latency)
    BY <2>1 DEF AddMeasurement
  <2> QED
    BY <2>2, AppendProperties
<1>3. ASSUME NEW t \in Threads, NEW now,
             \/ Test(t, now) \/ Check(t, now) \/ Put(t, now) \/ Take(t, now)
             \/ CountMade(t, now) \/ CountTaken(t, now)
             \/ Arrive(t, now) \/ PassBarrier(t, now) \/ Signal(t, now) \/ Await(t, now)
      PROVE  UNCHANGED stats
  BY <1>3 DEF Test, Check, Put, Take, CountMade, CountTaken, Arrive, PassBarrier, Signal, Await
<1> QED
  BY <1>1, <1>2, <1>3 DEF Next, Step, Terminated

LEMMA TypedInit == Init => Typed
<1> SUFFICES ASSUME Init PROVE Typed
  OBVIOUS
<1> USE DEF Init
<1>1. program \in DOMAIN Programs
  OBVIOUS
<1>2. /\ \A t \in Threads : IsCode(Code(t))
      /\ Prog.capacity \in Nat /\ Prog.running \in BOOLEAN
  BY <1>1, ProgramIsCode
<1>3. \A t \in Threads : 1 \in 1..(Len(Code(t)) + 1)
  BY <1>2 DEF IsCode
<1>4. Len(queue) = 0 /\ stats.latencies \in Seq(0..MaxLatency)
  BY EmptySeq DEF NoStats
<1>6. Len(queue) <= Prog.capacity
  BY <1>2, <1>4
<1>7. running \in BOOLEAN /\ started \in BOOLEAN
  BY <1>2
<1>8. burst \in Nat /\ spawned \in Nat /\ produced \in Nat /\ consumed \in Nat
  OBVIOUS
<1>5. \A t \in Threads : IsFiniteSet(measured[t])
  BY FS_EmptySet
<1> QED
  BY <1>1, <1>3, <1>4, <1>5, <1>6, <1>7, <1>8 DEF Typed

LEMMA TypedStep == Typed /\ Orders /\ [Next]_vars => Typed'
<1> SUFFICES ASSUME Typed, Orders, [Next]_vars PROVE Typed'
  OBVIOUS
<1>1. UNCHANGED program /\ Prog' = Prog
  BY ProgramStays DEF Prog
<1> QED
  BY <1>1, PlacesKept, FlagsKept, CountersKept, MessagesKept, StatsKept DEF Typed

\* The types, for all programs whose jumps stay in their codes: a bounded queue
\* is never overfull, and no thread leaves its code.
THEOREM TypeCorrect == Spec => []TypeOK
<1>1. ASSUME Typed, Orders PROVE TypeOK
  <2>1. Threads \X Nat \subseteq Message
    <3>1. Threads \subseteq 0..MaxThreads
      BY <1>1, ProgramIsCode DEF Typed
    <3> QED
      BY <3>1 DEF Message
  <2>2. queue \in Seq(Message)
    <3>1. queue \in Seq(Threads \X Nat)
      BY <1>1 DEF Orders
    <3>2. Len(queue) \in Nat /\ queue = [i \in 1..Len(queue) |-> queue[i]]
      BY <3>1, LenProperties
    <3>3. \A i \in 1..Len(queue) : queue[i] \in Message
      BY <2>1, <3>1, ElementOfSeq
    <3> QED
      BY <3>2, <3>3, IsASeq
  <2>3. refused \subseteq Message /\ \A t \in Threads : measured[t] \subseteq Message
    BY <1>1, <2>1 DEF Typed, Orders
  <2>4. running \in BOOLEAN /\ started \in BOOLEAN
    BY <1>1 DEF Typed
  <2>5. burst \in Nat /\ spawned \in Nat /\ produced \in Nat /\ consumed \in Nat
    BY <1>1 DEF Typed
  <2>6. /\ program \in DOMAIN Programs /\ \A t \in Threads : at[t] \in 1..(Len(Code(t)) + 1)
        /\ Len(queue) <= Prog.capacity /\ arrived \subseteq Threads
        /\ stats.latencies \in Seq(0..MaxLatency)
    BY <1>1 DEF Typed
  <2>7. made \in [Threads -> Nat]
    BY <1>1 DEF Orders
  <2> QED
    BY <2>2, <2>3, <2>4, <2>5, <2>6, <2>7 DEF TypeOK
<1> QED
  BY <1>1, TypedInit, TypedStep, OrdersInit, OrdersStep, PTL DEF Spec

----------------------------------------------------------------------------
(* The barrier *)

\* The barrier of the program waits for as many as there are who come to it.
BarrierForAll == Prog.barrier >= Cardinality(Participants)

Together ==
    /\ BarrierForAll
    /\ arrived \subseteq Participants
    /\ StartTogether

LEMMA TogetherStep == Together /\ Typed /\ [Next]_vars => Together'
<1> SUFFICES ASSUME Together, Typed, [Next]_vars PROVE Together'
  OBVIOUS
<1>1. /\ Threads' = Threads /\ Participants' = Participants /\ Prog' = Prog
      /\ \A u \in Threads : at'[u] = at[u] => Now(u)' = Now(u)
  <2>1. UNCHANGED program /\ Threads' = Threads /\ Prog' = Prog /\ \A t \in Threads : Code(t)' = Code(t)
    BY ProgramStays, PlacesKept DEF Prog
  <2> QED
    BY <2>1 DEF Participants, Now, Done, Here
<1>2. BarrierForAll' /\ Participants \subseteq Threads /\ arrived \subseteq Threads
  BY <1>1 DEF Together, BarrierForAll, Participants, Typed
<1>3. CASE UNCHANGED <<at, arrived>>
  BY <1>1, <1>2, <1>3 DEF Together, StartTogether
<1>4. ASSUME NEW t \in Threads, Arrive(t, Now(t)) PROVE Together'
  <2>1. Now(t) = "barrier" /\ UNCHANGED at /\ arrived' = arrived \cup {t}
    BY <1>4 DEF Arrive
  <2>2. t \in Participants
    <3>1. IsCode(Code(t)) /\ at[t] \in 1..Len(Code(t)) /\ Here(t).op = "barrier"
      BY <2>1, ProgramIsCode DEF Typed, Now, Done, IsCode
    <3> QED
      BY <3>1 DEF Participants, IsCode, Here
  <2>3. ASSUME NEW u \in arrived', Now(u)' # "barrier" PROVE Participants' \subseteq arrived'
    <3>1. u \in arrived /\ Now(u) # "barrier"
      BY <1>1, <1>2, <2>1, <2>3
    <3> QED
      BY <1>1, <2>1, <3>1 DEF Together, StartTogether
  <2> QED
    BY <1>1, <1>2, <2>1, <2>2, <2>3 DEF Together, StartTogether
<1>5. ASSUME NEW t \in Threads, Moves(t), UNCHANGED arrived, Now(t) = "barrier" => PassBarrier(t, Now(t))
      PROVE  Together'
  <2>1. ASSUME t \in arrived PROVE Participants \subseteq arrived
    <3>1. CASE Now(t) # "barrier"
      BY <2>1, <3>1 DEF Together, StartTogether
    <3>2. CASE PassBarrier(t, Now(t))
      <4>1. Cardinality(arrived) >= Prog.barrier
        BY <3>2 DEF PassBarrier
      <4>2. IsFiniteSet(Participants)
        <5>1. 0 \in Int /\ MaxThreads \in Int
          BY BoundAssumption
        <5>2. IsFiniteSet(0..MaxThreads)
          BY <5>1, FS_Interval
        <5>3. Participants \subseteq 0..MaxThreads
          BY <1>2, ProgramIsCode DEF Typed
        <5> QED
          BY <5>2, <5>3, FS_Subset
      <4>3. /\ IsFiniteSet(arrived) /\ Cardinality(arrived) <= Cardinality(Participants)
            /\ Cardinality(Participants) = Cardinality(arrived) => Participants = arrived
        BY <4>2, FS_Subset DEF Together
      <4>4. Cardinality(arrived) \in Nat /\ Cardinality(Participants) \in Nat
        BY <4>2, <4>3, FS_CardinalityType
      <4>5. Prog.barrier >= Cardinality(Participants) /\ Prog.barrier \in Nat
        BY ProgramIsCode DEF Together, BarrierForAll, Typed
      <4> QED
        BY <4>1, <4>3, <4>4, <4>5
    <3> QED
      BY <1>5, <3>1, <3>2
  <2>2. \A u \in Threads \ {t} : at'[u] = at[u]
    BY <1>5 DEF Moves, Typed
  <2>3. ASSUME NEW u \in arrived', Now(u)' # "barrier" PROVE Participants' \subseteq arrived'
    <3>1. CASE u = t
      BY <1>1, <1>5, <2>1, <2>3, <3>1
    <3>2. CASE u # t
      <4>1. u \in arrived /\ Now(u) # "barrier"
        BY <1>1, <1>2, <1>5, <2>2, <2>3, <3>2
      <4> QED
        BY <1>1, <1>5, <4>1 DEF Together, StartTogether
    <3> QED
      BY <3>1, <3>2
  <2> QED
    BY <1>1, <1>2, <1>5, <2>3 DEF Together, StartTogether
<1> QED
  BY <1>3, <1>4, <1>5, MoveSteps

\* std::barrier does what the programs use it for: whoever has come to it is held
\* there until everybody who comes to it has come, if only the program counted them
\* right (benchmarks count the main thread in).
THEOREM BarrierHolds == Spec /\ BarrierForAll => []StartTogether
<1>1. Init /\ BarrierForAll => Together
  BY DEF Init, Together, StartTogether
<1>2. Together => StartTogether
  BY DEF Together
<1> QED
  BY <1>1, <1>2, TypedInit, TypedStep, OrdersInit, OrdersStep, TogetherStep, PTL DEF Spec

----------------------------------------------------------------------------
(* Steps along the branches of a code *)

\* The texts of the program that runs.
Goes(t, b) ==
    /\ <<at[t], b>> \in Branches(program, t)
    /\ at' = [at EXCEPT ![t] = Target(program, t, <<at[t], b>>)]

LEMMA Texts ==
    ASSUME Typed
    PROVE  /\ Threads = ThreadsOf(program) /\ Workers = WorkersOf(program)
           /\ Main \in Threads /\ Workers \subseteq Threads /\ Main \notin Workers
           /\ \A t \in Threads :
                 /\ Code(t) = CodeOf(program, t) /\ IsCode(Code(t))
                 /\ End(program, t) \in Nat \ {0} /\ at[t] \in 1..End(program, t)
                 /\ Now(t) = OpAt(program, t, at[t])
                 /\ Done(t) <=> at[t] = End(program, t)
<1>1. /\ Threads = ThreadsOf(program) /\ Workers = WorkersOf(program)
      /\ Main \in Threads /\ Workers \subseteq Threads
  BY DEF Threads, ThreadsOf, Workers, WorkersOf, Prog
<1>2. Main \notin Workers
  BY DEF Main, Workers
<1>3. ASSUME NEW t \in Threads
      PROVE  /\ Code(t) = CodeOf(program, t) /\ IsCode(Code(t))
             /\ End(program, t) \in Nat \ {0} /\ at[t] \in 1..End(program, t)
             /\ Now(t) = OpAt(program, t, at[t])
             /\ Done(t) <=> at[t] = End(program, t)
  <2>1. Code(t) = CodeOf(program, t) /\ IsCode(Code(t))
    BY ProgramIsCode DEF Typed, Code, CodeOf, Prog
  <2>2. Len(Code(t)) \in Nat /\ at[t] \in 1..(Len(Code(t)) + 1) /\ End(program, t) = Len(Code(t)) + 1
    BY <2>1 DEF Typed, IsCode, End
  <2>3. Done(t) <=> at[t] = End(program, t)
    BY <2>2 DEF Done
  <2>4. Now(t) = OpAt(program, t, at[t])
    BY <2>1, <2>3 DEF Now, OpAt, Here
  <2>5. End(program, t) \in Nat \ {0} /\ at[t] \in 1..End(program, t)
    BY <2>2
  <2> QED
    BY <2>1, <2>3, <2>4, <2>5
<1> QED
  BY <1>1, <1>2, <1>3

LEMMA BranchFacts ==
    ASSUME Typed, NEW t \in Threads, NEW b \in BOOLEAN, Decide(t, b), ~Done(t),
           b \/ Now(t) \in Forking
    PROVE  Goes(t, b)
<1>1. Code(t) = CodeOf(program, t) /\ at[t] \in 1..Len(CodeOf(program, t)) /\ Now(t) = OpAt(program, t, at[t])
  <2>1. /\ Code(t) = CodeOf(program, t) /\ at[t] \in 1..End(program, t) /\ at[t] # End(program, t)
        /\ IsCode(Code(t)) /\ Now(t) = OpAt(program, t, at[t])
    BY Texts
  <2> QED
    BY <2>1 DEF End, IsCode
<1>2. <<at[t], b>> \in Branches(program, t)
  BY <1>1 DEF Branches
<1>3. Target(program, t, <<at[t], b>>) = at[t] + (IF b THEN Here(t).yes ELSE Here(t).no)
  BY <1>1 DEF Target, Here
<1>4. at' = [at EXCEPT ![t] = Target(program, t, <<at[t], b>>)]
  BY <1>3 DEF Decide
<1> QED
  BY <1>2, <1>4 DEF Goes

\* What a step does besides moving t along branch b, by the kind of its instruction.
Rests == UNCHANGED <<program, queue, running, spawned, burst, made, refused, measured, counters>>

Looks(t, b) ==
    /\ Rests
    /\ b \/ Now(t) \in Forking
    /\ Now(t) \in {"running", "nonempty", "missing", "few", "unmade", "bursts", "checked", "chance",
                   "enough", "sample", "barrier", "await start", "await burst", "join producers", "join"}
    /\ Now(t) \in {"running", "checked"} => b = running
    /\ Now(t) = "nonempty" => b = (queue # <<>>)
    /\ Now(t) = "missing" /\ ~b => ~(consumed < Here(t).limit)
    /\ Now(t) = "bursts" /\ ~b => ~(burst < Here(t).limit)
    /\ Now(t) = "join producers" => Joined({"producer"})
    /\ Now(t) = "join" => Joined({"producer", "consumer", "worker"})

PutsOne(t, b) ==
    /\ Now(t) \in Puts /\ b = HasRoom
    /\ made' = [made EXCEPT ![t] = made[t] + 1]
    /\ b => queue' = Append(queue, <<t, made[t] + 1>>) /\ UNCHANGED refused
    /\ ~b => refused' = refused \cup {<<t, made[t] + 1>>} /\ UNCHANGED queue
    /\ UNCHANGED <<program, running, spawned, burst, measured, counters>>

TakesOne(t, b) ==
    /\ Now(t) \in {"take", "takes", "either", "misses"}
    /\ b = IF Now(t) = "misses" THEN queue = <<>> ELSE queue # <<>>
    /\ Take(t, Now(t))
    /\ UNCHANGED <<program, running, spawned, burst, made, refused, counters>>

CountsMade(t, b) ==
    /\ b /\ CountMade(t, Now(t))
    /\ UNCHANGED <<program, queue, running, spawned, burst, made, refused, measured, consumed>>

CountsTaken(t, b) ==
    /\ Now(t) = "count last" => b = (consumed' = Prog.total)
    /\ Now(t) # "count last" => b
    /\ CountTaken(t, Now(t))
    /\ UNCHANGED <<program, queue, running, spawned, burst, made, refused, measured, produced>>

Signals(t, b) ==
    /\ b /\ Now(t) \in {"spawn", "start", "run", "stop", "next burst"}
    /\ IF Now(t) = "spawn" THEN spawned' = spawned + 1 ELSE UNCHANGED spawned
    /\ IF Now(t) = "next burst" THEN burst' = burst + 1 ELSE UNCHANGED burst
    /\ running' = IF Now(t) = "run" THEN TRUE ELSE IF Now(t) = "stop" THEN FALSE ELSE running
    /\ UNCHANGED <<program, queue, made, refused, measured, counters>>

Does(t, b) ==
    \/ Looks(t, b) \/ PutsOne(t, b) \/ TakesOne(t, b)
    \/ CountsMade(t, b) \/ CountsTaken(t, b) \/ Signals(t, b)

LEMMA StepsAlongBranches ==
    ASSUME Typed, Orders, [Next]_vars
    PROVE  \/ UNCHANGED at /\ Rests
           \/ \E t \in Threads, b \in BOOLEAN : Goes(t, b) /\ Does(t, b)
<1>1. CASE UNCHANGED vars
  BY <1>1 DEF vars, Rests, counters
<1>2. ASSUME NEW t \in Threads, Arrive(t, Now(t)) PROVE UNCHANGED at /\ Rests
  BY <1>2 DEF Arrive, Rests, flags, counters
<1>3. ASSUME NEW t \in Threads, NEW b \in BOOLEAN, Decide(t, b), Does(t, b)
      PROVE  Goes(t, b)
  <2>1. ~Done(t)
    <3>1. Now(t) # "done"
      BY <1>3 DEF Does, Looks, PutsOne, TakesOne, CountsMade, CountsTaken, Signals, Puts, CountMade, CountTaken
    <3> QED
      BY <3>1 DEF Now
  <2>2. b \/ Now(t) \in Forking
    <3>1. CASE Looks(t, b)
      BY <3>1 DEF Looks
    <3>2. CASE PutsOne(t, b)
      BY <3>2 DEF PutsOne, Forking, Puts
    <3>3. CASE TakesOne(t, b)
      BY <3>3 DEF TakesOne, Forking, Puts
    <3>4. CASE CountsTaken(t, b)
      BY <3>4 DEF CountsTaken, Forking
    <3>5. CASE CountsMade(t, b) \/ Signals(t, b)
      BY <3>5 DEF CountsMade, Signals
    <3> QED
      BY <1>3, <3>1, <3>2, <3>3, <3>4, <3>5 DEF Does
  <2> QED
    BY <1>3, <2>1, <2>2, BranchFacts
<1>4. ASSUME NEW t \in Threads,
             \/ Test(t, Now(t)) \/ Check(t, Now(t)) \/ Put(t, Now(t)) \/ Take(t, Now(t)) \/ Sample(t, Now(t))
             \/ CountMade(t, Now(t)) \/ CountTaken(t, Now(t))
             \/ PassBarrier(t, Now(t)) \/ Signal(t, Now(t)) \/ Await(t, Now(t))
      PROVE  \E b \in BOOLEAN : Decide(t, b) /\ Does(t, b)
  <2> USE DEF Does, Rests
  <2>0. running \in BOOLEAN
    BY DEF Typed
  <2>1. CASE Test(t, Now(t))
    <3>1. Rests
      BY <2>1 DEF Test, flags
    <3>2. ASSUME NEW now, now = Now(t), NEW holds \in BOOLEAN,
                 \/ now = "running" /\ holds = running
                 \/ now = "nonempty" /\ holds = (queue # <<>>)
                 \/ now = "missing" /\ (~holds => ~(consumed < Here(t).limit))
                 \/ now = "bursts" /\ (~holds => ~(burst < Here(t).limit))
                 \/ now \in {"few", "unmade"}
          PROVE  Does(t, holds)
      BY <3>1, <3>2 DEF Looks, Forking
    <3>4. CASE Now(t) = "running"
      BY <2>0, <2>1, <3>2, <3>4 DEF Test
    <3>5. CASE Now(t) = "nonempty"
      BY <2>1, <3>2, <3>5 DEF Test, Decide
    <3>6. CASE Now(t) = "missing"
      <4>1. \/ consumed < Here(t).limit /\ Decide(t, TRUE)
            \/ ~(consumed < Here(t).limit) /\ Decide(t, FALSE)
        BY <2>1, <3>6 DEF Test, Decide
      <4> QED
        BY <3>2, <3>6, <4>1
    <3>7. CASE Now(t) \in {"few", "unmade"}
      <4>1. Decide(t, TRUE) \/ Decide(t, FALSE)
        BY <2>1, <3>7 DEF Test, Decide
      <4> QED
        BY <3>2, <3>7, <4>1
    <3>8. CASE Now(t) = "bursts"
      <4>1. \/ burst < Here(t).limit /\ Decide(t, TRUE)
            \/ ~(burst < Here(t).limit) /\ Decide(t, FALSE)
        BY <2>1, <3>8 DEF Test, Decide
      <4> QED
        BY <3>2, <3>8, <4>1
    <3>9. Now(t) \in {"running", "nonempty", "missing", "few", "unmade", "bursts"}
      BY <2>1 DEF Test
    <3> QED
      BY <3>4, <3>5, <3>6, <3>7, <3>8, <3>9
  <2>2. CASE Check(t, Now(t))
    BY <2>0, <2>2 DEF Check, Looks, flags, Forking
  <2>3. CASE Put(t, Now(t))
    <3>1. made \in [Threads -> Nat] /\ made' = [made EXCEPT ![t] = made[t] + 1] /\ made'[t] = made[t] + 1
      BY <2>3 DEF Put, Orders
    <3> DEFINE b == HasRoom
    <3>2. b \in BOOLEAN /\ Decide(t, b)
      BY <2>3 DEF Put, HasRoom
    <3>3. PutsOne(t, b)
      BY <2>3, <3>1 DEF Put, PutsOne, Puts, flags
    <3> QED
      BY <3>2, <3>3
  <2>4. CASE Take(t, Now(t))
    <3> DEFINE b == IF Now(t) = "misses" THEN queue = <<>> ELSE queue # <<>>
    <3>1. b \in BOOLEAN /\ Decide(t, b)
      BY <2>4 DEF Take
    <3>2. TakesOne(t, b)
      BY <2>4 DEF Take, TakesOne, flags
    <3> QED
      BY <3>1, <3>2
  <2>5. CASE Sample(t, Now(t)) \/ PassBarrier(t, Now(t)) \/ Await(t, Now(t))
    <3>1. Decide(t, TRUE)
      BY <2>5 DEF Sample, PassBarrier, Await, Advance
    <3>2. Looks(t, TRUE)
      BY <2>5 DEF Sample, PassBarrier, Await, Looks, flags
    <3> QED
      BY <3>1, <3>2
  <2>6. CASE CountMade(t, Now(t))
    BY <2>6 DEF CountMade, CountsMade, flags, Advance
  <2>7. CASE CountTaken(t, Now(t))
    <3>1. CASE Now(t) = "count last"
      <4> DEFINE b == consumed' = Prog.total
      <4>1. b \in BOOLEAN /\ Decide(t, b)
        BY <2>7, <3>1 DEF CountTaken
      <4>2. CountsTaken(t, b)
        BY <2>7, <3>1 DEF CountTaken, CountsTaken, flags
      <4> QED
        BY <4>1, <4>2
    <3>2. CASE Now(t) # "count last"
      BY <2>7, <3>2 DEF CountTaken, CountsTaken, flags, Advance
    <3> QED
      BY <3>1, <3>2
  <2>8. CASE Signal(t, Now(t))
    <3>1. Decide(t, TRUE)
      BY <2>8 DEF Signal, Advance
    <3>3. UNCHANGED <<program, queue, made, refused, measured, counters>>
      BY <2>8 DEF Signal
    <3>4. IF Now(t) = "spawn" THEN spawned' = spawned + 1 ELSE UNCHANGED spawned
      BY <2>8 DEF Signal
    <3>5. IF Now(t) = "next burst" THEN burst' = burst + 1 ELSE UNCHANGED burst
      BY <2>8 DEF Signal
    <3>6. running' = IF Now(t) = "run" THEN TRUE ELSE IF Now(t) = "stop" THEN FALSE ELSE running
      BY <2>8 DEF Signal
    <3>7. Now(t) \in {"spawn", "start", "run", "stop", "next burst"}
      BY <2>8 DEF Signal
    <3> QED
      BY <3>1, <3>3, <3>4, <3>5, <3>6, <3>7 DEF Signals
  <2> QED
    BY <1>4, <2>1, <2>2, <2>3, <2>4, <2>5, <2>6, <2>7, <2>8
<1> QED
  BY <1>1, <1>2, <1>3, <1>4 DEF Next, Step, Terminated

----------------------------------------------------------------------------
(* What is left to put, and what the main thread has passed *)

LEMMA GoesOn ==
    ASSUME Typed, Orders, [Next]_vars, NEW t \in Threads, NEW b \in BOOLEAN, Goes(t, b)
    PROVE  /\ UNCHANGED program /\ Threads' = Threads /\ Workers' = Workers
           /\ \A u \in Threads : Now(u)' = OpAt(program, u, at'[u])
           /\ \A u \in Threads \ {t} : at'[u] = at[u]
           /\ t \in ThreadsOf(program) /\ <<at[t], b>> \in Branches(program, t)
           /\ at[t] \in 1..End(program, t) /\ at'[t] \in 1..End(program, t)
           /\ Now(t) = OpAt(program, t, at[t])
           /\ at'[t] = Target(program, t, <<at[t], b>>)
<1>1. UNCHANGED program /\ Threads' = Threads /\ Workers' = Workers
  BY ProgramStays DEF Threads, Workers, Prog
<1>2. ASSUME NEW u \in Threads
      PROVE  Now(u)' = OpAt(program, u, at'[u]) /\ at'[u] \in 1..End(program, u)
  <2>1. Code(u)' = Code(u) /\ at'[u] \in 1..(Len(Code(u)) + 1)
    BY PlacesKept
  <2>2. Code(u) = CodeOf(program, u) /\ Len(Code(u)) \in Nat
    BY Texts DEF IsCode
  <2>3. at'[u] > Len(Code(u)) <=> at'[u] = End(program, u)
    BY <2>1, <2>2 DEF End
  <2> QED
    BY <2>1, <2>2, <2>3 DEF Now, Done, Here, OpAt, End
<1> QED
  BY <1>1, <1>2, Texts DEF Goes, Typed

LEMMA PastIsNumber ==
    ASSUME NEW p, NEW op, NEW i \in Int
    PROVE  Past(p, op, i) \in Nat /\ SpawnsBefore(p, i) \in Nat /\ BurstsBefore(p, i) \in Nat
<1>1. IsFiniteSet(1..(i - 1))
  BY FS_Interval
<1> QED
  BY <1>1, FS_Subset, FS_CardinalityType DEF Past, SpawnsBefore, BurstsBefore

\* What Places says of the branch that is taken.
LEMMA PlaceRules ==
    ASSUME Typed, Orders, [Next]_vars, Places(program), NEW t \in Threads, NEW b \in BOOLEAN, Goes(t, b)
    PROVE  /\ Left[program][t][at'[t]] <= Left[program][t][at[t]]
           /\ Now(t) \in Puts => Left[program][t][at[t]] # 0
           /\ t # Main => Now(t) \notin {"run", "next burst"}
           /\ t = Main =>
                /\ \/ SpawnsBefore(program, at'[t]) <= SpawnsBefore(program, at[t])
                   \/ Now(t) = "spawn" /\ SpawnsBefore(program, at'[t]) <= SpawnsBefore(program, at[t]) + 1
                /\ \/ Now(t) = "next burst" /\ BurstsBefore(program, at'[t]) > BurstsBefore(program, at[t])
                   \/ Now(t) # "next burst" /\ BurstsBefore(program, at'[t]) >= BurstsBefore(program, at[t])
                /\ at[t] \in Settled(program) => Now(t) # "run" /\ at'[t] \in Settled(program)
<1>1. /\ t \in ThreadsOf(program) /\ <<at[t], b>> \in Branches(program, t)
      /\ Now(t) = OpAt(program, t, at[t])
      /\ at'[t] = Target(program, t, <<at[t], b>>)
  BY GoesOn
<1> DEFINE e == <<at[t], b>>
<1>2. e[1] = at[t] /\ e[2] = b /\ e \in Branches(program, t)
  BY <1>1
<1> HIDE DEF e
<1>3. at'[t] = Target(program, t, e)
  BY <1>1 DEF e
<1> QED
  BY <1>1, <1>2, <1>3 DEF Places, ForBranches

\* A thread never gets to where more is left.
LEMMA LeftFalls ==
    ASSUME Typed, Orders, [Next]_vars, Places(program), NEW u \in Threads
    PROVE  /\ Left[program][u][at[u]] \in Nat /\ Left[program][u][at'[u]] \in Nat
           /\ Left[program][u][at'[u]] <= Left[program][u][at[u]]
<1>1. u \in ThreadsOf(program) /\ at[u] \in 1..End(program, u)
  BY Texts
<1>2. Left[program][u][at[u]] \in Nat
  BY <1>1 DEF Places
<1>3. CASE UNCHANGED at
  BY <1>2, <1>3
<1>4. ASSUME NEW t \in Threads, NEW b \in BOOLEAN, Goes(t, b)
      PROVE  Left[program][u][at'[u]] \in Nat /\ Left[program][u][at'[u]] <= Left[program][u][at[u]]
  <2>1. CASE u = t
    <3>1. at'[u] \in 1..End(program, u)
      BY <1>4, <2>1, GoesOn
    <3> QED
      BY <1>1, <1>4, <2>1, <3>1, PlaceRules DEF Places
  <2>2. CASE u # t
    <3>1. at'[u] = at[u]
      BY <1>4, <2>2, GoesOn
    <3> QED
      BY <1>2, <3>1
  <2> QED
    BY <2>1, <2>2
<1> QED
  BY <1>2, <1>3, <1>4, StepsAlongBranches

\* What the places of the threads say of the rest of the state.
Measures ==
    /\ \A u \in Threads : Left[program][u][at[u]] <= Left[program][u][1]
    /\ Frugal(program) =>
          \A u \in Threads : made[u] + Left[program][u][at[u]] <= Left[program][u][1]
    /\ spawned >= SpawnsBefore(program, at[Main])
    /\ burst <= BurstsBefore(program, at[Main])

LEMMA MeasuresInit == Init /\ Places(program) => Measures
<1> SUFFICES ASSUME Init, Places(program) PROVE Measures
  OBVIOUS
<1>1. Typed
  BY TypedInit
<1>2. Main \in Threads /\ at[Main] = 1 /\ \A u \in Threads : at[u] = 1 /\ made[u] = 0
  BY <1>1, Texts DEF Init
<1>3. ASSUME NEW u \in Threads PROVE Left[program][u][1] \in Nat
  <2>1. u \in ThreadsOf(program) /\ 1 \in 1..End(program, u)
    BY <1>1, <1>2, Texts
  <2> QED
    BY <2>1 DEF Places
<1>4. SpawnsBefore(program, 1) = 0 /\ BurstsBefore(program, 1) = 0
  <2>1. 1..(1 - 1) = {}
    OBVIOUS
  <2> QED
    BY <2>1, FS_EmptySet DEF Past, SpawnsBefore, BurstsBefore
<1>5. ASSUME NEW u \in Threads
      PROVE  /\ Left[program][u][at[u]] <= Left[program][u][1]
             /\ made[u] + Left[program][u][at[u]] <= Left[program][u][1]
  BY <1>2, <1>3
<1>6. spawned >= SpawnsBefore(program, at[Main]) /\ burst <= BurstsBefore(program, at[Main])
  BY <1>2, <1>4 DEF Init
<1> QED
  BY <1>5, <1>6 DEF Measures

LEMMA MeasuresStep ==
    ASSUME Typed, Orders, Places(program), Measures, [Next]_vars
    PROVE  Measures'
<1>1. UNCHANGED program /\ Threads' = Threads /\ Main \in Threads
  BY ProgramStays, PlacesKept, Texts
<1>2. ASSUME NEW u \in Threads
      PROVE  /\ Left[program][u][at[u]] \in Nat /\ Left[program][u][at'[u]] \in Nat
             /\ Left[program][u][1] \in Nat
             /\ Left[program][u][at'[u]] <= Left[program][u][at[u]]
             /\ made[u] \in Nat /\ made'[u] \in Nat
  <2>1. u \in ThreadsOf(program) /\ 1 \in 1..End(program, u)
    BY Texts
  <2>2. Left[program][u][1] \in Nat
    BY <2>1 DEF Places
  <2>3. Orders'
    BY OrdersStep
  <2> QED
    BY <1>1, <2>2, <2>3, LeftFalls DEF Orders
<1>3. ASSUME NEW u \in Threads PROVE Left[program][u][at'[u]] <= Left[program][u][1]
  <2>1. Left[program][u][at[u]] <= Left[program][u][1]
    BY DEF Measures
  <2> QED
    BY <1>2, <2>1
<1>4. ASSUME Frugal(program), NEW u \in Threads
      PROVE  made'[u] + Left[program][u][at'[u]] <= Left[program][u][1]
  <2>1. made[u] + Left[program][u][at[u]] <= Left[program][u][1]
    BY <1>4 DEF Measures
  <2>2. CASE made'[u] = made[u]
    BY <1>2, <2>1, <2>2
  <2>3. CASE made'[u] # made[u]
    <3>1. PICK t \in Threads, b \in BOOLEAN : Goes(t, b) /\ PutsOne(t, b)
      <4>1. ~ Rests
        BY <2>3 DEF Rests
      <4>2. PICK t \in Threads, b \in BOOLEAN : Goes(t, b) /\ Does(t, b)
        BY <4>1, StepsAlongBranches
      <4>3. PutsOne(t, b)
        BY <2>3, <4>2 DEF Does, Looks, Rests, TakesOne, CountsMade, CountsTaken, Signals
      <4> QED
        BY <4>2, <4>3
    <3>2. u = t /\ made'[u] = made[u] + 1
      BY <2>3, <3>1 DEF PutsOne, Orders
    <3>3. Left[program][t][at'[t]] < Left[program][t][at[t]]
      <4> DEFINE e == <<at[t], b>>
      <4>1. /\ t \in ThreadsOf(program) /\ e \in Branches(program, t) /\ e[1] = at[t]
            /\ OpAt(program, t, at[t]) \in Puts
            /\ at'[t] = Target(program, t, e)
        BY <3>1, GoesOn DEF PutsOne
      <4> HIDE DEF e
      <4> QED
        BY <1>4, <4>1 DEF Frugal, ForBranches
    <3> QED
      BY <1>2, <2>1, <3>2, <3>3
  <2> QED
    BY <2>2, <2>3
<1>5. spawned' >= SpawnsBefore(program, at'[Main]) /\ burst' <= BurstsBefore(program, at'[Main])
  <2>0. /\ at[Main] \in Int /\ spawned \in Nat /\ burst \in Nat
        /\ spawned >= SpawnsBefore(program, at[Main]) /\ burst <= BurstsBefore(program, at[Main])
    BY <1>1, Texts DEF Typed, Measures
  <2>1. CASE UNCHANGED at /\ Rests
    BY <2>0, <2>1 DEF Rests
  <2>2. ASSUME NEW t \in Threads, NEW b \in BOOLEAN, Goes(t, b), Does(t, b)
        PROVE  spawned' >= SpawnsBefore(program, at'[Main]) /\ burst' <= BurstsBefore(program, at'[Main])
    <3> DEFINE s == SpawnsBefore(program, at[Main])  s2 == SpawnsBefore(program, at'[Main])
               n == BurstsBefore(program, at[Main])  n2 == BurstsBefore(program, at'[Main])
    <3>1. s \in Nat /\ s2 \in Nat /\ n \in Nat /\ n2 \in Nat
      <4>1. at[Main] \in Int /\ at'[Main] \in Int
        BY <1>1, <2>0, PlacesKept
      <4> QED
        BY <4>1, PastIsNumber
    <3>2. /\ IF Now(t) = "spawn" THEN spawned' = spawned + 1 ELSE spawned' = spawned
          /\ IF Now(t) = "next burst" THEN burst' = burst + 1 ELSE burst' = burst
      <4>1. CASE Signals(t, b)
        BY <4>1 DEF Signals
      <4>2. CASE Looks(t, b)
        BY <4>2 DEF Looks, Rests
      <4>3. CASE PutsOne(t, b)
        BY <4>3 DEF PutsOne, Puts
      <4>4. CASE TakesOne(t, b)
        BY <4>4 DEF TakesOne
      <4>5. CASE CountsMade(t, b)
        BY <4>5 DEF CountsMade, CountMade
      <4>6. CASE CountsTaken(t, b)
        BY <4>6 DEF CountsTaken, CountTaken
      <4> QED
        BY <2>2, <4>1, <4>2, <4>3, <4>4, <4>5, <4>6 DEF Does
    <3>3. CASE t = Main
      <4>1. s2 <= s \/ (spawned' = spawned + 1 /\ s2 <= s + 1)
        BY <2>2, <3>2, <3>3, PlaceRules
      <4>2. (burst' = burst /\ n2 >= n) \/ (burst' = burst + 1 /\ n2 > n)
        BY <2>2, <3>2, <3>3, PlaceRules
      <4>3. spawned' \in {spawned, spawned + 1}
        BY <3>2
      <4>4. spawned >= s /\ burst <= n
        BY <2>0
      <4> HIDE DEF s, s2, n, n2
      <4>5. spawned' >= s2
        BY <2>0, <3>1, <4>1, <4>3, <4>4
      <4>6. burst' <= n2
        BY <2>0, <3>1, <4>2, <4>4
      <4> QED
        BY <4>5, <4>6 DEF s2, n2
    <3>4. CASE t # Main
      <4>1. at'[Main] = at[Main] /\ Now(t) # "next burst"
        BY <1>1, <2>2, <3>4, GoesOn, PlaceRules
      <4>2. spawned' \in {spawned, spawned + 1} /\ burst' = burst
        BY <3>2, <4>1
      <4>3. s2 = s /\ n2 = n
        BY <4>1
      <4>4. spawned >= s /\ burst <= n
        BY <2>0
      <4> HIDE DEF s, s2, n, n2
      <4>5. spawned' >= s2 /\ burst' <= n2
        BY <2>0, <3>1, <4>2, <4>3, <4>4
      <4> QED
        BY <4>5 DEF s2, n2
    <3> QED
      BY <3>3, <3>4
  <2> QED
    BY <2>1, <2>2, StepsAlongBranches
<1> QED
  BY <1>1, <1>3, <1>4, <1>5 DEF Measures

----------------------------------------------------------------------------
(* No message is lost *)

Conserved ==
    /\ AllMade \ refused = AllMeasured \cup Queued
    /\ AllMeasured \cap Queued = {}
    /\ refused \subseteq AllMade
    /\ \A t, u \in Threads : t # u => measured[t] \cap measured[u] = {}

\* What a step does to the sets of messages.
LEMMA PutAdds ==
    ASSUME Orders, NEW t \in Threads, NEW b \in BOOLEAN, PutsOne(t, b), NEW m, m = <<t, made[t] + 1>>
    PROVE  /\ AllMade' = AllMade \cup {m} /\ m \notin AllMade /\ m \in Messages(t)'
           /\ \A u \in Threads \ {t} : Messages(u)' = Messages(u)
           /\ Messages(t)' = Messages(t) \cup {m}
           /\ UNCHANGED <<measured, AllMeasured>>
           /\ b  => Queued' = Queued \cup {m} /\ UNCHANGED refused
           /\ ~b => UNCHANGED Queued /\ refused' = refused \cup {m}
<1>1. Threads' = Threads /\ made \in [Threads -> Nat] /\ made' = [made EXCEPT ![t] = made[t] + 1]
  BY DEF PutsOne, Threads, Workers, Prog, Orders
<1>2. \A u \in Threads \ {t} : Messages(u)' = Messages(u)
  BY <1>1 DEF Messages
<1>3. Messages(t)' = Messages(t) \cup {m} /\ m \notin Messages(t)
  <2>1. made[t] \in Nat /\ made'[t] = made[t] + 1
    BY <1>1
  <2>2. 1..(made[t] + 1) = (1..made[t]) \cup {made[t] + 1} /\ made[t] + 1 \notin 1..made[t]
    BY <2>1
  <2>3. Messages(t)' = {t} \X (1..(made[t] + 1))
    BY <2>1 DEF Messages
  <2> QED
    BY <2>2, <2>3 DEF Messages
<1>4. m \notin AllMade
  BY <1>3 DEF AllMade, Messages
<1>5. AllMade' = AllMade \cup {m}
  <2>1. AllMade' = UNION {Messages(u)' : u \in Threads}
    BY <1>1 DEF AllMade
  <2> QED
    BY <1>2, <1>3, <2>1 DEF AllMade
<1>6. UNCHANGED <<measured, AllMeasured>>
  BY <1>1 DEF PutsOne, AllMeasured
<1>7. ASSUME b PROVE Queued' = Queued \cup {m} /\ UNCHANGED refused
  <2>1. queue' = Append(queue, m) /\ UNCHANGED refused
    BY <1>7 DEF PutsOne
  <2>2. queue \in Seq(Threads \X Nat) /\ m \in Threads \X Nat /\ Len(queue) \in Nat
    BY <1>1, LenProperties DEF Orders
  <2>3. /\ DOMAIN queue = 1..Len(queue) /\ DOMAIN queue' = 1..(Len(queue) + 1)
        /\ \A i \in 1..Len(queue) : queue'[i] = queue[i]
        /\ queue'[Len(queue) + 1] = m
    BY <2>1, <2>2, AppendProperties, LenProperties
  <2>4. 1..(Len(queue) + 1) = (1..Len(queue)) \cup {Len(queue) + 1}
    BY <2>2
  <2> QED
    BY <2>1, <2>3, <2>4 DEF Queued
<1>8. ASSUME ~b PROVE UNCHANGED Queued /\ refused' = refused \cup {m}
  BY <1>8 DEF PutsOne, Queued
<1> QED
  BY <1>2, <1>3, <1>4, <1>5, <1>6, <1>7, <1>8

LEMMA TakeMoves ==
    ASSUME Orders, NEW t \in Threads, Received(t)
    PROVE  /\ queue[1] \in Queued /\ queue[1] \notin AllMeasured /\ queue[1] \in Threads \X Nat
           /\ Queued' = Queued \ {queue[1]}
           /\ measured'[t] = measured[t] \cup {queue[1]}
           /\ \A u \in Threads \ {t} : measured'[u] = measured[u]
<1>1. /\ queue \in Seq(Threads \X Nat) /\ queue' \in Seq(Threads \X Nat)
      /\ Len(queue) \in Nat \ {0} /\ Len(queue') = Len(queue) - 1
      /\ \A i \in 1..Len(queue') : queue'[i] = queue[i + 1]
      /\ DOMAIN queue = 1..Len(queue) /\ DOMAIN queue' = 1..Len(queue')
  BY EmptySeq, LenProperties DEF Orders, Received
<1>2. 1 \in 1..Len(queue) /\ queue[1] \in Threads \X Nat
  BY <1>1, ElementOfSeq
<1>3. queue[1] \in Queued
  BY <1>1, <1>2 DEF Queued
<1>4. queue[1] \notin AllMeasured
  <2> SUFFICES ASSUME NEW u \in Threads, queue[1] \in measured[u] PROVE FALSE
    BY DEF AllMeasured
  <2>1. queue[1][2] < queue[1][2]
    BY <1>2 DEF Orders
  <2> QED
    BY <1>2, <2>1
<1>5. Queued' = Queued \ {queue[1]}
  <2>1. ASSUME NEW i \in 1..Len(queue') PROVE queue'[i] \in Queued \ {queue[1]}
    <3>1. i + 1 \in 1..Len(queue) /\ 1 < i + 1
      BY <1>1
    <3>2. queue[i + 1] # queue[1]
      <4>1. queue[1][1] = queue[i + 1][1] => queue[1][2] < queue[i + 1][2]
        BY <1>2, <3>1 DEF Orders
      <4>2. queue[1][2] \in Nat
        BY <1>2
      <4> QED
        BY <4>1, <4>2
    <3> QED
      BY <1>1, <3>1, <3>2 DEF Queued
  <2>2. ASSUME NEW i \in 1..Len(queue), queue[i] # queue[1] PROVE \E k \in 1..Len(queue') : queue'[k] = queue[i]
    <3>1. i # 1
      BY <2>2
    <3>2. i - 1 \in 1..Len(queue') /\ (i - 1) + 1 = i
      BY <1>1, <3>1
    <3> QED
      BY <1>1, <3>2
  <2>3. Queued' = {queue'[i] : i \in 1..Len(queue')} /\ Queued = {queue[i] : i \in 1..Len(queue)}
    BY <1>1 DEF Queued
  <2>4. \A m \in Queued' : m \in Queued \ {queue[1]}
    BY <2>1, <2>3
  <2>5. \A m \in Queued \ {queue[1]} : m \in Queued'
    BY <2>2, <2>3
  <2> QED
    BY <2>4, <2>5
<1>6. /\ measured'[t] = measured[t] \cup {queue[1]}
      /\ \A u \in Threads \ {t} : measured'[u] = measured[u]
  BY DEF Received, Orders
<1> QED
  BY <1>2, <1>3, <1>4, <1>5, <1>6

LEMMA MessagesOnlyBy ==
    ASSUME Orders, Typed, [Next]_vars
    PROVE  \/ UNCHANGED <<Threads, queue, Queued, made, AllMade, refused, measured, AllMeasured>>
           \/ \E t \in Threads, b \in BOOLEAN : Goes(t, b) /\ PutsOne(t, b)
           \/ \E t \in Threads, b \in BOOLEAN : Goes(t, b) /\ TakesOne(t, b) /\ Received(t)
<1>1. Threads' = Threads
  BY PlacesKept
<1>2. ASSUME UNCHANGED <<queue, made, refused, measured>>
      PROVE  UNCHANGED <<Threads, queue, Queued, made, AllMade, refused, measured, AllMeasured>>
  BY <1>1, <1>2 DEF Queued, AllMade, AllMeasured, Messages
<1>3. CASE Rests
  BY <1>2, <1>3 DEF Rests
<1>4. ASSUME NEW t \in Threads, NEW b \in BOOLEAN, Goes(t, b), Does(t, b), ~PutsOne(t, b)
      PROVE  \/ UNCHANGED <<queue, made, refused, measured>>
             \/ TakesOne(t, b) /\ Received(t)
  <2>1. CASE TakesOne(t, b)
    BY <2>1, TakeReceives DEF TakesOne
  <2>2. CASE ~TakesOne(t, b)
    BY <1>4, <2>2 DEF Does, Looks, Rests, CountsMade, CountsTaken, Signals
  <2> QED
    BY <2>1, <2>2
<1> QED
  BY <1>2, <1>3, <1>4, StepsAlongBranches

LEMMA ConservedInit == Init => Conserved
<1> SUFFICES ASSUME Init PROVE Conserved
  OBVIOUS
<1>1. AllMeasured = {} /\ Queued = {} /\ refused = {}
  BY DEF Init, AllMeasured, Queued
<1>2. AllMade = {}
  BY DEF Init, AllMade, Messages
<1>3. \A t \in Threads : measured[t] = {}
  BY DEF Init
<1> QED
  BY <1>1, <1>2, <1>3 DEF Conserved

LEMMA ConservedStep == Typed /\ Orders /\ Conserved /\ [Next]_vars => Conserved'
<1> SUFFICES ASSUME Typed, Orders, Conserved, [Next]_vars PROVE Conserved'
  OBVIOUS
<1> USE DEF Conserved
<1>1. CASE UNCHANGED <<Threads, queue, Queued, made, AllMade, refused, measured, AllMeasured>>
  BY <1>1
<1>2. ASSUME NEW t \in Threads, NEW b \in BOOLEAN, Goes(t, b), PutsOne(t, b) PROVE Conserved'
  BY ZenonT(30), <1>2, PlacesKept, PutAdds
<1>3. ASSUME NEW t \in Threads, NEW b \in BOOLEAN, TakesOne(t, b), Received(t) PROVE Conserved'
  <2>1. Threads' = Threads /\ UNCHANGED <<made, refused>>
    BY <1>3, PlacesKept DEF TakesOne
  <2>2. UNCHANGED AllMade
    BY <2>1 DEF AllMade, Messages
  <2>3. AllMeasured' = AllMeasured \cup {queue[1]}
    BY <1>3, <2>1, TakeMoves DEF AllMeasured
  <2>4. \A u, v \in Threads : u # v => measured'[u] \cap measured'[v] = {}
    <3>1. /\ queue[1] \notin AllMeasured /\ measured'[t] = measured[t] \cup {queue[1]}
          /\ \A u \in Threads \ {t} : measured'[u] = measured[u]
      BY <1>3, TakeMoves
    <3>2. \A u \in Threads : queue[1] \notin measured[u]
      BY <3>1 DEF AllMeasured
    <3> QED
      BY <3>1, <3>2
  <2> QED
    BY <1>3, <2>1, <2>2, <2>3, <2>4, TakeMoves
<1> QED
  BY <1>1, <1>2, <1>3, MessagesOnlyBy

\* Whatever the threads do and however they meet: each message that the queue has
\* accepted is in the queue, or has been measured by one thread, and not both.
THEOREM NothingIsLost == Spec => []Conserved
  BY OrdersInit, OrdersStep, TypedInit, TypedStep, ConservedInit, ConservedStep, PTL DEF Spec

----------------------------------------------------------------------------
(* The counters *)

\* Workers W have done D[u] each, and c counts what they have done, but for the
\* last of some and everything of others.
SumOf(D, S) == UNION {D[u] : u \in S}
Owing(W, T) == {u \in W : T[u] = "last"}
Telling(W, T) == {u \in W : T[u] # "none"}
Agrees(c, W, D, T) == c + Cardinality(Owing(W, T)) = Cardinality(SumOf(D, Telling(W, T)))

LEMMA FewMadeInit == Init => IsFiniteSet(AllMade)
<1> SUFFICES ASSUME Init PROVE IsFiniteSet(AllMade)
  OBVIOUS
<1>1. AllMade = {}
  BY DEF Init, AllMade, Messages
<1> QED
  BY <1>1, FS_EmptySet

LEMMA FewMadeStep == Typed /\ Orders /\ IsFiniteSet(AllMade) /\ [Next]_vars => IsFiniteSet(AllMade)'
<1> SUFFICES ASSUME Typed, Orders, IsFiniteSet(AllMade), [Next]_vars PROVE IsFiniteSet(AllMade')
  OBVIOUS
<1>1. ASSUME NEW t \in Threads, NEW b \in BOOLEAN, PutsOne(t, b) PROVE IsFiniteSet(AllMade')
  <2>1. AllMade' = AllMade \cup {<<t, made[t] + 1>>}
    BY ZenonT(30), <1>1, PutAdds
  <2> QED
    BY <2>1, FS_AddElement
<1>2. ASSUME NEW t \in Threads, NEW b \in BOOLEAN, TakesOne(t, b) PROVE UNCHANGED AllMade
  BY <1>2 DEF TakesOne, AllMade, Messages, Threads, Workers, Prog
<1> QED
  BY <1>1, <1>2, MessagesOnlyBy

LEMMA TallySums ==
    ASSUME NEW W, IsFiniteSet(W), NEW D, NEW T, IsFiniteSet(SumOf(D, W))
    PROVE  /\ IsFiniteSet(Owing(W, T)) /\ Cardinality(Owing(W, T)) \in Nat
           /\ IsFiniteSet(SumOf(D, Telling(W, T))) /\ Cardinality(SumOf(D, Telling(W, T))) \in Nat
<1>1. Owing(W, T) \subseteq W /\ SumOf(D, Telling(W, T)) \subseteq SumOf(D, W)
  BY DEF Owing, Telling, SumOf
<1> QED
  BY <1>1, FS_Subset, FS_CardinalityType

\* Worker t does one more.
LEMMA TallyingMore ==
    ASSUME NEW W, IsFiniteSet(W), NEW t \in W, NEW D, NEW D2, NEW T, NEW T2, NEW c \in Nat, NEW m,
           IsFiniteSet(SumOf(D, W)),
           \A u \in W \ {t} : D2[u] = D[u] /\ T2[u] = T[u],
           D2[t] = D[t] \cup {m}, \A u \in W : m \notin D[u],
           (T[t] = "all" /\ T2[t] = "last") \/ (T[t] = "none" /\ T2[t] = "none"),
           Agrees(c, W, D, T)
    PROVE  Agrees(c, W, D2, T2)
<1> DEFINE owing == Owing(W, T)
           owing2 == Owing(W, T2)
           sum == SumOf(D, Telling(W, T))
           sum2 == SumOf(D2, Telling(W, T2))
<1>1. /\ IsFiniteSet(owing) /\ Cardinality(owing) \in Nat
      /\ IsFiniteSet(sum) /\ Cardinality(sum) \in Nat
  BY TallySums
<1>2. c + Cardinality(owing) = Cardinality(sum)
  BY DEF Agrees
<1>3. CASE T[t] = "all" /\ T2[t] = "last"
  <2>1. owing2 = owing \cup {t} /\ t \notin owing
    BY <1>3 DEF Owing, Telling, SumOf
  <2>2. sum2 = sum \cup {m} /\ m \notin sum
    BY <1>3 DEF Owing, Telling, SumOf
  <2> HIDE DEF owing, owing2, sum, sum2
  <2>3. Cardinality(owing2) = Cardinality(owing) + 1 /\ Cardinality(sum2) = Cardinality(sum) + 1
    BY <1>1, <2>1, <2>2, FS_AddElement
  <2>4. c + Cardinality(owing2) = Cardinality(sum2)
    BY <1>1, <1>2, <2>3
  <2> QED
    BY <2>4 DEF Agrees, owing2, sum2
<1>4. CASE T[t] = "none" /\ T2[t] = "none"
  <2>1. owing2 = owing
    BY <1>4 DEF Owing, Telling, SumOf
  <2>2. sum2 = sum
    BY <1>4 DEF Owing, Telling, SumOf
  <2> HIDE DEF owing, owing2, sum, sum2
  <2>3. c + Cardinality(owing2) = Cardinality(sum2)
    BY <1>2, <2>1, <2>2
  <2> QED
    BY <2>3 DEF Agrees, owing2, sum2
<1> QED
  BY <1>3, <1>4

\* It counts what it has done.
LEMMA Tallying ==
    ASSUME NEW W, IsFiniteSet(W), NEW t \in W, NEW D, NEW D2, NEW T, NEW T2, NEW c \in Nat, NEW c2,
           IsFiniteSet(SumOf(D, W)),
           \A u, v \in W : u # v => D[u] \cap D[v] = {},
           \A u \in W \ {t} : T2[u] = T[u],
           \A u \in W : D2[u] = D[u],
           Agrees(c, W, D, T),
           \/ T2[t] = T[t] /\ c2 = c
           \/ T[t] = "last" /\ T2[t] = "all" /\ c2 = c + 1
           \/ T[t] = "none" /\ T2[t] = "all" /\ c2 = c + Cardinality(D[t])
    PROVE  Agrees(c2, W, D2, T2)
<1> DEFINE owing == Owing(W, T)
           owing2 == Owing(W, T2)
           sum == SumOf(D, Telling(W, T))
           sum2 == SumOf(D2, Telling(W, T2))
<1>1. /\ IsFiniteSet(owing) /\ Cardinality(owing) \in Nat
      /\ IsFiniteSet(sum) /\ Cardinality(sum) \in Nat
  BY TallySums
<1>2. c + Cardinality(owing) = Cardinality(sum)
  BY DEF Agrees
<1>3. SUFFICES c2 + Cardinality(owing2) = Cardinality(sum2)
  BY DEF Agrees
<1>4. CASE T2[t] = T[t] /\ c2 = c
  <2>1. owing2 = owing
    BY <1>4 DEF Owing, Telling, SumOf
  <2>2. sum2 = sum
    BY <1>4 DEF Owing, Telling, SumOf
  <2> QED
    BY <1>2, <1>4, <2>1, <2>2
<1>5. CASE T[t] = "last" /\ T2[t] = "all" /\ c2 = c + 1
  <2>1. owing2 = owing \ {t} /\ t \in owing
    BY <1>5 DEF Owing, Telling, SumOf
  <2>2. sum2 = sum
    BY <1>5 DEF Owing, Telling, SumOf
  <2> HIDE DEF owing, owing2, sum, sum2
  <2>3. Cardinality(owing2) = Cardinality(owing) - 1
    BY <1>1, <2>1, FS_RemoveElement
  <2> QED
    BY <1>1, <1>2, <1>5, <2>2, <2>3
<1>6. CASE T[t] = "none" /\ T2[t] = "all" /\ c2 = c + Cardinality(D[t])
  <2> DEFINE d == D[t]
  <2>1. owing2 = owing
    BY <1>6 DEF Owing, Telling, SumOf
  <2>2. sum2 = sum \cup d /\ sum \cap d = {}
    BY <1>6 DEF Owing, Telling, SumOf
  <2>3. IsFiniteSet(d)
    <3>1. D[t] \subseteq SumOf(D, W)
      BY DEF SumOf
    <3> QED
      BY <3>1, FS_Subset
  <2> HIDE DEF owing, owing2, sum, sum2, d
  <2>4. Cardinality(sum2) = Cardinality(sum) + Cardinality(d) - Cardinality(sum \cap d)
    BY <1>1, <2>2, <2>3, FS_Union
  <2>5. Cardinality(sum \cap d) = 0 /\ Cardinality(d) \in Nat
    BY <2>2, <2>3, FS_EmptySet, FS_CardinalityType
  <2>6. c2 = c + Cardinality(d)
    BY <1>6 DEF d
  <2> QED
    BY <1>1, <1>2, <2>1, <2>4, <2>5, <2>6
<1> QED
  BY <1>4, <1>5, <1>6

\* What Counts says of the branch that is taken.
TallyAt(t, k) == Tally(program, t, at[t], k)

LEMMA TallyRules ==
    ASSUME Typed, Orders, [Next]_vars, NEW k, Counts(program, k), NEW t \in Threads, NEW b \in BOOLEAN, Goes(t, b)
    PROVE  /\ \A u \in Threads \ {t} : TallyAt(u, k)' = TallyAt(u, k)
           /\ Now(t) # "either"
           /\ t = Main => Now(t) \notin k.counts \cup {k.publishes}
           /\ t # Main =>
                 /\ Now(t) \in k.does => TallyAt(t, k) # "last"
                 /\ Now(t) \in k.counts => TallyAt(t, k) = "last"
                 /\ Now(t) = k.publishes => TallyAt(t, k) = "none"
                 /\ Tally(program, t, at'[t], k) =
                       IF Now(t) \in k.does /\ Succeeds(Now(t), b) /\ TallyAt(t, k) = "all" THEN "last"
                       ELSE IF Now(t) \in k.counts \cup {k.publishes} THEN "all" ELSE TallyAt(t, k)
<1>1. /\ UNCHANGED program /\ Threads = ThreadsOf(program) /\ t \in ThreadsOf(program)
      /\ Now(t) = OpAt(program, t, at[t])
      /\ \A u \in Threads \ {t} : at'[u] = at[u]
      /\ \A u \in Threads : u # Main => u \in WorkersOf(program)
  BY GoesOn, Texts DEF Threads
<1>2. \A u \in Threads \ {t} : Tally(program, u, at[u], k)' = Tally(program, u, at[u], k)
  BY <1>1 DEF Tally, CodeOf, OpAt, End
<1> DEFINE e == <<at[t], b>>
<1>3. e \in Branches(program, t) /\ e[1] = at[t] /\ e[2] = b /\ at'[t] = Target(program, t, e)
  BY GoesOn
<1> HIDE DEF e
<1> QED
  BY <1>1, <1>2, <1>3 DEF Counts, ForBranches, TallyAt

LEMMA TakesWhatThereIs ==
    ASSUME Orders, NEW t \in Threads, NEW b \in BOOLEAN, TakesOne(t, b)
    PROVE  \/ queue = <<>> /\ UNCHANGED <<queue, measured>> /\ b = (Now(t) = "misses")
           \/ queue # <<>> /\ Received(t) /\ b = (Now(t) # "misses")
<1>1. Now(t) = "misses" => b = (queue = <<>>)
  BY DEF TakesOne
<1>2. Now(t) # "misses" => b = (queue # <<>>)
  BY DEF TakesOne
<1>3. Received(t) \/ (queue = <<>> /\ UNCHANGED <<queue, measured>>)
  BY TakeReceives DEF TakesOne
<1>4. Received(t) => queue # <<>>
  BY DEF Received
<1> QED
  BY <1>1, <1>2, <1>3, <1>4

\* The two counters of a program, as far as its text keeps them.
TalliesOf(k) == [u \in Workers |-> TallyAt(u, k)]
MadeBy == [u \in Workers |-> Messages(u) \ refused]
MeasuredBy == [u \in Workers |-> measured[u]]

CountsMatch ==
    /\ Counts(program, Making) => Agrees(produced, Workers, MadeBy, TalliesOf(Making))
    /\ Counts(program, Taking) => Agrees(consumed, Workers, MeasuredBy, TalliesOf(Taking))

LEMMA WorkIsFinite ==
    ASSUME Typed, Conserved, IsFiniteSet(AllMade)
    PROVE  /\ IsFiniteSet(Workers)
           /\ IsFiniteSet(SumOf(MadeBy, Workers))
           /\ IsFiniteSet(SumOf(MeasuredBy, Workers))
           /\ \A u \in Workers : IsFiniteSet(MadeBy[u]) /\ IsFiniteSet(MeasuredBy[u])
<1>1. Workers \subseteq Threads /\ IsFiniteSet(0..MaxThreads) /\ Threads \subseteq 0..MaxThreads
  <2>1. 0 \in Int /\ MaxThreads \in Int
    BY BoundAssumption
  <2> QED
    BY <2>1, Texts, FS_Interval, ProgramIsCode DEF Typed
<1>2. SumOf(MadeBy, Workers) \subseteq AllMade
  BY <1>1 DEF SumOf, MadeBy, AllMade
<1>3. SumOf(MeasuredBy, Workers) \subseteq AllMade
  BY <1>1 DEF SumOf, MeasuredBy, AllMeasured, Conserved
<1>4. \A u \in Workers : MadeBy[u] \subseteq AllMade /\ MeasuredBy[u] \subseteq AllMade
  BY <1>2, <1>3 DEF SumOf
<1> QED
  BY <1>1, <1>2, <1>3, <1>4, FS_Subset

LEMMA WorkIsOwn ==
    ASSUME Orders, Conserved
    PROVE  /\ \A u, v \in Workers : u # v => MadeBy[u] \cap MadeBy[v] = {}
           /\ \A u, v \in Workers : u # v => MeasuredBy[u] \cap MeasuredBy[v] = {}
<1>1. \A u \in Workers : MadeBy[u] \subseteq {u} \X Nat
  BY DEF MadeBy, Messages
<1>2. \A u, v \in Workers : u # v => MeasuredBy[u] \cap MeasuredBy[v] = {}
  BY DEF MeasuredBy, Conserved, Threads
<1> QED
  BY <1>1, <1>2

LEMMA CountsMatchInit == Init => CountsMatch
<1> SUFFICES ASSUME Init PROVE CountsMatch
  OBVIOUS
<1>1. ASSUME NEW k, Counts(program, k), NEW D, \A u \in Workers : D[u] = {}
      PROVE  Agrees(0, Workers, D, TalliesOf(k))
  <2>1. \A u \in Workers : TalliesOf(k)[u] # "last"
    <3> SUFFICES ASSUME NEW u \in Workers PROVE TallyAt(u, k) # "last"
      BY DEF TalliesOf
    <3>1. u \in WorkersOf(program) /\ at[u] = 1
      BY DEF Init, Threads, Workers, WorkersOf, Prog
    <3> QED
      BY <1>1, <3>1 DEF Counts, TallyAt
  <2>2. Owing(Workers, TalliesOf(k)) = {} /\ SumOf(D, Telling(Workers, TalliesOf(k))) = {}
    BY <1>1, <2>1 DEF Owing, Telling, SumOf
  <2>3. Cardinality({}) = 0
    BY FS_EmptySet
  <2> QED
    BY <2>2, <2>3 DEF Agrees
<1>2. \A u \in Workers : MadeBy[u] = {} /\ MeasuredBy[u] = {}
  BY DEF Init, MadeBy, MeasuredBy, Messages, Threads
<1> QED
  BY <1>1, <1>2 DEF CountsMatch, Init

\* What a branch does to the work of the threads.
LEMMA KindOfBranch ==
    ASSUME NEW t \in Threads, NEW b \in BOOLEAN, Does(t, b)
    PROVE  /\ Now(t) \in {"put", "prefill"} => PutsOne(t, b)
           /\ Now(t) \in {"take", "takes", "misses"} => TakesOne(t, b)
           /\ Now(t) \notin {"put", "prefill", "either"} => ~PutsOne(t, b)
           /\ Now(t) \notin {"take", "takes", "misses", "either"} => ~TakesOne(t, b)
           /\ Now(t) \in {"put", "prefill", "either", "take", "takes", "misses"} =>
                 PutsOne(t, b) \/ TakesOne(t, b)
           /\ ~PutsOne(t, b) /\ ~TakesOne(t, b) => UNCHANGED <<queue, made, refused, measured>>
<1>1. Now(t) \in {"put", "prefill", "either", "take", "takes", "misses"} => PutsOne(t, b) \/ TakesOne(t, b)
  BY DEF Does, Looks, CountsMade, CountMade, CountsTaken, CountTaken, Signals
<1>2. ~PutsOne(t, b) /\ ~TakesOne(t, b) => UNCHANGED <<queue, made, refused, measured>>
  BY DEF Does, Looks, Rests, CountsMade, CountsTaken, Signals
<1>3. /\ PutsOne(t, b) => Now(t) \in {"put", "prefill", "either"}
      /\ TakesOne(t, b) => Now(t) \in {"take", "takes", "misses", "either"}
  BY DEF PutsOne, TakesOne, Puts
<1> QED
  BY <1>1, <1>2, <1>3

\* What a branch does to the work of the threads.
LEMMA WorkOfBranch ==
    ASSUME Typed, Orders, Conserved, [Next]_vars, NEW t \in Threads, NEW b \in BOOLEAN, Goes(t, b), Does(t, b)
    PROVE  /\ Workers' = Workers
           /\ \A u \in Workers \ {t} : MadeBy'[u] = MadeBy[u] /\ MeasuredBy'[u] = MeasuredBy[u]
           /\ t \in Workers /\ Now(t) # "either" =>
                /\ IF Now(t) \in {"put", "prefill"} /\ Succeeds(Now(t), b)
                   THEN \E m : MadeBy'[t] = MadeBy[t] \cup {m} /\ \A u \in Workers : m \notin MadeBy[u]
                   ELSE MadeBy'[t] = MadeBy[t]
                /\ IF Now(t) \in {"take", "takes", "misses"} /\ Succeeds(Now(t), b)
                   THEN \E m : MeasuredBy'[t] = MeasuredBy[t] \cup {m} /\ \A u \in Workers : m \notin MeasuredBy[u]
                   ELSE MeasuredBy'[t] = MeasuredBy[t]
<1>1. Workers' = Workers /\ Workers \subseteq Threads
  BY GoesOn, Texts
<1>2. CASE PutsOne(t, b)
  <2> DEFINE m == <<t, made[t] + 1>>
  <2>1. /\ AllMade' = AllMade \cup {m} /\ m \notin AllMade
        /\ \A u \in Threads \ {t} : Messages(u)' = Messages(u)
        /\ Messages(t)' = Messages(t) \cup {m}
        /\ UNCHANGED measured
        /\ b  => UNCHANGED refused
        /\ ~b => refused' = refused \cup {m}
    BY <1>2, PutAdds
  <2>2. m \notin refused /\ \A u \in Threads : m \notin Messages(u)
    BY <2>1 DEF Conserved, AllMade
  <2> HIDE DEF m
  <2>3. \A u \in Workers : MadeBy[u] = Messages(u) \ refused /\ MadeBy'[u] = Messages(u)' \ refused'
    BY <1>1 DEF MadeBy
  <2>4. \A u \in Workers \ {t} : MadeBy'[u] = MadeBy[u]
    <3> SUFFICES ASSUME NEW u \in Workers \ {t} PROVE MadeBy'[u] = MadeBy[u]
      OBVIOUS
    <3>1. /\ Messages(u)' = Messages(u) /\ m \notin Messages(u)
          /\ MadeBy[u] = Messages(u) \ refused /\ MadeBy'[u] = Messages(u)' \ refused'
      BY <1>1, <2>1, <2>2, <2>3
    <3>2. refused' = refused \/ refused' = refused \cup {m}
      BY <2>1
    <3> QED
      BY <3>1, <3>2
  <2>5. \A u \in Workers : MeasuredBy'[u] = MeasuredBy[u]
    BY <1>1, <2>1 DEF MeasuredBy
  <2>6. ASSUME t \in Workers, b PROVE MadeBy'[t] = MadeBy[t] \cup {m}
    BY <2>1, <2>2, <2>3, <2>6
  <2>7. ASSUME t \in Workers, ~b PROVE MadeBy'[t] = MadeBy[t]
    <3>1. /\ Messages(t)' = Messages(t) \cup {m} /\ m \notin Messages(t) /\ refused' = refused \cup {m}
          /\ MadeBy[t] = Messages(t) \ refused /\ MadeBy'[t] = Messages(t)' \ refused'
      BY <2>1, <2>2, <2>3, <2>7
    <3> QED
      BY <3>1
  <2>8. \A u \in Workers : m \notin MadeBy[u]
    BY <1>1, <2>2, <2>3
  <2>9. ASSUME Now(t) # "either"
        PROVE  /\ Now(t) \in {"put", "prefill"} /\ (Succeeds(Now(t), b) <=> b)
               /\ Now(t) \notin {"take", "takes", "misses"}
    <3>1. Now(t) \in {"put", "prefill"}
      BY <1>2, <2>9 DEF PutsOne, Puts
    <3> QED
      BY <3>1 DEF Succeeds
  <2> QED
    BY <1>1, <2>4, <2>5, <2>6, <2>7, <2>8, <2>9
<1>3. CASE TakesOne(t, b) /\ Received(t)
  <2>1. UNCHANGED <<made, refused>>
    BY <1>3 DEF TakesOne
  <2>2. Succeeds(Now(t), b)
    BY <1>3, TakesWhatThereIs DEF Received, Succeeds
  <2>3. /\ measured'[t] = measured[t] \cup {queue[1]} /\ queue[1] \notin AllMeasured
        /\ \A u \in Threads \ {t} : measured'[u] = measured[u]
    BY <1>3, TakeMoves
  <2>4. \A u \in Workers : MadeBy'[u] = MadeBy[u]
    BY <1>1, <2>1 DEF MadeBy, Messages
  <2>5. \A u \in Workers \ {t} : MeasuredBy'[u] = MeasuredBy[u]
    BY <1>1, <2>3 DEF MeasuredBy
  <2>6. t \in Workers => MeasuredBy'[t] = MeasuredBy[t] \cup {queue[1]}
    BY <1>1, <2>3 DEF MeasuredBy
  <2>7. \A u \in Workers : queue[1] \notin MeasuredBy[u]
    BY <1>1, <2>3 DEF AllMeasured, MeasuredBy
  <2>8. Now(t) # "either" => Now(t) \in {"take", "takes", "misses"} /\ Now(t) \notin {"put", "prefill"}
    BY <1>3 DEF TakesOne
  <2> QED
    BY <1>1, <2>2, <2>4, <2>5, <2>6, <2>7, <2>8
<1>4. ASSUME ~PutsOne(t, b), ~(TakesOne(t, b) /\ Received(t))
      PROVE  /\ \A u \in Workers : MadeBy'[u] = MadeBy[u] /\ MeasuredBy'[u] = MeasuredBy[u]
             /\ Now(t) \notin {"put", "prefill"}
             /\ Now(t) \in {"take", "takes", "misses"} => ~Succeeds(Now(t), b)
  <2>1. UNCHANGED <<made, refused, measured>>
    BY <1>4, TakesWhatThereIs, KindOfBranch DEF TakesOne
  <2>2. Now(t) \in {"take", "takes", "misses"} => ~Succeeds(Now(t), b)
    BY <1>4, TakesWhatThereIs, KindOfBranch DEF Succeeds
  <2> QED
    BY <1>1, <1>4, <2>1, <2>2, KindOfBranch DEF MadeBy, MeasuredBy, Messages
<1> QED
  BY <1>1, <1>2, <1>3, <1>4

LEMMA TallyStep ==
    ASSUME Typed, Orders, [Next]_vars, NEW t \in Threads, NEW b \in BOOLEAN, Goes(t, b),
           NEW k, Counts(program, k), k.publishes \notin k.counts \cup k.does, k.counts \cap k.does = {},
           IsFiniteSet(Workers), NEW D, NEW D2, NEW c \in Nat, NEW c2,
           IsFiniteSet(SumOf(D, Workers)),
           \A u, v \in Workers : u # v => D[u] \cap D[v] = {},
           \A u \in Workers \ {t} : D2[u] = D[u],
           t \in Workers =>
              IF Now(t) \in k.does /\ Succeeds(Now(t), b)
              THEN \E m : D2[t] = D[t] \cup {m} /\ \A u \in Workers : m \notin D[u]
              ELSE D2[t] = D[t],
           Now(t) \notin k.counts \cup {k.publishes} => c2 = c,
           Now(t) \in k.counts => c2 = c + 1,
           t \in Workers /\ Now(t) = k.publishes => c2 = c + Cardinality(D[t]),
           Agrees(c, Workers, D, TalliesOf(k))
    PROVE  Agrees(c2, Workers, D2, TalliesOf(k)')
<1> DEFINE T == TalliesOf(k)
           T2 == TalliesOf(k)'
<1>1. /\ Workers' = Workers /\ Workers \subseteq Threads /\ Main \notin Workers
      /\ \A u \in Threads : u # Main => u \in Workers
  BY GoesOn, Texts DEF Threads
<1>2. ASSUME NEW u \in Workers PROVE T[u] = TallyAt(u, k) /\ T2[u] = TallyAt(u, k)'
  BY <1>1 DEF TalliesOf
<1>3. \A u \in Workers \ {t} : T2[u] = T[u]
  BY <1>1, <1>2, TallyRules
<1>4. CASE t = Main
  <2>1. c2 = c
    BY <1>4, TallyRules
  <2>2. \A u \in Workers : D2[u] = D[u] /\ T2[u] = T[u]
    BY <1>1, <1>3, <1>4
  <2> HIDE DEF T, T2
  <2>3. Owing(Workers, T2) = Owing(Workers, T) /\ Telling(Workers, T2) = Telling(Workers, T)
    BY <2>2 DEF Owing, Telling
  <2>5. SumOf(D2, Telling(Workers, T2)) = SumOf(D, Telling(Workers, T))
    BY <2>2, <2>3 DEF SumOf, Telling
  <2>4. Agrees(c2, Workers, D2, T2)
    <3>1. Agrees(c, Workers, D, T)
      BY DEF T
    <3> QED
      BY <2>1, <2>3, <2>5, <3>1 DEF Agrees
  <2> QED
    BY <2>4 DEF T2
<1>5. CASE t # Main
  <2>1. t \in Workers
    BY <1>1, <1>5
  <2>2. TallyAt(t, k)' = Tally(program, t, at'[t], k)
    <3>1. program' = program
      BY GoesOn
    <3> QED
      BY ONLY <3>1 DEF TallyAt, Tally, CodeOf, OpAt, End
  <2>3. /\ Now(t) \in k.does => T[t] # "last"
        /\ Now(t) \in k.counts => T[t] = "last"
        /\ Now(t) = k.publishes => T[t] = "none"
        /\ T2[t] = IF Now(t) \in k.does /\ Succeeds(Now(t), b) /\ T[t] = "all" THEN "last"
                   ELSE IF Now(t) \in k.counts \cup {k.publishes} THEN "all" ELSE T[t]
    BY <1>2, <1>5, <2>1, <2>2, TallyRules
  <2>4. T[t] \in {"none", "last", "all"}
    BY <1>2, <2>1 DEF TallyAt, Tally
  <2>5. Agrees(c, Workers, D, T)
    OBVIOUS
  <2> HIDE DEF T, T2
  <2>6. CASE Now(t) \in k.does /\ Succeeds(Now(t), b)
    <3>1. c2 = c
      BY <2>6
    <3>2. (T[t] = "all" /\ T2[t] = "last") \/ (T[t] = "none" /\ T2[t] = "none")
      BY <2>3, <2>4, <2>6
    <3>3. PICK m : D2[t] = D[t] \cup {m} /\ \A u \in Workers : m \notin D[u]
      BY <2>1, <2>6
    <3>4. Agrees(c, Workers, D2, T2)
      BY <1>3, <2>1, <2>5, <3>2, <3>3, TallyingMore
    <3> QED
      BY <3>1, <3>4 DEF T2
  <2>7. CASE ~(Now(t) \in k.does /\ Succeeds(Now(t), b)) /\ Now(t) \notin k.counts \cup {k.publishes}
    <3>1. c2 = c /\ D2[t] = D[t] /\ T2[t] = T[t]
      BY <2>1, <2>3, <2>7
    <3>4. Agrees(c2, Workers, D2, T2)
      BY <1>3, <2>1, <2>5, <3>1, Tallying
    <3> QED
      BY <3>4 DEF T2
  <2>8. CASE Now(t) \in k.counts
    <3>1. c2 = c + 1 /\ D2[t] = D[t] /\ T[t] = "last" /\ T2[t] = "all"
      BY <2>1, <2>3, <2>8
    <3>4. Agrees(c2, Workers, D2, T2)
      BY <1>3, <2>1, <2>5, <3>1, Tallying
    <3> QED
      BY <3>4 DEF T2
  <2>9. CASE Now(t) = k.publishes
    <3>1. c2 = c + Cardinality(D[t]) /\ D2[t] = D[t] /\ T[t] = "none" /\ T2[t] = "all"
      BY <2>1, <2>3, <2>9
    <3>4. Agrees(c2, Workers, D2, T2)
      BY <1>3, <2>1, <2>5, <3>1, Tallying
    <3> QED
      BY <3>4 DEF T2
  <2> QED
    BY <2>6, <2>7, <2>8, <2>9
<1> QED
  BY <1>4, <1>5

\* When a counter changes, and by how much.
LEMMA CounterSteps ==
    ASSUME NEW t \in Threads, NEW b \in BOOLEAN, Does(t, b)
    PROVE  /\ Now(t) \notin Making.counts \cup {Making.publishes} => produced' = produced
           /\ Now(t) \in Making.counts => produced' = produced + 1
           /\ Now(t) = Making.publishes => produced' = produced + Cardinality(Messages(t) \ refused)
           /\ Now(t) \notin Taking.counts \cup {Taking.publishes} => consumed' = consumed
           /\ Now(t) \in Taking.counts => consumed' = consumed + 1
           /\ Now(t) = Taking.publishes => consumed' = consumed + Cardinality(measured[t])
<1>0. UNCHANGED <<produced, consumed>> \/ CountsMade(t, b) \/ CountsTaken(t, b)
  BY DEF Does, Looks, Rests, counters, PutsOne, TakesOne, Signals
<1>1. CASE CountsMade(t, b)
  <2>1. /\ Now(t) \in {"count made", "publish made"} /\ UNCHANGED consumed
        /\ Now(t) = "count made" => produced' = produced + 1
        /\ Now(t) = "publish made" => produced' = produced + Cardinality(Messages(t) \ refused)
    BY Zenon, <1>1 DEF CountsMade, CountMade, AddedTo
  <2> QED
    BY Zenon, <2>1 DEF Making, Taking
<1>2. CASE CountsTaken(t, b)
  <2>1. /\ Now(t) \in {"count taken", "count last", "publish taken"} /\ UNCHANGED produced
        /\ Now(t) \in {"count taken", "count last"} => consumed' = consumed + 1
        /\ Now(t) = "publish taken" => consumed' = consumed + Cardinality(measured[t])
    BY Zenon, <1>2 DEF CountsTaken, CountTaken, AddedTo
  <2> QED
    BY Zenon, <2>1 DEF Making, Taking
<1>3. ASSUME UNCHANGED <<produced, consumed>>, ~CountsMade(t, b), ~CountsTaken(t, b)
      PROVE  Now(t) \notin {"count made", "publish made", "count taken", "count last", "publish taken"}
  BY <1>3 DEF Does, Looks, PutsOne, Puts, TakesOne, Signals
<1> QED
  BY <1>0, <1>1, <1>2, <1>3 DEF Making, Taking

LEMMA CountsMatchStep ==
    ASSUME Typed, Orders, Conserved, IsFiniteSet(AllMade), CountsMatch, [Next]_vars
    PROVE  CountsMatch'
<1>0. /\ IsFiniteSet(Workers) /\ produced \in Nat /\ consumed \in Nat
      /\ IsFiniteSet(SumOf(MadeBy, Workers))
      /\ IsFiniteSet(SumOf(MeasuredBy, Workers))
      /\ \A u, v \in Workers : u # v => MadeBy[u] \cap MadeBy[v] = {} /\ MeasuredBy[u] \cap MeasuredBy[v] = {}
  BY WorkIsFinite, WorkIsOwn DEF Typed
<1>1. CASE UNCHANGED at /\ Rests
  BY <1>1, ProgramStays DEF CountsMatch, Rests, counters, TalliesOf, TallyAt, MadeBy, MeasuredBy, Messages, Workers, Prog
<1>2. ASSUME NEW t \in Threads, NEW b \in BOOLEAN, Goes(t, b), Does(t, b)
      PROVE  /\ \A u \in Workers \ {t} : MadeBy'[u] = MadeBy[u] /\ MeasuredBy'[u] = MeasuredBy[u]
             /\ Counts(program, Making) => Agrees(produced', Workers, MadeBy', TalliesOf(Making)')
             /\ Counts(program, Taking) => Agrees(consumed', Workers, MeasuredBy', TalliesOf(Taking)')
  <2>1. Making.does = {"put", "prefill"} /\ Taking.does = {"take", "takes", "misses"}
    BY DEF Making, Taking
  <2>2. /\ Making.publishes \notin Making.counts \cup Making.does /\ Making.counts \cap Making.does = {}
        /\ Taking.publishes \notin Taking.counts \cup Taking.does /\ Taking.counts \cap Taking.does = {}
    BY DEF Making, Taking
  <2>3. \A u \in Workers \ {t} : MadeBy'[u] = MadeBy[u] /\ MeasuredBy'[u] = MeasuredBy[u]
    BY <1>2, WorkOfBranch
  <2>4. t \in Workers => MadeBy[t] = Messages(t) \ refused /\ MeasuredBy[t] = measured[t]
    BY DEF MadeBy, MeasuredBy
  <2>5. ASSUME Counts(program, Making) PROVE Agrees(produced', Workers, MadeBy', TalliesOf(Making)')
    <3>1. Now(t) # "either"
      BY <1>2, <2>5, TallyRules
    <3>2. t \in Workers =>
             IF Now(t) \in Making.does /\ Succeeds(Now(t), b)
             THEN \E m : MadeBy'[t] = MadeBy[t] \cup {m} /\ \A u \in Workers : m \notin MadeBy[u]
             ELSE MadeBy'[t] = MadeBy[t]
      BY <1>2, <2>1, <3>1, WorkOfBranch
    <3>3. Agrees(produced, Workers, MadeBy, TalliesOf(Making))
      BY <2>5 DEF CountsMatch
    <3>4. /\ Now(t) \notin Making.counts \cup {Making.publishes} => produced' = produced
          /\ Now(t) \in Making.counts => produced' = produced + 1
          /\ t \in Workers /\ Now(t) = Making.publishes => produced' = produced + Cardinality(MadeBy[t])
      BY <1>2, <2>4, CounterSteps
    <3> QED
      BY <1>0, <1>2, <2>2, <2>3, <2>5, <3>2, <3>3, <3>4, TallyStep
  <2>6. ASSUME Counts(program, Taking) PROVE Agrees(consumed', Workers, MeasuredBy', TalliesOf(Taking)')
    <3>1. Now(t) # "either"
      BY <1>2, <2>6, TallyRules
    <3>2. t \in Workers =>
             IF Now(t) \in Taking.does /\ Succeeds(Now(t), b)
             THEN \E m : MeasuredBy'[t] = MeasuredBy[t] \cup {m} /\ \A u \in Workers : m \notin MeasuredBy[u]
             ELSE MeasuredBy'[t] = MeasuredBy[t]
      BY <1>2, <2>1, <3>1, WorkOfBranch
    <3>3. Agrees(consumed, Workers, MeasuredBy, TalliesOf(Taking))
      BY <2>6 DEF CountsMatch
    <3>4. /\ Now(t) \notin Taking.counts \cup {Taking.publishes} => consumed' = consumed
          /\ Now(t) \in Taking.counts => consumed' = consumed + 1
          /\ t \in Workers /\ Now(t) = Taking.publishes => consumed' = consumed + Cardinality(MeasuredBy[t])
      BY <1>2, <2>4, CounterSteps
    <3> QED
      BY SMTT(30), <1>0, <1>2, <2>2, <2>3, <2>6, <3>2, <3>3, <3>4, TallyStep
  <2> QED
    BY <2>3, <2>5, <2>6
<1>3. UNCHANGED program /\ Workers' = Workers
  BY ProgramStays DEF Workers, Prog
<1>4. (\E t \in Threads, b \in BOOLEAN : Goes(t, b) /\ Does(t, b)) => CountsMatch'
  BY <1>2, <1>3 DEF CountsMatch
<1> QED
  BY <1>1, <1>4, StepsAlongBranches

----------------------------------------------------------------------------
(* The messages that a program may make *)

LEMMA FiniteImage ==
    ASSUME NEW S, IsFiniteSet(S), NEW g, DOMAIN g = S
    PROVE  IsFiniteSet({g[u] : u \in S})
<1> DEFINE I == {g[u] : u \in S}
           h == [u \in S |-> g[u]]
<1>1. h \in Surjection(S, I)
  BY DEF Surjection
<1> HIDE DEF h, I
<1>2. IsFiniteSet(I)
  BY <1>1, FS_Surjection
<1> QED
  BY <1>2 DEF I

LEMMA BudgetIsFinite ==
    ASSUME Typed, Places(program)
    PROVE  IsFiniteSet(Budget(program)) /\ Cardinality(Budget(program)) \in Nat
<1> DEFINE g == [t \in Threads |-> {t} \X (1..Left[program][t][1])]
           I == {g[t] : t \in Threads}
<1>1. IsFiniteSet(Threads) /\ Threads = ThreadsOf(program)
  <2>1. 0 \in Int /\ MaxThreads \in Int
    BY BoundAssumption
  <2>2. IsFiniteSet(0..MaxThreads) /\ Threads \subseteq 0..MaxThreads
    BY <2>1, FS_Interval, ProgramIsCode DEF Typed
  <2> QED
    BY <2>2, FS_Subset, Texts
<1>2. ASSUME NEW t \in Threads PROVE IsFiniteSet(g[t])
  <2>1. t \in ThreadsOf(program) /\ 1 \in 1..End(program, t)
    BY Texts
  <2>4. Left[program][t][1] \in Nat
    BY <2>1 DEF Places
  <2>2. Left[program][t][1] \in Int /\ 1 \in Int
    BY <2>4
  <2>3. IsFiniteSet(1..Left[program][t][1]) /\ IsFiniteSet({t})
    BY <2>2, FS_Interval, FS_Singleton
  <2> QED
    BY <2>3, FS_Product
<1>3. DOMAIN g = Threads
  OBVIOUS
<1>4. Budget(program) = UNION I
  BY <1>1 DEF Budget
<1> HIDE DEF g
<1>5. IsFiniteSet(I) /\ \A s \in I : IsFiniteSet(s)
  BY <1>1, <1>2, <1>3, FiniteImage
<1> HIDE DEF I
<1>6. IsFiniteSet(UNION I)
  BY <1>5, FS_UNION
<1> QED
  BY <1>4, <1>6, FS_CardinalityType

\* No more is made than the texts allow, and once that much has been seen there
\* is nothing else, and nobody makes any more.
LEMMA WithinBudget ==
    ASSUME Typed, Orders, Places(program), Measures, Frugal(program)
    PROVE  /\ AllMade \subseteq Budget(program)
           /\ \A t \in Threads : Left[program][t][at[t]] # 0 => AllMade # Budget(program)
<1>1. Threads = ThreadsOf(program)
  BY Texts
<1>2. ASSUME NEW t \in Threads
      PROVE  /\ made[t] \in Nat /\ Left[program][t][1] \in Nat /\ Left[program][t][at[t]] \in Nat
             /\ made[t] + Left[program][t][at[t]] <= Left[program][t][1]
  <2>1. t \in ThreadsOf(program) /\ 1 \in 1..End(program, t) /\ at[t] \in 1..End(program, t)
    BY Texts
  <2> QED
    BY <2>1 DEF Places, Measures, Orders
<1>3. ASSUME NEW t \in Threads PROVE Messages(t) \subseteq {t} \X (1..Left[program][t][1])
  <2>1. 1..made[t] \subseteq 1..Left[program][t][1]
    BY <1>2
  <2> QED
    BY <2>1 DEF Messages
<1>4. AllMade \subseteq Budget(program)
  BY <1>1, <1>3 DEF AllMade, Budget
<1>5. ASSUME NEW t \in Threads, Left[program][t][at[t]] # 0 PROVE AllMade # Budget(program)
  <2> DEFINE m == <<t, Left[program][t][1]>>
  <2>1. Left[program][t][1] \in 1..Left[program][t][1] /\ Left[program][t][1] \notin 1..made[t]
    BY <1>2, <1>5
  <2>2. m \in Budget(program)
    BY <1>1, <2>1 DEF Budget
  <2>3. m \notin AllMade
    BY <2>1 DEF AllMade, Messages
  <2> QED
    BY <2>2, <2>3
<1> QED
  BY <1>4, <1>5

LEMMA BudgetSpent ==
    ASSUME Typed, Orders, Places(program), Measures, Frugal(program),
           NEW seen, seen \subseteq AllMade, Cardinality(Budget(program)) <= Cardinality(seen)
    PROVE  seen = AllMade /\ Quiet
<1>1. AllMade \subseteq Budget(program) /\ IsFiniteSet(Budget(program)) /\ Cardinality(Budget(program)) \in Nat
  BY WithinBudget, BudgetIsFinite
<1>2. Cardinality(seen) <= Cardinality(Budget(program)) /\ seen \subseteq Budget(program)
  BY <1>1, FS_Subset
<1>3. IsFiniteSet(seen) /\ Cardinality(seen) \in Nat
  BY <1>1, FS_Subset, FS_CardinalityType
<1>4. Cardinality(seen) = Cardinality(Budget(program))
  BY <1>1, <1>2, <1>3
<1>5. seen = Budget(program)
  BY <1>1, <1>2, <1>4, FS_Subset
<1> QED
  BY <1>1, <1>5, WithinBudget DEF Quiet

----------------------------------------------------------------------------
(* The queue and the counter *)

LEMMA LengthInit == Init => Cardinality(Queued) = Len(queue)
<1> SUFFICES ASSUME Init PROVE Cardinality(Queued) = Len(queue)
  OBVIOUS
<1>1. Queued = {} /\ Len(queue) = 0
  BY EmptySeq DEF Init, Queued
<1> QED
  BY <1>1, FS_EmptySet

LEMMA QueuedIsFinite ==
    ASSUME Conserved, IsFiniteSet(AllMade)
    PROVE  /\ Queued \subseteq AllMade /\ IsFiniteSet(Queued) /\ Cardinality(Queued) \in Nat
           /\ AllMeasured \subseteq AllMade /\ IsFiniteSet(AllMeasured) /\ Cardinality(AllMeasured) \in Nat
<1>1. Queued \subseteq AllMade /\ AllMeasured \subseteq AllMade
  BY DEF Conserved
<1> QED
  BY <1>1, FS_Subset, FS_CardinalityType

LEMMA LengthStep ==
    ASSUME Typed, Orders, Conserved, IsFiniteSet(AllMade), Cardinality(Queued) = Len(queue), [Next]_vars
    PROVE  Cardinality(Queued') = Len(queue')
<1>1. IsFiniteSet(Queued) /\ Cardinality(Queued) \in Nat /\ Queued \subseteq AllMade
  BY QueuedIsFinite
<1>2. CASE UNCHANGED <<queue, Queued>>
  BY <1>2
<1>3. ASSUME NEW t \in Threads, NEW b \in BOOLEAN, PutsOne(t, b) PROVE Cardinality(Queued') = Len(queue')
  <2> DEFINE m == <<t, made[t] + 1>>
  <2>1. CASE ~b
    BY <1>3, <2>1, PutAdds DEF PutsOne
  <2>2. CASE b
    <3>1. Queued' = Queued \cup {m} /\ m \notin Queued
      BY <1>1, <1>3, <2>2, PutAdds
    <3>2. Len(queue') = Len(queue) + 1
      <4>1. queue' = Append(queue, m) /\ queue \in Seq(Threads \X Nat) /\ m \in Threads \X Nat
        BY <1>3, <2>2 DEF PutsOne, Orders
      <4> QED
        BY <4>1, AppendProperties
    <3> QED
      BY <1>1, <3>1, <3>2, FS_AddElement
  <2> QED
    BY <2>1, <2>2
<1>4. ASSUME NEW t \in Threads, Received(t) PROVE Cardinality(Queued') = Len(queue')
  <2>1. Queued' = Queued \ {queue[1]} /\ queue[1] \in Queued
    BY <1>4, TakeMoves
  <2>2. Len(queue') = Len(queue) - 1
    BY <1>4 DEF Received
  <2> QED
    BY <1>1, <2>1, <2>2, FS_RemoveElement
<1> QED
  BY <1>2, <1>3, <1>4, MessagesOnlyBy

\* The counter never says more than has been taken.
LEMMA CountIsCareful ==
    ASSUME Typed, Conserved, IsFiniteSet(AllMade), CountsMatch, Counts(program, Taking)
    PROVE  /\ consumed <= Cardinality(AllMeasured)
           /\ (\E u \in Workers : TallyAt(u, Taking) = "last") => consumed + 1 <= Cardinality(AllMeasured)
<1> DEFINE owing == Owing(Workers, TalliesOf(Taking))
           sum == SumOf(MeasuredBy, Telling(Workers, TalliesOf(Taking)))
<1>1. consumed + Cardinality(owing) = Cardinality(sum) /\ consumed \in Nat
  BY DEF CountsMatch, Agrees, Typed
<1>2. Cardinality(owing) \in Nat /\ IsFiniteSet(sum) /\ Cardinality(sum) \in Nat
  BY WorkIsFinite, TallySums
<1>3. sum \subseteq AllMeasured
  BY DEF SumOf, Telling, MeasuredBy, AllMeasured, Threads
<1>4. IsFiniteSet(AllMeasured) /\ Cardinality(AllMeasured) \in Nat
  BY QueuedIsFinite
<1>6. (\E u \in Workers : TallyAt(u, Taking) = "last") => owing # {}
  BY DEF Owing, TalliesOf
<1> HIDE DEF owing, sum
<1>5. Cardinality(sum) <= Cardinality(AllMeasured)
  BY <1>3, <1>4, FS_Subset
<1>7. IsFiniteSet(owing)
  BY WorkIsFinite, TallySums DEF owing
<1>8. owing # {} => Cardinality(owing) # 0
  BY <1>7, FS_EmptySet
<1> QED
  BY <1>1, <1>2, <1>4, <1>5, <1>6, <1>8

----------------------------------------------------------------------------
(* What has been learned stays true *)

Ground ==
    /\ Typed /\ Orders /\ Conserved /\ Measures /\ CountsMatch
    /\ IsFiniteSet(AllMade) /\ Cardinality(Queued) = Len(queue)

Sure(f) == Holds(f) /\ (f = "late" => Careful(program))

LEMMA DoneStays ==
    ASSUME Typed, Orders, [Next]_vars, NEW u \in Threads, Done(u)
    PROVE  Done(u)'
<1>1. Code(u)' = Code(u) /\ Len(Code(u)) \in Nat /\ at[u] = End(program, u) /\ End(program, u) = Len(Code(u)) + 1
  BY PlacesKept, Texts DEF IsCode, End
<1>2. UNCHANGED at => Done(u)'
  BY <1>1 DEF Done
<1>3. ASSUME NEW t \in Threads, NEW b \in BOOLEAN, Goes(t, b) PROVE Done(u)'
  <2>1. <<at[t], b>> \in Branches(program, t) /\ Code(t) = CodeOf(program, t)
    BY <1>3, Texts DEF Goes
  <2>2. at[t] \in 1..Len(Code(t))
    BY <2>1 DEF Branches
  <2>3. t # u
    BY <1>1, <2>2
  <2>4. at'[u] = at[u]
    BY <1>3, <2>3, GoesOn
  <2> QED
    BY <1>1, <2>4 DEF Done
<1> QED
  BY <1>2, <1>3, StepsAlongBranches

LEMMA QuietStays ==
    ASSUME Typed, Orders, Places(program), [Next]_vars, Quiet
    PROVE  Quiet'
<1>1. UNCHANGED program /\ Threads' = Threads
  BY ProgramStays, PlacesKept
<1>2. ASSUME NEW u \in Threads PROVE Left[program][u][at'[u]] = 0
  <2>1. Left[program][u][at[u]] = 0
    BY DEF Quiet
  <2>2. Left[program][u][at'[u]] \in Nat /\ Left[program][u][at'[u]] <= 0
    BY <2>1, LeftFalls
  <2> QED
    BY <2>2
<1> QED
  BY <1>1, <1>2 DEF Quiet

LEMMA EmptyStays ==
    ASSUME Typed, Orders, Places(program), [Next]_vars, Quiet, queue = <<>>
    PROVE  queue' = <<>>
<1>1. ASSUME NEW t \in Threads, NEW b \in BOOLEAN, Goes(t, b), PutsOne(t, b) PROVE FALSE
  BY <1>1, PlaceRules DEF Quiet, PutsOne
<1>2. ASSUME NEW t \in Threads, Received(t) PROVE FALSE
  BY <1>2 DEF Received
<1> QED
  BY <1>1, <1>2, MessagesOnlyBy

LEMMA FlagSteps ==
    ASSUME NEW t \in Threads, NEW b \in BOOLEAN, Does(t, b)
    PROVE  /\ Now(t) = "run" => running'
           /\ Now(t) = "stop" => b /\ ~running'
           /\ Now(t) \notin {"run", "stop"} => UNCHANGED running
<1>1. CASE Signals(t, b)
  BY <1>1 DEF Signals
<1>2. CASE Looks(t, b)
  BY <1>2 DEF Looks, Rests
<1>3. CASE PutsOne(t, b)
  BY <1>3 DEF PutsOne, Puts
<1>4. CASE TakesOne(t, b)
  BY <1>4 DEF TakesOne
<1>5. CASE CountsMade(t, b)
  BY <1>5 DEF CountsMade, CountMade
<1>6. CASE CountsTaken(t, b)
  BY <1>6 DEF CountsTaken, CountTaken
<1> QED
  BY <1>1, <1>2, <1>3, <1>4, <1>5, <1>6 DEF Does

LEMMA StoppedStays ==
    ASSUME Typed, Orders, Places(program), [Next]_vars, Stopped
    PROVE  Stopped'
<1>1. UNCHANGED program /\ Main \in Threads
  BY ProgramStays, Texts
<1>2. CASE UNCHANGED at /\ Rests
  BY <1>1, <1>2 DEF Stopped, Rests
<1>3. ASSUME NEW t \in Threads, NEW b \in BOOLEAN, Goes(t, b), Does(t, b) PROVE Stopped'
  <2>1. Now(t) # "run"
    BY <1>3, PlaceRules DEF Stopped
  <2>2. ~running'
    BY <1>3, <2>1, FlagSteps DEF Stopped
  <2>3. at'[Main] \in Settled(program)
    <3>1. CASE t = Main
      BY <1>3, <3>1, PlaceRules DEF Stopped
    <3>2. CASE t # Main
      BY <1>1, <1>3, <3>2, GoesOn DEF Stopped
    <3> QED
      BY <3>1, <3>2
  <2> QED
    BY <1>1, <2>2, <2>3 DEF Stopped
<1> QED
  BY <1>2, <1>3, StepsAlongBranches

\* With the flag down nobody gets to an instruction that puts something.
LEMMA NotToPut ==
    ASSUME Typed, Orders, [Next]_vars, Careful(program), ~running,
           NEW t \in Threads, NEW b \in BOOLEAN, Goes(t, b), Does(t, b)
    PROVE  Now(t)' \notin Puts
<1> SUFFICES ASSUME Now(t)' \in Puts PROVE FALSE
  OBVIOUS
<1> DEFINE e == <<at[t], b>>
<1>1. /\ t \in ThreadsOf(program) /\ e \in Branches(program, t) /\ e[1] = at[t] /\ e[2] = b
      /\ at'[t] = Target(program, t, e) /\ Now(t) = OpAt(program, t, at[t])
      /\ Now(t)' = OpAt(program, t, at'[t])
  BY GoesOn
<1> HIDE DEF e
<1>2. OpAt(program, t, Target(program, t, e)) \in Puts
  BY <1>1
<1>3. e[2] /\ OpAt(program, t, e[1]) \in {"running", "checked"}
  BY <1>1, <1>2 DEF Careful, ForBranches
<1>4. b /\ Now(t) \in {"running", "checked"}
  BY <1>1, <1>3
<1>5. Looks(t, b)
  BY <1>4 DEF Does, PutsOne, Puts, TakesOne, CountsMade, CountMade, CountsTaken, CountTaken, Signals
<1> QED
  BY <1>4, <1>5 DEF Looks

LEMMA NobodyStarts ==
    ASSUME Typed, Orders, [Next]_vars, Careful(program), ~running, NEW u \in Threads, Now(u)' \in Puts
    PROVE  Now(u) \in Puts
<1>1. ASSUME at'[u] = at[u] PROVE Now(u)' = Now(u)
  <2>1. Code(u)' = Code(u)
    BY PlacesKept
  <2> QED
    BY <1>1, <2>1 DEF Now, Done, Here
<1>2. at'[u] = at[u]
  BY NotToPut, GoesOn, StepsAlongBranches
<1> QED
  BY <1>1, <1>2

LEMMA LeavesOneStays ==
    ASSUME Typed, Orders, [Next]_vars, Careful(program), ~running, NEW u \in Threads, LeavesOne(u)
    PROVE  LeavesOne(u)'
<1>1. ASSUME Queued' \subseteq Queued PROVE LeavesOne(u)'
  BY <1>1, NobodyStarts DEF LeavesOne
<1>2. ASSUME NEW t \in Threads, NEW b \in BOOLEAN, Goes(t, b), PutsOne(t, b), b PROVE LeavesOne(u)'
  <2> DEFINE m == <<t, made[t] + 1>>
  <2>1. Queued' = Queued \cup {m}
    BY <1>2, PutAdds
  <2>2. m[1] = t
    OBVIOUS
  <2> HIDE DEF m
  <2>3. CASE u = t
    <3>1. \A n \in Queued : n[1] # u
      BY <1>2, <2>3 DEF LeavesOne, PutsOne
    <3>2. Now(u)' \notin Puts
      BY <1>2, <2>3, NotToPut DEF Does
    <3> QED
      BY <2>1, <2>2, <3>1, <3>2 DEF LeavesOne
  <2>4. CASE u # t
    BY <2>1, <2>2, <2>4, NobodyStarts DEF LeavesOne
  <2> QED
    BY <2>3, <2>4
<1>3. ASSUME NEW t \in Threads, NEW b \in BOOLEAN, PutsOne(t, b), ~b PROVE LeavesOne(u)'
  BY <1>1, <1>3 DEF PutsOne, Queued
<1>4. ASSUME NEW t \in Threads, Received(t) PROVE LeavesOne(u)'
  BY <1>1, <1>4, TakeMoves
<1> QED
  BY <1>1, <1>2, <1>3, <1>4, MessagesOnlyBy

LEMMA SureStays ==
    ASSUME Typed, Orders, Places(program), [Next]_vars, NEW f \in Facts, Sure(f)
    PROVE  Sure(f)'
<1>1. UNCHANGED program /\ Threads' = Threads /\ Workers' = Workers /\ Workers \subseteq Threads
  BY ProgramStays, PlacesKept, Texts DEF Workers, Prog
<1>2. CASE f = "joined"
  BY <1>1, <1>2, DoneStays DEF Sure, Holds
<1>3. CASE f = "quiet"
  BY <1>3, QuietStays DEF Sure, Holds
<1>4. CASE f = "empty"
  BY <1>4, QuietStays, EmptyStays DEF Sure, Holds
<1>5. CASE f = "stopped"
  BY <1>5, StoppedStays DEF Sure, Holds
<1>6. CASE f = "late"
  <2>1. Stopped /\ Careful(program) /\ ~running /\ \A u \in Threads : LeavesOne(u)
    BY <1>6 DEF Sure, Holds, Stopped
  <2>2. Stopped' /\ \A u \in Threads : LeavesOne(u)'
    BY <2>1, StoppedStays, LeavesOneStays
  <2> QED
    BY <1>1, <1>6, <2>1, <2>2 DEF Sure, Holds
<1> QED
  BY <1>2, <1>3, <1>4, <1>5, <1>6 DEF Facts

----------------------------------------------------------------------------
(* What a thread learns from the branch that it takes is so *)

KnownHolds == \A t \in Threads : \A f \in Facts : Knows(program, t, at[t], f) => Sure(f)

\* Whom the main thread has joined is done.
LEMMA JoinWaits ==
    ASSUME Typed, Measures, NEW t \in Threads, NEW b \in BOOLEAN, Does(t, b), NEW u \in Workers,
           Joins(program, t, at[t], u)
    PROVE  Done(u)
<1>1. /\ Prog.workers[u].spawn \in 0..SpawnsBefore(program, at[Main])
      /\ \/ Now(t) = "join" /\ Kind(u) \in {"producer", "consumer", "worker"}
         \/ Now(t) = "join producers" /\ Kind(u) = "producer"
  BY Texts DEF Joins, Prog, Kind
<1>2. Looks(t, b)
  BY <1>1 DEF Does, PutsOne, Puts, TakesOne, CountsMade, CountMade, CountsTaken, CountTaken, Signals
<1>3. Spawned(u) => Done(u)
  BY <1>1, <1>2 DEF Looks, Joined
<1>4. Spawned(u)
  <2>1. Spawned(u) <=> Prog.workers[u].spawn <= spawned
    BY Texts DEF Spawned
  <2>6. Main \in Threads /\ at[Main] \in 1..End(program, Main)
    BY Texts
  <2>2. SpawnsBefore(program, at[Main]) \in Nat
    BY SMTT(30), <2>6, PastIsNumber
  <2>3. Prog.workers[u].spawn \in 0..SpawnsBefore(program, at[Main])
    BY <1>1
  <2>4. spawned \in Nat /\ spawned >= SpawnsBefore(program, at[Main])
    BY DEF Typed, Measures
  <2>5. Prog.workers[u].spawn <= spawned
    BY <2>2, <2>3, <2>4
  <2> QED
    BY <2>1, <2>5
<1> QED
  BY <1>3, <1>4

LEMMA ByJoin ==
    ASSUME Typed, Orders, Measures, Places(program), KnownHolds, [Next]_vars, NEW f \in Facts,
           NEW t \in Threads, NEW b \in BOOLEAN, Goes(t, b), Does(t, b),
           LearnsByJoin(program, Known[program], t, at[t], b, f)
    PROVE  Sure(f)'
<1>0. /\ Threads = ThreadsOf(program) /\ Workers = WorkersOf(program) /\ Workers \subseteq Threads
      /\ Main \notin Workers /\ \A u \in Threads : u # Main => u \in Workers
  BY Texts DEF Threads
<1>1. \A u \in Workers : Joins(program, t, at[t], u) => Done(u)
  BY JoinWaits
<1>2. CASE f = "joined" /\ \A u \in Workers : Joins(program, t, at[t], u)
  <2>1. Sure(f)
    BY <1>1, <1>2 DEF Sure, Holds
  <2> QED
    BY <2>1, SureStays
<1>3. ASSUME NEW u \in Workers, Joins(program, t, at[t], u), <<u, End(program, u), f>> \in Known[program]
      PROVE  Sure(f)'
  <2>1. at[u] = End(program, u)
    BY <1>0, <1>1, <1>3, Texts
  <2>2. Sure(f)
    BY <1>0, <1>3, <2>1 DEF KnownHolds, Knows
  <2> QED
    BY <2>2, SureStays
<1>4. CASE /\ f = "quiet"
           /\ Left[program][t][Target(program, t, <<at[t], b>>)] = 0
           /\ \A u \in Threads \ {t} : Left[program][u][1] = 0 \/ (u # Main /\ Joins(program, t, at[t], u))
  <2>1. ASSUME NEW u \in Threads PROVE Left[program][u][at'[u]] = 0
    <3>1. CASE u = t
      BY <1>4, <3>1, GoesOn
    <3>2. CASE u # t /\ Left[program][u][1] = 0
      <4>1. Left[program][u][at[u]] <= Left[program][u][1]
        BY DEF Measures
      <4>2. /\ Left[program][u][at'[u]] \in Nat /\ Left[program][u][at[u]] \in Nat
            /\ Left[program][u][at'[u]] <= Left[program][u][at[u]]
        BY LeftFalls
      <4> QED
        BY <3>2, <4>1, <4>2
    <3>3. CASE u # t /\ u # Main /\ Joins(program, t, at[t], u)
      <4>1. at[u] = End(program, u) /\ u \in ThreadsOf(program)
        BY <1>0, <1>1, <3>3, Texts
      <4>2. at'[u] = at[u]
        BY <3>3, GoesOn
      <4> QED
        BY <4>1, <4>2 DEF Places
    <3> QED
      BY <1>4, <3>1, <3>2, <3>3
  <2>2. UNCHANGED program /\ Threads' = Threads
    BY GoesOn
  <2>3. Quiet'
    BY <2>1, <2>2 DEF Quiet
  <2> QED
    BY <1>4, <2>3 DEF Sure, Holds
<1> QED
  BY <1>0, <1>2, <1>3, <1>4 DEF LearnsByJoin

LEMMA ByLooking ==
    ASSUME Typed, Orders, Places(program), KnownHolds, [Next]_vars, NEW f \in Facts,
           NEW t \in Threads, NEW b \in BOOLEAN, Goes(t, b), Does(t, b),
           LearnsByLooking(program, Known[program], t, at[t], b, f)
    PROVE  Sure(f)'
<1>1. FindsNothing(Now(t), b)
  BY Texts DEF LearnsByLooking
<1>2. queue = <<>>
  <2>1. CASE Now(t) = "nonempty" /\ ~b
    <3>1. Looks(t, b)
      BY <2>1 DEF Does, PutsOne, Puts, TakesOne, CountsMade, CountMade, CountsTaken, CountTaken, Signals
    <3> QED
      BY <2>1, <3>1 DEF Looks
  <2>2. CASE Now(t) \in {"take", "takes"} /\ ~b
    BY <2>2, KindOfBranch, TakesWhatThereIs
  <2>3. CASE Now(t) = "misses" /\ b
    BY <2>3, KindOfBranch, TakesWhatThereIs
  <2> QED
    BY <1>1, <2>1, <2>2, <2>3 DEF FindsNothing
<1>3. CASE f = "empty" /\ <<t, at[t], "quiet">> \in Known[program]
  <2>1. Quiet
    BY <1>3 DEF KnownHolds, Knows, Facts, Sure, Holds
  <2>2. Sure(f)
    BY <1>2, <1>3, <2>1 DEF Sure, Holds
  <2> QED
    BY <2>2, SureStays
<1>4. CASE f = "late" /\ <<t, at[t], "stopped">> \in Known[program] /\ Careful(program)
  <2>1. Stopped
    BY <1>4 DEF KnownHolds, Knows, Facts, Sure, Holds
  <2>2. Queued = {}
    BY <1>2 DEF Queued
  <2>3. Sure(f)
    BY <1>4, <2>1, <2>2 DEF Sure, Holds, LeavesOne
  <2> QED
    BY <2>3, SureStays
<1> QED
  BY <1>3, <1>4 DEF LearnsByLooking

LEMMA ByStopping ==
    ASSUME Typed, Orders, Places(program), [Next]_vars, NEW f \in Facts,
           NEW t \in Threads, NEW b \in BOOLEAN, Goes(t, b), Does(t, b),
           LearnsByStopping(program, t, at[t], b, f)
    PROVE  Sure(f)'
<1>1. f = "stopped" /\ Now(t) = "stop"
  BY Texts DEF LearnsByStopping
<1>2. ~running'
  BY <1>1, FlagSteps
<1>3. /\ at'[t] = Target(program, t, <<at[t], b>>) /\ UNCHANGED program
      /\ Main \in Threads /\ at'[Main] \in 1..End(program, Main)
  <2>1. Main \in Threads /\ End(program, Main) = Len(Code(Main)) + 1
    BY Texts DEF End
  <2>2. at'[Main] \in 1..(Len(Code(Main)) + 1)
    BY <2>1, PlacesKept
  <2> QED
    BY <2>1, <2>2, GoesOn
<1>4. at'[Main] \in Settled(program)
  BY <1>3 DEF LearnsByStopping
<1> QED
  BY <1>1, <1>2, <1>3, <1>4 DEF Sure, Holds, Stopped

LEMMA ByBurst ==
    ASSUME Typed, Orders, Measures, Places(program), KnownHolds, [Next]_vars, NEW f \in Facts,
           NEW t \in Threads, NEW b \in BOOLEAN, Goes(t, b), Does(t, b),
           LearnsByBurst(program, Known[program], t, at[t], b, f)
    PROVE  Sure(f)'
<1>1. /\ Now(t) = "bursts" /\ ~b /\ Here(t).limit \in Nat
      /\ \A k \in 1..End(program, Main) :
            BurstsBefore(program, k) >= Here(t).limit => <<Main, k, f>> \in Known[program]
  BY Texts DEF LearnsByBurst, Here
<1>2. Looks(t, b)
  BY <1>1 DEF Does, PutsOne, Puts, TakesOne, CountsMade, CountMade, CountsTaken, CountTaken, Signals
<1>3. ~(burst < Here(t).limit)
  BY <1>1, <1>2 DEF Looks
<1>4. Main \in Threads /\ at[Main] \in 1..End(program, Main)
  BY Texts
<1>5. BurstsBefore(program, at[Main]) >= Here(t).limit
  <2>1. burst \in Nat /\ burst <= BurstsBefore(program, at[Main])
    BY DEF Typed, Measures
  <2>2. BurstsBefore(program, at[Main]) \in Nat
    BY <1>4, PastIsNumber
  <2>3. Here(t).limit \in Nat
    BY <1>1
  <2> QED
    BY <1>3, <2>1, <2>2, <2>3
<1>6. Sure(f)
  BY <1>1, <1>4, <1>5 DEF KnownHolds, Knows
<1> QED
  BY <1>6, SureStays

\* The counter has come to as many messages as there can be.
LEMMA AllSeen ==
    ASSUME Ground, Places(program), Frugal(program), Cardinality(Budget(program)) <= Cardinality(AllMeasured)
    PROVE  Sure("empty")
<1>1. AllMeasured \subseteq AllMade
  BY QueuedIsFinite DEF Ground
<1>2. AllMeasured = AllMade /\ Quiet
  BY <1>1, BudgetSpent DEF Ground
<1>3. Queued = {} /\ Cardinality(Queued) = Len(queue)
  BY <1>2 DEF Ground, Conserved
<1>4. Len(queue) = 0 /\ queue \in Seq(Threads \X Nat)
  BY <1>3, FS_EmptySet DEF Ground, Orders
<1>5. queue = <<>>
  BY <1>4, EmptySeq
<1> QED
  BY <1>2, <1>5 DEF Sure, Holds

LEMMA ByCounting ==
    ASSUME Ground, Places(program), "taken" \in Prog.counts => Counts(program, Taking), [Next]_vars,
           NEW f \in Facts, NEW t \in Threads, NEW b \in BOOLEAN, Goes(t, b), Does(t, b),
           LearnsByCounting(program, t, at[t], b, f)
    PROVE  Sure(f)'
<1> DEFINE n == Cardinality(Budget(program))
<1>1. /\ f = "empty" /\ Frugal(program)
      /\ \/ Now(t) = "misses" /\ ~b /\ n <= 1
         \/ /\ "taken" \in Prog.counts
            /\ \/ Now(t) = "missing" /\ ~b /\ Here(t).limit \in Nat /\ n <= Here(t).limit
               \/ Now(t) = "count last" /\ b /\ n <= Prog.total
  BY Texts DEF LearnsByCounting, Here, Prog, Ground
<1>2. /\ Typed /\ Orders /\ Conserved /\ Measures /\ CountsMatch
      /\ IsFiniteSet(AllMade) /\ Cardinality(Queued) = Len(queue)
  BY DEF Ground
<1>3. n \in Nat
  BY <1>2, BudgetIsFinite
<1>4. Cardinality(AllMeasured) \in Nat /\ Queued \subseteq AllMade /\ AllMeasured \subseteq AllMade
  BY <1>2, QueuedIsFinite
<1>5. CASE Now(t) = "missing" /\ ~b /\ Here(t).limit \in Nat /\ n <= Here(t).limit /\ "taken" \in Prog.counts
  <2>1. ~(consumed < Here(t).limit)
    <3>1. Looks(t, b)
      BY <1>5 DEF Does, PutsOne, Puts, TakesOne, CountsMade, CountMade, CountsTaken, CountTaken, Signals
    <3> QED
      BY <1>5, <3>1 DEF Looks
  <2>2. consumed \in Nat /\ consumed <= Cardinality(AllMeasured)
    BY <1>2, <1>5, CountIsCareful DEF Typed
  <2>3. n <= Cardinality(AllMeasured)
    BY <1>3, <1>4, <1>5, <2>1, <2>2
  <2>4. Sure(f)
    BY <1>1, <2>3, AllSeen
  <2> QED
    BY <1>2, <2>4, SureStays
<1>6. CASE Now(t) = "count last" /\ b /\ n <= Prog.total /\ "taken" \in Prog.counts
  <2>1. Counts(program, Taking) /\ CountsTaken(t, b)
    <3>1. CountsTaken(t, b)
      BY <1>6 DEF Does, Looks, PutsOne, Puts, TakesOne, CountsMade, CountMade, Signals
    <3> QED
      BY <1>6, <3>1
  <2>2. consumed' = Prog.total /\ UNCHANGED <<measured, program>>
    BY <1>6, <2>1 DEF CountsTaken
  <2>3. consumed' = consumed + 1
    BY <1>6, CounterSteps DEF Taking
  <2>4. t \in Workers /\ TallyAt(t, Taking) = "last"
    <3>1. Now(t) \in Taking.counts
      BY <1>6 DEF Taking
    <3> QED
      BY <1>2, <2>1, <3>1, TallyRules DEF Threads
  <2>5. consumed + 1 <= Cardinality(AllMeasured) /\ consumed \in Nat
    BY <1>2, <2>1, <2>4, CountIsCareful DEF Typed
  <2>6. n <= Cardinality(AllMeasured)
    <3>1. n <= Prog.total /\ consumed' = Prog.total
      BY <1>6, <2>2, Zenon
    <3> HIDE DEF n
    <3>2. n \in Nat
      BY <1>3 DEF n
    <3> QED
      BY <1>4, <2>3, <2>5, <3>1, <3>2
  <2>7. Sure(f)
    BY <1>1, <2>6, AllSeen
  <2> QED
    BY <1>2, <2>7, SureStays
<1>7. CASE Now(t) = "misses" /\ ~b /\ n <= 1
  <2>1. TakesOne(t, b) /\ Received(t)
    BY <1>2, <1>7, KindOfBranch, TakesWhatThereIs
  <2>2. queue[1] \in Queued /\ Queued' = Queued \ {queue[1]}
    BY <1>2, <2>1, TakeMoves
  <2>3. Cardinality({queue[1]}) = 1
    BY FS_Singleton
  <2>4. {queue[1]} = AllMade /\ Quiet
    <3>1. {queue[1]} \subseteq AllMade /\ n <= Cardinality({queue[1]})
      BY <1>4, <1>7, <2>2, <2>3
    <3> QED
      BY <1>1, <1>2, <3>1, BudgetSpent
  <2>5. Queued' = {}
    BY <1>4, <2>2, <2>4
  <2>6. queue' = <<>>
    <3>1. Cardinality(Queued') = Len(queue')
      BY <1>2, LengthStep
    <3>2. Len(queue') = 0
      BY <2>5, <3>1, FS_EmptySet
    <3>3. Orders'
      BY <1>2, OrdersStep
    <3> QED
      BY <3>2, <3>3, EmptySeq DEF Orders
  <2>7. Quiet'
    BY <1>2, <2>4, QuietStays
  <2> QED
    BY <1>1, <2>6, <2>7 DEF Sure, Holds
<1> QED
  BY <1>1, <1>5, <1>6, <1>7

\* A queue that has room for everything refuses nothing.
LEMMA NeverRefused ==
    ASSUME Ground, Places(program), [Next]_vars, NEW t \in Threads, NEW b \in BOOLEAN, Goes(t, b), Does(t, b),
           IsNeverRefused(program, t, at[t], b)
    PROVE  FALSE
<1> DEFINE n == Cardinality(Budget(program))
<1>1. /\ Typed /\ Orders /\ Conserved /\ Measures
      /\ IsFiniteSet(AllMade) /\ Cardinality(Queued) = Len(queue)
  BY DEF Ground
<1>2. Now(t) \in Puts /\ Now(t) # "either" /\ ~b /\ Frugal(program) /\ n <= Prog.capacity
  BY <1>1, Texts DEF IsNeverRefused, Prog
<1>3. ~HasRoom
  <2>1. PutsOne(t, b)
    BY <1>2, KindOfBranch DEF Puts
  <2> QED
    BY <1>2, <2>1 DEF PutsOne
<1>4. Left[program][t][at[t]] # 0
  BY <1>1, <1>2, PlaceRules
<1>5. AllMade \subseteq Budget(program) /\ AllMade # Budget(program)
  BY <1>1, <1>2, <1>4, WithinBudget
<1>6. IsFiniteSet(Budget(program)) /\ n \in Nat
  BY <1>1, BudgetIsFinite
<1>7. Queued \subseteq Budget(program) /\ Queued # Budget(program) /\ Cardinality(Queued) \in Nat
  BY <1>1, <1>5, QueuedIsFinite
<1>8. Cardinality(Queued) <= n /\ Cardinality(Queued) # n
  BY <1>6, <1>7, FS_Subset
<1>9. Prog.capacity \in Nat
  BY <1>1, ProgramIsCode DEF Typed
<1>10. Len(queue) < Prog.capacity
  BY <1>1, <1>2, <1>6, <1>7, <1>8, <1>9
<1> QED
  BY <1>3, <1>10 DEF HasRoom

\* The rules together.
LEMMA ByLearning ==
    ASSUME Ground, KnownHolds, Follows(program), [Next]_vars, NEW f \in Facts,
           NEW t \in Threads, NEW b \in BOOLEAN, Goes(t, b), Does(t, b),
           Learns(program, Known[program], t, at[t], b, f)
    PROVE  Sure(f)'
<1>1. Typed /\ Orders /\ Measures
  BY DEF Ground
<1>2. Places(program) /\ ("taken" \in Prog.counts => Counts(program, Taking))
  BY DEF Follows, Prog
<1>3. CASE <<t, at[t], f>> \in Known[program]
  <2>1. Sure(f)
    BY <1>3 DEF KnownHolds, Knows
  <2> QED
    BY <1>1, <1>2, <2>1, SureStays
<1> QED
  BY <1>1, <1>2, <1>3, NeverRefused, ByJoin, ByLooking, ByCounting, ByBurst, ByStopping DEF Learns

\* Since the flag has fallen, everybody can rely on what they know who lower it.
Told ==
    Prog.running /\ ~running =>
        \A f \in Facts :
            (\A u \in Threads : \A k \in 1..Len(Code(u)) :
                OpAt(program, u, k) = "stop" => Learns(program, Known[program], u, k, TRUE, f))
            => Sure(f)

LEMMA ToldStep ==
    ASSUME Ground, KnownHolds, Follows(program), Told, [Next]_vars
    PROVE  Told'
<1>1. Typed /\ Orders /\ Measures /\ Places(program)
  BY DEF Ground, Follows
<1>2. UNCHANGED program /\ Prog' = Prog /\ Threads' = Threads /\ \A u \in Threads : Code(u)' = Code(u)
  BY <1>1, ProgramStays, PlacesKept DEF Prog
<1>3. SUFFICES ASSUME Prog.running, ~running', NEW f \in Facts,
                      \A u \in Threads : \A k \in 1..Len(Code(u)) :
                         OpAt(program, u, k) = "stop" => Learns(program, Known[program], u, k, TRUE, f)
               PROVE  Sure(f)'
  BY <1>2 DEF Told
<1>4. CASE ~running
  <2>1. Sure(f)
    BY <1>3, <1>4 DEF Told
  <2> QED
    BY <1>1, <2>1, SureStays
<1>5. CASE running
  <2>1. PICK t \in Threads, b \in BOOLEAN : Goes(t, b) /\ Does(t, b)
    BY <1>1, <1>3, <1>5, StepsAlongBranches DEF Rests
  <2>2. Now(t) = "stop" /\ b = TRUE
    BY <1>3, <1>5, <2>1, FlagSteps
  <2>3. at[t] \in 1..Len(Code(t)) /\ Now(t) = OpAt(program, t, at[t])
    BY <1>1, <2>1, Texts DEF Goes, Branches
  <2>4. Learns(program, Known[program], t, at[t], TRUE, f)
    BY <1>3, <2>2, <2>3
  <2> QED
    BY <2>1, <2>2, <2>4, ByLearning
<1> QED
  BY <1>1, <1>4, <1>5 DEF Typed

LEMMA KnownHoldsStep ==
    ASSUME Ground, KnownHolds, Follows(program), Told, [Next]_vars
    PROVE  KnownHolds'
<1>1. Typed /\ Orders /\ Measures /\ Places(program)
  BY DEF Ground, Follows
<1>2. UNCHANGED program /\ Threads' = Threads /\ Known[program]' = Known[program]
  BY <1>1, ProgramStays, PlacesKept
<1>3. ASSUME NEW u \in Threads, at'[u] = at[u], NEW f \in Facts, Knows(program, u, at'[u], f)
      PROVE  Sure(f)'
  <2>1. Sure(f)
    BY <1>3 DEF KnownHolds
  <2> QED
    BY <1>1, <2>1, SureStays
<1>4. ASSUME NEW t \in Threads, NEW b \in BOOLEAN, Goes(t, b), Does(t, b), NEW f \in Facts, Knows(program, t, at'[t], f)
      PROVE  Sure(f)'
  <2> DEFINE e == <<at[t], b>>
             k == <<t, at'[t], f>>
  <2>1. e \in Branches(program, t) /\ Target(program, t, e) = at'[t] /\ e[1] = at[t] /\ e[2] = b
    BY <1>1, <1>4, GoesOn
  <2>2. k \in Known[program] /\ k[1] = t /\ k[2] = at'[t] /\ k[3] = f
    BY <1>4 DEF Knows
  <2> HIDE DEF e, k
  <2>3. Justified(program, Known[program], t, at'[t], f)
    BY <2>2 DEF Follows
  <2>4. \/ Learns(program, Known[program], t, at[t], b, f)
        \/ LearnsFromFlag(program, Known[program], t, at[t], b, f)
    BY <2>1, <2>3 DEF Justified
  <2>5. CASE Learns(program, Known[program], t, at[t], b, f)
    BY <1>4, <2>5, ByLearning
  <2>6. CASE LearnsFromFlag(program, Known[program], t, at[t], b, f)
    <3>1. Now(t) = "running" /\ ~b /\ Prog.running
      BY <1>1, <2>6, Texts DEF LearnsFromFlag, Prog
    <3>2. ~running
      <4>1. Looks(t, b)
        BY <1>4, <3>1 DEF Does, PutsOne, Puts, TakesOne, CountsMade, CountMade, CountsTaken, CountTaken, Signals
      <4> QED
        BY <3>1, <4>1 DEF Looks
    <3>3. \A u \in Threads : \A i \in 1..Len(Code(u)) :
             OpAt(program, u, i) = "stop" => Learns(program, Known[program], u, i, TRUE, f)
      BY <1>1, <2>6, Texts DEF LearnsFromFlag
    <3>4. Sure(f)
      BY <3>1, <3>2, <3>3 DEF Told
    <3> QED
      BY <1>1, <3>4, SureStays
  <2> QED
    BY <2>4, <2>5, <2>6
<1>5. ASSUME NEW u \in Threads, NEW f \in Facts, Knows(program, u, at'[u], f) PROVE Sure(f)'
  <2>1. CASE UNCHANGED at
    BY <1>3, <1>5, <2>1
  <2>2. ASSUME NEW t \in Threads, NEW b \in BOOLEAN, Goes(t, b), Does(t, b) PROVE Sure(f)'
    <3>1. CASE u = t
      BY <1>4, <1>5, <2>2, <3>1
    <3>2. CASE u # t
      BY <1>1, <1>3, <1>5, <2>2, <3>2, GoesOn
    <3> QED
      BY <3>1, <3>2
  <2> QED
    BY <1>1, <2>1, <2>2, StepsAlongBranches
<1> QED
  BY <1>2, <1>5 DEF KnownHolds, Knows

\* All of it: what the outlines say, for a program whose text follows the rules.
Outline ==
    /\ Follows(program)
    /\ Ground /\ KnownHolds /\ Told

LEMMA OutlineInit == Init /\ Follows(program) => Outline
<1> SUFFICES ASSUME Init, Follows(program) PROVE Outline
  OBVIOUS
<1>1. Ground
  BY TypedInit, OrdersInit, ConservedInit, MeasuresInit, CountsMatchInit, FewMadeInit, LengthInit DEF Ground, Follows
<1>2. KnownHolds
  <2> SUFFICES ASSUME NEW t \in Threads, NEW f \in Facts, Knows(program, t, at[t], f)
               PROVE  FALSE
    BY DEF KnownHolds
  <2> DEFINE k == <<t, at[t], f>>
  <2>1. at[t] = 1
    BY DEF Init
  <2>2. k \in Known[program] /\ k[1] = t /\ k[2] = 1 /\ k[3] = f
    BY <2>1 DEF Knows
  <2> HIDE DEF k
  <2>3. Justified(program, Known[program], t, 1, f)
    BY <2>2 DEF Follows
  <2> QED
    BY <2>3 DEF Justified
<1>3. Told
  BY DEF Told, Init
<1> QED
  BY <1>1, <1>2, <1>3 DEF Outline

LEMMA OutlineStep == Outline /\ [Next]_vars => Outline'
<1> SUFFICES ASSUME Outline, [Next]_vars PROVE Outline'
  OBVIOUS
<1> USE DEF Outline
<1>1. Follows(program)'
  BY ProgramStays
<1>2. Ground'
  <2>1. Typed' /\ Orders' /\ Conserved' /\ IsFiniteSet(AllMade)'
    BY TypedStep, OrdersStep, ConservedStep, FewMadeStep DEF Ground
  <2>2. Measures'
    BY MeasuresStep DEF Ground, Follows
  <2>3. CountsMatch'
    BY CountsMatchStep DEF Ground
  <2>4. (Cardinality(Queued) = Len(queue))'
    BY LengthStep DEF Ground
  <2> QED
    BY <2>1, <2>2, <2>3, <2>4 DEF Ground
<1> QED
  BY <1>1, <1>2, KnownHoldsStep, ToldStep

LEMMA OutlineAlways == Spec /\ Follows(program) => []Outline
<1> QED
  BY OutlineInit, OutlineStep, PTL DEF Spec

\* Init leads to a program of the list.
LEMMA DisciplineIsRules ==
    ASSUME program \in DOMAIN Programs
    PROVE  Disciplined[program] = Follows(program)
BY DEF Disciplined

\* Any program whose text follows the rules behaves as its outline says, however
\* its threads meet: what one of them may rely on is never made false by another.
THEOREM OutlinesHold == Spec /\ Disciplined[program] => []Outlined
<1>1. Init /\ Disciplined[program] => Follows(program)
  BY DisciplineIsRules DEF Init
<1>2. Outline => Outlined
  BY DisciplineIsRules DEF Outline, Outlined, Ground, Typed, KnownHolds, Sure
<1> QED
  BY <1>1, <1>2, OutlineInit, OutlineStep, PTL DEF Spec

\* The same, said of the steps: none takes from another thread what it relies on.
THEOREM NobodyInterferes == Spec /\ Disciplined[program] => NoInterference
<1>1. Outlined' => [Outlined']_vars
  OBVIOUS
<1> QED
  BY <1>1, OutlinesHold, PTL DEF NoInterference

----------------------------------------------------------------------------
(* Threads that take back what they have put *)

\* What the threads in S have put and not taken: as many as L says.
OwedBy(L, S) == UNION {{u} \X (1..L[u]) : u \in S}
Credits == [u \in Threads |-> Credit[program][u][at[u]]]
Settles == Balanced(program) =>
    /\ IsFiniteSet(OwedBy(Credits, Threads))
    /\ Cardinality(OwedBy(Credits, Threads)) = Len(queue)

LEMMA OneMoreOwed ==
    ASSUME NEW S, NEW L, NEW L2, NEW t \in S, \A u \in S \ {t} : L2[u] = L[u],
           L[t] \in Nat, L2[t] = L[t] + 1,
           IsFiniteSet(OwedBy(L, S)) \/ IsFiniteSet(OwedBy(L2, S))
    PROVE  /\ IsFiniteSet(OwedBy(L, S)) /\ IsFiniteSet(OwedBy(L2, S))
           /\ Cardinality(OwedBy(L, S)) \in Nat
           /\ Cardinality(OwedBy(L2, S)) = Cardinality(OwedBy(L, S)) + 1
<1> DEFINE m == <<t, L[t] + 1>>
<1>1. \A u \in S \ {t} : {u} \X (1..L2[u]) = {u} \X (1..L[u])
  OBVIOUS
<1>2. {t} \X (1..L2[t]) = ({t} \X (1..L[t])) \cup {m}
  <2>1. 1..L2[t] = (1..L[t]) \cup {L[t] + 1}
    OBVIOUS
  <2> QED
    BY <2>1
<1>3. m \notin {t} \X (1..L[t]) /\ \A u \in S \ {t} : m \notin {u} \X (1..L[u])
  OBVIOUS
<1>4. OwedBy(L2, S) = OwedBy(L, S) \cup {m} /\ m \notin OwedBy(L, S)
  <2> HIDE DEF m
  <2> DEFINE A == [u \in S |-> {u} \X (1..L[u])]
             B == [u \in S |-> {u} \X (1..L2[u])]
  <2>1. OwedBy(L, S) = UNION {A[u] : u \in S} /\ OwedBy(L2, S) = UNION {B[u] : u \in S}
    BY DEF OwedBy
  <2>2. (\A u \in S \ {t} : B[u] = A[u]) /\ B[t] = A[t] \cup {m} /\ \A u \in S : m \notin A[u]
    BY <1>1, <1>2, <1>3
  <2> HIDE DEF A, B
  <2> QED
    BY <2>1, <2>2
<1> HIDE DEF m
<1>5. IsFiniteSet(OwedBy(L, S))
  <2>1. OwedBy(L, S) \subseteq OwedBy(L2, S)
    BY <1>4
  <2> QED
    BY <2>1, FS_Subset
<1> QED
  BY <1>4, <1>5, FS_AddElement, FS_CardinalityType

LEMMA OwedByOne ==
    ASSUME NEW t, NEW n \in Nat
    PROVE  IsFiniteSet({t} \X (1..n)) /\ Cardinality({t} \X (1..n)) = n
<1> DEFINE one == {t}
           S == 1..n
<1>1. IsFiniteSet(one) /\ Cardinality(one) = 1
  BY FS_Singleton
<1>2. IsFiniteSet(S) /\ Cardinality(S) = n
  BY FS_Interval
<1> HIDE DEF one, S
<1>3. IsFiniteSet(one \X S) /\ Cardinality(one \X S) = Cardinality(one) * Cardinality(S)
  BY <1>1, <1>2, FS_Product
<1>4. Cardinality(one \X S) = n
  BY <1>1, <1>2, <1>3
<1> QED
  BY <1>3, <1>4 DEF one, S

\* What Balanced says of the branch that is taken.
LEMMA CreditRules ==
    ASSUME Typed, Orders, [Next]_vars, Balanced(program), NEW t \in Threads, NEW b \in BOOLEAN, Goes(t, b),
           NEW before, before = Credit[program][t][at[t]],
           NEW after, after = Credit[program][t][at'[t]]
    PROVE  /\ before \in Nat /\ after \in Nat
           /\ \A u \in Threads \ {t} : Credit[program][u][at'[u]] = Credit[program][u][at[u]]
           /\ Now(t) \notin {"either", "misses"}
           /\ Now(t) \in {"put", "prefill"} =>
                 IF b THEN after = before + 1
                      ELSE after = before \/ (Alone(program) /\ before < Prog.capacity)
           /\ Now(t) \in {"take", "takes"} =>
                 IF b THEN after = before - 1 \/ (Alone(program) /\ before = 0)
                      ELSE before > 0 \/ after = 0
           /\ Now(t) \notin {"put", "prefill", "take", "takes"} => after = before
<1> DEFINE e == <<at[t], b>>
<1>1. e \in Branches(program, t) /\ e[1] = at[t] /\ e[2] = b /\ Target(program, t, e) = at'[t]
      /\ OpAt(program, t, at[t]) = Now(t) /\ t \in ThreadsOf(program)
  BY GoesOn
<1> HIDE DEF e
<1>2. /\ \A u \in ThreadsOf(program) : \A i \in 1..End(program, u) : Credit[program][u][i] \in Nat
      /\ at[t] \in 1..End(program, t) /\ at'[t] \in 1..End(program, t)
  BY GoesOn DEF Balanced
<1>3. \A u \in Threads \ {t} : at'[u] = at[u]
  BY GoesOn
<1> QED
  BY <1>1, <1>2, <1>3 DEF Balanced, ForBranches, Prog

LEMMA SettlesInit == Init => Settles
<1> SUFFICES ASSUME Init, Balanced(program) PROVE
      IsFiniteSet(OwedBy(Credits, Threads)) /\ Cardinality(OwedBy(Credits, Threads)) = Len(queue)
  BY DEF Settles
<1>1. Typed
  BY TypedInit
<1>2. \A u \in Threads : Credits[u] = 0
  BY <1>1, Texts DEF Credits, Init, Balanced
<1>3. OwedBy(Credits, Threads) = {}
  <2>1. \A u \in Threads : {u} \X (1..Credits[u]) = {}
    BY <1>2
  <2> QED
    BY <2>1 DEF OwedBy
<1> QED
  BY <1>3, FS_EmptySet DEF Init

LEMMA SettlesStep ==
    ASSUME Typed, Orders, Conserved, IsFiniteSet(AllMade), Settles, [Next]_vars
    PROVE  Settles'
<1>1. UNCHANGED program /\ Threads' = Threads /\ Prog' = Prog
  BY ProgramStays, PlacesKept DEF Prog
<1>2. SUFFICES ASSUME Balanced(program)
               PROVE  /\ IsFiniteSet(OwedBy(Credits', Threads))
                      /\ Cardinality(OwedBy(Credits', Threads)) = Len(queue')
  BY <1>1 DEF Settles
<1>3. IsFiniteSet(OwedBy(Credits, Threads)) /\ Cardinality(OwedBy(Credits, Threads)) = Len(queue)
  BY <1>2 DEF Settles
<1>4. CASE UNCHANGED at /\ Rests
  <2>1. Credits' = Credits
    BY <1>1, <1>4 DEF Credits
  <2> QED
    BY <1>3, <1>4, <2>1 DEF Rests
<1>5. ASSUME NEW t \in Threads, NEW b \in BOOLEAN, Goes(t, b), Does(t, b)
      PROVE  /\ IsFiniteSet(OwedBy(Credits', Threads))
             /\ Cardinality(OwedBy(Credits', Threads)) = Len(queue')
  <2> DEFINE before == Credits[t]
             after == Credits'[t]
  <2>1. /\ before \in Nat /\ after \in Nat
        /\ \A u \in Threads \ {t} : Credits'[u] = Credits[u]
        /\ Now(t) \notin {"either", "misses"}
        /\ Now(t) \in {"put", "prefill"} =>
              IF b THEN after = before + 1
                   ELSE after = before \/ (Alone(program) /\ before < Prog.capacity)
        /\ Now(t) \in {"take", "takes"} =>
              IF b THEN after = before - 1 \/ (Alone(program) /\ before = 0)
                   ELSE before > 0 \/ after = 0
        /\ Now(t) \notin {"put", "prefill", "take", "takes"} => after = before
    <3>1. before = Credit[program][t][at[t]] /\ after = Credit[program][t][at'[t]]
          /\ \A u \in Threads \ {t} : Credits[u] = Credit[program][u][at[u]] /\ Credits'[u] = Credit[program][u][at'[u]]
      BY <1>1 DEF Credits
    <3> HIDE DEF before, after
    <3> QED
      BY <1>2, <1>5, <3>1, CreditRules
  <2>2. Len(queue) \in Nat /\ Prog.capacity \in Nat
    BY ProgramIsCode DEF Orders, Typed
  <2>3. before <= Len(queue) /\ (Alone(program) => before = Len(queue))
    <3>1. {t} \X (1..before) \subseteq OwedBy(Credits, Threads)
      BY DEF OwedBy
    <3>2. IsFiniteSet({t} \X (1..before)) /\ Cardinality({t} \X (1..before)) = before
      <4> HIDE DEF before, after
      <4> QED
        BY <2>1, OwedByOne
    <3>3. before <= Len(queue)
      BY <1>3, <3>1, <3>2, FS_Subset
    <3>4. ASSUME Alone(program) PROVE OwedBy(Credits, Threads) = {t} \X (1..before)
      <4>1. Threads = {t}
        BY <3>4, Texts DEF Alone, ThreadsOf
      <4> QED
        BY <4>1 DEF OwedBy
    <3> QED
      BY <1>3, <3>2, <3>3, <3>4
  <2> HIDE DEF before, after
  <2>4. Credits' = [u \in Threads |-> Credits'[u]] /\ Credits = [u \in Threads |-> Credits[u]]
    BY <1>1 DEF Credits
  <2>5. ASSUME after = before, Len(queue') = Len(queue)
        PROVE  IsFiniteSet(OwedBy(Credits', Threads)) /\ Cardinality(OwedBy(Credits', Threads)) = Len(queue')
    <3>1. \A u \in Threads : Credits'[u] = Credits[u]
      BY <2>1, <2>5 DEF before, after
    <3>2. Credits' = Credits
      BY <2>4, <3>1
    <3> QED
      BY <1>3, <2>5, <3>2
  <2>6. CASE Now(t) \in {"put", "prefill"}
    <3>1. PutsOne(t, b)
      BY <1>5, <2>6, KindOfBranch
    <3>2. CASE b
      <4>1. after = before + 1
        BY <2>1, <2>6, <3>2
      <4>2. Len(queue') = Len(queue) + 1
        BY <3>1, <3>2 DEF PutsOne, Orders
      <4> QED
        BY <1>3, <2>1, <2>2, <4>1, <4>2, OneMoreOwed DEF before, after
    <3>3. CASE ~b
      <4>1. UNCHANGED queue /\ ~(Len(queue) < Prog.capacity)
        BY <3>1, <3>3 DEF PutsOne, HasRoom
      <4>2. after = before \/ (Alone(program) /\ before < Prog.capacity)
        BY <2>1, <2>6, <3>3
      <4>3. after = before
        BY <2>1, <2>2, <2>3, <4>1, <4>2
      <4> QED
        BY <2>5, <4>1, <4>3
    <3> QED
      BY <3>2, <3>3
  <2>7. CASE Now(t) \in {"take", "takes"}
    <3>1. TakesOne(t, b) /\ Now(t) # "misses"
      BY <1>5, <2>7, KindOfBranch
    <3>2. \/ queue = <<>> /\ UNCHANGED queue /\ ~b
          \/ queue # <<>> /\ Received(t) /\ b
      BY <1>5, <3>1, TakesWhatThereIs
    <3>3. CASE queue = <<>> /\ UNCHANGED queue /\ ~b
      <4>1. Len(queue) = 0
        BY <3>3
      <4>2. before > 0 \/ after = 0
        BY <2>1, <2>7, <3>3
      <4>3. after = before
        BY <2>1, <2>3, <4>1, <4>2
      <4> QED
        BY <2>5, <3>3, <4>3
    <3>4. CASE queue # <<>> /\ Received(t) /\ b
      <4>1. Len(queue') = Len(queue) - 1 /\ Len(queue) # 0
        BY <3>4, EmptySeq DEF Received, Orders
      <4>2. after = before - 1 \/ (Alone(program) /\ before = 0)
        BY <2>1, <2>7, <3>4
      <4>3. before = after + 1
        BY <2>1, <2>3, <4>1, <4>2
      <4>4. /\ IsFiniteSet(OwedBy(Credits', Threads)) /\ Cardinality(OwedBy(Credits', Threads)) \in Nat
            /\ Cardinality(OwedBy(Credits, Threads)) = Cardinality(OwedBy(Credits', Threads)) + 1
        BY <1>3, <2>1, <4>3, OneMoreOwed DEF before, after
      <4> QED
        BY <1>3, <2>2, <4>1, <4>4
    <3> QED
      BY <3>2, <3>3, <3>4
  <2>8. CASE Now(t) \notin {"put", "prefill", "take", "takes"}
    <3>1. UNCHANGED queue
      BY <1>5, <2>1, <2>8, KindOfBranch
    <3>2. after = before
      BY <2>1, <2>8
    <3> QED
      BY <2>5, <3>1, <3>2
  <2> QED
    BY <2>6, <2>7, <2>8
<1> QED
  BY <1>4, <1>5, StepsAlongBranches

----------------------------------------------------------------------------
(* What the programs say about themselves *)

\* What the main thread relies on when it reports.
LEMMA AtTheEnd ==
    ASSUME Outline, Done(Main), NEW f \in Facts, Knows(program, Main, End(program, Main), f)
    PROVE  Holds(f)
<1>1. Main \in Threads /\ at[Main] = End(program, Main)
  BY Texts DEF Outline, Ground
<1> QED
  BY <1>1 DEF Outline, KnownHolds, Sure

LEMMA NothingQueued == queue = <<>> => Queued = {}
  BY DEF Queued

LEMMA CountedAll ==
    ASSUME Typed, NEW k, Counts(program, k), \A u \in Workers : Done(u),
           NEW D, NEW c \in Nat, Agrees(c, Workers, D, TalliesOf(k))
    PROVE  c = Cardinality(SumOf(D, Workers))
<1>1. \A u \in Workers : TalliesOf(k)[u] = "all"
  <2> TAKE u \in Workers
  <2>1. u \in WorkersOf(program) /\ at[u] = End(program, u)
    BY Texts
  <2>2. Tally(program, u, End(program, u), k) = "all"
    BY <2>1 DEF Counts
  <2> QED
    BY <2>1, <2>2 DEF TalliesOf, TallyAt
<1>2. Owing(Workers, TalliesOf(k)) = {} /\ Telling(Workers, TalliesOf(k)) = Workers
  BY <1>1 DEF Owing, Telling
<1>3. c + 0 = Cardinality(SumOf(D, Workers))
  BY <1>2, FS_EmptySet DEF Agrees
<1> QED
  BY <1>3

LEMMA SumsAreSets ==
    /\ SumOf(MadeBy, Workers) = WorkersMade \ refused
    /\ SumOf(MeasuredBy, Workers) = WorkersMeasured
<1>1. SumOf(MadeBy, Workers) = WorkersMade \ refused
  BY DEF SumOf, MadeBy, WorkersMade
<1>2. SumOf(MeasuredBy, Workers) = WorkersMeasured
  BY DEF SumOf, MeasuredBy, WorkersMeasured
<1> QED
  BY <1>1, <1>2

LEMMA CountersTell == Outline => CountsAgree
<1> SUFFICES ASSUME Outline, Done(Main)
             PROVE  /\ "made" \in Prog.counts => produced = Cardinality(WorkersMade \ refused)
                    /\ "taken" \in Prog.counts => consumed = Cardinality(WorkersMeasured)
  BY DEF CountsAgree
<1>1. Typed /\ CountsMatch /\ produced \in Nat /\ consumed \in Nat
  BY DEF Outline, Ground, Typed
<1>2. Prog.counts # {} => \A u \in Workers : Done(u)
  <2>1. "joined" \in Facts
    BY DEF Facts
  <2>2. Prog.counts # {} => Knows(program, Main, End(program, Main), "joined")
    BY DEF Outline, Follows, Prog
  <2> QED
    BY <2>1, <2>2, AtTheEnd DEF Holds
<1>3. ASSUME "made" \in Prog.counts PROVE produced = Cardinality(WorkersMade \ refused)
  <2>1. Counts(program, Making)
    BY <1>3 DEF Outline, Follows, Prog
  <2>2. Agrees(produced, Workers, MadeBy, TalliesOf(Making)) /\ \A u \in Workers : Done(u)
    BY <1>1, <1>2, <1>3, <2>1 DEF CountsMatch
  <2> QED
    BY <1>1, <2>1, <2>2, CountedAll, SumsAreSets
<1>4. ASSUME "taken" \in Prog.counts PROVE consumed = Cardinality(WorkersMeasured)
  <2>1. Counts(program, Taking)
    BY <1>4 DEF Outline, Follows, Prog
  <2>2. Agrees(consumed, Workers, MeasuredBy, TalliesOf(Taking)) /\ \A u \in Workers : Done(u)
    BY <1>1, <1>2, <1>4, <2>1 DEF CountsMatch
  <2> QED
    BY <1>1, <2>1, <2>2, CountedAll, SumsAreSets
<1> QED
  BY <1>3, <1>4

LEMMA NothingIsLeft == Outline /\ Settles => EverythingMeasured
<1> SUFFICES ASSUME Outline, Settles, Prog.expects = "all", Done(Main)
             PROVE  AllMeasured = AllMade \ refused
  BY DEF EverythingMeasured
<1>1. Typed /\ Orders /\ Conserved
  BY DEF Outline, Ground
<1>2. SUFFICES Queued = {}
  BY <1>1 DEF Conserved
<1>3. CASE Knows(program, Main, End(program, Main), "empty")
  <2>1. "empty" \in Facts
    BY DEF Facts
  <2>2. queue = <<>>
    BY <1>3, <2>1, AtTheEnd DEF Holds
  <2> QED
    BY <2>2, NothingQueued
<1>4. CASE Balanced(program) /\ Knows(program, Main, End(program, Main), "joined")
  <2>1. \A u \in Threads : Done(u)
    <3>1. "joined" \in Facts
      BY DEF Facts
    <3>2. \A u \in Workers : Done(u)
      BY <1>4, <3>1, AtTheEnd DEF Holds
    <3> QED
      BY <3>2 DEF Threads
  <2>2. \A u \in Threads : Credits[u] = 0
    <3> TAKE u \in Threads
    <3>1. u \in ThreadsOf(program) /\ at[u] = End(program, u)
      BY <1>1, <2>1, Texts
    <3> QED
      BY <1>4, <3>1 DEF Credits, Balanced
  <2>3. OwedBy(Credits, Threads) = {}
    <3>1. \A u \in Threads : {u} \X (1..Credits[u]) = {}
      BY <2>2
    <3> QED
      BY <3>1 DEF OwedBy
  <2>4. Len(queue) = 0
    BY <1>4, <2>3, FS_EmptySet DEF Settles
  <2>5. queue = <<>>
    BY <1>1, <2>4, EmptySeq DEF Orders
  <2> QED
    BY <2>5, NothingQueued
<1> QED
  BY <1>3, <1>4 DEF Outline, Follows, Prog

LEMMA OneIsLeft == Outline => AtMostOneLate
<1> SUFFICES ASSUME Outline, Prog.expects = "late", Done(Main), NEW t \in Threads
             PROVE  Cardinality(Messages(t) \ (refused \cup AllMeasured)) <= 1
  BY DEF AtMostOneLate
<1> DEFINE rest == Messages(t) \ (refused \cup AllMeasured)
<1>1. Conserved
  BY DEF Outline, Ground
<1>2. rest \subseteq Queued /\ \A m \in rest : m[1] = t
  BY <1>1 DEF Conserved, AllMade, Messages
<1>3. \A m, n \in rest : m = n
  <2>1. CASE Knows(program, Main, End(program, Main), "late")
    <3>1. "late" \in Facts
      BY DEF Facts
    <3>2. LeavesOne(t)
      BY <2>1, <3>1, AtTheEnd DEF Holds
    <3> QED
      BY <1>2, <3>2 DEF LeavesOne
  <2>2. CASE Knows(program, Main, End(program, Main), "empty")
    <3>1. "empty" \in Facts
      BY DEF Facts
    <3>2. queue = <<>>
      BY <2>2, <3>1, AtTheEnd DEF Holds
    <3> QED
      BY <1>2, <3>2, NothingQueued
  <2> QED
    BY <2>1, <2>2 DEF Outline, Follows, Prog
<1> HIDE DEF rest
<1>4. CASE rest = {}
  BY <1>4, FS_EmptySet DEF rest
<1>5. CASE rest # {}
  <2>1. PICK m \in rest : TRUE
    BY <1>5
  <2>2. rest = {m}
    BY <1>3, <2>1
  <2>3. Cardinality(rest) = 1
    BY <2>2, FS_Singleton
  <2> QED
    BY <2>3 DEF rest
<1> QED
  BY <1>4, <1>5

\* What a program says its counters come to is what its workers have done, for
\* any program that joins them and counts each operation once, right after it or
\* when it publishes a local count, however the updates interleave.
THEOREM CountersAreRight == Spec /\ Disciplined[program] => []CountsAgree
<1>1. Init /\ Disciplined[program] => Follows(program)
  BY DisciplineIsRules DEF Init
<1> QED
  BY <1>1, CountersTell, OutlineInit, OutlineStep, PTL DEF Spec

\* A program that claims that everything has been measured has not left anything
\* in the queue when it reports: its main thread knows by then that nobody puts any
\* more and that somebody has found the queue empty since, or that a count has come
\* to all there is, or all have taken back as much as they put.
THEOREM AllIsMeasured == Spec /\ Disciplined[program] => []EverythingMeasured
<1>1. Init /\ Disciplined[program] => Follows(program)
  BY DisciplineIsRules DEF Init
<1>2. Outline /\ Settles /\ [Next]_vars => Settles'
  BY SettlesStep DEF Outline, Ground
<1> QED
  BY <1>1, <1>2, SettlesInit, NothingIsLeft, OutlineInit, OutlineStep, PTL DEF Spec

\* Producers that look at the flag before each message, and consumers that stop
\* when they find the flag down and the queue empty, leave at most one message each.
THEOREM OneEachIsLate == Spec /\ Disciplined[program] => []AtMostOneLate
<1>1. Init /\ Disciplined[program] => Follows(program)
  BY DisciplineIsRules DEF Init
<1> QED
  BY <1>1, OneIsLeft, OutlineInit, OutlineStep, PTL DEF Spec

----------------------------------------------------------------------------
(* Numbers and sorting *)

\* Every set of natural numbers has a least one, and a greatest one if it is bounded.
LEMMA LeastNumber ==
    ASSUME NEW S, S \subseteq Nat, S # {}
    PROVE  \E n \in S : \A m \in S : n <= m
<1> DEFINE R == OpToRel(<, Nat)
<1>1. \A x, y \in Nat : <<x, y>> \in R <=> x < y
  BY DEF OpToRel
<1>2. IsWellFoundedOn(R, Nat)
  BY NatLessThanWellFounded
<1> HIDE DEF R
<1>3. PICK n \in S : \A m \in S : ~(<<m, n>> \in R)
  BY <1>2, WFMin
<1>4. \A m \in S : ~(m < n)
  BY <1>1, <1>3, Zenon
<1>5. \A m \in S : m \in Nat /\ n \in Nat
  OBVIOUS
<1> QED
  BY ONLY <1>4, <1>5

LEMMA GreatestNumber ==
    ASSUME NEW S, NEW bound \in Nat, S \subseteq 0..bound, S # {}
    PROVE  \E n \in S : \A m \in S : m <= n
<1> DEFINE T == {bound - m : m \in S}
<1>1. T \subseteq Nat /\ T # {}
  <2>1. \A m \in S : bound - m \in Nat
    OBVIOUS
  <2> QED
    BY <2>1
<1>2. PICK d \in T : \A e \in T : d <= e
  BY <1>1, LeastNumber
<1>3. PICK n \in S : d = bound - n
  BY <1>2
<1>4. \A m \in S : d <= bound - m
  BY <1>2
<1> QED
  BY <1>3, <1>4

LEMMA MinOfSet ==
    ASSUME NEW S, S \subseteq Nat, S # {}
    PROVE  Min(S) \in S /\ \A m \in S : Min(S) <= m
<1>1. \E n \in S : \A m \in S : n <= m
  BY LeastNumber
<1> QED
  BY <1>1 DEF Min

LEMMA MaxOfSet ==
    ASSUME NEW S, NEW bound \in Nat, S \subseteq 0..bound, S # {}
    PROVE  Max(S) \in S /\ \A m \in S : m <= Max(S)
<1>1. PICK n \in S : \A m \in S : m <= n
  BY GreatestNumber
<1>2. \A m \in S : n >= m
  BY <1>1
<1>3. \E k \in S : \A m \in S : k >= m
  BY <1>2
<1>4. Max(S) \in S /\ \A m \in S : Max(S) >= m
  BY <1>3 DEF Max
<1> QED
  BY <1>4

\* The numbers s[1], ..., s[n] in ascending order.
Permutes(order, n) ==
    /\ order \in [1..n -> 1..n]
    /\ \A i, j \in 1..n : order[i] = order[j] => i = j
    /\ \A k \in 1..n : \E i \in 1..n : order[i] = k
Ascends(order, s, n) == \A i, j \in 1..n : i < j => s[order[i]] <= s[order[j]]

\* Where one more belongs.
LEMMA PlaceFor ==
    ASSUME NEW n \in Nat, NEW v \in [1..n -> Nat], NEW x \in Nat,
           \A i, j \in 1..n : i < j => v[i] <= v[j]
    PROVE  \E place \in 1..(n + 1) :
             /\ \A i \in 1..n : i < place => v[i] <= x
             /\ \A i \in 1..n : i >= place => x <= v[i]
<1> DEFINE Above == {k \in 1..n : x < v[k]}
<1>1. CASE Above = {}
  <2>1. \A i \in 1..n : ~(x < v[i])
    BY <1>1
  <2> HIDE DEF Above
  <2>2. \A i \in 1..n : v[i] \in Nat
    OBVIOUS
  <2>3. \A i \in 1..n : v[i] <= x
    BY <2>1, <2>2
  <2>4. n + 1 \in 1..(n + 1) /\ \A i \in 1..n : ~(i >= n + 1)
    OBVIOUS
  <2> QED
    BY <2>3, <2>4
<1>2. CASE Above # {}
  <2>1. Above \subseteq Nat
    OBVIOUS
  <2>2. PICK place \in Above : \A i \in Above : place <= i
    BY <1>2, <2>1, LeastNumber
  <2>3. place \in 1..n /\ x < v[place] /\ \A i \in 1..n : i < place => ~(x < v[i])
    <3>1. \A i \in 1..n : i < place => i \notin Above
      <4> HIDE DEF Above
      <4> QED
        BY <2>1, <2>2
    <3> QED
      BY <3>1
  <2> HIDE DEF Above
  <2>4. \A i \in 1..n : v[i] \in Nat
    OBVIOUS
  <2>5. \A i \in 1..n : i < place => v[i] <= x
    BY <2>3, <2>4
  <2>6. ASSUME NEW i \in 1..n, i >= place PROVE x <= v[i]
    <3>1. CASE i = place
      BY <2>3, <2>4, <3>1
    <3>2. CASE place < i
      <4>1. v[place] <= v[i]
        BY <2>3, <3>2
      <4> QED
        BY <2>3, <2>4, <4>1
    <3> QED
      BY <2>3, <2>6, <3>1, <3>2
  <2>7. place \in 1..(n + 1)
    BY <2>3
  <2> QED
    BY <2>5, <2>6, <2>7
<1> QED
  BY <1>1, <1>2

LEMMA Insert ==
    ASSUME NEW n \in Nat, NEW s \in [1..(n + 1) -> Nat], NEW order, Permutes(order, n), Ascends(order, s, n)
    PROVE  \E longer : Permutes(longer, n + 1) /\ Ascends(longer, s, n + 1)
<1> DEFINE v == [i \in 1..n |-> s[order[i]]]
<1>1. \A i \in 1..n : order[i] \in 1..n /\ order[i] # n + 1 /\ s[order[i]] \in Nat
  <2>1. \A i \in 1..n : order[i] \in 1..n
    BY DEF Permutes
  <2>2. \A k \in 1..n : k # n + 1 /\ s[k] \in Nat
    OBVIOUS
  <2> QED
    BY <2>1, <2>2
<1>0. \A i, j \in 1..n : i < j => order[i] # order[j] /\ s[order[i]] <= s[order[j]]
  <2>1. \A i, j \in 1..n : i < j => i # j
    OBVIOUS
  <2> QED
    BY <2>1 DEF Permutes, Ascends
<1>2. v \in [1..n -> Nat] /\ \A i, j \in 1..n : i < j => v[i] <= v[j]
  BY <1>1 DEF Ascends
<1>3. \A i \in 1..n : v[i] = s[order[i]]
  OBVIOUS
<1> HIDE DEF v
<1>4. s[n + 1] \in Nat
  OBVIOUS
<1>5. PICK place \in 1..(n + 1) :
         /\ \A i \in 1..n : i < place => v[i] <= s[n + 1]
         /\ \A i \in 1..n : i >= place => s[n + 1] <= v[i]
  BY <1>2, <1>4, PlaceFor
<1> DEFINE longer == [i \in 1..(n + 1) |->
                        IF i < place THEN order[i] ELSE IF i = place THEN n + 1 ELSE order[i - 1]]
<1>6. /\ \A i \in 1..(n + 1) : i < place => longer[i] = order[i]
      /\ longer[place] = n + 1
      /\ \A i \in 1..(n + 1) : i > place => longer[i] = order[i - 1]
      /\ DOMAIN longer = 1..(n + 1)
      /\ longer = [i \in 1..(n + 1) |-> longer[i]]
  OBVIOUS
<1> HIDE DEF longer
<1>7. /\ place \in Nat
      /\ \A i \in 1..(n + 1) : i < place \/ i = place \/ i > place
      /\ \A i \in 1..(n + 1) : i < place => i \in 1..n
      /\ \A i \in 1..(n + 1) : i > place => i - 1 \in 1..n /\ i - 1 >= place
  OBVIOUS
<1>8. \A i \in 1..(n + 1) : longer[i] \in 1..(n + 1)
  <2> TAKE i \in 1..(n + 1)
  <2>1. CASE i < place
    <3>1. order[i] \in 1..n
      BY <1>1, <1>7, <2>1
    <3> QED
      BY <1>6, <2>1, <3>1
  <2>2. CASE i > place
    <3>1. order[i - 1] \in 1..n
      BY <1>1, <1>7, <2>2
    <3> QED
      BY <1>6, <2>2, <3>1
  <2> QED
    BY <1>6, <1>7, <2>1, <2>2
<1>9. ASSUME NEW i \in 1..(n + 1), NEW j \in 1..(n + 1), i < j
      PROVE  longer[i] # longer[j] /\ s[longer[i]] <= s[longer[j]]
  <2>1. CASE j < place
    <3>1. i < place /\ i \in 1..n /\ j \in 1..n
      BY <1>7, <1>9, <2>1
    <3>2. order[i] # order[j] /\ s[order[i]] <= s[order[j]]
      BY <1>0, <1>9, <3>1
    <3> QED
      BY <1>6, <2>1, <3>1, <3>2
  <2>2. CASE j = place
    <3>1. i < place /\ i \in 1..n
      BY <1>7, <1>9, <2>2
    <3>2. s[order[i]] <= s[n + 1] /\ order[i] # n + 1
      BY <1>1, <1>3, <1>5, <3>1
    <3> QED
      BY <1>6, <2>2, <3>1, <3>2
  <2>3. CASE i < place /\ j > place
    <3>1. i \in 1..n /\ j - 1 \in 1..n /\ i < j - 1
      BY <1>7, <2>3
    <3>2. order[i] # order[j - 1] /\ s[order[i]] <= s[order[j - 1]]
      BY <1>0, <3>1
    <3> QED
      BY <1>6, <2>3, <3>2
  <2>4. CASE i = place
    <3>1. j > place /\ j - 1 \in 1..n /\ j - 1 >= place
      BY <1>7, <1>9, <2>4
    <3>2. s[n + 1] <= s[order[j - 1]] /\ order[j - 1] # n + 1
      BY <1>1, <1>3, <1>5, <3>1
    <3> QED
      BY <1>6, <2>4, <3>1, <3>2
  <2>5. CASE i > place
    <3>1. j > place /\ i - 1 \in 1..n /\ j - 1 \in 1..n /\ i - 1 < j - 1
      BY <1>7, <1>9, <2>5
    <3>2. order[i - 1] # order[j - 1] /\ s[order[i - 1]] <= s[order[j - 1]]
      BY <1>0, <3>1
    <3> QED
      BY <1>6, <2>5, <3>1, <3>2
  <2> QED
    BY <1>7, <2>1, <2>2, <2>3, <2>4, <2>5
<1>10. ASSUME NEW k \in 1..(n + 1) PROVE \E i \in 1..(n + 1) : longer[i] = k
  <2>1. CASE k = n + 1
    BY <1>6, <2>1
  <2>2. CASE k # n + 1
    <3>1. k \in 1..n
      BY <2>2
    <3>2. PICK i \in 1..n : order[i] = k
      BY <3>1 DEF Permutes
    <3>3. CASE i < place
      <4>1. i \in 1..(n + 1)
        OBVIOUS
      <4> QED
        BY <1>6, <3>2, <3>3, <4>1
    <3>4. CASE i >= place
      <4>1. i + 1 \in 1..(n + 1) /\ i + 1 > place /\ (i + 1) - 1 = i
        BY <1>7, <3>4
      <4>2. longer[i + 1] = order[i]
        BY <1>6, <4>1
      <4> QED
        BY <3>2, <4>1, <4>2
    <3>5. i < place \/ i >= place
      BY <1>7
    <3> QED
      BY <3>3, <3>4, <3>5
  <2> QED
    BY <2>1, <2>2
<1>11. \A i, j \in 1..(n + 1) : i < j \/ i = j \/ j < i
  OBVIOUS
<1>12. \A i, j \in 1..(n + 1) : longer[i] = longer[j] => i = j
  BY <1>9, <1>11
<1>13. longer \in [1..(n + 1) -> 1..(n + 1)]
  BY <1>6, <1>8
<1> QED
  BY <1>9, <1>10, <1>12, <1>13 DEF Permutes, Ascends

\* So any numbers can be sorted.
LEMMA Sortable ==
    ASSUME NEW n \in Nat, NEW s \in [1..n -> Nat]
    PROVE  \E order : Permutes(order, n) /\ Ascends(order, s, n)
<1> DEFINE Bad == {k \in Nat : \E v \in [1..k -> Nat] : ~\E order : Permutes(order, k) /\ Ascends(order, v, k)}
<1>1. SUFFICES ASSUME Bad # {} PROVE FALSE
  OBVIOUS
<1>2. Bad \subseteq Nat
  OBVIOUS
<1>3. PICK k \in Bad : \A m \in Bad : k <= m
  BY <1>1, <1>2, LeastNumber
<1>4. PICK v \in [1..k -> Nat] : ~\E order : Permutes(order, k) /\ Ascends(order, v, k)
  BY <1>3
<1>5. CASE k = 0
  <2>1. 1..k = {}
    BY <1>5
  <2>2. Permutes([i \in 1..k |-> i], k) /\ Ascends([i \in 1..k |-> i], v, k)
    BY <2>1 DEF Permutes, Ascends
  <2> QED
    BY <1>4, <2>2
<1>6. CASE k # 0
  <2>1. PICK m \in Nat : k = m + 1
    <3>1. k \in Nat
      BY <1>2, <1>3
    <3>2. k - 1 \in Nat /\ k = (k - 1) + 1
      BY <1>6, <3>1
    <3> QED
      BY <3>2
  <2>2. m \notin Bad
    <3> HIDE DEF Bad
    <3> QED
      BY <1>3, <2>1
  <2> DEFINE w == [i \in 1..m |-> v[i]]
  <2>3. w \in [1..m -> Nat]
    BY <2>1
  <2>4. PICK order : Permutes(order, m) /\ Ascends(order, w, m)
    BY <2>2, <2>3
  <2>5. \A i \in 1..m : order[i] \in 1..m /\ w[order[i]] = v[order[i]]
    BY <2>4 DEF Permutes
  <2>6. Ascends(order, v, m)
    BY <2>4, <2>5 DEF Ascends
  <2> HIDE DEF w, Bad
  <2> QED
    BY <1>4, <2>1, <2>4, <2>6, Insert
<1> QED
  BY <1>5, <1>6

\* What std::sort() leaves.
LEMMA SortedIs ==
    ASSUME NEW n \in Nat, NEW s \in [1..n -> Nat]
    PROVE  \E order : Permutes(order, n) /\ Ascends(order, s, n) /\ Sorted(s) = [i \in 1..n |-> s[order[i]]]
<1> DEFINE D == DOMAIN s
<1>1. D = 1..n
  OBVIOUS
<1>2. \A order : Permutes(order, n) <=> order \in Bijection(D, D)
  <2> TAKE order
  <2> DEFINE E == 1..n
  <2>1. Permutes(order, n) <=>
          /\ order \in [E -> E]
          /\ \A i, j \in E : order[i] = order[j] => i = j
          /\ \A k \in E : \E i \in E : order[i] = k
    BY DEF Permutes
  <2>2. D = E
    BY <1>1
  <2> HIDE DEF D, E
  <2> QED
    BY <2>1, <2>2, Zenon DEF Bijection, Injection, Surjection, IsInjective
<1>3. \A order : Ascends(order, s, n) <=> IsSorting(order, s)
  BY <1>1 DEF Ascends, IsSorting
<1> HIDE DEF D
<1>4. \E order \in Bijection(D, D) : IsSorting(order, s)
  <2>1. PICK order : Permutes(order, n) /\ Ascends(order, s, n)
    BY Sortable
  <2> QED
    BY <1>2, <1>3, <2>1
<1>5. PICK order \in Bijection(D, D) : IsSorting(order, s) /\ Sorted(s) = [i \in D |-> s[order[i]]]
  BY <1>4 DEF Sorted, D
<1> QED
  BY <1>1, <1>2, <1>3, <1>5

LEMMA FirstNumbers == \A n \in Nat : IsFiniteSet(1..n) /\ Cardinality(1..n) = n
<1> TAKE n \in Nat
<1>1. IsFiniteSet(1..n) /\ Cardinality(1..n) = IF 1 > n THEN 0 ELSE n - 1 + 1
  BY FS_Interval
<1> QED
  BY <1>1

\* How many there are below x, and how many not above it: of the one that comes to
\* place k.
Below(s, n, x) == Cardinality({i \in 1..n : s[i] < x})
NotAbove(s, n, x) == Cardinality({i \in 1..n : s[i] <= x})

LEMMA CountBelow ==
    ASSUME NEW n \in Nat, NEW s \in [1..n -> Nat], NEW order, Permutes(order, n), Ascends(order, s, n),
           NEW k \in 1..n, NEW x, x = s[order[k]]
    PROVE  /\ Below(s, n, x) \in Nat /\ Below(s, n, x) <= k - 1
           /\ NotAbove(s, n, x) \in Nat /\ NotAbove(s, n, x) >= k
<1> DEFINE Low == {i \in 1..n : s[i] < x}
           Lower == {i \in 1..n : s[i] <= x}
           before == [j \in 1..(k - 1) |-> order[j]]
           Before == {before[j] : j \in 1..(k - 1)}
           upto == [j \in 1..k |-> order[j]]
<1>1. \A i \in 1..n : order[i] \in 1..n /\ s[order[i]] \in Nat
  <2>1. \A i \in 1..n : order[i] \in 1..n
    BY DEF Permutes
  <2> QED
    BY <2>1
<1>2. /\ \A i, j \in 1..n : i < j => s[order[i]] <= s[order[j]]
      /\ \A i, j \in 1..n : order[i] = order[j] => i = j
      /\ \A i \in 1..n : \E j \in 1..n : order[j] = i
  BY DEF Permutes, Ascends
<1>3. IsFiniteSet(1..n) /\ IsFiniteSet(1..(k - 1)) /\ IsFiniteSet(1..k)
      /\ Cardinality(1..(k - 1)) = k - 1 /\ Cardinality(1..k) = k
  <2>1. k - 1 \in Nat /\ k \in Nat
    OBVIOUS
  <2> QED
    BY <2>1, FirstNumbers
<1>4. IsFiniteSet(Low) /\ IsFiniteSet(Lower) /\ Cardinality(Low) \in Nat /\ Cardinality(Lower) \in Nat
  <2>1. Low \subseteq 1..n /\ Lower \subseteq 1..n
    OBVIOUS
  <2> QED
    BY <1>3, <2>1, FS_Subset, FS_CardinalityType
<1>5. Low \subseteq Before
  <2> SUFFICES ASSUME NEW i \in 1..n, s[i] < x PROVE i \in Before
    OBVIOUS
  <2>1. PICK j \in 1..n : order[j] = i
    BY <1>2
  <2>2. ~(k < j) /\ k # j
    <3>1. s[order[j]] < x /\ s[order[k]] = x /\ x \in Nat /\ s[order[j]] \in Nat
      BY <1>1, <2>1
    <3>2. ~(x <= s[order[j]])
      BY SMTT(30), <3>1
    <3>3. k < j => x <= s[order[j]]
      BY <1>2
    <3>4. k = j => s[order[j]] = x
      OBVIOUS
    <3> QED
      BY <3>1, <3>2, <3>3, <3>4
  <2>3. j \in 1..(k - 1)
    BY <2>2
  <2>4. before[j] = i
    BY <2>1, <2>3
  <2> QED
    BY <2>3, <2>4
<1>6. Cardinality(Before) <= k - 1 /\ IsFiniteSet(Before)
  <2>1. before \in Surjection(1..(k - 1), Before)
    BY DEF Surjection
  <2> HIDE DEF before, Before
  <2> QED
    BY <1>3, <2>1, FS_Surjection
<1>7. Cardinality(Low) <= k - 1
  <2> HIDE DEF Before, Low
  <2>1. Cardinality(Low) <= Cardinality(Before) /\ Cardinality(Before) \in Nat
    BY <1>5, <1>6, FS_Subset, FS_CardinalityType
  <2> QED
    BY <1>4, <1>6, <2>1
<1>8. Cardinality(Lower) >= k
  <2>1. \A j \in 1..k : order[j] \in Lower
    <3> TAKE j \in 1..k
    <3>1. j \in 1..n /\ (j < k \/ j = k)
      OBVIOUS
    <3>2. s[order[j]] <= x
      <4>1. CASE j < k
        BY <1>2, <3>1, <4>1
      <4>2. CASE j = k
        <5>1. x \in Nat /\ s[order[j]] = x
          BY <1>1, <4>2
        <5> QED
          BY <5>1
      <4> QED
        BY <3>1, <4>1, <4>2
    <3> QED
      BY <1>1, <3>1, <3>2
  <2>2. \A i, j \in 1..k : order[i] = order[j] => i = j
    <3>1. \A i \in 1..k : i \in 1..n
      OBVIOUS
    <3> QED
      BY <1>2, <3>1
  <2> HIDE DEF Lower
  <2>3. upto \in Injection(1..k, Lower)
    <3>1. \A j \in 1..k : upto[j] = order[j]
      OBVIOUS
    <3>2. upto \in [1..k -> Lower]
      BY <2>1
    <3> HIDE DEF upto
    <3> QED
      BY <2>2, <3>1, <3>2 DEF Injection, IsInjective
  <2>4. Cardinality(1..k) <= Cardinality(Lower)
    BY <1>4, <2>3, FS_Injection
  <2> QED
    BY <1>3, <1>4, <2>4
<1> QED
  BY <1>4, <1>7, <1>8 DEF Below, NotAbove

\* The place that the code takes for a percentile.
LEMMA PercentilePlace ==
    ASSUME NEW n \in Nat, n > 0, NEW p \in Percentiles
    PROVE  /\ p * (n - 1) \in Nat
           /\ PercentileIndex(n, p) \in 1..n
           /\ 100 * (PercentileIndex(n, p) - 1) <= p * (n - 1)
           /\ 100 * PercentileIndex(n, p) > p * (n - 1)
<1>1. CASE p = 50
  BY <1>1 DEF PercentileIndex
<1>2. CASE p = 90
  BY <1>2 DEF PercentileIndex
<1>3. CASE p = 95
  BY <1>3 DEF PercentileIndex
<1>4. CASE p = 99
  BY <1>4 DEF PercentileIndex
<1> QED
  BY <1>1, <1>2, <1>3, <1>4 DEF Percentiles

\* The numbers in the buckets of a histogram come to the number of latencies.
InBucket(bucket, n, b) == Cardinality({i \in 1..n : bucket[i] = b})
IsSum(Sum, histogram, buckets) ==
    Sum = CHOOSE g : g = [b \in 0..buckets |-> IF b = 0 THEN 0 ELSE g[b - 1] + histogram[b]]
\* The histogram is that of n things, of which each lies in a bucket.
Fills(bucket, n, histogram, buckets) ==
    /\ bucket \in [1..n -> 1..buckets]
    /\ \A b \in 1..buckets : histogram[b] = InBucket(bucket, n, b)

LEMMA BucketsSum ==
    ASSUME NEW n \in Nat, NEW buckets \in Nat, NEW bucket, NEW histogram,
           Fills(bucket, n, histogram, buckets),
           NEW Sum, IsSum(Sum, histogram, buckets)
    PROVE  Sum[buckets] = n
<1> /\ bucket \in [1..n -> 1..buckets]
    /\ \A b \in 1..buckets : histogram[b] = InBucket(bucket, n, b)
  BY DEF Fills
<1> DEFINE Upto(b) == {i \in 1..n : bucket[i] \in 1..b}
           total == [b \in 0..buckets |-> Cardinality(Upto(b))]
<1>1. IsFiniteSet(1..n) /\ Cardinality(1..n) = n
  BY FirstNumbers
<1>2. ASSUME NEW b \in 1..buckets PROVE total[b] = total[b - 1] + histogram[b]
  <2> DEFINE A == Upto(b - 1)
             B == {i \in 1..n : bucket[i] = b}
             C == Upto(b)
  <2>1. b \in 0..buckets /\ b - 1 \in 0..buckets
    OBVIOUS
  <2>2. total[b] = Cardinality(C) /\ total[b - 1] = Cardinality(A)
    BY <2>1
  <2>3. A \cup B = C /\ A \cap B = {}
    <3>1. \A i \in 1..n : bucket[i] \in 1..buckets
      OBVIOUS
    <3>2. \A c \in 1..buckets : c \in 1..b <=> c \in 1..(b - 1) \/ c = b
      OBVIOUS
    <3>3. ~(b \in 1..(b - 1))
      OBVIOUS
    <3> QED
      BY <3>1, <3>2, <3>3
  <2>4. A \subseteq 1..n /\ B \subseteq 1..n
    OBVIOUS
  <2>5. histogram[b] = Cardinality(B)
    BY DEF InBucket
  <2> HIDE DEF A, B, C
  <2>6. IsFiniteSet(A) /\ IsFiniteSet(B) /\ Cardinality(A) \in Nat /\ Cardinality(B) \in Nat
    BY <1>1, <2>4, FS_Subset, FS_CardinalityType
  <2>7. Cardinality(C) = Cardinality(A) + Cardinality(B) - Cardinality(A \cap B)
    BY <2>3, <2>6, FS_Union
  <2>8. Cardinality(A \cap B) = 0
    BY <2>3, FS_EmptySet
  <2> HIDE DEF total
  <2> QED
    BY <2>2, <2>5, <2>6, <2>7, <2>8
<1>3. total[0] = 0
  <2>1. Upto(0) = {}
    OBVIOUS
  <2> QED
    BY <2>1, FS_EmptySet
<1>4. total = [b \in 0..buckets |-> total[b]]
  OBVIOUS
<1>5. total[buckets] = n
  <2>1. Upto(buckets) = 1..n
    OBVIOUS
  <2>2. buckets \in 0..buckets
    OBVIOUS
  <2>3. total[buckets] = Cardinality(Upto(buckets))
    BY <2>2
  <2> QED
    BY <1>1, <2>1, <2>3
<1> HIDE DEF total
<1>6. total = [b \in 0..buckets |-> IF b = 0 THEN 0 ELSE total[b - 1] + histogram[b]]
  <2>1. \A b \in 0..buckets : b # 0 => b \in 1..buckets
    OBVIOUS
  <2>2. \A b \in 0..buckets : total[b] = IF b = 0 THEN 0 ELSE total[b - 1] + histogram[b]
    BY <1>2, <1>3, <2>1
  <2> QED
    BY <1>4, <2>2
<1>7. Sum = [b \in 0..buckets |-> IF b = 0 THEN 0 ELSE Sum[b - 1] + histogram[b]]
  BY <1>6 DEF IsSum
<1>8. /\ Sum[0] = 0
      /\ \A b \in 1..buckets : Sum[b] = Sum[b - 1] + histogram[b]
  <2>1. 0 \in 0..buckets /\ \A b \in 1..buckets : b \in 0..buckets /\ b # 0
    OBVIOUS
  <2> QED
    BY <1>7, <2>1
<1> DEFINE Wrong == {b \in 0..buckets : Sum[b] # total[b]}
<1>9. Wrong = {}
  <2>1. SUFFICES ASSUME Wrong # {} PROVE FALSE
    OBVIOUS
  <2>2. Wrong \subseteq Nat
    OBVIOUS
  <2>3. PICK b \in Wrong : \A c \in Wrong : b <= c
    BY <2>1, <2>2, LeastNumber
  <2>4. b \in 0..buckets /\ Sum[b] # total[b]
    BY <2>3
  <2>5. b # 0
    BY <1>3, <1>8, <2>4
  <2>6. b \in 1..buckets /\ b - 1 \in 0..buckets /\ ~(b <= b - 1)
    BY <2>4, <2>5
  <2>7. b - 1 \notin Wrong
    <3> HIDE DEF Wrong
    <3> QED
      BY <2>3, <2>6
  <2>8. Sum[b - 1] = total[b - 1]
    BY <2>6, <2>7
  <2> QED
    BY <1>2, <1>8, <2>4, <2>6, <2>8
<1>10. buckets \in 0..buckets
  OBVIOUS
<1> QED
  BY <1>5, <1>9, <1>10

\* Every latency falls into a bucket, and the largest into the last.
BucketFor(x, low, range, buckets) == IF range = 0 THEN 1 ELSE ((x - low) * (buckets - 1)) \div range + 1

LEMMA BucketExists ==
    ASSUME NEW low \in Nat, NEW high \in Nat, low <= high, NEW x \in low..high, NEW buckets \in Nat, buckets > 0
    PROVE  /\ BucketFor(x, low, high - low, buckets) \in 1..buckets
           /\ low < high => BucketFor(high, low, high - low, buckets) = buckets
<1>1. PICK range \in Nat : range = high - low
  OBVIOUS
<1>2. PICK y \in Nat : y = x - low /\ y <= range
  BY <1>1
<1>3. PICK m \in Nat : m = buckets - 1
  OBVIOUS
<1>4. CASE range = 0
  BY <1>1, <1>4 DEF BucketFor
<1>5. CASE range > 0
  <2>1. (y * m) \div range \in 0..m
    BY <1>2, <1>5
  <2>2. (range * m) \div range = m
    BY <1>5
  <2> QED
    BY <1>1, <1>2, <1>3, <1>5, <2>1, <2>2 DEF BucketFor
<1> QED
  BY <1>4, <1>5

----------------------------------------------------------------------------
(* The statistics *)

\* What the statistics look like while latencies are still added.
Collecting == stats.is_sorted = FALSE

LEMMA CollectingStep == Collecting /\ [Next]_vars => Collecting'
<1> SUFFICES ASSUME Collecting, [Next]_vars PROVE Collecting'
  OBVIOUS
<1> USE DEF Collecting
<1>1. CASE UNCHANGED vars
  BY <1>1 DEF vars
<1>2. ASSUME NEW t \in Threads, NEW now, Sample(t, now) PROVE Collecting'
  BY <1>2 DEF Sample, AddMeasurement
<1>3. ASSUME NEW t \in Threads, NEW now,
             \/ Test(t, now) \/ Check(t, now) \/ Put(t, now) \/ Take(t, now)
             \/ CountMade(t, now) \/ CountTaken(t, now)
             \/ Arrive(t, now) \/ PassBarrier(t, now) \/ Signal(t, now) \/ Await(t, now)
      PROVE  UNCHANGED stats
  BY <1>3 DEF Test, Check, Put, Take, CountMade, CountTaken, Arrive, PassBarrier, Signal, Await
<1> QED
  BY <1>1, <1>2, <1>3 DEF Next, Step, Terminated

\* The order in which std::sort() leaves the n numbers of s.
SortOrder(s, n) ==
    CHOOSE order : /\ Permutes(order, n) /\ Ascends(order, s, n)
                   /\ Sorted(s) = [i \in 1..n |-> s[order[i]]]

Collected(st) ==
    /\ st.is_sorted = FALSE
    /\ \E bound \in Nat : st.latencies \in Seq(0..bound)
    /\ Len(st.latencies) > 0

\* The latencies of st are the n numbers s, and the order puts them into sorted.
SortsTo(st, s, n, order, sorted) ==
    /\ s = st.latencies /\ n = Len(s)
    /\ order = SortOrder(s, n) /\ sorted = EnsureSorted(st).latencies

LEMMA Sorting ==
    ASSUME NEW st, Collected(st), NEW s, NEW n, NEW order, NEW sorted,
           SortsTo(st, s, n, order, sorted)
    PROVE  /\ n \in Nat /\ s \in [1..n -> Nat] /\ DOMAIN s = 1..n /\ 1 \in 1..n
           /\ Permutes(order, n) /\ Ascends(order, s, n)
           /\ DOMAIN sorted = 1..n
           /\ \A i \in 1..n : order[i] \in 1..n /\ sorted[i] = s[order[i]]
           /\ \A k \in 1..n : \E i \in 1..n : order[i] = k
<1>0. PICK bound \in Nat : s \in Seq(0..bound)
  BY DEF Collected, SortsTo
<1>1. n \in Nat /\ s \in [1..n -> 0..bound] /\ DOMAIN s = 1..n /\ 1 \in 1..n
  BY <1>0, LenProperties DEF Collected, SortsTo
<1>2. \A i \in 1..n : s[i] \in Nat
  BY <1>1
<1>3. s \in [1..n -> Nat]
  BY <1>1, <1>2
<1>4. sorted = Sorted(s)
  BY DEF EnsureSorted, Collected, SortsTo
<1>5. PICK any : Permutes(any, n) /\ Ascends(any, s, n) /\ Sorted(s) = [i \in 1..n |-> s[any[i]]]
  BY ONLY <1>1, <1>3, SortedIs
<1>6. Permutes(order, n) /\ Ascends(order, s, n) /\ sorted = [i \in 1..n |-> s[order[i]]]
  BY <1>4, <1>5 DEF SortOrder, SortsTo
<1>7. (\A i \in 1..n : order[i] \in 1..n) /\ \A k \in 1..n : \E i \in 1..n : order[i] = k
  BY <1>6 DEF Permutes
<1>8. DOMAIN sorted = 1..n /\ \A i \in 1..n : sorted[i] = s[order[i]]
  BY <1>6
<1> QED
  BY <1>1, <1>3, <1>6, <1>7, <1>8, Zenon

\* What makeResult() works on.
LEMMA Reporting ==
    ASSUME NEW st, Collected(st), NEW s, s = st.latencies, NEW n, n = Len(s)
    PROVE  /\ \A i \in 1..n : s[i] \in GetMin(st)..GetMax(st)
           /\ GetMin(st) \in Nat /\ GetMax(st) \in Nat /\ GetMin(st) <= GetMax(st)
           /\ \E i \in 1..n : s[i] = GetMax(st)
           /\ GetMin(EnsureSorted(st)) = GetMin(st) /\ GetMax(EnsureSorted(st)) = GetMax(st)
<1>0. PICK bound \in Nat : s \in Seq(0..bound)
  BY DEF Collected
<1>1. PICK order, sorted : SortsTo(st, s, n, order, sorted)
  BY DEF SortsTo
<1>2. /\ n \in Nat /\ s \in [1..n -> Nat] /\ DOMAIN s = 1..n /\ 1 \in 1..n
      /\ DOMAIN sorted = 1..n
      /\ \A i \in 1..n : order[i] \in 1..n /\ sorted[i] = s[order[i]]
      /\ \A k \in 1..n : \E i \in 1..n : order[i] = k
  BY ONLY Collected(st), <1>1, Sorting
<1>7. \A i \in 1..n : s[i] \in Nat /\ s[i] \in 0..bound
  <2>1. n = Len(s)
    OBVIOUS
  <2>2. \A i \in 1..n : s[i] \in 0..bound
    BY ONLY <1>0, <2>1, ElementOfSeq
  <2> QED
    BY <2>2
<1>3. PICK S : S = {s[i] : i \in 1..n}
  OBVIOUS
<1>4. S = ToSet(s)
  BY <1>2, <1>3 DEF ToSet
<1>5. S \subseteq 0..bound /\ S # {} /\ S \subseteq Nat /\ \A i \in 1..n : s[i] \in S
  <2>1. \A i \in 1..n : s[i] \in S
    BY <1>3
  <2>2. \A x \in S : x \in Nat /\ x \in 0..bound
    BY <1>3, <1>7
  <2> QED
    BY <1>2, <2>1, <2>2
<1>6. GetMin(st) = Min(S) /\ GetMax(st) = Max(S)
  <2>1. s # <<>>
    BY <1>2
  <2> QED
    BY <1>4, <2>1 DEF GetMin, GetMax
<1>8. ToSet(sorted) = S /\ sorted # <<>>
  <2>1. DOMAIN sorted = 1..n /\ \A i \in 1..n : sorted[i] = s[order[i]]
    BY <1>2
  <2>2. PICK T : T = {sorted[i] : i \in 1..n}
    OBVIOUS
  <2>3. ToSet(sorted) = T
    BY <2>1, <2>2 DEF ToSet
  <2>4. \A x \in T : x \in S
    <3>1. \A i \in 1..n : sorted[i] \in S
      BY <1>2, <1>3
    <3> QED
      BY <2>2, <3>1
  <2>5. ASSUME NEW k \in 1..n PROVE s[k] \in T
    <3>1. PICK i \in 1..n : order[i] = k
      BY <1>2
    <3>2. sorted[i] = s[k]
      BY <2>1, <3>1
    <3> QED
      BY <2>2, <3>2
  <2>6. sorted # <<>>
    BY <1>2
  <2>7. \A x \in S : x \in T
    BY <1>3, <2>5
  <2> QED
    BY <2>3, <2>4, <2>6, <2>7
<1>9. GetMin(EnsureSorted(st)) = Min(S) /\ GetMax(EnsureSorted(st)) = Max(S)
  BY <1>1, <1>8 DEF GetMin, GetMax, SortsTo
<1>10. Min(S) \in S /\ Max(S) \in S /\ \A x \in S : Min(S) <= x /\ x <= Max(S)
  BY <1>5, MinOfSet, MaxOfSet
<1>11. Min(S) \in Nat /\ Max(S) \in Nat /\ Min(S) <= Max(S)
  BY <1>5, <1>10
<1>12. \A i \in 1..n : Min(S) <= s[i] /\ s[i] <= Max(S)
  BY <1>5, <1>10
<1>13. \A i \in 1..n : s[i] \in Min(S)..Max(S)
  BY <1>7, <1>11, <1>12
<1>14. \E i \in 1..n : s[i] = Max(S)
  BY <1>3, <1>10
<1> QED
  BY <1>6, <1>9, <1>11, <1>13, <1>14

LEMMA HistogramRight ==
    ASSUME NEW st, Collected(st), NEW buckets \in Nat, buckets > 0,
           NEW histogram, histogram = GetHistogram(EnsureSorted(st), buckets),
           NEW Sum, IsSum(Sum, histogram, buckets)
    PROVE  /\ Sum[buckets] = Len(st.latencies)
           /\ GetMin(st) < GetMax(st) => histogram[buckets] >= 1
<1>1. PICK s, n, order, low, high, sorted :
         SortsTo(st, s, n, order, sorted) /\ low = GetMin(st) /\ high = GetMax(st)
  BY DEF SortsTo
<1>2. s = st.latencies /\ n = Len(s)
  BY <1>1 DEF SortsTo
<1>3. /\ n \in Nat /\ DOMAIN sorted = 1..n
      /\ \A i \in 1..n : order[i] \in 1..n /\ sorted[i] = s[order[i]]
      /\ \A k \in 1..n : \E i \in 1..n : order[i] = k
  BY ONLY Collected(st), <1>1, Sorting
<1>4. /\ low \in Nat /\ high \in Nat /\ low <= high
      /\ \A i \in 1..n : s[i] \in low..high
      /\ \E i \in 1..n : s[i] = high
      /\ GetMin(EnsureSorted(st)) = low /\ GetMax(EnsureSorted(st)) = high
  BY <1>1, <1>2, Reporting
<1>5. PICK bucket : bucket = [i \in 1..n |-> BucketFor(sorted[i], low, high - low, buckets)]
  OBVIOUS
<1>6. histogram = [b \in 1..buckets |->
                     Cardinality({i \in 1..n : BucketFor(sorted[i], low, high - low, buckets) = b})]
  BY <1>1, <1>3, <1>4 DEF GetHistogram, BucketFor, SortsTo
<1>7. \A i \in 1..n : sorted[i] \in low..high
  BY <1>3, <1>4
<1>8. PICK last \in 1..n : sorted[last] = high
  <2>1. PICK k \in 1..n : s[k] = high
    BY <1>4
  <2>2. PICK i \in 1..n : order[i] = k
    BY <1>3
  <2>3. sorted[i] = high
    BY <1>3, <2>1, <2>2
  <2> QED
    BY <2>3
<1>9. \A i \in 1..n : BucketFor(sorted[i], low, high - low, buckets) \in 1..buckets
  BY <1>4, <1>7, BucketExists
<1>10. bucket \in [1..n -> 1..buckets] /\ \A i \in 1..n : bucket[i] = BucketFor(sorted[i], low, high - low, buckets)
  BY <1>5, <1>9
<1>11. \A b \in 1..buckets : histogram[b] = InBucket(bucket, n, b)
  <2> TAKE b \in 1..buckets
  <2>1. {i \in 1..n : bucket[i] = b} = {i \in 1..n : BucketFor(sorted[i], low, high - low, buckets) = b}
    BY <1>10
  <2> QED
    BY <1>6, <2>1 DEF InBucket
<1>12. Sum[buckets] = n
  <2>1. Fills(bucket, n, histogram, buckets)
    BY <1>10, <1>11 DEF Fills
  <2> QED
    BY <1>3, <2>1, BucketsSum
<1>13. ASSUME low < high PROVE histogram[buckets] >= 1
  <2> DEFINE T == {i \in 1..n : bucket[i] = buckets}
  <2>1. high \in low..high
    BY <1>4
  <2>2. BucketFor(high, low, high - low, buckets) = buckets
    BY <1>4, <1>13, <2>1, BucketExists
  <2>3. bucket[last] = buckets
    BY <1>8, <1>10, <2>2
  <2>4. {last} \subseteq T /\ T \subseteq 1..n
    BY <2>3
  <2>5. buckets \in 1..buckets
    OBVIOUS
  <2>6. histogram[buckets] = Cardinality(T)
    BY <1>11, <2>5 DEF InBucket
  <2> HIDE DEF T
  <2>7. IsFiniteSet(T) /\ Cardinality(T) \in Nat
    BY <1>3, <2>4, FirstNumbers, FS_Subset, FS_CardinalityType
  <2>8. Cardinality({last}) <= Cardinality(T) /\ Cardinality({last}) = 1
    BY <2>4, <2>7, FS_Subset, FS_Singleton
  <2> QED
    BY <2>6, <2>7, <2>8
<1> QED
  BY <1>1, <1>2, <1>12, <1>13

LEMMA PercentilesRight ==
    ASSUME NEW st, Collected(st), NEW s, s = st.latencies, NEW n, n = Len(s),
           NEW p \in Percentiles, NEW v, v = GetPercentile(st, p)
    PROVE  100 * Below(s, n, v) <= p * (n - 1) /\ 100 * NotAbove(s, n, v) > p * (n - 1)
<1>1. PICK order, sorted, k, q :
         SortsTo(st, s, n, order, sorted) /\ k = PercentileIndex(n, p) /\ q = p * (n - 1)
  BY DEF SortsTo
<1>3. /\ n \in Nat /\ s \in [1..n -> Nat] /\ DOMAIN s = 1..n /\ 1 \in 1..n
      /\ Permutes(order, n) /\ Ascends(order, s, n)
      /\ \A i \in 1..n : sorted[i] = s[order[i]]
  BY ONLY Collected(st), <1>1, Sorting
<1>4. q \in Nat /\ k \in 1..n /\ 100 * (k - 1) <= q /\ 100 * k > q
  <2>1. n > 0
    BY <1>3
  <2> QED
    BY <1>1, <1>3, <2>1, PercentilePlace
<1>5. v = s[order[k]]
  <2>1. s # <<>>
    BY <1>3
  <2>2. v = sorted[k]
    BY <1>1, <2>1 DEF GetPercentile, SortsTo
  <2> QED
    BY <1>3, <1>4, <2>2
<1>6. PICK low, lower : low = Below(s, n, v) /\ lower = NotAbove(s, n, v)
  OBVIOUS
<1>7. low \in Nat /\ low <= k - 1 /\ lower \in Nat /\ lower >= k
  <2>1. /\ Below(s, n, v) \in Nat /\ Below(s, n, v) <= k - 1
        /\ NotAbove(s, n, v) \in Nat /\ NotAbove(s, n, v) >= k
    BY ONLY <1>3, <1>4, <1>5, CountBelow
  <2> QED
    BY <1>6, <2>1
<1>8. 100 * low <= q /\ 100 * lower > q
  BY <1>4, <1>7
<1> QED
  BY <1>1, <1>6, <1>8

LEMMA StatsTell == Typed /\ Collecting => StatsRight
<1> SUFFICES ASSUME Typed, Collecting PROVE StatsRight
  OBVIOUS
<1> DEFINE n == Len(stats.latencies)
           reported == MakeResult(stats, Buckets)
<1>1. SUFFICES ASSUME n > 0
      PROVE  LET Sum[b \in 0..Buckets] == IF b = 0 THEN 0 ELSE Sum[b - 1] + reported.histogram[b]
             IN  /\ \A i \in 1..n : stats.latencies[i] \in reported.min..reported.max
                 /\ \A p \in Percentiles :
                       LET v == reported.percentiles[p]
                       IN /\ 100 * Count(LAMBDA x : x < v) <= p * (n - 1)
                          /\ 100 * Count(LAMBDA x : x <= v) > p * (n - 1)
                 /\ Sum[Buckets] = n
                 /\ reported.min < reported.max => reported.histogram[Buckets] >= 1
  BY DEF StatsRight
<1>2. MaxLatency \in Nat /\ Buckets \in Nat /\ Buckets > 0
  BY BoundAssumption
<1>3. Collected(stats) /\ n \in Nat /\ DOMAIN stats.latencies = 1..n
  BY <1>1, <1>2, LenProperties DEF Typed, Collecting, Collected
<1>4. /\ reported.min = GetMin(stats) /\ reported.max = GetMax(stats)
      /\ \A p \in Percentiles : reported.percentiles[p] = GetPercentile(stats, p)
      /\ reported.histogram = GetHistogram(EnsureSorted(stats), Buckets)
  BY DEF MakeResult
<1> HIDE DEF reported
<1>5. \A i \in 1..n : stats.latencies[i] \in reported.min..reported.max
  BY <1>3, <1>4, Reporting
<1>6. ASSUME NEW p \in Percentiles
      PROVE  LET v == reported.percentiles[p]
             IN  /\ 100 * Count(LAMBDA x : x < v) <= p * (n - 1)
                 /\ 100 * Count(LAMBDA x : x <= v) > p * (n - 1)
  <2> DEFINE v == reported.percentiles[p]
  <2>1. Count(LAMBDA x : x < v) = Below(stats.latencies, n, v)
        /\ Count(LAMBDA x : x <= v) = NotAbove(stats.latencies, n, v)
    BY <1>3 DEF Count, Below, NotAbove
  <2>2. v = GetPercentile(stats, p)
    BY <1>4
  <2>3. 100 * Below(stats.latencies, n, v) <= p * (n - 1) /\ 100 * NotAbove(stats.latencies, n, v) > p * (n - 1)
    BY <1>3, <2>2, PercentilesRight
  <2> QED
    BY <2>1, <2>3
<1>7. ASSUME NEW Sum, IsSum(Sum, reported.histogram, Buckets)
      PROVE  Sum[Buckets] = n /\ (reported.min < reported.max => reported.histogram[Buckets] >= 1)
  BY <1>2, <1>3, <1>4, <1>7, HistogramRight
<1>8. LET Sum[b \in 0..Buckets] == IF b = 0 THEN 0 ELSE Sum[b - 1] + reported.histogram[b]
      IN  Sum[Buckets] = n
  <2>1. PICK Sum : IsSum(Sum, reported.histogram, Buckets)
    BY DEF IsSum
  <2>2. Sum[Buckets] = n
    BY <1>7, <2>1
  <2> QED
    BY <2>1, <2>2 DEF IsSum
<1>9. reported.min < reported.max => reported.histogram[Buckets] >= 1
  <2>1. PICK Sum : IsSum(Sum, reported.histogram, Buckets)
    BY DEF IsSum
  <2> QED
    BY <1>7, <2>1
<1> QED
  BY <1>5, <1>6, <1>8, <1>9, Zenon

\* Whatever latencies a program measures, the percentiles, extremes and histogram
\* that makeResult() reports of them mean what their names say, for any number of
\* latencies and of buckets.
THEOREM ReportsAreRight == Spec => []StatsRight
<1>1. Init => Collecting
  BY DEF Init, Collecting, NoStats
<1> QED
  BY <1>1, TypedInit, OrdersInit, TypedStep, OrdersStep, CollectingStep, StatsTell, PTL DEF Spec

=============================================================================
