-------------------------------- MODULE Harness --------------------------------
(* The multi-threaded programs of the repository that drive a queue: the      *)
(* benchmarks, the stress tests and the example.  Module Catalogue lists      *)
(* them; this module runs them, one shared access per step, so that what they *)
(* assert about themselves can be checked under every interleaving.  The      *)
(* queue is the linearizable one that the other modules establish: enqueue(), *)
(* dequeue() and empty() take effect in one step.  A mutex that guards only   *)
(* the vector in which consumers keep what they measure is left out.          *)
(*                                                                            *)
(* A program is                                                               *)
(*   workers:  its threads: each a kind ("producer", "consumer", "worker"),   *)
(*             the number of the spawn that creates it, and a code;           *)
(*   main:     the code of the thread that spawns, stops and joins them;      *)
(*   capacity, barrier, running: of its queue and its barrier, and the        *)
(*             initial value of its flag;                                     *)
(*   expects:  what becomes of the messages: "all" are measured, all but      *)
(*             "late" ones, or "some";                                        *)
(*   counts:   which of its counters it keeps, and total, what they come to.  *)
(* TestPrograms says what a code is.                                          *)
EXTENDS Integers, Sequences, FiniteSets, LatencyStats, Catalogue

CONSTANTS
    MaxMade,     \* messages of a thread that produces until it is told to stop
    MaxLatency,  \* longest latency that a program measures
    Buckets,     \* of the histogram
    MaxThreads   \* worker threads of a program

VARIABLES
    program,   \* the number of the program that runs
    at,        \* at[t]: where in its code t is
    queue,     \* the queue
    running,   \* the flag that stops the threads
    spawned,   \* how often the main thread has created threads
    started,   \* the flag that starts them
    arrived,   \* who has reached the barrier
    burst,     \* the number of the burst
    made,      \* made[t]: the messages t has made
    refused,   \* those that a full queue refused
    measured,  \* measured[t]: the messages that t has dequeued and measured
    produced,  \* the counter of messages produced that the program keeps
    consumed,  \* and that of messages consumed
    stats      \* the LatencyStats of a program whose main thread measures

\* A code is a sequence of instructions, and none of its jumps leaves it.
IsCode(code) ==
    /\ Len(code) \in Nat /\ DOMAIN code = 1..Len(code)
    /\ \A i \in 1..Len(code) : {i + code[i].yes, i + code[i].no} \subseteq 1..(Len(code) + 1)

ASSUME BoundAssumption == MaxThreads \in Nat /\ MaxLatency \in Nat /\ Buckets \in Nat \ {0}
ASSUME ProgramsAssumption ==
    \A p \in DOMAIN Programs :
        /\ Len(Programs[p].workers) \in 0..MaxThreads
        /\ IsCode(Programs[p].main)
        /\ \A t \in 1..Len(Programs[p].workers) : IsCode(Programs[p].workers[t].code)
        /\ Programs[p].capacity \in Nat /\ Programs[p].barrier \in Nat
        /\ Programs[p].running \in BOOLEAN

vars == <<program, at, queue, running, spawned, started, arrived, burst, made,
          refused, measured, produced, consumed, stats>>
counters == <<produced, consumed>>
flags == <<running, spawned, started, burst>>

Prog == Programs[program]
Main == 0
Workers == 1..Len(Prog.workers)
Threads == Workers \cup {Main}
Code(t) == IF t = Main THEN Prog.main ELSE Prog.workers[t].code
Kind(t) == Prog.workers[t].kind
Spawned(t) == t # Main => Prog.workers[t].spawn <= spawned

Done(t) == at[t] > Len(Code(t))
Here(t) == Code(t)[at[t]]
Now(t) == IF Done(t) THEN "done" ELSE Here(t).op

Messages(t) == {t} \X (1..made[t])
AllMade == UNION {Messages(t) : t \in Threads}
AllMeasured == UNION {measured[t] : t \in Threads}

\* Those who meet at the barrier.
Participants ==
    {t \in Threads : \E i \in DOMAIN Code(t) : Code(t)[i].op = "barrier"}

Init ==
    /\ program \in DOMAIN Programs
    /\ at = [t \in Threads |-> 1]
    /\ queue = <<>>
    /\ running = Prog.running
    /\ spawned = 0
    /\ started = FALSE
    /\ arrived = {}
    /\ burst = 0
    /\ made = [t \in Threads |-> 0]
    /\ refused = {}
    /\ measured = [t \in Threads |-> {}]
    /\ produced = 0
    /\ consumed = 0
    /\ stats = NoStats

----------------------------------------------------------------------------
(* Control *)

\* A test has come out as b; an operation has succeeded or not.
Decide(t, b) == at' = [at EXCEPT ![t] = @ + (IF b THEN Here(t).yes ELSE Here(t).no)]
Advance(t) == Decide(t, TRUE)

----------------------------------------------------------------------------
(* The tests of the loops *)

\* A thread that produces until the flag falls is not scheduled with MaxMade
\* messages until it has fallen: the bound on programs that have none.
Idle(t) == running /\ made[t] >= MaxMade
Test(t, now) ==
    /\ \/ /\ now = "running"
          /\ ~Here(t).counted => ~Idle(t)
          /\ Decide(t, running)
       \/ now = "nonempty" /\ Decide(t, queue # <<>>)
       \/ now = "missing" /\ Decide(t, consumed < Here(t).limit)
       \/ now = "few" /\ Decide(t, Cardinality(measured[t]) < Here(t).limit)
       \/ now = "unmade" /\ Decide(t, produced < Here(t).limit)
       \/ now = "bursts" /\ ~Idle(t) /\ Decide(t, burst < Here(t).limit)
    /\ UNCHANGED <<program, queue, flags, arrived, made, refused, measured, counters, stats>>

\* "checked": the body goes on only if the flag is still up; "chance": only
\* sometimes; either way the loop goes on.  "enough": sometimes the loop ends.
Check(t, now) ==
    /\ \/ now = "checked" /\ Decide(t, running)
       \/ now \in {"chance", "enough"} /\ \E b \in BOOLEAN : Decide(t, b)
    /\ UNCHANGED <<program, queue, flags, arrived, made, refused, measured, counters, stats>>

----------------------------------------------------------------------------
(* The operations on the queue *)

\* Does another message fit?  Bug variant: one too many.
HasRoomForOneMore == Len(queue) <= Prog.capacity
HasRoom == Len(queue) < Prog.capacity

\* enqueue() of a new message; a bounded queue that is full refuses it.  That
\* ends the round, or the loop in which a queue is filled at first.
Put(t, now) ==
    /\ now \in {"put", "prefill", "either"}
    /\ made' = [made EXCEPT ![t] = @ + 1]
    /\ IF HasRoom
       THEN queue' = Append(queue, <<t, made'[t]>>) /\ UNCHANGED refused
       ELSE refused' = refused \cup {<<t, made'[t]>>} /\ UNCHANGED queue
    /\ Decide(t, HasRoom)
    /\ UNCHANGED <<program, flags, arrived, measured, counters, stats>>

\* Which end a dequeue takes from.  Bug variant: the wrong one.
LastOf(q) == Len(q)
FrontOf(q) == 1

\* dequeue() of what there is, which t measures.
Receive(t) ==
    IF queue = <<>>
    THEN UNCHANGED <<queue, measured>>
    ELSE LET i == FrontOf(queue)
         IN /\ measured' = [measured EXCEPT ![t] = @ \cup {queue[i]}]
            /\ queue' = SubSeq(queue, 1, i - 1) \o SubSeq(queue, i + 1, Len(queue))

\* dequeue(), also in the condition of a loop: "takes" goes on while there is
\* something, and "misses" until there is.
Take(t, now) ==
    /\ \/ now \in {"take", "takes", "either"} /\ Decide(t, queue # <<>>)
       \/ now = "misses" /\ Decide(t, queue = <<>>)
    /\ Receive(t)
    /\ UNCHANGED <<program, flags, arrived, made, refused, counters, stats>>

\* The main thread adds the latency to its statistics.
Sample(t, now) ==
    /\ now = "sample"
    /\ Advance(t)
    /\ \E latency \in 0..MaxLatency : stats' = AddMeasurement(stats, latency)
    /\ UNCHANGED <<program, queue, flags, arrived, made, refused, measured, counters>>

----------------------------------------------------------------------------
(* The counters *)

\* Bug variant: a store, which loses what the others have added.
StoredTo(counter, local) == local
AddedTo(counter, local) == counter + local

\* After each operation, or, "publish", the local count at the end.
CountMade(t, now) ==
    /\ \/ now = "count made" /\ produced' = produced + 1
       \/ /\ now = "publish made"
          /\ produced' = AddedTo(produced, Cardinality(Messages(t) \ refused))
    /\ Advance(t)
    /\ UNCHANGED <<program, queue, flags, arrived, made, refused, measured, consumed, stats>>

\* "count last": only the consumer whose count reaches the total goes on.
CountTaken(t, now) ==
    /\ \/ now = "count taken" /\ consumed' = consumed + 1 /\ Advance(t)
       \/ /\ now = "publish taken"
          /\ consumed' = AddedTo(consumed, Cardinality(measured[t]))
          /\ Advance(t)
       \/ /\ now = "count last"
          /\ consumed' = consumed + 1
          /\ Decide(t, consumed' = Prog.total)
    /\ UNCHANGED <<program, queue, flags, arrived, made, refused, measured, produced, stats>>

----------------------------------------------------------------------------
(* The meetings of the threads *)

\* std::barrier::arrive_and_wait().
Arrive(t, now) ==
    /\ now = "barrier"
    /\ t \notin arrived
    /\ arrived' = arrived \cup {t}
    /\ UNCHANGED <<program, at, queue, flags, made, refused, measured, counters, stats>>

PassBarrier(t, now) ==
    /\ now = "barrier"
    /\ t \in arrived
    /\ Cardinality(arrived) >= Prog.barrier
    /\ Advance(t)
    /\ UNCHANGED <<program, queue, flags, arrived, made, refused, measured, counters, stats>>

\* Stores to the flags.
Signal(t, now) ==
    /\ \/ now = "spawn" /\ spawned' = spawned + 1 /\ UNCHANGED <<running, started, burst>>
       \/ now = "start" /\ started' = TRUE /\ UNCHANGED <<running, spawned, burst>>
       \/ now = "run" /\ running' = TRUE /\ UNCHANGED <<spawned, started, burst>>
       \/ now = "stop" /\ running' = FALSE /\ UNCHANGED <<spawned, started, burst>>
       \/ /\ now = "next burst"
          /\ burst' = burst + 1
          /\ UNCHANGED <<running, spawned, started>>
    /\ Advance(t)
    /\ UNCHANGED <<program, queue, arrived, made, refused, measured, counters, stats>>

\* Spinning on a flag, or joining threads.  Bug variant: only one is joined.
JoinedOne(kinds) ==
    LET them == {u \in Workers : Kind(u) \in kinds /\ Spawned(u)}
    IN them # {} => \E u \in them : Done(u)
Joined(kinds) == \A u \in Workers : Kind(u) \in kinds /\ Spawned(u) => Done(u)
Await(t, now) ==
    /\ \/ now = "await start" /\ started
       \/ now = "await burst" /\ (running \/ burst >= Here(t).limit)
       \/ now = "join producers" /\ Joined({"producer"})
       \/ now = "join" /\ Joined({"producer", "consumer", "worker"})
    /\ Advance(t)
    /\ UNCHANGED <<program, queue, flags, arrived, made, refused, measured, counters, stats>>

----------------------------------------------------------------------------

Step(t) ==
    /\ Spawned(t)
    /\ \E now \in {Now(t)} :
       \/ Test(t, now) \/ Check(t, now)
       \/ Put(t, now) \/ Take(t, now) \/ Sample(t, now)
       \/ CountMade(t, now) \/ CountTaken(t, now)
       \/ Arrive(t, now) \/ PassBarrier(t, now) \/ Signal(t, now) \/ Await(t, now)

Finished == \A t \in Threads : Done(t)

\* A program that is over stays so: any other state without a step is a deadlock.
Terminated == Finished /\ UNCHANGED vars

Next == (\E t \in Threads : Step(t)) \/ Terminated

\* The scheduler keeps running every thread.
Spec ==
    /\ Init
    /\ [][Next]_vars
    /\ \A t \in 0..MaxThreads : WF_vars(t \in Threads /\ Step(t))

----------------------------------------------------------------------------
(* Properties *)

Message == (0..MaxThreads) \X Nat

TypeOK ==
    /\ program \in DOMAIN Programs
    /\ \A t \in Threads : at[t] \in 1..(Len(Code(t)) + 1)
    /\ queue \in Seq(Message) /\ Len(queue) <= Prog.capacity
    /\ <<running, started>> \in BOOLEAN \X BOOLEAN
    /\ arrived \subseteq Threads
    /\ <<burst, spawned, produced, consumed>> \in Nat \X Nat \X Nat \X Nat
    /\ made \in [Threads -> Nat]
    /\ refused \subseteq Message
    /\ \A t \in Threads : measured[t] \subseteq Message
    /\ stats.latencies \in Seq(0..MaxLatency)

\* In the programs that say that every message is consumed, every message that
\* the queue has taken has been measured when the main thread reports: no
\* consumer leaves while a producer may still come, none gives up a message, and
\* the last messages are not left in the queue.
EverythingMeasured ==
    Prog.expects = "all" /\ Done(Main) => AllMeasured = AllMade \ refused

\* The stress tests with bursts say so too, but their consumers stop on a flag
\* that the producers read before their last enqueue: each producer may leave
\* one message behind, and no more than one.
AtMostOneLate ==
    Prog.expects = "late" /\ Done(Main) =>
        \A t \in Threads : Cardinality(Messages(t) \ (refused \cup AllMeasured)) <= 1

\* What a consumer measures of one producer comes in the order in which the
\* producer made it (the check of CorrectnessTest), and once.
InOrder ==
    [][\A t \in Threads : \A m \in measured'[t] \ measured[t] :
           /\ m \notin AllMeasured
           /\ \A n \in measured[t] : n[1] = m[1] => n[2] < m[2]]_vars

\* Nobody gets past the barrier before everybody has come to it.
StartTogether ==
    (\E t \in arrived : Now(t) # "barrier") => Participants \subseteq arrived

\* The counters that the programs keep and compare in the end count what the
\* worker threads did, however their updates interleave.
WorkersMade == UNION {Messages(t) : t \in Workers}
WorkersMeasured == UNION {measured[t] : t \in Workers}
CountsAgree ==
    Done(Main) =>
        /\ "made" \in Prog.counts => produced = Cardinality(WorkersMade \ refused)
        /\ "taken" \in Prog.counts => consumed = Cardinality(WorkersMeasured)

\* What makeResult() says of the latencies agrees with what the words mean:
\* percentile p has at most p percent of the other latencies below it and at
\* least that many not above it, the extremes bound them all, and
\* the histogram counts each latency once, the largest in the last bucket.
Count(stated(_)) == Cardinality({i \in DOMAIN stats.latencies : stated(stats.latencies[i])})
StatsRight ==
    LET n == Len(stats.latencies)
        reported == MakeResult(stats, Buckets)
        Sum[b \in 0..Buckets] == IF b = 0 THEN 0 ELSE Sum[b - 1] + reported.histogram[b]
    IN Done(Main) /\ n > 0 =>
        /\ \A i \in 1..n : stats.latencies[i] \in reported.min..reported.max
        /\ \A p \in Percentiles :
               LET v == reported.percentiles[p]
               IN /\ 100 * Count(LAMBDA x : x < v) <= p * (n - 1)
                  /\ 100 * Count(LAMBDA x : x <= v) > p * (n - 1)
        /\ Sum[Buckets] = n
        /\ reported.min < reported.max => reported.histogram[Buckets] >= 1

\* Every program comes to an end: no join, barrier or spinning loop waits for
\* something that does not happen.
Terminates == <>Finished

=============================================================================
