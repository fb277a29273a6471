------------------------------ MODULE TestPrograms ------------------------------
(* The language in which the other modules write down the programs that       *)
(* Harness runs, and the shapes that several of them share.                   *)
EXTENDS Integers, Sequences, SequencesExt

CONSTANTS
    Samples,      \* messages of each producer
    SoloSamples,  \* messages of a program of one thread
    Depth,        \* messages a queue is filled with at first
    Rounds,       \* bursts, or rounds of a thread that does several things in each
    Producers,    \* producer threads
    Consumers     \* consumer threads

Unbounded == 100

----------------------------------------------------------------------------
(* Loops *)

For(n, body) == [any |-> FALSE, tests |-> <<"rounds">>, times |-> n, body |-> body]
Do(body) == For(1, body)
While(test, body) == [any |-> FALSE, tests |-> <<test>>, times |-> 0, body |-> body]
WhileAny(tests, n, body) == [any |-> TRUE, tests |-> tests, times |-> n, body |-> body]
WhileAll(tests, n, body) == [any |-> FALSE, tests |-> tests, times |-> n, body |-> body]
Times(n, ops) == FlattenSeq([i \in 1..n |-> ops])

\* "while (queue.dequeue(x))"
Drain == While("takes", <<>>)

----------------------------------------------------------------------------
(* Threads and programs *)

Worker(kind, code) == [kind |-> kind, spawn |-> 1, code |-> code]
Producer(code) == Worker("producer", code)
Consumer(code) == Worker("consumer", code)
Mixed(code) == Worker("worker", code)
Copies(n, worker) == [i \in 1..n |-> worker]

\* A monitor or watchdog that only reads until the flag falls.
Monitor == Mixed(<<While("running", <<>>)>>)

Program(workers, main) ==
    [workers |-> workers, main |-> main, capacity |-> Unbounded, barrier |-> 0,
     running |-> TRUE, total |-> 0, expects |-> "all", counts |-> {}]
Solo(main) == Program(<<>>, main)

----------------------------------------------------------------------------
(* Codes as Harness runs them: instructions with the relative addresses of    *)
(* their successors, of a test that holds or an operation that succeeds (yes) *)
(* and of one that does not (no).  The rounds of a for loop follow each other.*)

\* What is done with a message, and left out if there was none.
Uses == {"count taken", "sample"}

LoopCode(loop) ==
    LET counted == loop.tests[1] = "rounds"
        tests == IF counted THEN Tail(loop.tests) ELSE loop.tests
        round == tests \o loop.body
        size == Len(round)
        total == IF counted THEN loop.times * size ELSE size
        Instruction(p) ==
            LET i == ((p - 1) % size) + 1
                op == round[i]
                after == IF i < size THEN round[i + 1] ELSE "none"
                out == total - p + 1
                again == IF counted THEN size - i + 1 ELSE 1 - i
                Skip(n) == IF i + n > size THEN again ELSE n
            IN [op |-> op,
                limit |-> loop.times,
                counted |-> counted,
                yes |-> Skip(IF i <= Len(tests) /\ loop.any THEN Len(tests) - i + 1 ELSE 1),
                no |-> CASE i <= Len(tests) -> IF loop.any /\ i < Len(tests) THEN 1 ELSE out
                         [] op \in {"prefill", "enough"} -> out
                         [] op \in {"take", "either"} /\ after # "count last" ->
                              Skip(IF after \in Uses THEN 2 ELSE 1)
                         [] OTHER -> again]
    IN [p \in 1..total |-> Instruction(p)]

Compiled(code) == FlattenSeq([l \in DOMAIN code |-> LoopCode(code[l])])

Load(program) ==
    [program EXCEPT !.main = Compiled(@),
                    !.workers = [t \in DOMAIN @ |-> [@[t] EXCEPT !.code = Compiled(@)]]]

----------------------------------------------------------------------------
(* Shapes that many programs share *)

\* The condition of a consumer that empties the queue after the flag has fallen:
\* first the flag, then the queue.  Bug variant: the other way round.
EmptyThenFlag == <<"nonempty", "running">>
FlagThenEmpty == <<"running", "nonempty">>
UntilEmpty(body) == WhileAny(FlagThenEmpty, 0, body)

\* The main thread waits for the producers before it lowers the flag.  Bug
\* variant: it does not wait.
StopAtOnce == <<"stop", "join">>
StopInOrder == <<"join producers", "stop", "join">>

\* How many threads a barrier of everybody waits for.  Bug variants: it forgets
\* the main thread; it counts one too many.
AllButMain(producers, consumers) == producers + consumers
OneTooMany(producers, consumers) == producers + consumers + 2
Everybody(producers, consumers) == producers + consumers + 1

Crew(producers, producer, consumers, consumer) ==
    Copies(producers, producer) \o Copies(consumers, consumer)

\* One thread measures pairs of an enqueue and a dequeue, after a warm-up.
SingleThreaded(capacity) ==
    [Solo(<<Do(<<"put", "take">>), For(SoloSamples, <<"put", "take", "sample">>)>>)
        EXCEPT !.capacity = capacity]

\* The same in a queue that already has messages, which are the ones measured.
LoadDependent(capacity) ==
    [Solo(<<For(Depth, <<"prefill">>), For(SoloSamples, <<"put", "take", "sample">>)>>)
        EXCEPT !.capacity = capacity, !.expects = "some"]

\* Producers that start together, and one consumer that does not wait for them.
MultiProducer(capacity) ==
    [Program(Crew(Producers, Producer(<<Do(<<"barrier">>), For(Samples, <<"put">>)>>),
                  1, Consumer(<<UntilEmpty(<<"take">>)>>)),
             <<Do(<<"spawn", "barrier">> \o StopInOrder)>>)
        EXCEPT !.capacity = capacity, !.barrier = Everybody(Producers, 0)]

\* Producers and consumers that all start together.
Ratio(capacity, producers, consumers) ==
    [Program(Crew(producers, Producer(<<Do(<<"barrier">>), For(Samples, <<"put">>)>>),
                  consumers, Consumer(<<Do(<<"barrier">>), UntilEmpty(<<"take">>)>>)),
             <<Do(<<"spawn", "barrier">> \o StopInOrder)>>)
        EXCEPT !.capacity = capacity, !.barrier = Everybody(producers, consumers)]

\* Producers, and consumers, here one, that run until they are stopped and then
\* add up what they have done: the code has one counter for both kinds.
Throughput(capacity) ==
    [Program(Crew(Producers,
                  Producer(<<Do(<<"barrier">>), While("running", <<"put">>), Do(<<"publish made">>)>>),
                  1,
                  Consumer(<<Do(<<"barrier">>), While("running", <<"take">>), Do(<<"publish taken">>)>>)),
             <<Do(<<"spawn", "barrier", "stop", "join">>)>>)
        EXCEPT !.capacity = capacity, !.barrier = Everybody(Producers, 1),
               !.expects = "some", !.counts = {"made", "taken"}]

\* The main thread produces in bursts; the consumer empties the queue after the
\* flag has fallen, in a loop of its own.
Burst ==
    Program(<<Consumer(<<While("running", <<"take">>), Drain>>)>>,
            <<Do(<<"spawn">>), For(Rounds, Times(Samples, <<"put">>)), Do(<<"stop", "join">>)>>)

\* The main thread produces at a steady pace.
Paced ==
    Program(<<Consumer(<<UntilEmpty(<<"take">>)>>)>>,
            <<Do(<<"spawn">>), For(SoloSamples, <<"put">>), Do(<<"stop", "join">>)>>)

=============================================================================
