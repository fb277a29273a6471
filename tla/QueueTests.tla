------------------------------ MODULE QueueTests -------------------------------
(* The programs of the queue tests: ebr_queue_tests.cpp, and hp_queue_tests.cpp *)
(* which has the same ones, but for its last two, for HPQueue.                *)
EXTENDS TestPrograms

----------------------------------------------------------------------------
(* ebr_queue_tests.cpp *)

BasicFunctionality == Solo(<<Do(<<"take", "put", "take">>), For(SoloSamples, <<"put">>),
                             For(SoloSamples, <<"take">>), Do(<<"take">>)>>)
SingleThreadedPerformance == Solo(<<For(SoloSamples, <<"put">>), Drain>>)
MemoryManagement == Solo(<<For(SoloSamples, <<"put">>), Drain>>)

\* "All items produced and consumed exactly once": a consumer goes on until the
\* producers are done and everything has been counted.
MultiProducerMultiConsumer ==
    [Program(Crew(Producers, Producer(<<For(Samples, <<"put", "count made">>)>>),
                  Consumers,
                  Consumer(<<WhileAny(<<"running", "missing">>, Producers * Samples,
                                      <<"take", "count taken">>)>>)),
             <<Do(<<"spawn">> \o StopInOrder)>>)
        EXCEPT !.counts = {"made", "taken"}]

\* The consumer whose count reaches the total lowers the flag.
ABAAndUseAfterFree ==
    [Program(Crew(Producers, Producer(<<For(Samples, <<"put">>)>>),
                  Consumers, Consumer(<<While("running", <<"take", "count last", "stop">>)>>))
               \o <<Monitor>>,
             <<Do(<<"spawn", "join">>)>>)
        EXCEPT !.total = Producers * Samples, !.counts = {"taken"}]

\* Threads that enqueue or dequeue at random in a queue that has messages; the
\* main thread takes what remains.
HighContention ==
    Program(Copies(Producers, Mixed(<<For(Samples, <<"either">>)>>)),
            <<For(Depth, <<"prefill">>), Do(<<"spawn", "join">>), Drain>>)

\* expectProgress(): the main thread polls a counter until it reaches the goal.
LiveLockDetection ==
    [Program(Copies(Producers, Producer(<<For(Samples, <<"put", "count made">>)>>)),
             <<Do(<<"spawn">>), WhileAll(<<"unmade">>, Producers * Samples, <<>>), Do(<<"join">>)>>)
        EXCEPT !.expects = "some", !.counts = {"made"}]

DestructorSafety ==
    Program(<<Consumer(<<While("misses", <<>>)>>)>>, <<Do(<<"spawn", "put", "join">>)>>)

\* Every thread puts a batch, then takes a batch, a number of times, or fewer if
\* the counter is high; the flag that could stop them is never lowered.
EBREpochAdvancement ==
    [Program(Copies(Producers, Mixed(<<WhileAll(<<"rounds", "running">>, Rounds,
                        Times(Samples, <<"put">>) \o Times(Samples, <<"take", "count taken">>)
                        \o <<"enough">>)>>)),
             <<Do(<<"spawn", "join">>), Drain>>)
        EXCEPT !.counts = {"taken"}]

\* "all enqueued items are accounted for" while a third thread asks empty().
EmptyCheckRaceCondition ==
    [Program(<<Mixed(<<While("running", <<"put", "count made">>)>>),
               Mixed(<<While("running", <<"take", "count taken">>)>>),
               Mixed(<<While("running", <<>>)>>)>>,
             <<Do(<<"spawn", "stop", "join">>), Drain>>)
        EXCEPT !.counts = {"made", "taken"}]

EbrQueueTests ==
    {BasicFunctionality, SingleThreadedPerformance, MemoryManagement, MultiProducerMultiConsumer,
     ABAAndUseAfterFree, HighContention, LiveLockDetection, DestructorSafety, EBREpochAdvancement,
     EmptyCheckRaceCondition}

----------------------------------------------------------------------------
(* hp_queue_tests.cpp *)

HpBasicFunctionality == BasicFunctionality
HpSingleThreadedPerformance == SingleThreadedPerformance
HpMemoryManagement == MemoryManagement
HpMultiProducerMultiConsumer == MultiProducerMultiConsumer
HpABAAndUseAfterFree == ABAAndUseAfterFree
HpHighContention == HighContention
HpLiveLockDetection == LiveLockDetection
HpDestructorSafety == DestructorSafety
HpQueueTests ==
    {HpBasicFunctionality, HpSingleThreadedPerformance, HpMemoryManagement,
     HpMultiProducerMultiConsumer, HpABAAndUseAfterFree, HpHighContention, HpLiveLockDetection,
     HpDestructorSafety}

=============================================================================
