---------------------------- MODULE ComparisonBench ----------------------------
(* The programs of the benchmarks that compare the queues                     *)
(* (queue_comparison_bench_v3.cpp and its predecessors v2 and v1).  A queue   *)
(* type matters here by its capacity only.                                    *)
EXTENDS TestPrograms

CONSTANT
    BoostCapacity   \* BOOST_QUEUE_CAPACITY, of the only bounded queue

Capacities == {Unbounded, BoostCapacity}

----------------------------------------------------------------------------
(* Version 3: its common benchmarks are the shapes of TestPrograms. *)

RunBaseline == {SingleThreaded(c) : c \in Capacities}
RunContentionAnalysis == {MultiProducer(c) : c \in Capacities}
RunLoadAnalysis == {LoadDependent(c) : c \in Capacities}
RunRatioAnalysis == {Ratio(c, p, k) : c \in Capacities, p \in 1..Producers, k \in 1..Consumers}
RunThroughputAnalysis == {Throughput(c) : c \in Capacities}

\* The consumer gives up when it is told to, or when it has everything.
EpochStallTest ==
    [Program(Crew(Producers,
                  Producer(<<WhileAll(<<"rounds", "running">>, Samples, <<"put", "count made">>)>>),
                  1, Consumer(<<WhileAll(<<"running", "few">>, Producers * Samples, <<"take">>)>>)),
             <<Do(<<"spawn">> \o StopInOrder)>>)
        EXCEPT !.expects = "some", !.counts = {"made"}]

RunHybridSpecificTests == {EpochStallTest}
RunAll ==
    RunBaseline \cup RunContentionAnalysis \cup RunLoadAnalysis \cup RunRatioAnalysis
      \cup RunThroughputAnalysis \cup RunHybridSpecificTests

\* EpochStallInducer: threads that keep enqueuing and dequeuing in a queue of
\* their own, slowly, until its owner stops them.
EpochStallInducer ==
    [Program(Copies(Producers, Mixed(<<While("running", <<"put", "take">>)>>)),
             <<Do(<<"spawn", "stop", "join">>)>>)
        EXCEPT !.expects = "some"]

\* Producers and consumers that are watched for a while and then stopped.
AnalyzeHybridBehavior ==
    [Program(Crew(Producers, Producer(<<While("running", <<"put">>)>>),
                  Consumers, Consumer(<<While("running", <<"take">>)>>)) \o <<Monitor>>,
             <<Do(<<"spawn", "stop", "join">>)>>)
        EXCEPT !.expects = "some"]

\* Producers that now and then dequeue too.
HybridStressTest ==
    [Program(Crew(Producers,
                  Producer(<<While("running", <<"put", "chance", "take">>), Do(<<"publish made">>)>>),
                  1, Consumer(<<While("running", <<"take">>), Do(<<"publish taken">>)>>)) \o <<Monitor>>,
             <<Do(<<"spawn", "stop", "join">>)>>)
        EXCEPT !.expects = "some", !.counts = {"made"}]

CorrectnessTest ==
    [Program(Crew(Producers,
                  Producer(<<WhileAll(<<"rounds", "running">>, Samples, <<"put", "count made">>)>>),
                  Consumers, Consumer(<<UntilEmpty(<<"take", "count taken">>)>>)),
             <<Do(<<"spawn">> \o StopInOrder)>>)
        EXCEPT !.counts = {"made", "taken"}]

\* Every thread puts a batch, then takes a batch.
MemoryLeakTest ==
    [Program(Copies(Producers, Mixed(<<While("running", Times(Rounds, <<"put">>)
                                              \o Times(Rounds, <<"take", "count taken">>))>>))
               \o <<Monitor>>,
             <<Do(<<"spawn", "stop", "join">>)>>)
        EXCEPT !.expects = "some", !.counts = {"taken"}]

RegressionTest == {SingleThreaded(c) : c \in Capacities} \cup {Throughput(c) : c \in Capacities}
ComparativeTests == {SingleThreaded(Unbounded), MultiProducer(Unbounded), Throughput(Unbounded)}
HybridRegressionTest ==
    {Solo(<<Do(<<"put", "take">>)>>), CorrectnessTest, SingleThreaded(Unbounded),
     Solo(<<For(SoloSamples, <<"put", "take">>)>>), MemoryLeakTest}

V3 == RunAll \cup RegressionTest \cup ComparativeTests \cup HybridRegressionTest
        \cup {EpochStallInducer, AnalyzeHybridBehavior, HybridStressTest}

----------------------------------------------------------------------------
(* Version 2, with the bounded queue. *)

SingleThreadedV2(capacity) == SingleThreaded(capacity)
MultiProducerV2(capacity) == MultiProducer(capacity)
LoadDependentV2(capacity) == LoadDependent(capacity)
RatioV2(capacity, producers, consumers) == Ratio(capacity, producers, consumers)
ThroughputV2(capacity) == Throughput(capacity)
RunAllV2 ==
    UNION {{SingleThreadedV2(c), MultiProducerV2(c), LoadDependentV2(c), ThroughputV2(c)}
             \cup {RatioV2(c, p, k) : p \in 1..Producers, k \in 1..Consumers} : c \in Capacities}
RegressionTestV2 == {SingleThreadedV2(c) : c \in Capacities} \cup {ThroughputV2(c) : c \in Capacities}

----------------------------------------------------------------------------
(* Version 1, without it. *)

SingleThreadedV1 == SingleThreaded(Unbounded)
MultiProducerV1 == MultiProducer(Unbounded)
LoadDependentV1 == LoadDependent(Unbounded)
RatioV1(producers, consumers) == Ratio(Unbounded, producers, consumers)
ThroughputV1 == Throughput(Unbounded)
RunAllV1 ==
    {SingleThreadedV1, MultiProducerV1, LoadDependentV1, ThroughputV1}
      \cup {RatioV1(p, k) : p \in 1..Producers, k \in 1..Consumers}
RegressionTestV1 == {SingleThreadedV1, ThroughputV1}

=============================================================================
