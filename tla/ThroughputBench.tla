---------------------------- MODULE ThroughputBench ----------------------------
(* The programs of the throughput benchmarks (bench_throughput.cpp,           *)
(* hp_bench_throughput.cpp, comprehensive_queue_benchmark.cpp) and of the     *)
(* example.  Producers and consumers run until they are stopped; a consumer   *)
(* then empties the queue, but does not wait for a producer that has already  *)
(* seen the flag up.                                                          *)
EXTENDS TestPrograms

KeepProducing == Producer(<<While("running", <<"put">>)>>)
\* Bug variant: a consumer that does not empty the queue.
LeaveTheRest == Consumer(<<While("running", <<"take">>)>>)
KeepConsuming == Consumer(<<While("running", <<"take">>), Drain>>)

\* ThroughputBenchmark::runBenchmark, with its monitor of the queue's size.
EbrThroughput ==
    [Program(Crew(Producers, KeepProducing, Consumers, KeepConsuming) \o <<Monitor>>,
             <<Do(<<"spawn", "stop", "join">>)>>)
        EXCEPT !.expects = "late"]

\* HPThroughputBenchmark::runBenchmark; its two monitors are one here.
HpThroughput == EbrThroughput

\* QueueBenchmark of comprehensive_queue_benchmark.cpp: a producer may have a
\* target, and the queue, a member, is drained before a benchmark starts.
ProducerThread(target) ==
    Producer(<<IF target = 0 THEN While("running", <<"put">>)
                             ELSE WhileAll(<<"rounds", "running">>, target, <<"put">>)>>)
ConsumerThread == Consumer(<<While("running", <<"take">>), Drain>>)
Comprehensive(target) ==
    [Program(Crew(Producers, ProducerThread(target), Consumers, ConsumerThread),
             <<Drain, Do(<<"spawn", "stop", "join">>)>>)
        EXCEPT !.expects = "late"]

\* runLatencyAnalysis(): a producer and a consumer that are started by a flag,
\* and a consumer that stops when it has counted every sample.
LatencyAnalysis ==
    [Program(<<Producer(<<Do(<<"await start">>), For(SoloSamples, <<"put">>)>>),
               Consumer(<<Do(<<"await start">>),
                          WhileAll(<<"missing">>, SoloSamples, <<"take", "count taken">>)>>)>>,
             <<Do(<<"spawn", "start", "join">>)>>)
        EXCEPT !.counts = {"taken"}]

\* The example: each consumer wants its share of the messages.
BasicUsage ==
    Program(Crew(Producers, Producer(<<For(Samples, <<"put">>)>>),
                 Consumers,
                 Consumer(<<WhileAll(<<"few">>, (Samples * Producers) \div Consumers, <<"take">>)>>)),
            <<For(SoloSamples, <<"put">>), Drain, Do(<<"spawn", "join">>), Drain>>)

ThroughputPrograms ==
    {EbrThroughput, HpThroughput, Comprehensive(0), Comprehensive(Samples), LatencyAnalysis, BasicUsage}

=============================================================================
