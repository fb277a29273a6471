------------------------------ MODULE StressTests ------------------------------
(* The programs of the stress tests: ebr_aba_stress_test.cpp and              *)
(* hp_aba_stress_test.cpp.                                                    *)
EXTENDS TestPrograms

----------------------------------------------------------------------------
(* ebr_aba_stress_test.cpp *)

\* Every thread dequeues right after it has enqueued, so that it always finds
\* something and nothing remains.
RapidEBRABAPattern ==
    [Program(Copies(Producers, Mixed(<<Do(<<"barrier", "await start">>),
                                       For(Samples, <<"put", "count made", "take", "count taken">>)>>)),
             <<Do(<<"spawn", "start", "join">>)>>)
        EXCEPT !.barrier = AllButMain(Producers, 0), !.counts = {"made", "taken"}]

EBRNodeRetirementStress ==
    Solo(<<For(Rounds, Times(SoloSamples, <<"put">>) \o <<"take">>), Drain>>)
EBRGuardLifecycleStress == Solo(<<For(SoloSamples, <<"put", "take">>), Drain>>)

\* Producers work while a burst is on, here one message at a time; the consumers,
\* here one, leave when the last burst is over and the queue is empty.
BurstTraffic ==
    [Program(Crew(Producers,
                  Producer(<<WhileAll(<<"bursts">>, Rounds,
                                      <<"await burst", "checked", "put", "count made">>)>>),
                  1,
                  Consumer(<<WhileAny(<<"bursts", "nonempty">>, Rounds, <<"take", "count taken">>)>>)),
             <<Do(<<"spawn">>), For(Rounds, <<"run", "stop", "next burst">>), Do(<<"join">>)>>)
        EXCEPT !.running = FALSE, !.expects = "late", !.counts = {"made", "taken"}]
EBRBurstTrafficStress == BurstTraffic

\* Threads come and go: those of the second cycle start when those of the first
\* have been joined.
Cycles(code) ==
    Program([t \in 1..(2 * Producers) |->
                [Mixed(code) EXCEPT !.spawn = IF t <= Producers THEN 1 ELSE 2]],
            <<For(2, <<"spawn", "join">>), Drain>>)
EBRThreadLifecycleStress == Cycles(<<For(Samples, <<"put", "take">>)>>)

EbrStressTests ==
    {RapidEBRABAPattern, EBRNodeRetirementStress, EBRGuardLifecycleStress, EBRBurstTrafficStress,
     EBRThreadLifecycleStress}

----------------------------------------------------------------------------
(* hp_aba_stress_test.cpp *)

RapidABAPattern == RapidEBRABAPattern
NodeAddressReuse == Solo(<<For(SoloSamples, <<"put", "take">>)>>)

\* More threads than hazard slots, until they are done or stopped.
HazardPointerSlotExhaustion ==
    Program(Copies(Producers, Mixed(<<WhileAll(<<"rounds", "running">>, Samples, <<"put", "take">>)>>)),
            <<Do(<<"spawn", "stop", "join">>)>>)

\* Beside a thread that allocates memory until the workers are done.
MemoryPressureReclamation ==
    Program(Copies(Producers, Producer(<<For(Samples, <<"put", "chance", "take">>)>>)) \o <<Monitor>>,
            <<Do(<<"spawn">> \o StopInOrder), Drain>>)

BurstTrafficStress == BurstTraffic

LongRunningStability ==
    Program(Copies(Producers, Mixed(<<While("running", <<"either">>)>>)) \o <<Monitor>>,
            <<Do(<<"spawn", "stop", "join">>), Drain>>)

ThreadLifecycleStress == Cycles(<<For(Samples, <<"either">>)>>)

HpStressTests ==
    {RapidABAPattern, NodeAddressReuse, HazardPointerSlotExhaustion, MemoryPressureReclamation,
     BurstTrafficStress, LongRunningStability, ThreadLifecycleStress}

=============================================================================
