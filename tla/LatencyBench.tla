----------------------------- MODULE LatencyBench ------------------------------
(* The programs of the latency benchmarks: lock_queue_latency_bench.cpp and    *)
(* STLLatencyBenchmark.hpp for the lock-based queue, ebr_bench_latency.cpp,   *)
(* hp_bench_latency.cpp, stl_bench_latency.cpp and its copy                   *)
(* bench_latency_stl.cpp.  They drive one unbounded queue.                    *)
EXTENDS TestPrograms

----------------------------------------------------------------------------
(* lock_queue_latency_bench.cpp; Burst and Paced of TestPrograms are its own. *)

LockSingleThreaded == SingleThreaded(Unbounded)
LockMultiProducer == MultiProducer(Unbounded)
LockLoadDependent == LoadDependent(Unbounded)
LockRatio(producers, consumers) == Ratio(Unbounded, producers, consumers)
LockRunAll ==
    {LockSingleThreaded, LockMultiProducer, LockLoadDependent, Burst, Paced}
      \cup {LockRatio(p, k) : p \in 1..Producers, k \in 1..Consumers}

\* runSystemLoadTest(): the benchmark under contention, on its own and beside
\* threads that do nothing with the queue.
LockSystemLoad == {LockMultiProducer}

----------------------------------------------------------------------------
(* STLLatencyBenchmark.hpp *)

StlHeaderSingleThreaded == SingleThreaded(Unbounded)
StlHeaderMultiProducer == MultiProducer(Unbounded)

----------------------------------------------------------------------------
(* ebr_bench_latency.cpp *)

EbrSingleThreaded == SingleThreaded(Unbounded)
EbrMultiProducer == MultiProducer(Unbounded)
EbrLoadDependent == LoadDependent(Unbounded)
EbrBurst == Burst
EbrCoordinatedOmission == Paced
EbrRunAll ==
    {EbrSingleThreaded, EbrMultiProducer, EbrLoadDependent, EbrBurst, EbrCoordinatedOmission}

----------------------------------------------------------------------------
(* hp_bench_latency.cpp *)

HpSingleThreaded == SingleThreaded(Unbounded)
HpMultiProducer == MultiProducer(Unbounded)
HpLoadDependent == LoadDependent(Unbounded)
HpBurst == Burst
HpCoordinatedOmission == Paced
HpRunAll ==
    {HpSingleThreaded, HpMultiProducer, HpLoadDependent, HpBurst, HpCoordinatedOmission}

----------------------------------------------------------------------------
(* stl_bench_latency.cpp *)

StlSingleThreaded == SingleThreaded(Unbounded)
StlMultiProducer == MultiProducer(Unbounded)
StlLoadDependent == LoadDependent(Unbounded)
StlBurst == Burst
StlCoordinatedOmission == Paced
StlRunAll ==
    {StlSingleThreaded, StlMultiProducer, StlLoadDependent, StlBurst, StlCoordinatedOmission}

----------------------------------------------------------------------------
(* bench_latency_stl.cpp *)

CopySingleThreaded == SingleThreaded(Unbounded)
CopyMultiProducer == MultiProducer(Unbounded)
CopyLoadDependent == LoadDependent(Unbounded)
CopyBurst == Burst
CopyCoordinatedOmission == Paced
CopyRunAll ==
    {CopySingleThreaded, CopyMultiProducer, CopyLoadDependent, CopyBurst, CopyCoordinatedOmission}

LatencyPrograms ==
    LockRunAll \cup LockSystemLoad \cup {StlHeaderSingleThreaded, StlHeaderMultiProducer}
      \cup EbrRunAll \cup HpRunAll \cup StlRunAll \cup CopyRunAll

=============================================================================
