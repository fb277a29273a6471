------------------------------ MODULE LatencyStats ------------------------------
(* LatencyStats, which every benchmark carries a copy of                      *)
(* (queue_comparison_bench_v3.cpp:169-250): a vector of latencies that is     *)
(* sorted in place when a percentile or a histogram is asked for, and a flag  *)
(* that remembers that it is sorted.  Latencies are natural numbers; means    *)
(* and deviations, which are plain arithmetic, are left out.                  *)
EXTENDS Naturals, Sequences, SequencesExt, FiniteSetsExt

NoStats == [latencies |-> <<>>, is_sorted |-> FALSE]

AddMeasurement(stats, latency) ==
    [latencies |-> Append(stats.latencies, latency), is_sorted |-> FALSE]

\* std::sort(): the same latencies, none before a smaller one.
IsSorting(order, s) == \A i, j \in DOMAIN s : i < j => s[order[i]] <= s[order[j]]
Sorted(s) ==
    LET order == CHOOSE order \in Bijection(DOMAIN s, DOMAIN s) : IsSorting(order, s)
    IN [i \in DOMAIN s |-> s[order[i]]]

EnsureSorted(stats) ==
    IF stats.is_sorted
    THEN stats
    ELSE [latencies |-> Sorted(stats.latencies), is_sorted |-> TRUE]

\* Position of percentile p in a sorted vector of n latencies, truncated as the
\* code does; sequences count from 1.  Bug variant: scaled by n.
PercentileIndexOff(n, p) == (p * n) \div 100 + 1
PercentileIndex(n, p) == (p * (n - 1)) \div 100 + 1

GetPercentile(stats, p) ==
    IF stats.latencies = <<>>
    THEN 0
    ELSE EnsureSorted(stats).latencies[PercentileIndex(Len(stats.latencies), p)]

GetMin(stats) == IF stats.latencies = <<>> THEN 0 ELSE Min(ToSet(stats.latencies))
GetMax(stats) == IF stats.latencies = <<>> THEN 0 ELSE Max(ToSet(stats.latencies))

\* All in the first bucket when they do not differ, else in proportion.
GetHistogram(stats, buckets) ==
    LET low == GetMin(stats)
        range == GetMax(stats) - low
        BucketOf(v) == IF range = 0 THEN 1 ELSE ((v - low) * (buckets - 1)) \div range + 1
    IN [b \in 1..buckets |->
           Cardinality({i \in DOMAIN stats.latencies : BucketOf(stats.latencies[i]) = b})]

\* makeResult(): what a benchmark reports of its latencies.
Percentiles == {50, 90, 95, 99}
MakeResult(stats, buckets) ==
    [sample_count |-> Len(stats.latencies),
     min |-> GetMin(stats),
     max |-> GetMax(stats),
     percentiles |-> [p \in Percentiles |-> GetPercentile(stats, p)],
     histogram |-> GetHistogram(EnsureSorted(stats), buckets)]

=============================================================================
