------------------------------- MODULE Catalogue -------------------------------
(* All the programs, each once however many files have a copy of it, as       *)
(* Harness runs them.                                                         *)
EXTENDS FiniteSetsExt, ComparisonBench, LatencyBench, ThroughputBench, QueueTests, StressTests

AllPrograms ==
    V3 \cup RunAllV2 \cup RegressionTestV2 \cup RunAllV1 \cup RegressionTestV1
      \cup LatencyPrograms \cup ThroughputPrograms
      \cup EbrQueueTests \cup HpQueueTests \cup EbrStressTests \cup HpStressTests

Programs == FoldSet(LAMBDA program, sequence : Append(sequence, Load(program)), <<>>, AllPrograms)

=============================================================================
