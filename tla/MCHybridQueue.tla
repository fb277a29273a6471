---------------------------- MODULE MCHybridQueue ----------------------------
(* HybridQueue on small instances.                                            *)
EXTENDS HybridQueue, TLC

Symmetry == Permutations(Nodes \ {Dummy}) \cup Permutations(Blanks)

=============================================================================
