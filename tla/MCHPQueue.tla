------------------------------ MODULE MCHPQueue ------------------------------
(* HPQueue on small instances.                                                *)
EXTENDS HPQueue, TLC

Symmetry == Permutations(Nodes \ {Dummy})

=============================================================================
