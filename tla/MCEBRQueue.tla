----------------------------- MODULE MCEBRQueue -----------------------------
(* EBRQueue on small instances.                                               *)
EXTENDS EBRQueue, TLC

Symmetry == Permutations(Nodes \ {Dummy})

=============================================================================
