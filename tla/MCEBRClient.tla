----------------------------- MODULE MCEBRClient -----------------------------
(* EBRClient on small instances.                                              *)
EXTENDS EBRClient, TLC

Symmetry == Permutations(Threads) \cup Permutations(Objects)

=============================================================================
