------------------------------- MODULE MCEBRv1 -------------------------------
(* EBRv1 on small instances.                                                  *)
EXTENDS EBRv1, TLC

Symmetry == Permutations(Readers) \cup Permutations(Threads \ Readers) \cup Permutations(Objects)

=============================================================================
