------------------------------ MODULE MCMSQueue ------------------------------
(* MSQueue on small instances: sets of model values, and the symmetry of      *)
(* nodes and values (the dummy stands apart).                                 *)
EXTENDS MSQueue, TLC

Symmetry == Permutations(Threads) \cup Permutations(Nodes \ {Dummy}) \cup Permutations(Values)

=============================================================================
