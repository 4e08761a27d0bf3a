-------------------------------- MODULE MCCte --------------------------------
(* Instances of Cte for TLC. *)
EXTENDS Cte, TLC
ThreadSymmetry == Permutations(UserThreads) \cup Permutations(Spaces)
=============================================================================
