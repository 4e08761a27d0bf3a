-------------------------------- MODULE MCGpu --------------------------------
(* Instances of Gpu for TLC. *)
EXTENDS Gpu, TLC

ThreadSymmetry == Permutations(Threads)

\* BOUND: fbdraw paints over the first cell and the margin only.
FewPainted == painted \subseteq {0, Margin}
=============================================================================
