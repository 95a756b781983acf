----------------------------- MODULE MCMiniLog -----------------------------
(* Instances of MiniLog for TLC: the application processors are            *)
(* interchangeable, the boot processor has no time limit.                  *)
EXTENDS MiniLog, TLC

Symmetry == Permutations(Slow)

=============================================================================
