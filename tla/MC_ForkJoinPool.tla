--------------------------- MODULE MC_ForkJoinPool ---------------------------
(***************************************************************************)
(* Instances of ForkJoinPool for TLC.                                      *)
(***************************************************************************)
EXTENDS ForkJoinPool, TLC

CONSTANTS c1, c2

\* Callers run the same code on their own requests.
CallerSymmetry == Permutations(Callers)
=============================================================================
