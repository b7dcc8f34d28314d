------------------------------- MODULE MCProc -------------------------------
(* CPUs for the model checker. *)
EXTENDS Proc, TLC
CONSTANTS c1, c2
TwoCpus == {c1, c2}
Alike == Permutations(TwoCpus)
=============================================================================
