----------------------------- MODULE MCSpinlock -----------------------------
(* CPUs for the model checker. *)
EXTENDS Spinlock
CONSTANTS c1, c2
TwoCpus == {c1, c2}
=============================================================================
