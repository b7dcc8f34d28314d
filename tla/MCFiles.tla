------------------------------ MODULE MCFiles -------------------------------
(* The file table with two processes and one page for pipes.               *)
EXTENDS Files

CONSTANTS p1, p2, pi1

TwoProcs == {p1, p2}
OnePage == {pi1}
Three == {3}
OnlyP2 == {p2}
=============================================================================
