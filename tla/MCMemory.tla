------------------------------ MODULE MCMemory ------------------------------
(* Two processes on machines of several sizes.                             *)
EXTENDS Memory

CONSTANTS p1, p2

TwoProcs == {p1, p2}
Machines == {9, 14, 20}
Steps == {-5, -1, 3}
Ends == {1, 4}
=============================================================================
