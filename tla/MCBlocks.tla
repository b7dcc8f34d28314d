------------------------------ MODULE MCBlocks ------------------------------
(* Two processes, two files of up to three blocks, three blocks left on disk. *)
EXTENDS Blocks, TLC

CONSTANTS p1, p2

TwoProcs == {p1, p2}
Symm == Permutations(TwoProcs)
ThreeInums == 1 .. 3
SomeOpens == {[p \in TwoProcs |-> 2], [p \in TwoProcs |-> IF p = p1 THEN 2 ELSE 3],
              [p \in TwoProcs |-> IF p = p1 THEN 3 ELSE 2]}
OneSize == {5}
TwoReads == {2, WORD - 1}
=============================================================================
