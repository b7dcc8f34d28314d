------------------------------- MODULE MCLog -------------------------------
(* Operations and blocks for the model checker. *)
EXTENDS Log, TLC
CONSTANTS o1, o2, o3, b1, b2, b3, b4, b5, b6
ThreeOps == {o1, o2, o3}
TwoBlocks == {b1, b2}
SixBlocks == {b1, b2, b3, b4, b5, b6}
AlikeSix == Permutations(ThreeOps) \cup Permutations(SixBlocks)
=============================================================================
