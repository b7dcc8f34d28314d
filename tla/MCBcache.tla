------------------------------ MODULE MCBcache ------------------------------
(* Three processes and three blocks, a cache of two or three buffers, and   *)
(* descriptors for two requests.                                            *)
EXTENDS Bcache, TLC

CONSTANTS p1, p2, p3, b1, b2, b3, n1, n2, n3

ThreeProcs == {p1, p2, p3}
ThreeBufs == {b1, b2, b3}
ThreeBlocks == {n1, n2, n3}
TwoOrThree == {<<b1, b2>>, <<b1, b2, b3>>}
Symm == Permutations(ThreeProcs) \cup Permutations(ThreeBlocks)
=============================================================================
