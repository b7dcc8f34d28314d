CONSTANTS
  o1 = o1
  o2 = o2
  o3 = o3
  b1 = b1
  b2 = b2
  b3 = b3
  b4 = b4
  b5 = b5
  b6 = b6
  Ops <- ThreeOps
  Blocks <- SixBlocks
  Boot = Boot
  NoBlock = NoBlock
  Torn = Torn
  MAXOPBLOCKS = 2
  LOGSIZE = 6
  nlog = 6
  MaxCrashes = 0
SPECIFICATION Spec
SYMMETRY AlikeSix
INVARIANT NoPanic
