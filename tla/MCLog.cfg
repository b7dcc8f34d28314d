CONSTANTS
  o1 = o1
  o2 = o2
  o3 = o3
  b1 = b1
  b2 = b2
  b3 = b3
  b4 = b4
  b5 = b5
  b6 = b6
  Ops <- ThreeOps
  Blocks <- TwoBlocks
  Boot = Boot
  NoBlock = NoBlock
  Torn = Torn
  MAXOPBLOCKS = 2
  LOGSIZE = 4
  nlog = 4
  MaxCrashes = 2
SPECIFICATION FairSpec
INVARIANTS CrashConsistent CacheCurrent
PROPERTIES LogIsAtomic OpsEnd
