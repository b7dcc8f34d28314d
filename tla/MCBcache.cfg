CONSTANTS
  p1 = p1
  p2 = p2
  p3 = p3
  b1 = b1
  b2 = b2
  n1 = n1
  n2 = n2
  n3 = n3
  b3 = b3
  Procs <- ThreeProcs
  Bufs <- ThreeBufs
  Blocks <- ThreeBlocks
  NoBuf = NoBuf
  NoBlock = NoBlock
  NoProc = NoProc
  Caches <- TwoOrThree
  NUM = 6
  MaxLogged = 1
SYMMETRY Symm
SPECIFICATION Spec
INVARIANTS HolderSeesLatest NoForgottenSleeper DescriptorsExact
