CONSTANTS
  c1 = c1
  c2 = c2
  CPUs <- TwoCpus
  NoCpu = NoCpu
  NPROC = 3
  Targets = {2, 3}
  MaxPid = 3
SPECIFICATION Spec
SYMMETRY Alike
INVARIANTS OneStackOneCpu NoMissedExit ParentsLive
