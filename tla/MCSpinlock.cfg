CONSTANTS
  c1 = c1
  c2 = c2
  CPUs <- TwoCpus
  NoCpu = NoCpu
  NLocks = 2
SPECIFICATION Spec
INVARIANT NoPanic
