SPECIFICATION FairSpec
CONSTANTS
  Progs = {1, 2}
  Procs <- MCProcs
  MAX_PETERSON_LOCKS = 1
  ITERATIONS = 2
  Killable <- FirstProg
INVARIANTS
  MutualExclusion
  LockIsOurs
  BoundedBypass
  LeaksExplained
PROPERTY AcquireReturns
