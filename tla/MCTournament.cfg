SPECIFICATION MCSpec
CONSTANTS
  num_levels = 2
  pow2 <- MCPow2
  Procs <- MCProcs
  MAX_PETERSON_LOCKS = 4
INVARIANTS
  UndoExact
PROPERTIES
  LockSafe
  LockLive
