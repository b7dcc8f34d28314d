CONSTANTS
  p1 = p1
  p2 = p2
  pi1 = pi1
  Procs <- TwoProcs
  Pages <- OnePage
  NoPage = NoPage
  PIPESIZE = 2
  IDX = 4
  initproc = p1
  NFILE = 3
  NOFILE = 2
  Sizes <- Three
  Killable <- OnlyP2
SPECIFICATION Spec
INVARIANTS RefsExact EndsExact SleepersHaveCause
PROPERTY PipeIsFifo
CHECK_DEADLOCK FALSE
