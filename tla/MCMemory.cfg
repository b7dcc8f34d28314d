CONSTANTS
  p1 = p1
  p2 = p2
  Procs <- TwoProcs
  initproc = p1
  FAN = 3
  LEVELS = 3
  PGSIZE = 2
  WORD = 128
  RAM <- Machines
  Deltas <- Steps
  SegEnds <- Ends
  MAXARG = 2
SPECIFICATION Spec
INVARIANTS PagesExact SizeIsMapped NoPanic CopiesExact
