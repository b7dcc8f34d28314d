CONSTANTS
  p1 = p1
  p2 = p2
  NoProc = NoProc
  Procs <- TwoProcs
  Inums <- ThreeInums
  Names <- TwoNames
  Loads <- SomeLoads
SYMMETRY Symm
SPECIFICATION Spec
INVARIANTS InodeRefsExact LinksCover OnlyReusedLeak CopyCurrent
 
