CONSTANTS
  p1 = p1
  p2 = p2
  NoProc = NoProc
  Procs <- TwoProcs
  Inums <- ThreeInums
  Opens <- SomeOpens
  FSSIZE = 11
  LOGSIZE = 1
  ninodeblocks = 1
  BPB = 10
  BSIZE = 2
  NDIRECT = 1
  NINDIRECT = 2
  MAXOPBLOCKS = 6
  WORD = 16
  ROOTBYTES = 1
  FILEBYTES = 1
  WriteSizes <- OneSize
  ReadSizes <- TwoReads
SYMMETRY Symm
SPECIFICATION Spec
INVARIANTS BitmapExact FileIsArray OpFits
