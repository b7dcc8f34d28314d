CONSTANTS
  r1 = r1
  r2 = r2
  w1 = w1
  w2 = w2
  k1 = k1
  intr = intr
  Readers <- TwoReaders
  Writers <- TwoWriters
  Printers <- OnePrinter
  Handler = intr
  Loads <- ThreeLoads
  UART_TX_BUF_SIZE = 2
  TXIDX = 4
  FIFO = 3
  ReadSizes <- OneOrThree
  INPUT_BUF_SIZE = 3
  IDX = 6
  BACKSPACE = 3
SPECIFICATION Spec
INVARIANTS InputNotStuck OutputInOrder OutputNotStuck NoOverrun
PROPERTY InputIsLines
