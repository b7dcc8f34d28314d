----------------------------- MODULE MCConsole ------------------------------
(* The console busy with input, with output, and with a little of both.    *)
EXTENDS Console

CONSTANTS r1, r2, w1, w2, k1, intr

TwoReaders == {r1, r2}
TwoWriters == {w1, w2}
OnePrinter == {k1}
ThreeLoads ==
  {[readers |-> {r1, r2}, writers |-> {}, printers |-> {},
    keys |-> {"x", "cr", "^D", "^U", "^H", "^P", "nul"}],
   [readers |-> {}, writers |-> {w1, w2}, printers |-> {k1}, keys |-> {"x", "^H"}],
   [readers |-> {r1}, writers |-> {w1}, printers |-> {}, keys |-> {"cr"}]}
OneOrThree == {1, 3}
=============================================================================
