-------------------------------- MODULE Fifo --------------------------------
(***************************************************************************)
(* What a pipe promises: bytes come out in the order they went in, none is *)
(* lost or made up while the pipe is open, and it never holds more than    *)
(* Size of them.                                                           *)
(***************************************************************************)
EXTENDS Naturals, Sequences, SequencesExt

CONSTANTS Pages, Bytes, Size

VARIABLES q, open  \* the contents of each pipe; the pipes that exist

Init == q = [pi \in Pages |-> <<>>] /\ open = {}

Open(pi) ==
  /\ pi \notin open /\ open' = open \cup {pi}
  /\ UNCHANGED q

Send(pi) ==
  /\ pi \in open
  /\ q' = [q EXCEPT ![pi] = q'[pi]]
  /\ IsPrefix(q[pi], q'[pi])
  /\ q'[pi] \in Seq(Bytes) /\ Len(q'[pi]) <= Size
  /\ UNCHANGED open

Receive(pi) ==
  /\ pi \in open
  /\ \E k \in 0 .. Len(q[pi]) : q' = [q EXCEPT ![pi] = SubSeq(@, k + 1, Len(@))]
  /\ UNCHANGED open

Close(pi) ==
  /\ pi \in open /\ open' = open \ {pi}
  /\ q' = [q EXCEPT ![pi] = <<>>]

Next == \E pi \in Pages : Open(pi) \/ Send(pi) \/ Receive(pi) \/ Close(pi)

Spec == Init /\ [][Next]_<<q, open>>
=============================================================================
