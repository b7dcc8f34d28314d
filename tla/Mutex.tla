------------------------------- MODULE Mutex --------------------------------
(***************************************************************************)
(* What a lock promises to the processes that share it: a process asks for *)
(* the lock, is granted it while nobody else has it, and gives it back.    *)
(***************************************************************************)
CONSTANT Clients

VARIABLE st  \* st[p]: "out", "want" or "in"

Init == st = [p \in Clients |-> "out"]

Request(p) == st[p] = "out" /\ st' = [st EXCEPT ![p] = "want"]

Grant(p) ==
  /\ st[p] = "want"
  /\ \A q \in Clients : st[q] # "in"
  /\ st' = [st EXCEPT ![p] = "in"]

Leave(p) == st[p] = "in" /\ st' = [st EXCEPT ![p] = "out"]

Next == \E p \in Clients : Request(p) \/ Grant(p) \/ Leave(p)

SafeSpec == Init /\ [][Next]_st

\* Whoever asks is served, provided that the others give the lock back.
NoStarvation == \A p \in Clients : st[p] = "want" ~> st[p] = "in"

Spec == SafeSpec /\ NoStarvation
=============================================================================
