----------------------------- MODULE AtomicDisk -----------------------------
(***************************************************************************)
(* What the log promises to the file system: the updates of an operation   *)
(* reach the disk together or not at all.  An operation that has ended is  *)
(* pending until a commit makes every pending operation durable in one     *)
(* step; a crash forgets what is pending and nothing else.                 *)
(***************************************************************************)
CONSTANT Ops
VARIABLES pending, durable

vars == <<pending, durable>>

Init == pending = {} /\ durable = {}

EndOp(o) ==
  /\ o \notin pending \cup durable
  /\ pending' = pending \cup {o}
  /\ UNCHANGED durable

\* Only when there is something to make durable.
Commit ==
  /\ pending # {}
  /\ durable' = durable \cup pending
  /\ pending' = {}

Crash == pending' = {} /\ UNCHANGED durable

Next == Commit \/ Crash \/ \E o \in Ops : EndOp(o)

Spec == Init /\ [][Next]_vars
=============================================================================
