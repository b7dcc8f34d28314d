------------------------------ MODULE LineInput -----------------------------
(***************************************************************************)
(* What the console promises a reader of its input: the characters of the  *)
(* line being typed can be taken back until the line ends, and what has    *)
(* been handed over is read in order, each character once.                 *)
(***************************************************************************)
EXTENDS Naturals, Sequences

CONSTANTS Chars, Ends, Size  \* characters, those that end a line, the room

VARIABLES ready, edit  \* handed over to readers; still being typed

Init == ready = <<>> /\ edit = <<>>

Type(c) ==
  /\ Len(ready) + Len(edit) < Size
  /\ IF c \in Ends \/ Len(ready) + Len(edit) + 1 = Size
     THEN ready' = Append(ready \o edit, c) /\ edit' = <<>>
     ELSE edit' = Append(edit, c) /\ UNCHANGED ready

Erase == edit # <<>> /\ edit' = SubSeq(edit, 1, Len(edit) - 1) /\ UNCHANGED ready

EraseLine == edit' = <<>> /\ UNCHANGED ready

Take == ready # <<>> /\ ready' = Tail(ready) /\ UNCHANGED edit

Next == (\E c \in Chars : Type(c)) \/ Erase \/ EraseLine \/ Take

Spec == Init /\ [][Next]_<<ready, edit>>
=============================================================================
