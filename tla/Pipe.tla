-------------------------------- MODULE Pipe --------------------------------
(***************************************************************************)
(* Pipes, kernel/pipe.c.                                                   *)
(*                                                                         *)
(* A step is what is done under pi->lock without sleeping.  A module that  *)
(* EXTENDS this one supplies the system calls: it puts a process at        *)
(* "read" or "write" with the pipe in at[p] and the count in left[p], or   *)
(* at "pipeclose" with the end to close in last[p].                        *)
(*                                                                         *)
(* The bytes that go through a pipe are told apart by their number, modulo *)
(* IDX.                                                                    *)
(***************************************************************************)
EXTENDS Integers, Sequences, FiniteSetsExt

CONSTANTS
  Procs,
  Killable,       \* bound: the processes that kill() is called for
  Pages, NoPage,  \* pages that kalloc() may give to a pipe
  PIPESIZE,
  IDX             \* nread and nwrite count modulo this: 2^32

ASSUME PipeAssumption ==
  /\ PIPESIZE \in Nat \ {0} /\ IDX \in Nat /\ IDX % PIPESIZE = 0 /\ IDX > PIPESIZE
  /\ NoPage \notin Pages

VARIABLES
  data, nread, nwrite, readopen, writeopen,  \* struct pipe, per page
  pages,                                     \* the pages in use
  pc, at, left, last, killed,
  cut  \* history: pipes on which a writer was killed in the middle of a call

pipeVars == <<data, nread, nwrite, readopen, writeopen, pages, cut>>
callVars == <<pc, at, left, last, killed>>

Numbers == 0 .. IDX - 1

Avail(pi) == (nwrite[pi] - nread[pi]) % IDX

\* A mutant: the pipe is taken to be full one byte late.
RoomForOneMore(pi) == (nread[pi] + PIPESIZE + 1 - nwrite[pi]) % IDX

\* The bytes that fit before the test for a full pipe holds.
Room(pi) == (nread[pi] + PIPESIZE - nwrite[pi]) % IDX

\* The unread bytes of a pipe, in order.
Content(pi) == [j \in 1 .. Avail(pi) |-> data[pi][(nread[pi] + j - 1) % PIPESIZE]]

Goto(p, place) == pc' = [pc EXCEPT ![p] = place]

\* Process p goes to `place', and whoever sleeps at `from' on its pipe goes on.
GotoAndWakeup(p, place, pi, from, to) ==
  pc' = [q \in Procs |-> IF q = p THEN place
                         ELSE IF pc[q] = from /\ at[q] = pi THEN to ELSE pc[q]]

Leave(p) == at' = [at EXCEPT ![p] = NoPage] /\ left' = [left EXCEPT ![p] = 0]

\* kalloc() and kfree() fill the page with junk.
Junk == [i \in 0 .. PIPESIZE - 1 |-> 0]

PipeInit ==
  /\ data = [pi \in Pages |-> Junk]
  /\ nread = [pi \in Pages |-> 0] /\ nwrite = [pi \in Pages |-> 0]
  /\ readopen = [pi \in Pages |-> FALSE] /\ writeopen = [pi \in Pages |-> FALSE]
  /\ pages = {} /\ cut = {}
-----------------------------------------------------------------------------
\* The rest of pipealloc(), once it has its page.
NewPipe(pi) ==
  /\ readopen' = [readopen EXCEPT ![pi] = TRUE]
  /\ writeopen' = [writeopen EXCEPT ![pi] = TRUE]
  /\ nread' = [nread EXCEPT ![pi] = 0] /\ nwrite' = [nwrite EXCEPT ![pi] = 0]
  /\ data' = [data EXCEPT ![pi] = Junk]
  /\ pages' = pages \cup {pi}
  /\ UNCHANGED cut

\* Puts k bytes into the ring, for k <= PIPESIZE.
Put(pi, k) ==
  LET new == {j \in Numbers : (j - nwrite[pi]) % IDX < k}
      spot(j) == j % PIPESIZE
  IN
  /\ data' = [data EXCEPT ![pi] = [i \in DOMAIN @ |->
                 IF \E j \in new : spot(j) = i THEN CHOOSE j \in new : spot(j) = i ELSE @[i]]]
  /\ nwrite' = [nwrite EXCEPT ![pi] = (@ + k) % IDX]

\* pipewrite() up to its next sleep() or return.  copyin() may fail at any
\* byte.  killed() is tested before each byte: a process killed after some of
\* them returns without waking the readers.
pipewrite(p) ==
  LET pi == at[p]
      most == Min({left[p], Room(pi)})
  IN
  /\ pc[p] = "write"
  /\ \/ /\ left[p] > 0 /\ (~readopen[pi] \/ killed[p])
        /\ Goto(p, "user") /\ Leave(p)
        /\ UNCHANGED <<data, nwrite, killed, cut>>
     \/ /\ left[p] = 0 \/ (readopen[pi] /\ ~killed[p])
        /\ \E k \in 0 .. most :
             /\ Put(pi, k)
             /\ \/ /\ k = left[p] \/ k < most
                   /\ GotoAndWakeup(p, "user", pi, "read_sleep", "read")
                   /\ Leave(p) /\ UNCHANGED <<killed, cut>>
                \/ /\ k = Room(pi) /\ k < left[p]
                   /\ GotoAndWakeup(p, "write_sleep", pi, "read_sleep", "read")
                   /\ left' = [left EXCEPT ![p] = @ - k]
                   /\ UNCHANGED <<at, killed, cut>>
                \/ /\ p \in Killable /\ k \in 1 .. left[p] - 1
                   /\ killed' = [killed EXCEPT ![p] = TRUE] /\ cut' = cut \cup {pi}
                   /\ Goto(p, "user") /\ Leave(p)
  /\ UNCHANGED <<nread, readopen, writeopen, pages, last>>

\* piperead() up to its next sleep() or return.  A byte that copyout() cannot
\* deliver has been taken out of the pipe.
piperead(p) ==
  LET pi == at[p]
      most == Min({left[p], Avail(pi)})
  IN
  /\ pc[p] = "read"
  /\ IF nread[pi] = nwrite[pi] /\ writeopen[pi]
       THEN /\ \/ killed[p] /\ Goto(p, "user") /\ Leave(p)
               \/ ~killed[p] /\ Goto(p, "read_sleep") /\ UNCHANGED <<at, left>>
            /\ UNCHANGED nread
       ELSE /\ \E k \in {most} \cup 1 .. most : nread' = [nread EXCEPT ![pi] = (@ + k) % IDX]
            /\ GotoAndWakeup(p, "user", pi, "write_sleep", "write") /\ Leave(p)
  /\ UNCHANGED <<data, nwrite, readopen, writeopen, pages, cut, last, killed>>

\* A mutant: the first end to close frees the page.
PipeCloseEither(p, after) ==
  LET pi == last[p].pipe IN
  /\ pc[p] = "pipeclose"
  /\ IF last[p].writable
       THEN /\ writeopen' = [writeopen EXCEPT ![pi] = FALSE] /\ UNCHANGED readopen
            /\ GotoAndWakeup(p, after, pi, "read_sleep", "read")
       ELSE /\ readopen' = [readopen EXCEPT ![pi] = FALSE] /\ UNCHANGED writeopen
            /\ GotoAndWakeup(p, after, pi, "write_sleep", "write")
  /\ IF readopen'[pi] /\ writeopen'[pi]
       THEN UNCHANGED <<data, nread, nwrite, pages, cut>>
       ELSE /\ pages' = pages \ {pi} /\ cut' = cut \ {pi}
            /\ data' = [data EXCEPT ![pi] = Junk]
            /\ nread' = [nread EXCEPT ![pi] = 0] /\ nwrite' = [nwrite EXCEPT ![pi] = 0]
  /\ UNCHANGED <<at, left, killed>>

\* A mutant: each end wakes its own side.
PipeCloseWakesOwn(p, after) ==
  LET pi == last[p].pipe IN
  /\ pc[p] = "pipeclose"
  /\ IF last[p].writable
       THEN /\ writeopen' = [writeopen EXCEPT ![pi] = FALSE] /\ UNCHANGED readopen
            /\ GotoAndWakeup(p, after, pi, "write_sleep", "write")
       ELSE /\ readopen' = [readopen EXCEPT ![pi] = FALSE] /\ UNCHANGED writeopen
            /\ GotoAndWakeup(p, after, pi, "read_sleep", "read")
  /\ IF readopen'[pi] \/ writeopen'[pi]
       THEN UNCHANGED <<data, nread, nwrite, pages, cut>>
       ELSE /\ pages' = pages \ {pi} /\ cut' = cut \ {pi}
            /\ data' = [data EXCEPT ![pi] = Junk]
            /\ nread' = [nread EXCEPT ![pi] = 0] /\ nwrite' = [nwrite EXCEPT ![pi] = 0]
  /\ UNCHANGED <<at, left, killed>>

\* pipeclose(): the second end to close frees the page.  after is where the
\* caller goes on.
pipeclose(p, after) ==
  LET pi == last[p].pipe IN
  /\ pc[p] = "pipeclose"
  /\ IF last[p].writable
       THEN /\ writeopen' = [writeopen EXCEPT ![pi] = FALSE] /\ UNCHANGED readopen
            /\ GotoAndWakeup(p, after, pi, "read_sleep", "read")
       ELSE /\ readopen' = [readopen EXCEPT ![pi] = FALSE] /\ UNCHANGED writeopen
            /\ GotoAndWakeup(p, after, pi, "write_sleep", "write")
  /\ IF readopen'[pi] \/ writeopen'[pi]
       THEN UNCHANGED <<data, nread, nwrite, pages, cut>>
       ELSE /\ pages' = pages \ {pi} /\ cut' = cut \ {pi}
            /\ data' = [data EXCEPT ![pi] = Junk]
            /\ nread' = [nread EXCEPT ![pi] = 0] /\ nwrite' = [nwrite EXCEPT ![pi] = 0]
  /\ UNCHANGED <<at, left, killed>>

\* kill().  One that comes between the test of killed() and the sleep() does
\* not wake the process.
kill(p) ==
  /\ ~killed[p] /\ killed' = [killed EXCEPT ![p] = TRUE]
  /\ \/ UNCHANGED pc
     \/ pc[p] = "read_sleep" /\ Goto(p, "read")
     \/ pc[p] = "write_sleep" /\ Goto(p, "write")
  /\ UNCHANGED <<pipeVars, at, left, last>>
=============================================================================
