------------------------------- MODULE Files --------------------------------
(***************************************************************************)
(* The file table, kernel/file.c, and the descriptors of the processes,    *)
(* kernel/sysfile.c, for files that are pipes (Pipe): pipe(), dup(),       *)
(* close(), read(), write(), and what fork() and exit() do with files.     *)
(*                                                                         *)
(* A process's ofile[] is read and written by itself alone, so a step is   *)
(* what is done under ftable.lock or pi->lock with the private work around *)
(* it.                                                                     *)
(***************************************************************************)
EXTENDS Pipe, SequencesExt

CONSTANTS
  initproc,   \* never exits
  NFILE, NOFILE,
  Sizes       \* bound: the counts of read() and write()

VARIABLES
  ref, file,      \* ftable: reference counts; which end of which pipe
  ofile,
  mine, closing,  \* files that a call has allocated; that it has yet to close
  exiting, child, fdi

fileVars == <<ref, file, ofile, mine, closing>>
procVars == <<exiting, child, fdi>>
vars == <<pipeVars, callVars, fileVars, procVars>>

Files == 0 .. NFILE - 1
FDs == 0 .. NOFILE - 1
NoFile == -1
FD_NONE == [pipe |-> NoPage, writable |-> FALSE]

Init ==
  /\ PipeInit
  /\ ref = [f \in Files |-> 0] /\ file = [f \in Files |-> FD_NONE]
  /\ ofile = [p \in Procs |-> [fd \in FDs |-> NoFile]]
  /\ mine = [p \in Procs |-> <<>>] /\ closing = [p \in Procs |-> <<>>]
  /\ pc = [p \in Procs |-> IF p = initproc THEN "user" ELSE "unused"]
  /\ at = [p \in Procs |-> NoPage] /\ left = [p \in Procs |-> 0]
  /\ last = [p \in Procs |-> FD_NONE] /\ killed = [p \in Procs |-> FALSE]
  /\ exiting = [p \in Procs |-> FALSE] /\ child = [p \in Procs |-> p]
  /\ fdi = [p \in Procs |-> 0]

\* In user mode; a process that was killed exits before it gets there.
Calls(p) == pc[p] = "user" /\ ~killed[p]
Free == {f \in Files : ref[f] = 0}
FreeFDs(p) == {fd \in FDs : ofile[p][fd] = NoFile}
-----------------------------------------------------------------------------
(***************************************************************************)
(* pipe()                                                                  *)
(***************************************************************************)

\* filealloc() for the next end of a new pipe; when the table is full, what
\* was allocated is closed.
filealloc(p) ==
  /\ (Calls(p) /\ Free # {}) \/ pc[p] = "pipealloc"
  /\ IF Free = {}
       THEN /\ closing' = [closing EXCEPT ![p] = mine[p]]
            /\ mine' = [mine EXCEPT ![p] = <<>>]
            /\ Goto(p, "fileclose") /\ UNCHANGED ref
       ELSE /\ ref' = [ref EXCEPT ![Min(Free)] = 1]
            /\ mine' = [mine EXCEPT ![p] = Append(@, Min(Free))]
            /\ Goto(p, IF mine[p] = <<>> THEN "pipealloc" ELSE "kalloc")
            /\ UNCHANGED closing
  /\ UNCHANGED <<pipeVars, at, left, last, killed, file, ofile, procVars>>

\* The rest of pipealloc() and of sys_pipe().  kalloc(), fdalloc() and
\* copyout() may fail; then both files are closed.
sys_pipe(p) ==
  LET f0 == mine[p][1]
      f1 == mine[p][2]
      fd0 == Min(FreeFDs(p))
      fd1 == Min(FreeFDs(p) \ {fd0})
      bad == Goto(p, "fileclose") /\ closing' = [closing EXCEPT ![p] = mine[p]]
  IN
  /\ pc[p] = "kalloc"
  /\ \/ bad /\ UNCHANGED <<pipeVars, file, ofile>>
     \/ \E pi \in Pages \ pages :
          /\ NewPipe(pi)
          /\ file' = [file EXCEPT ![f0] = [pipe |-> pi, writable |-> FALSE],
                                  ![f1] = [pipe |-> pi, writable |-> TRUE]]
          /\ \/ bad /\ UNCHANGED ofile
             \/ /\ Cardinality(FreeFDs(p)) >= 2
                /\ ofile' = [ofile EXCEPT ![p][fd0] = f0, ![p][fd1] = f1]
                /\ Goto(p, "user") /\ UNCHANGED closing
  /\ mine' = [mine EXCEPT ![p] = <<>>]
  /\ UNCHANGED <<at, left, last, killed, ref, procVars>>
-----------------------------------------------------------------------------
(***************************************************************************)
(* dup(), close(), read(), write()                                         *)
(***************************************************************************)

\* A mutant: dup() copies the pointer alone.
DupUncounted(p, fd) ==
  LET f == ofile[p][fd] IN
  /\ Calls(p) /\ f # NoFile /\ FreeFDs(p) # {}
  /\ ofile' = [ofile EXCEPT ![p][Min(FreeFDs(p))] = f]
  /\ UNCHANGED <<pipeVars, callVars, ref, file, mine, closing, procVars>>

sys_dup(p, fd) ==
  LET f == ofile[p][fd] IN
  /\ Calls(p) /\ f # NoFile /\ FreeFDs(p) # {}
  /\ ofile' = [ofile EXCEPT ![p][Min(FreeFDs(p))] = f]
  /\ ref' = [ref EXCEPT ![f] = @ + 1]
  /\ UNCHANGED <<pipeVars, callVars, file, mine, closing, procVars>>

sys_close(p, fd) ==
  /\ Calls(p) /\ ofile[p][fd] # NoFile
  /\ ofile' = [ofile EXCEPT ![p][fd] = NoFile]
  /\ closing' = [closing EXCEPT ![p] = <<ofile[p][fd]>>]
  /\ Goto(p, "fileclose")
  /\ UNCHANGED <<pipeVars, at, left, last, killed, ref, file, mine, procVars>>

\* Where a process goes on that has yet to close the files of todo.
After(p, todo) ==
  IF todo # <<>> THEN "fileclose" ELSE IF exiting[p] THEN "exit" ELSE "user"

\* fileclose(), under ftable.lock: the last reference frees the entry, of
\* which a copy is kept; a pipe is closed after that.
fileclose(p) ==
  LET f == Head(closing[p]) IN
  /\ pc[p] = "fileclose"
  /\ closing' = [closing EXCEPT ![p] = Tail(@)]
  /\ ref' = [ref EXCEPT ![f] = @ - 1]
  /\ IF ref[f] > 1
       THEN UNCHANGED <<file, last>>
       ELSE last' = [last EXCEPT ![p] = file[f]] /\ file' = [file EXCEPT ![f] = FD_NONE]
  /\ Goto(p, IF last'[p] = FD_NONE THEN After(p, Tail(closing[p])) ELSE "pipeclose")
  /\ UNCHANGED <<pipeVars, at, left, killed, ofile, mine, procVars>>

ClosePipe(p) ==
  /\ pipeclose(p, After(p, closing[p]))
  /\ last' = [last EXCEPT ![p] = FD_NONE]
  /\ UNCHANGED <<fileVars, procVars>>

\* sys_read(), sys_write(): fileread() and filewrite() of a pipe.
ReadWrite(p, fd, n) ==
  LET f == ofile[p][fd] IN
  /\ Calls(p) /\ f # NoFile
  /\ at' = [at EXCEPT ![p] = file[f].pipe]
  /\ left' = [left EXCEPT ![p] = n]
  /\ Goto(p, IF file[f].writable THEN "write" ELSE "read")
  /\ UNCHANGED <<pipeVars, last, killed, fileVars, procVars>>
-----------------------------------------------------------------------------
(***************************************************************************)
(* fork() and exit()                                                       *)
(***************************************************************************)

Fork(p, c) ==
  /\ Calls(p) /\ pc[c] = "unused"
  /\ child' = [child EXCEPT ![p] = c] /\ fdi' = [fdi EXCEPT ![p] = 0]
  /\ pc' = [pc EXCEPT ![p] = "fork", ![c] = "embryo"]
  /\ UNCHANGED <<pipeVars, at, left, last, killed, fileVars, exiting>>

\* A round of fork()'s loop over the descriptors; after it the child may run.
ForkDup(p) ==
  LET c == child[p]
      f == ofile[p][fdi[p]]
  IN
  /\ pc[p] = "fork"
  /\ IF fdi[p] < NOFILE
       THEN /\ ofile' = [ofile EXCEPT ![c][fdi[p]] = f]
            /\ ref' = IF f = NoFile THEN ref ELSE [ref EXCEPT ![f] = @ + 1]
            /\ fdi' = [fdi EXCEPT ![p] = @ + 1] /\ UNCHANGED <<pc, child>>
       ELSE /\ pc' = [pc EXCEPT ![p] = "user", ![c] = "user"]
            /\ fdi' = [fdi EXCEPT ![p] = 0] /\ child' = [child EXCEPT ![p] = p]
            /\ UNCHANGED <<ofile, ref>>
  /\ UNCHANGED <<pipeVars, at, left, last, killed, file, mine, closing, exiting>>

exit(p) ==
  /\ pc[p] = "user" /\ p # initproc
  /\ exiting' = [exiting EXCEPT ![p] = TRUE]
  /\ Goto(p, "exit")
  /\ UNCHANGED <<pipeVars, at, left, last, killed, fileVars, child, fdi>>

\* A round of exit()'s loop; after it the process is a zombie, which wait()
\* frees.
ExitClose(p) ==
  LET open == FDs \ FreeFDs(p) IN
  /\ pc[p] = "exit"
  /\ IF open # {}
       THEN /\ closing' = [closing EXCEPT ![p] = <<ofile[p][Min(open)]>>]
            /\ ofile' = [ofile EXCEPT ![p][Min(open)] = NoFile]
            /\ Goto(p, "fileclose") /\ UNCHANGED <<exiting, killed>>
       ELSE /\ exiting' = [exiting EXCEPT ![p] = FALSE]
            /\ killed' = [killed EXCEPT ![p] = FALSE]
            /\ Goto(p, "unused") /\ UNCHANGED <<closing, ofile>>
  /\ UNCHANGED <<pipeVars, at, left, last, ref, file, mine, child, fdi>>
-----------------------------------------------------------------------------
PipeStep(p) == (pipewrite(p) \/ piperead(p)) /\ UNCHANGED <<fileVars, procVars>>

\* Outside a read() or write() a kill() only makes the process exit when its
\* call returns, which it may do anyway.
Kill(p) ==
  /\ p \in Killable /\ pc[p] \in {"read", "read_sleep", "write", "write_sleep"}
  /\ kill(p) /\ UNCHANGED <<fileVars, procVars>>

Next ==
  \E p \in Procs :
    \/ filealloc(p) \/ sys_pipe(p)
    \/ \E fd \in FDs : sys_dup(p, fd) \/ sys_close(p, fd)
    \/ \E fd \in FDs, n \in Sizes : ReadWrite(p, fd, n)
    \/ fileclose(p) \/ ClosePipe(p)
    \/ \E c \in Procs : Fork(p, c)
    \/ ForkDup(p) \/ exit(p) \/ ExitClose(p)
    \/ PipeStep(p) \/ Kill(p)

Spec == Init /\ [][Next]_vars
-----------------------------------------------------------------------------
(***************************************************************************)
(* Properties                                                              *)
(***************************************************************************)

Count(s, f) == Cardinality({i \in DOMAIN s : s[i] = f})

\* f->ref is the number of descriptors of f, plus the references of calls
\* under way: so no entry of ftable is used after it was freed, or leaked on an
\* error path of pipe(), however fork(), dup(), close() and exit() interleave.
RefsExact ==
  LET refs(p, f) == Count(ofile[p], f) + Count(mine[p], f) + Count(closing[p], f) IN
  \A f \in Files :
    /\ ref[f] = MapThenSumSet(LAMBDA p : refs(p, f), Procs)
    /\ ref[f] = 0 => file[f] = FD_NONE

\* An end of a pipe is open exactly while there is a file for it or the last
\* one is just being closed, and the page is in use exactly while an end is
\* open.  A process inside piperead() or pipewrite() has its end open, so it
\* never touches a page that was freed.
EndsExact ==
  LET has(pi, w) ==
        \/ \E f \in Files : file[f] = [pipe |-> pi, writable |-> w]
        \/ \E p \in Procs : pc[p] = "pipeclose" /\ last[p] = [pipe |-> pi, writable |-> w]
  IN
  /\ \A pi \in Pages :
       /\ readopen[pi] <=> has(pi, FALSE)
       /\ writeopen[pi] <=> has(pi, TRUE)
       /\ pi \in pages <=> readopen[pi] \/ writeopen[pi]
  /\ \A p \in Procs :
       /\ pc[p] \in {"read", "read_sleep"} => readopen[at[p]]
       /\ pc[p] \in {"write", "write_sleep"} => writeopen[at[p]]

\* Nobody sleeps for something that has come: a reader sleeps only while the
\* pipe is empty and has a writer, a writer while it is full and has a reader.
\* The exception is a reader whose writer was killed in the middle of a call,
\* because pipewrite() then returns without its wakeup().
SleepersHaveCause ==
  \A p \in Procs :
    /\ pc[p] = "read_sleep" =>
         writeopen[at[p]] /\ (Avail(at[p]) = 0 \/ at[p] \in cut)
    /\ pc[p] = "write_sleep" => readopen[at[p]] /\ Room(at[p]) = 0

\* A pipe is a FIFO queue of at most PIPESIZE bytes, while nread and nwrite
\* run round 2^32.
Queue == INSTANCE Fifo WITH
  Bytes <- Numbers, Size <- PIPESIZE, open <- pages,
  q <- [pi \in Pages |-> IF pi \in pages THEN Content(pi) ELSE <<>>]

PipeIsFifo == Queue!Spec
=============================================================================
