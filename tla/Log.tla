--------------------------------- MODULE Log ---------------------------------
(***************************************************************************)
(* The redo log of kernel/log.c: file system operations that run between   *)
(* begin_op() and end_op(), the group commit by the last of them, a crash  *)
(* at any moment, and the recovery at boot.                                *)
(*                                                                         *)
(* The content of a block is the set of operations whose update it holds,  *)
(* so that a lost, a partial and a premature update can be told apart.     *)
(* Every write of a block to the disk is a step of its own.                *)
(***************************************************************************)
EXTENDS Integers, Sequences, FiniteSets, FiniteSetsExt

CONSTANTS
  Ops,          \* the file system calls
  Boot,         \* the first process, which runs initlog() in fsinit()
  Blocks,       \* home locations
  MAXOPBLOCKS,  \* param.h: max # of blocks any FS op writes
  LOGSIZE,      \* param.h
  nlog,         \* sb->nlog, written by mkfs: blocks of the log, header included
  NoBlock, Torn,
  MaxCrashes    \* bound

ASSUME LogAssumption ==
  /\ MAXOPBLOCKS \in Nat \ {0} /\ LOGSIZE \in Nat \ {0} /\ nlog \in Nat \ {0}
  /\ MaxCrashes \in Nat
  /\ Boot \notin Ops /\ NoBlock \notin Blocks /\ Torn \notin Ops

VARIABLES
  disk, dlog, dhead,             \* on the disk: home blocks, log blocks, header
  cache, pinned,                 \* the buffer cache, for home blocks
  lh, outstanding, committing,   \* struct log
  pc, buf, tail,                 \* per thread: place, locked buffer, loop index
  wrote,                         \* the blocks each operation has updated
  panic, crashes

diskVars == <<disk, dlog, dhead>>
cacheVars == <<cache, pinned>>
logVars == <<lh, outstanding, committing>>
vars == <<diskVars, cacheVars, logVars, pc, buf, tail, wrote, panic, crashes>>

Threads == Ops \cup {Boot}
InCommit == {"write_log", "write_head", "install", "erase", "finish"}
\* A disk fresh from mkfs; the kernel boots.
Init ==
  /\ disk = [b \in Blocks |-> {}] /\ cache = disk
  /\ dlog = [i \in 1 .. LOGSIZE |-> {}] /\ dhead = <<>>
  /\ pinned = [b \in Blocks |-> 0]
  /\ lh = <<>> /\ outstanding = 0 /\ committing = FALSE
  /\ pc = [t \in Threads |-> IF t = Boot THEN "read_head" ELSE "idle"]
  /\ buf = [o \in Ops |-> NoBlock]
  /\ tail = [t \in Threads |-> 1]
  /\ wrote = [o \in Ops |-> {}]
  /\ panic = "none" /\ crashes = 0

At(t, place) == panic = "none" /\ pc[t] = place

Goto(t, place) == pc' = [pc EXCEPT ![t] = place]

\* wakeup(&log), with thread t moving on to place.
GotoAndWakeup(t, place) ==
  pc' = [u \in Threads |-> IF u = t THEN place
                           ELSE IF pc[u] = "asleep" THEN "begin" ELSE pc[u]]
-----------------------------------------------------------------------------
(***************************************************************************)
(* Operations                                                              *)
(***************************************************************************)

\* A system call that uses the file system starts.
Call(o) ==
  /\ At(o, "idle") /\ pc[Boot] = "up"
  /\ Goto(o, "begin")
  /\ UNCHANGED <<diskVars, cacheVars, logVars, buf, tail, wrote, panic, crashes>>

\* One round of the loop of begin_op().
begin_op(o) ==
  /\ At(o, "begin")
  /\ IF committing \/ Len(lh) + (outstanding + 1) * MAXOPBLOCKS > LOGSIZE
       THEN Goto(o, "asleep") /\ UNCHANGED outstanding
       ELSE Goto(o, "run") /\ outstanding' = outstanding + 1
  /\ UNCHANGED <<diskVars, cacheVars, lh, committing, buf, tail, wrote, panic, crashes>>

\* The operation has the buffer of block b (bread) and changes it.  It writes
\* no more blocks than an operation may.
Modify(o, b) ==
  /\ At(o, "run") /\ \A q \in Ops : buf[q] # b
  /\ Cardinality(wrote[o] \cup {b}) <= MAXOPBLOCKS
  /\ cache' = [cache EXCEPT ![b] = @ \cup {o}]
  /\ wrote' = [wrote EXCEPT ![o] = @ \cup {b}]
  /\ buf' = [buf EXCEPT ![o] = b]
  /\ Goto(o, "log_write")
  /\ UNCHANGED <<diskVars, pinned, logVars, tail, panic, crashes>>

InLog(b) == \E i \in 1 .. Len(lh) : lh[i] = b

\* A mutant: the block is not pinned.
LogWriteNoPin(o) ==
  /\ At(o, "log_write")
  /\ IF Len(lh) >= LOGSIZE \/ Len(lh) >= nlog - 1
       THEN panic' = "too big a transaction" /\ UNCHANGED <<lh, pinned, pc, buf>>
     ELSE IF outstanding < 1
       THEN panic' = "log_write outside of trans" /\ UNCHANGED <<lh, pinned, pc, buf>>
     ELSE /\ IF InLog(buf[o])
               THEN UNCHANGED <<lh, pinned>>
               ELSE /\ lh' = Append(lh, buf[o])
                    /\ UNCHANGED pinned
          /\ buf' = [buf EXCEPT ![o] = NoBlock]
          /\ Goto(o, "run")
          /\ UNCHANGED panic
  /\ UNCHANGED <<diskVars, cache, outstanding, committing, tail, wrote, crashes>>

\* log_write() and brelse(): the block is added to the transaction and
\* pinned, unless it is there already.
log_write(o) ==
  /\ At(o, "log_write")
  /\ IF Len(lh) >= LOGSIZE \/ Len(lh) >= nlog - 1
       THEN panic' = "too big a transaction" /\ UNCHANGED <<lh, pinned, pc, buf>>
     ELSE IF outstanding < 1
       THEN panic' = "log_write outside of trans" /\ UNCHANGED <<lh, pinned, pc, buf>>
     ELSE /\ IF InLog(buf[o])
               THEN UNCHANGED <<lh, pinned>>
               ELSE /\ lh' = Append(lh, buf[o])
                    /\ pinned' = [pinned EXCEPT ![buf[o]] = @ + 1]
          /\ buf' = [buf EXCEPT ![o] = NoBlock]
          /\ Goto(o, "run")
          /\ UNCHANGED panic
  /\ UNCHANGED <<diskVars, cache, outstanding, committing, tail, wrote, crashes>>

\* end_op() up to the release of log.lock: the last operation commits.
end_op(o) ==
  /\ At(o, "run")
  /\ outstanding' = outstanding - 1
  /\ panic' = IF committing THEN "log.committing" ELSE "none"
  /\ IF outstanding' = 0
       THEN /\ committing' = TRUE
            /\ Goto(o, IF lh # <<>> THEN "write_log" ELSE "finish")
       ELSE GotoAndWakeup(o, "done") /\ UNCHANGED committing
  /\ UNCHANGED <<diskVars, cacheVars, lh, buf, tail, wrote, crashes>>

\* A mutant: the blocks are installed before the header is written.
WriteLogNoHead(o) ==
  /\ At(o, "write_log")
  /\ IF tail[o] <= Len(lh)
       THEN /\ dlog' = [dlog EXCEPT ![tail[o]] = cache[lh[tail[o]]]]
            /\ tail' = [tail EXCEPT ![o] = @ + 1]
            /\ UNCHANGED pc
       ELSE tail' = [tail EXCEPT ![o] = 1] /\ Goto(o, "install") /\ UNCHANGED dlog
  /\ UNCHANGED <<disk, dhead, cacheVars, logVars, buf, wrote, panic, crashes>>

\* A round of the loop of write_log(): a cache block to its log block.
write_log(o) ==
  /\ At(o, "write_log")
  /\ IF tail[o] <= Len(lh)
       THEN /\ dlog' = [dlog EXCEPT ![tail[o]] = cache[lh[tail[o]]]]
            /\ tail' = [tail EXCEPT ![o] = @ + 1]
            /\ UNCHANGED pc
       ELSE tail' = [tail EXCEPT ![o] = 1] /\ Goto(o, "write_head") /\ UNCHANGED dlog
  /\ UNCHANGED <<disk, dhead, cacheVars, logVars, buf, wrote, panic, crashes>>

\* write_head(), "the real commit".
write_head(o) ==
  /\ At(o, "write_head")
  /\ dhead' = lh
  /\ Goto(o, "install")
  /\ UNCHANGED <<disk, dlog, cacheVars, logVars, buf, tail, wrote, panic, crashes>>

\* A round of the loop of install_trans(): a log block to its home location,
\* in the cache and on the disk.  After the loop log.lh.n = 0.
install_trans(t) ==
  /\ At(t, "install")
  /\ IF tail[t] <= Len(lh)
       THEN LET b == lh[tail[t]] IN
            /\ disk' = [disk EXCEPT ![b] = dlog[tail[t]]]
            /\ cache' = [cache EXCEPT ![b] = dlog[tail[t]]]
            /\ pinned' = IF t = Boot THEN pinned ELSE [pinned EXCEPT ![b] = @ - 1]
            /\ tail' = [tail EXCEPT ![t] = @ + 1]
            /\ UNCHANGED <<lh, pc>>
       ELSE /\ lh' = <<>> /\ tail' = [tail EXCEPT ![t] = 1]
            /\ Goto(t, "erase")
            /\ UNCHANGED <<disk, cacheVars>>
  /\ UNCHANGED <<dlog, dhead, outstanding, committing, buf, wrote, panic, crashes>>

\* write_head() again, to erase the transaction from the log.
erase(t) ==
  /\ At(t, "erase")
  /\ dhead' = lh
  /\ Goto(t, IF t = Boot THEN "up" ELSE "finish")
  /\ UNCHANGED <<disk, dlog, cacheVars, logVars, buf, tail, wrote, panic, crashes>>

\* A mutant: nobody is woken after a commit.
FinishNoWakeup(o) ==
  /\ At(o, "finish")
  /\ committing' = FALSE
  /\ Goto(o, "done")
  /\ UNCHANGED <<diskVars, cacheVars, lh, outstanding, buf, tail, wrote, panic, crashes>>

\* The end of end_op() in the process that committed.
finish(o) ==
  /\ At(o, "finish")
  /\ committing' = FALSE
  /\ GotoAndWakeup(o, "done")
  /\ UNCHANGED <<diskVars, cacheVars, lh, outstanding, buf, tail, wrote, panic, crashes>>

OpStep(o) ==
  \/ Call(o) \/ begin_op(o) \/ log_write(o) \/ end_op(o)
  \/ write_log(o) \/ write_head(o) \/ install_trans(o) \/ erase(o) \/ finish(o)
  \/ \E b \in Blocks : Modify(o, b)
-----------------------------------------------------------------------------
(***************************************************************************)
(* The buffer cache, crashes and recovery                                  *)
(***************************************************************************)

\* bget() takes the buffer of a block nobody uses for another block, and the
\* block is read from the disk when it is wanted again.
Recycle(b) ==
  /\ panic = "none"
  /\ pinned[b] = 0 /\ \A o \in Ops : buf[o] # b
  /\ cache' = [cache EXCEPT ![b] = disk[b]]
  /\ UNCHANGED <<diskVars, pinned, logVars, pc, buf, tail, wrote, panic, crashes>>

\* A block of two sectors that is being written when the power goes may hold
\* neither the old nor the new data.  The header is in one sector.
TornBlock ==
  \/ UNCHANGED <<disk, dlog>>
  \/ \E o \in Ops : /\ pc[o] = "write_log" /\ tail[o] <= Len(lh)
                    /\ dlog' = [dlog EXCEPT ![tail[o]] = {Torn}]
                    /\ UNCHANGED disk
  \/ \E t \in Threads : /\ pc[t] = "install" /\ tail[t] <= Len(lh)
                        /\ disk' = [disk EXCEPT ![lh[tail[t]]] = {Torn}]
                        /\ UNCHANGED dlog

\* The machine stops and is started again: what is not on the disk is lost,
\* and so are the system calls that were running.
Crash ==
  /\ panic = "none" /\ crashes < MaxCrashes
  /\ TornBlock
  /\ cache' = disk'
  /\ pinned' = [b \in Blocks |-> 0]
  /\ lh' = <<>> /\ outstanding' = 0 /\ committing' = FALSE
  /\ pc' = [t \in Threads |-> IF t = Boot THEN "read_head"
                              ELSE IF pc[t] = "idle" THEN "idle" ELSE "lost"]
  /\ buf' = [o \in Ops |-> NoBlock]
  /\ tail' = [t \in Threads |-> 1]
  /\ crashes' = crashes + 1
  /\ UNCHANGED <<dhead, wrote, panic>>

\* initlog(): recover_from_log() reads the header, installs and erases.
read_head ==
  /\ At(Boot, "read_head")
  /\ lh' = dhead
  /\ Goto(Boot, "install")
  /\ UNCHANGED <<diskVars, cacheVars, outstanding, committing, buf, tail, wrote,
                 panic, crashes>>

BootStep == read_head \/ install_trans(Boot) \/ erase(Boot)

\* Every system call is over.
Idle ==
  /\ pc[Boot] = "up" /\ \A o \in Ops : pc[o] \in {"done", "lost"}
  /\ UNCHANGED vars

Next ==
  \/ \E o \in Ops : OpStep(o)
  \/ \E b \in Blocks : Recycle(b)
  \/ BootStep \/ Crash \/ Idle

Spec == Init /\ [][Next]_vars

\* A running kernel thread goes on, and a system call writes a finite number
\* of times.
Fairness ==
  /\ WF_vars(BootStep)
  /\ \A o \in Ops :
       /\ WF_vars(begin_op(o)) /\ WF_vars(log_write(o)) /\ SF_vars(end_op(o))
       /\ WF_vars(write_log(o)) /\ WF_vars(write_head(o))
       /\ WF_vars(install_trans(o)) /\ WF_vars(erase(o)) /\ WF_vars(finish(o))

FairSpec == Spec /\ Fairness
-----------------------------------------------------------------------------
(***************************************************************************)
(* Properties                                                              *)
(***************************************************************************)

\* What the home blocks would hold after a crash now and the recovery.
Recovered ==
  [b \in Blocks |->
     LET copies == {i \in 1 .. Len(dhead) : dhead[i] = b}
     IN  IF copies = {} THEN disk[b] ELSE dlog[Max(copies)]]

Ended == {"done"} \cup InCommit
Durable == {o \in Ops : \E b \in Blocks : o \in Recovered[b]}
Pending == {o \in Ops : pc[o] \in Ended /\ wrote[o] # {}} \ Durable

\* At every moment, also in the middle of a commit or of a recovery, a crash
\* followed by recover_from_log() leaves each operation's updates on the disk
\* in full or not at all, and no half-written block.
CrashConsistent ==
  \A b \in Blocks : Recovered[b] = {o \in Durable : b \in wrote[o]}

\* The log is an atomic disk: write_head() makes all ended operations durable
\* in one step, and nothing else changes what a recovery would find.
AtomicGroups == INSTANCE AtomicDisk WITH pending <- Pending, durable <- Durable
LogIsAtomic == AtomicGroups!Spec

\* A read through the cache sees every update that was not lost in a crash,
\* whether the block was recycled since or not: bpin() keeps a block that
\* install_trans() has not yet written home.
CacheCurrent ==
  pc[Boot] = "up" =>
    \A b \in Blocks :
      cache[b] = {o \in Ops : b \in wrote[o] /\ (pc[o] # "lost" \/ o \in Durable)}

\* "this op might exhaust log space; wait for commit" (begin_op()): operations
\* that keep to MAXOPBLOCKS never find the log full.
NoPanic == panic = "none"

\* Every begin_op() gets its turn, and its operation ends: no wakeup(&log) is
\* missing.
OpsEnd == \A o \in Ops : pc[o] = "begin" ~> pc[o] \in {"done", "lost"}
=============================================================================
