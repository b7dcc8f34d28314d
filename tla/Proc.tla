-------------------------------- MODULE Proc --------------------------------
(***************************************************************************)
(* Processes and the scheduler (kernel/proc.c, usertrap() of kernel/trap.c) *)
(* on several CPUs: fork, exit, wait, kill, sleep, wakeup, yield, and the  *)
(* switches between a process's kernel thread and a CPU's scheduler        *)
(* thread.                                                                 *)
(*                                                                         *)
(* The locks are wait_lock and the p->lock of every slot.  What is done    *)
(* under one p->lock without a switch is one step, because the fields it   *)
(* protects are touched nowhere else; a lock that is held across steps is  *)
(* recorded with the CPU that holds it.                                    *)
(***************************************************************************)
EXTENDS Integers, FiniteSets

CONSTANTS
  NPROC,     \* slots of the process table
  CPUs, NoCpu,
  Targets,   \* the pids that user programs give to kill()
  MaxPid     \* bound: the last pid handed out

ASSUME ProcAssumption ==
  NPROC \in Nat \ {0} /\ MaxPid \in Nat \ {0} /\ NoCpu \notin CPUs /\ Targets \subseteq Nat

VARIABLES
  state, chan, killed, pid, parent, \* struct proc
  lock, wait_lock,                  \* the CPU that holds p->lock; wait_lock
  nextpid,
  cproc, on, next,     \* per CPU: c->proc, the process whose thread runs, p of scheduler()
  pc, after,           \* per process: its place, and where swtch() left it
  i, w, havekids, arg  \* per process: loop indexes, havekids, np of fork or pid of kill

slotVars == <<state, chan, killed, pid, parent>>
lockVars == <<lock, wait_lock>>
cpuVars == <<cproc, on, next>>
localVars == <<i, w, havekids, arg>>
vars == <<slotVars, lockVars, nextpid, cpuVars, pc, after, localVars>>

Slots == 0 .. NPROC - 1
initproc == 0
NoProc == -1

\* After userinit(): one process, ready to run for the first time.
Init ==
  /\ state = [p \in Slots |-> IF p = initproc THEN "RUNNABLE" ELSE "UNUSED"]
  /\ chan = [p \in Slots |-> NoProc] /\ parent = [p \in Slots |-> NoProc]
  /\ killed = [p \in Slots |-> FALSE]
  /\ pid = [p \in Slots |-> IF p = initproc THEN 1 ELSE 0] /\ nextpid = 2
  /\ lock = [p \in Slots |-> NoCpu] /\ wait_lock = NoCpu
  /\ cproc = [c \in CPUs |-> NoProc] /\ on = [c \in CPUs |-> NoProc]
  /\ next = [c \in CPUs |-> 0]
  /\ pc = [p \in Slots |-> "user"]
  /\ after = [p \in Slots |-> IF p = initproc THEN "forkret" ELSE "none"]
  /\ i = [p \in Slots |-> 0] /\ w = [p \in Slots |-> 0]
  /\ havekids = [p \in Slots |-> FALSE] /\ arg = [p \in Slots |-> 0]
-----------------------------------------------------------------------------
(***************************************************************************)
(* The scheduler thread of a CPU, and swtch()                              *)
(***************************************************************************)

\* A round of the loop of scheduler(): p->lock is taken, and kept across the
\* switch if p is to run.
Schedule(c) ==
  LET p == next[c] IN
  /\ on[c] = NoProc /\ cproc[c] = NoProc
  /\ lock[p] = NoCpu
  /\ IF state[p] = "RUNNABLE"
       THEN /\ state' = [state EXCEPT ![p] = "RUNNING"]
            /\ lock' = [lock EXCEPT ![p] = c]
            /\ cproc' = [cproc EXCEPT ![c] = p]
            /\ on' = [on EXCEPT ![c] = p]
            /\ UNCHANGED next
       ELSE next' = [next EXCEPT ![c] = (@ + 1) % NPROC] /\ UNCHANGED <<state, lock, cproc, on>>
  /\ UNCHANGED <<chan, killed, pid, parent, wait_lock, nextpid, pc, after, localVars>>

\* The process has switched back: the scheduler releases the lock that the
\* process acquired.
ScheduleDone(c) ==
  /\ on[c] = NoProc /\ cproc[c] # NoProc
  /\ lock' = [lock EXCEPT ![cproc[c]] = NoCpu]
  /\ cproc' = [cproc EXCEPT ![c] = NoProc]
  /\ next' = [next EXCEPT ![c] = (@ + 1) % NPROC]
  /\ UNCHANGED <<slotVars, wait_lock, nextpid, on, pc, after, localVars>>

\* The thread of process p runs on CPU c.
Runs(c, p) == on[c] = p /\ after[p] = "none"

At(c, p, place) == Runs(c, p) /\ pc[p] = place

Goto(p, place) == pc' = [pc EXCEPT ![p] = place]

\* The locks a CPU holds; interrupts are on when there are none.
Held(c) == {<<"proc", p>> : p \in {q \in Slots : lock[q] = c}}
             \cup {<<"wait", 0>> : x \in {y \in {wait_lock} : y = c}}

\* sched(): p has left "RUNNING" and switches to the scheduler of its CPU.
sched(c, p) ==
  /\ on[c] = p /\ after[p] # "none" /\ state[p] # "RUNNING"
  /\ on' = [on EXCEPT ![c] = NoProc]
  /\ UNCHANGED <<slotVars, lockVars, nextpid, cproc, next, pc, after, localVars>>

\* What follows sched() in yield() and sleep(), and forkret(): p runs again,
\* with its lock held by the scheduler that chose it.
Resume(c, p) ==
  /\ on[c] = p /\ after[p] # "none" /\ state[p] = "RUNNING"
  /\ lock' = [lock EXCEPT ![p] = NoCpu]
  /\ chan' = IF after[p] = "sleep" THEN [chan EXCEPT ![p] = NoProc] ELSE chan
  /\ after' = [after EXCEPT ![p] = "none"]
  /\ UNCHANGED <<state, killed, pid, parent, wait_lock, nextpid, cpuVars, pc, localVars>>

\* yield(), on a timer interrupt: from user space, where usertrap() has a
\* killed process exit instead, or in the kernel wherever interrupts are on.
yield(c, p) ==
  /\ Runs(c, p) /\ Held(c) = {}
  /\ pc[p] = "user" => ~killed[p]
  /\ lock[p] = NoCpu
  /\ lock' = [lock EXCEPT ![p] = c]
  /\ state' = [state EXCEPT ![p] = "RUNNABLE"]
  /\ after' = [after EXCEPT ![p] = "yield"]
  /\ UNCHANGED <<chan, killed, pid, parent, wait_lock, nextpid, cpuVars, pc, localVars>>
-----------------------------------------------------------------------------
(***************************************************************************)
(* Entering and leaving the kernel: usertrap()                             *)
(***************************************************************************)

\* A trap: one of the system calls, or exit() if the process was killed.  init
\* does not call exit().
Syscall(c, p) ==
  /\ At(c, p, "user") /\ lock[p] = NoCpu
  /\ IF killed[p] THEN Goto(p, "x_lock") /\ UNCHANGED <<i, arg>>
     ELSE \/ /\ nextpid <= MaxPid
             /\ Goto(p, "f_alloc") /\ i' = [i EXCEPT ![p] = 0] /\ UNCHANGED arg
          \/ Goto(p, "w_lock") /\ UNCHANGED <<i, arg>>
          \/ p # initproc /\ Goto(p, "x_lock") /\ UNCHANGED <<i, arg>>
          \/ \E t \in Targets : /\ Goto(p, "k_scan") /\ i' = [i EXCEPT ![p] = 0]
                                /\ arg' = [arg EXCEPT ![p] = t]
  /\ UNCHANGED <<slotVars, lockVars, nextpid, cpuVars, after, w, havekids>>

\* The way back to user space.
usertrapret(c, p) ==
  /\ At(c, p, "ret") /\ lock[p] = NoCpu
  /\ Goto(p, IF killed[p] THEN "x_lock" ELSE "user")
  /\ UNCHANGED <<slotVars, lockVars, nextpid, cpuVars, after, localVars>>

\* A system call returns.
Return(p) ==
  /\ Goto(p, "ret")
  /\ i' = [i EXCEPT ![p] = 0] /\ arg' = [arg EXCEPT ![p] = 0]
  /\ havekids' = [havekids EXCEPT ![p] = FALSE]

\* freeproc(): what it leaves of slot q.
freeproc(q) ==
  /\ state' = [state EXCEPT ![q] = "UNUSED"]
  /\ chan' = [chan EXCEPT ![q] = NoProc] /\ parent' = [parent EXCEPT ![q] = NoProc]
  /\ pid' = [pid EXCEPT ![q] = 0] /\ killed' = [killed EXCEPT ![q] = FALSE]
  /\ after' = [after EXCEPT ![q] = "none"]
-----------------------------------------------------------------------------
(***************************************************************************)
(* fork() and kill()                                                       *)
(***************************************************************************)

\* A round of the loop of allocproc(), with what follows "found": the slot is
\* kept locked, or memory runs out and it is freed again.
allocproc(c, p) ==
  LET q == i[p] IN
  /\ At(c, p, "f_alloc")
  /\ \/ /\ q = NPROC \/ nextpid > MaxPid
        /\ Return(p)
        /\ UNCHANGED <<slotVars, lock, nextpid, after, w>>
     \/ /\ q < NPROC /\ lock[q] = NoCpu /\ state[q] # "UNUSED"
        /\ i' = [i EXCEPT ![p] = q + 1]
        /\ UNCHANGED <<slotVars, lock, nextpid, pc, after, w, havekids, arg>>
     \/ /\ q < NPROC /\ nextpid <= MaxPid /\ lock[q] = NoCpu /\ state[q] = "UNUSED"
        /\ nextpid' = nextpid + 1
        /\ pid' = [pid EXCEPT ![q] = nextpid]
        /\ state' = [state EXCEPT ![q] = "USED"]
        /\ lock' = [lock EXCEPT ![q] = c]
        /\ after' = [after EXCEPT ![q] = "forkret"]
        /\ pc' = [pc EXCEPT ![p] = "f_copy", ![q] = "user"]
        /\ i' = [i EXCEPT ![p] = 0] /\ arg' = [arg EXCEPT ![p] = q]
        /\ UNCHANGED <<chan, killed, parent, w, havekids>>
     \/ /\ q < NPROC /\ nextpid <= MaxPid /\ lock[q] = NoCpu /\ state[q] = "UNUSED"
        /\ nextpid' = nextpid + 1
        /\ freeproc(q) /\ Return(p)
        /\ UNCHANGED <<lock, w>>
  /\ UNCHANGED <<wait_lock, cpuVars>>

\* The rest of fork() up to the release of np->lock; uvmcopy() may fail.
ForkCopy(c, p) ==
  LET np == arg[p] IN
  /\ At(c, p, "f_copy")
  /\ \/ /\ Goto(p, "f_parent")
        /\ UNCHANGED <<slotVars, after, localVars>>
     \/ freeproc(np) /\ Return(p) /\ UNCHANGED w
  /\ lock' = [lock EXCEPT ![np] = NoCpu]
  /\ UNCHANGED <<wait_lock, nextpid, cpuVars>>

ForkParent(c, p) ==
  /\ At(c, p, "f_parent") /\ wait_lock = NoCpu
  /\ parent' = [parent EXCEPT ![arg[p]] = p]
  /\ Goto(p, "f_run")
  /\ UNCHANGED <<state, chan, killed, pid, lockVars, nextpid, cpuVars, after, localVars>>

ForkRunnable(c, p) ==
  /\ At(c, p, "f_run") /\ lock[arg[p]] = NoCpu
  /\ state' = [state EXCEPT ![arg[p]] = "RUNNABLE"]
  /\ Return(p)
  /\ UNCHANGED <<chan, killed, pid, parent, lockVars, nextpid, cpuVars, after, w>>

\* A round of the loop of kill().
kill(c, p) ==
  LET q == i[p] IN
  /\ At(c, p, "k_scan")
  /\ \/ q = NPROC /\ Return(p) /\ UNCHANGED <<state, killed>>
     \/ /\ q < NPROC /\ lock[q] = NoCpu /\ pid[q] = arg[p]
        /\ killed' = [killed EXCEPT ![q] = TRUE]
        /\ state' = [state EXCEPT ![q] = IF @ = "SLEEPING" THEN "RUNNABLE" ELSE @]
        /\ Return(p)
     \/ /\ q < NPROC /\ lock[q] = NoCpu /\ pid[q] # arg[p]
        /\ i' = [i EXCEPT ![p] = q + 1]
        /\ UNCHANGED <<state, killed, pc, havekids, arg>>
  /\ UNCHANGED <<chan, pid, parent, lockVars, nextpid, cpuVars, after, w>>
-----------------------------------------------------------------------------
(***************************************************************************)
(* wait() and sleep()                                                      *)
(***************************************************************************)

\* acquire(&wait_lock), when wait() is called and when sleep() returns to it.
WaitLock(c, p) ==
  /\ At(c, p, "w_lock") /\ wait_lock = NoCpu
  /\ wait_lock' = c
  /\ i' = [i EXCEPT ![p] = 0] /\ havekids' = [havekids EXCEPT ![p] = FALSE]
  /\ Goto(p, "w_scan")
  /\ UNCHANGED <<slotVars, lock, nextpid, cpuVars, after, w, arg>>

\* A mutant: a zombie is freed without its lock.
WaitScanNoLock(c, p) ==
  LET pp == i[p] IN
  /\ At(c, p, "w_scan")
  /\ \/ /\ pp = NPROC /\ Goto(p, "w_killed")
        /\ UNCHANGED <<slotVars, wait_lock, after, localVars>>
     \/ /\ pp < NPROC /\ parent[pp] # p
        /\ i' = [i EXCEPT ![p] = pp + 1]
        /\ UNCHANGED <<slotVars, wait_lock, pc, after, w, havekids, arg>>
     \/ /\ pp < NPROC /\ parent[pp] = p /\ lock[pp] = NoCpu /\ state[pp] # "ZOMBIE"
        /\ i' = [i EXCEPT ![p] = pp + 1] /\ havekids' = [havekids EXCEPT ![p] = TRUE]
        /\ UNCHANGED <<slotVars, wait_lock, pc, after, w, arg>>
     \/ /\ pp < NPROC /\ parent[pp] = p /\ state[pp] = "ZOMBIE"
        /\ freeproc(pp) \/ (p # initproc /\ UNCHANGED <<slotVars, after>>)
        /\ wait_lock' = NoCpu
        /\ Return(p) /\ UNCHANGED w
  /\ UNCHANGED <<lock, nextpid, cpuVars>>

\* A round of the loop over the table.  Copying the exit status out may fail
\* (init asks for none), and then the child is left as it is.
WaitScan(c, p) ==
  LET pp == i[p] IN
  /\ At(c, p, "w_scan")
  /\ \/ /\ pp = NPROC /\ Goto(p, "w_killed")
        /\ UNCHANGED <<slotVars, wait_lock, after, localVars>>
     \/ /\ pp < NPROC /\ parent[pp] # p
        /\ i' = [i EXCEPT ![p] = pp + 1]
        /\ UNCHANGED <<slotVars, wait_lock, pc, after, w, havekids, arg>>
     \/ /\ pp < NPROC /\ parent[pp] = p /\ lock[pp] = NoCpu /\ state[pp] # "ZOMBIE"
        /\ i' = [i EXCEPT ![p] = pp + 1] /\ havekids' = [havekids EXCEPT ![p] = TRUE]
        /\ UNCHANGED <<slotVars, wait_lock, pc, after, w, arg>>
     \/ /\ pp < NPROC /\ parent[pp] = p /\ lock[pp] = NoCpu /\ state[pp] = "ZOMBIE"
        /\ freeproc(pp) \/ (p # initproc /\ UNCHANGED <<slotVars, after>>)
        /\ wait_lock' = NoCpu
        /\ Return(p) /\ UNCHANGED w
  /\ UNCHANGED <<lock, nextpid, cpuVars>>

\* A mutant: wait_lock is released before p->lock is taken.
WaitKilledUnlocks(c, p) ==
  /\ At(c, p, "w_killed")
  /\ havekids[p] => lock[p] = NoCpu
  /\ IF ~havekids[p] \/ killed[p]
       THEN wait_lock' = NoCpu /\ Return(p)
       ELSE /\ wait_lock' = NoCpu
            /\ Goto(p, "w_sleep") /\ UNCHANGED <<i, havekids, arg>>
  /\ UNCHANGED <<slotVars, lock, nextpid, cpuVars, after, w>>

\* "if(!havekids || killed(p))".
WaitKilled(c, p) ==
  /\ At(c, p, "w_killed")
  /\ havekids[p] => lock[p] = NoCpu
  /\ IF ~havekids[p] \/ killed[p]
       THEN wait_lock' = NoCpu /\ Return(p)
       ELSE Goto(p, "w_sleep") /\ UNCHANGED <<wait_lock, i, havekids, arg>>
  /\ UNCHANGED <<slotVars, lock, nextpid, cpuVars, after, w>>

\* sleep(p, &wait_lock): acquire(&p->lock), then release(&wait_lock) and sleep.
SleepLock(c, p) ==
  /\ At(c, p, "w_sleep") /\ lock[p] = NoCpu
  /\ lock' = [lock EXCEPT ![p] = c]
  /\ Goto(p, "s_release")
  /\ UNCHANGED <<slotVars, wait_lock, nextpid, cpuVars, after, localVars>>

Sleep(c, p) ==
  /\ At(c, p, "s_release")
  /\ wait_lock' = NoCpu
  /\ chan' = [chan EXCEPT ![p] = p]
  /\ state' = [state EXCEPT ![p] = "SLEEPING"]
  /\ after' = [after EXCEPT ![p] = "sleep"]
  /\ Goto(p, "w_lock")
  /\ UNCHANGED <<killed, pid, parent, lock, nextpid, cpuVars, localVars>>
-----------------------------------------------------------------------------
(***************************************************************************)
(* exit()                                                                  *)
(***************************************************************************)

\* acquire(&wait_lock).  For init, panic("init exiting") comes first.
ExitLock(c, p) ==
  /\ At(c, p, "x_lock") /\ p # initproc /\ wait_lock = NoCpu
  /\ wait_lock' = c
  /\ Goto(p, "x_reparent")
  /\ UNCHANGED <<slotVars, lock, nextpid, cpuVars, after, localVars>>

\* A mutant: children keep the parent that exits.
ReparentNone(c, p) ==
  /\ At(c, p, "x_reparent")
  /\ IF i[p] = NPROC
       THEN /\ Goto(p, "x_wake_parent") /\ i' = [i EXCEPT ![p] = 0]
            /\ UNCHANGED parent
     ELSE IF FALSE
       THEN /\ parent' = [parent EXCEPT ![i[p]] = initproc]
            /\ Goto(p, "x_wake_init")
            /\ UNCHANGED i
       ELSE i' = [i EXCEPT ![p] = @ + 1] /\ UNCHANGED <<parent, pc>>
  /\ UNCHANGED <<state, chan, killed, pid, lockVars, nextpid, cpuVars, after, w, havekids, arg>>

\* A round of the loop of reparent().
reparent(c, p) ==
  /\ At(c, p, "x_reparent")
  /\ IF i[p] = NPROC
       THEN /\ Goto(p, "x_wake_parent") /\ i' = [i EXCEPT ![p] = 0]
            /\ UNCHANGED parent
     ELSE IF parent[i[p]] = p
       THEN /\ parent' = [parent EXCEPT ![i[p]] = initproc]
            /\ Goto(p, "x_wake_init")
            /\ UNCHANGED i
       ELSE i' = [i EXCEPT ![p] = @ + 1] /\ UNCHANGED <<parent, pc>>
  /\ UNCHANGED <<state, chan, killed, pid, lockVars, nextpid, cpuVars, after, w, havekids, arg>>

\* A round of the loop of wakeup(target).
WakeOne(p, target) ==
  LET q == w[p] IN
  /\ q < NPROC
  /\ q # p => lock[q] = NoCpu
  /\ state' = [state EXCEPT ![q] =
                 IF q # p /\ @ = "SLEEPING" /\ chan[q] = target THEN "RUNNABLE" ELSE @]
  /\ w' = [w EXCEPT ![p] = q + 1]
  /\ UNCHANGED <<pc, i>>

\* wakeup(initproc) in reparent(), wakeup(p->parent) in exit().
wakeup(c, p) ==
  /\ \/ /\ At(c, p, "x_wake_init")
        /\ \/ WakeOne(p, initproc)
           \/ /\ w[p] = NPROC /\ w' = [w EXCEPT ![p] = 0]
              /\ Goto(p, "x_reparent") /\ i' = [i EXCEPT ![p] = @ + 1]
              /\ UNCHANGED state
     \/ /\ At(c, p, "x_wake_parent")
        /\ \/ WakeOne(p, parent[p])
           \/ /\ w[p] = NPROC /\ w' = [w EXCEPT ![p] = 0]
              /\ Goto(p, "x_zombie") /\ UNCHANGED <<state, i>>
  /\ UNCHANGED <<chan, killed, pid, parent, lockVars, nextpid, cpuVars, after, havekids, arg>>

ExitZombie(c, p) ==
  /\ At(c, p, "x_zombie") /\ lock[p] = NoCpu
  /\ lock' = [lock EXCEPT ![p] = c]
  /\ state' = [state EXCEPT ![p] = "ZOMBIE"]
  /\ Goto(p, "x_release")
  /\ UNCHANGED <<chan, killed, pid, parent, wait_lock, nextpid, cpuVars, after, localVars>>

ExitRelease(c, p) ==
  /\ At(c, p, "x_release")
  /\ wait_lock' = NoCpu
  /\ after' = [after EXCEPT ![p] = "exit"]
  /\ Goto(p, "user")
  /\ UNCHANGED <<slotVars, lock, nextpid, cpuVars, localVars>>
-----------------------------------------------------------------------------
\* The work of the kernel for p, once it has been called.
KernelStep(c, p) ==
  \/ usertrapret(c, p) \/ allocproc(c, p) \/ ForkCopy(c, p) \/ ForkParent(c, p)
  \/ ForkRunnable(c, p) \/ kill(c, p) \/ WaitLock(c, p) \/ WaitScan(c, p)
  \/ WaitKilled(c, p) \/ SleepLock(c, p) \/ Sleep(c, p) \/ ExitLock(c, p)
  \/ reparent(c, p) \/ wakeup(c, p) \/ ExitZombie(c, p) \/ ExitRelease(c, p)

SwitchStep(c, p) == sched(c, p) \/ Resume(c, p)

Next ==
  \E c \in CPUs :
    \/ Schedule(c) \/ ScheduleDone(c)
    \/ \E p \in Slots : \/ KernelStep(c, p) \/ SwitchStep(c, p)
                        \/ Syscall(c, p) \/ yield(c, p)

Spec == Init /\ [][Next]_vars

-----------------------------------------------------------------------------
(***************************************************************************)
(* Properties                                                              *)
(***************************************************************************)

\* A process's kernel stack is used by one CPU at a time, by the one whose
\* c->proc it is, and never while its slot is free or being filled: wait()
\* takes pp->lock before freeproc(), and scheduler() keeps p->lock until the
\* process has switched away.
OneStackOneCpu ==
  \A c \in CPUs : on[c] # NoProc =>
    /\ state[on[c]] \notin {"UNUSED", "USED"}
    /\ cproc[c] = on[c]
    /\ \A d \in CPUs \ {c} : on[d] # on[c]

\* A child's exit is never missed: while wait_lock is free, no parent sleeps
\* in wait() with a zombie to collect.
NoMissedExit ==
  wait_lock = NoCpu =>
    \A p, q \in Slots : state[p] = "SLEEPING" /\ parent[q] = p => state[q] # "ZOMBIE"

\* Someone is there to wait for every process: the parent of a process that
\* runs or has exited has not exited itself, at any moment of reparent() and
\* exit().
ParentsLive ==
  \A q \in Slots \ {initproc} :
    state[q] \notin {"UNUSED", "USED"} =>
      parent[q] # NoProc /\ state[parent[q]] \notin {"UNUSED", "USED", "ZOMBIE"}

=============================================================================
