---------------------------- MODULE PetersonTest ----------------------------
(***************************************************************************)
(* Several copies of user/test_peterson.c running at once over the         *)
(* kernel's lock table (PetersonLock).  Each program creates a lock, forks,*)
(* and then parent and child each acquire and release the lock a number of *)
(* times; the parent waits for the child and destroys the lock.            *)
(*                                                                         *)
(* Process <<g, 0>> is the main process of program g, <<g, 1>> its child.  *)
(* upc[p] is the last system call p made, or "loop" at the head of the for *)
(* loop; while pc[p] = "user" its result is in ret[p].  A process may be   *)
(* killed: it then exits instead of returning to user code (usertrap).     *)
(***************************************************************************)
EXTENDS PetersonLock

CONSTANTS Progs,       \* the programs that run
          ITERATIONS,  \* rounds of the loop
          Killable     \* the processes that kill() may hit

ASSUME ProcsAssumption == Procs = Progs \X {0, 1}
ASSUME KillableAssumption == Killable \subseteq Procs
ASSUME IterationsAssumption == ITERATIONS \in Nat

VARIABLES upc,       \* where each process is in main
          iter,      \* its loop counter i
          lock_id,   \* the lock of each program; -1 before it has one
          fork_ret,  \* what fork gave the program: "none", "ok" or "failed"
          killed,    \* p->killed
          bypass     \* history: see CountBypass

userVars == <<upc, iter, lock_id, fork_ret, killed>>
vars == <<lockVars, userVars, bypass>>

Parent(g) == <<g, 0>>
Child(g)  == <<g, 1>>
Partner(p) == <<p[1], 1 - p[2]>>

\* int role = fork_ret > 0 ? 0 : 1
MyRole(p) == IF p[2] = 0 /\ fork_ret[p[1]] = "ok" THEN 0 ELSE 1

Testing(p) == pc[p] \in {"a_test_flag", "a_test_turn"}

\* p has the lock: from the return of peterson_acquire to the store that
\* peterson_release makes.
InCS(p) ==
  \/ upc[p] = "acquire" /\ pc[p] = "user" /\ ret[p] = 0
  \/ upc[p] = "release" /\ pc[p] = "r_flag"

Init ==
  /\ petersonlock_init
  /\ NoCalls
  /\ upc = [p \in Procs |-> IF p[2] = 0 THEN "main" ELSE "unborn"]
  /\ iter = [p \in Procs |-> 0]
  /\ lock_id = [g \in Progs |-> -1]
  /\ fork_ret = [g \in Progs |-> "none"]
  /\ killed = [p \in Procs |-> FALSE]
  /\ bypass = [p \in Procs |-> 0]

-----------------------------------------------------------------------------
\* p is in user code after the call u returned (or at the head of the loop),
\* and has not been killed.
At(p, u) == upc[p] = u /\ pc[p] = "user" /\ ~killed[p]

UGoto(p, u) == upc' = [upc EXCEPT ![p] = u]

Create(g) ==
  /\ At(Parent(g), "main")
  /\ CreateCall(Parent(g))
  /\ UGoto(Parent(g), "create")
  /\ UNCHANGED <<iter, lock_id, fork_ret, killed>>

CreateFailed(g) ==
  /\ At(Parent(g), "create")
  /\ ret[Parent(g)] < 0
  /\ UGoto(Parent(g), "exited")
  /\ UNCHANGED <<lockVars, iter, lock_id, fork_ret, killed>>

\* The child starts at the head of the loop, as the parent does.
Fork(g) ==
  /\ At(Parent(g), "create")
  /\ ret[Parent(g)] >= 0
  /\ lock_id' = [lock_id EXCEPT ![g] = ret[Parent(g)]]
  /\ \/ /\ fork_ret' = [fork_ret EXCEPT ![g] = "ok"]
        /\ upc' = [upc EXCEPT ![Parent(g)] = "loop", ![Child(g)] = "loop"]
     \/ /\ fork_ret' = [fork_ret EXCEPT ![g] = "failed"]
        /\ UGoto(Parent(g), "loop")
  /\ UNCHANGED <<lockVars, iter, killed>>

Acquire(p) ==
  /\ At(p, "loop")
  /\ iter[p] < ITERATIONS
  /\ AcquireCall(p, lock_id[p[1]], MyRole(p))
  /\ UGoto(p, "acquire")
  /\ UNCHANGED <<iter, lock_id, fork_ret, killed>>

\* The end of the critical section, or exit(1) if acquire failed.
Release(p) ==
  /\ At(p, "acquire")
  /\ IF ret[p] < 0
       THEN UGoto(p, "exited") /\ UNCHANGED lockVars
       ELSE UGoto(p, "release") /\ ReleaseCall(p, lock_id[p[1]], MyRole(p))
  /\ UNCHANGED <<iter, lock_id, fork_ret, killed>>

NextRound(p) ==
  /\ At(p, "release")
  /\ IF ret[p] < 0
       THEN UGoto(p, "exited") /\ UNCHANGED iter
       ELSE UGoto(p, "loop") /\ iter' = [iter EXCEPT ![p] = @ + 1]
  /\ UNCHANGED <<lockVars, lock_id, fork_ret, killed>>

\* Mutant of LoopDone: everybody exits, and nobody destroys the lock.
LoopDoneExit(p) ==
  /\ At(p, "loop")
  /\ iter[p] = ITERATIONS
  /\ UGoto(p, "exited")
  /\ UNCHANGED <<lockVars, iter, lock_id, fork_ret, killed>>

\* Only a process whose fork() succeeded waits and destroys.
LoopDone(p) ==
  /\ At(p, "loop")
  /\ iter[p] = ITERATIONS
  /\ UGoto(p, IF MyRole(p) = 0 THEN "wait" ELSE "exited")
  /\ UNCHANGED <<lockVars, iter, lock_id, fork_ret, killed>>

\* Mutant of Destroy: the parent does not wait for the child.
DestroyEarly(g) ==
  /\ At(Parent(g), "wait")
  /\ DestroyCall(Parent(g), lock_id[g])
  /\ UGoto(Parent(g), "destroy")
  /\ UNCHANGED <<iter, lock_id, fork_ret, killed>>

\* wait(0) returns once the child has exited.
Destroy(g) ==
  /\ At(Parent(g), "wait")
  /\ upc[Child(g)] = "exited"
  /\ DestroyCall(Parent(g), lock_id[g])
  /\ UGoto(Parent(g), "destroy")
  /\ UNCHANGED <<iter, lock_id, fork_ret, killed>>

Exit(g) ==
  /\ At(Parent(g), "destroy")
  /\ UGoto(Parent(g), "exited")
  /\ UNCHANGED <<lockVars, iter, lock_id, fork_ret, killed>>

\* kill() of a process that exists
Kill(p) ==
  /\ p \in Killable
  /\ ~killed[p]
  /\ upc[p] \notin {"unborn", "exited"}
  /\ killed' = [killed EXCEPT ![p] = TRUE]
  /\ UNCHANGED <<lockVars, upc, iter, lock_id, fork_ret>>

\* usertrap(): a killed process exits when it would run user code.
Die(p) ==
  /\ killed[p]
  /\ pc[p] = "user"
  /\ upc[p] # "exited"
  /\ UGoto(p, "exited")
  /\ UNCHANGED <<lockVars, iter, lock_id, fork_ret, killed>>

-----------------------------------------------------------------------------
\* bypass[p] counts how often p's partner got the lock since p gave the turn
\* away, while p waits in the loop of petersonlock_acquire.
CountBypass ==
  bypass' = [p \in Procs |->
    IF pc'[p] \notin {"a_test_flag", "a_test_turn"} THEN 0
    ELSE IF Testing(Partner(p)) /\ pc'[Partner(p)] = "user" THEN bypass[p] + 1
    ELSE bypass[p]]

MainStep(g) ==
  Create(g) \/ CreateFailed(g) \/ Fork(g) \/ Destroy(g) \/ Exit(g)

ProcStep(p) ==
  /\ \/ KernelStep(p) /\ UNCHANGED userVars
     \/ p[2] = 0 /\ MainStep(p[1])
     \/ Acquire(p) \/ Release(p) \/ NextRound(p) \/ LoopDone(p)
     \/ Die(p)
  /\ CountBypass

Terminated ==
  /\ \A p \in Procs : upc[p] \in {"unborn", "exited"}
  /\ UNCHANGED vars

Next ==
  \/ \E p \in Procs : ProcStep(p) \/ (Kill(p) /\ CountBypass)
  \/ Terminated

\* The scheduler (proc.c) runs every runnable process again and again.
Fairness == \A p \in Procs : WF_vars(ProcStep(p))

Spec == Init /\ [][Next]_vars
FairSpec == Spec /\ Fairness

-----------------------------------------------------------------------------
\* The lock that petersonlock_acquire hands out is exclusive: parent and
\* child of a program are never both between a successful peterson_acquire
\* and the store of their peterson_release, whatever other programs do to
\* the table and whoever is killed.
MutualExclusion ==
  \A g \in Progs : ~(InCS(Parent(g)) /\ InCS(Child(g)))

\* A program uses its lock from the return of peterson_create until the child
\* has exited and the parent has exited or calls peterson_destroy.
HasLock(g) ==
  /\ lock_id[g] # -1
  /\ \/ upc[Parent(g)] \notin {"destroy", "exited"}
     \/ upc[Child(g)] \notin {"unborn", "exited"}

\* The test-and-set of petersonlock_create gives a slot to one program: while
\* a program uses its lock, that lock stays active, no other program has it,
\* and no petersonlock_create is resetting its fields.
LockIsOurs ==
  \A g \in Progs : HasLock(g) =>
    /\ active[lock_id[g]] = 1
    /\ \A h \in Progs \ {g} :
         /\ HasLock(h) => lock_id[h] # lock_id[g]
         /\ pc[Parent(h)] \in {"c_flag0", "c_flag1", "c_turn"}
              => id[Parent(h)] # lock_id[g]

\* A process that waits in petersonlock_acquire is overtaken at most once:
\* its partner, which must give the turn away to come back, cannot get the
\* lock twice.
BoundedBypass == \A p \in Procs : bypass[p] <= 1

\* When everything has exited, an active lock is the last one that the main
\* process of some program named in a call, and that program's fork failed or
\* its main process was killed: on every other path the parent destroys the
\* lock it created, and nobody else's.
LeaksExplained ==
  (\A p \in Procs : upc[p] \in {"unborn", "exited"}) =>
    \A l \in Locks : active[l] = 1 =>
      \E g \in Progs :
        /\ id[Parent(g)] = l
        /\ fork_ret[g] = "failed" \/ killed[Parent(g)]

\* peterson_acquire returns unless the partner is killed, which may then have
\* left its flag up: Peterson's algorithm does not starve either side.
AcquireReturns ==
  \A p \in Procs : pc[p] \in AcquirePC ~> pc[p] = "user" \/ killed[Partner(p)]
=============================================================================
