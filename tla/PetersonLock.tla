---------------------------- MODULE PetersonLock ----------------------------
(***************************************************************************)
(* The kernel's table of two-process Peterson locks, kernel/petersonlock.c,*)
(* and the four system calls that reach it (kernel/sysproc.c).             *)
(*                                                                         *)
(* One action is one access to the shared table.  The kernel is preemptive *)
(* and multiprocessor, so another process may run between any two of them. *)
(* pc[p] = "user" means that p runs user code; a system call leaves the    *)
(* result in ret[p] when it returns there.  A module that EXTENDS this one *)
(* supplies the programs that make the calls.                              *)
(***************************************************************************)
EXTENDS Integers

CONSTANTS Procs,              \* the processes that make system calls
          MAX_PETERSON_LOCKS  \* size of the lock table

ASSUME TableAssumption == MAX_PETERSON_LOCKS \in Nat

VARIABLES active,  \* peterson_locks[l].active
          flag,    \* peterson_locks[l].flag[0..1]
          turn,    \* peterson_locks[l].turn
          pc,      \* where each process is in the kernel
          id,      \* its argument lock_id, or the loop index i of create
          role,    \* its argument role
          ret      \* the value its last system call returned

tableVars == <<active, flag, turn>>
callVars  == <<pc, id, role, ret>>
lockVars  == <<active, flag, turn, pc, id, role, ret>>

Locks == 0 .. MAX_PETERSON_LOCKS - 1
Roles == {0, 1}

\* `other' in petersonlock_acquire
Other(r) == 1 - r

\* petersonlock_create is at c_*, _acquire at a_*, _release at r_*,
\* _destroy at d_*
CreatePC  == {"c_scan", "c_flag0", "c_flag1", "c_turn"}
AcquirePC == {"a_flag", "a_turn", "a_test_flag", "a_test_turn"}
KernelPC  == CreatePC \cup AcquirePC \cup {"r_flag", "d_clear", "user"}

TypeOKLock ==
  /\ active \in [Locks -> {0, 1}]
  /\ flag \in [Locks -> [Roles -> {0, 1}]]
  /\ turn \in [Locks -> Roles]
  /\ pc \in [Procs -> KernelPC]
  /\ id \in [Procs -> Int]
  /\ role \in [Procs -> Roles]
  /\ ret \in [Procs -> Int]

\* petersonlock_init: every lock is inactive.  The other fields are zero
\* because the table is a global.
petersonlock_init ==
  /\ active = [l \in Locks |-> 0]
  /\ flag = [l \in Locks |-> [r \in Roles |-> 0]]
  /\ turn = [l \in Locks |-> 0]

NoCalls ==
  /\ pc = [p \in Procs |-> "user"]
  /\ id = [p \in Procs |-> 0]
  /\ role = [p \in Procs |-> 0]
  /\ ret = [p \in Procs |-> 0]

-----------------------------------------------------------------------------
Goto(p, l) == pc' = [pc EXCEPT ![p] = l]

\* The system call of p returns v to user code.
Return(p, v) ==
  /\ pc' = [pc EXCEPT ![p] = "user"]
  /\ ret' = [ret EXCEPT ![p] = v]

\* The test at the start of acquire, release and destroy, which returns -1
BadLock(l) == l \notin Locks \/ active[l] = 0

\* p calls a function of the table; the first thing it does is the test.
Enter(p, l, r, next) ==
  /\ pc[p] = "user"
  /\ id' = [id EXCEPT ![p] = l]
  /\ role' = [role EXCEPT ![p] = r]
  /\ \/ BadLock(l) /\ Return(p, -1)
     \/ ~BadLock(l) /\ Goto(p, next) /\ UNCHANGED ret
  /\ UNCHANGED tableVars

-----------------------------------------------------------------------------
(***************************************************************************)
(* petersonlock_create                                                     *)
(***************************************************************************)
CreateCall(p) ==
  /\ pc[p] = "user"
  /\ id' = [id EXCEPT ![p] = 0]
  /\ Goto(p, "c_scan")
  /\ UNCHANGED <<active, flag, turn, role, ret>>

\* One turn of the loop: test-and-set of active.
CreateScan(p) ==
  /\ pc[p] = "c_scan"
  /\ id[p] < MAX_PETERSON_LOCKS
  /\ active' = [active EXCEPT ![id[p]] = 1]
  /\ \/ active[id[p]] = 0 /\ Goto(p, "c_flag0") /\ UNCHANGED id
     \/ active[id[p]] = 1 /\ id' = [id EXCEPT ![p] = @ + 1] /\ UNCHANGED pc
  /\ UNCHANGED <<flag, turn, role, ret>>

CreateFull(p) ==
  /\ pc[p] = "c_scan"
  /\ id[p] >= MAX_PETERSON_LOCKS
  /\ Return(p, -1)
  /\ UNCHANGED <<active, flag, turn, id, role>>

CreateFlag0(p) ==
  /\ pc[p] = "c_flag0"
  /\ flag' = [flag EXCEPT ![id[p]][0] = 0]
  /\ Goto(p, "c_flag1")
  /\ UNCHANGED <<active, turn, id, role, ret>>

CreateFlag1(p) ==
  /\ pc[p] = "c_flag1"
  /\ flag' = [flag EXCEPT ![id[p]][1] = 0]
  /\ Goto(p, "c_turn")
  /\ UNCHANGED <<active, turn, id, role, ret>>

CreateTurn(p) ==
  /\ pc[p] = "c_turn"
  /\ turn' = [turn EXCEPT ![id[p]] = 0]
  /\ Return(p, id[p])
  /\ UNCHANGED <<active, flag, id, role>>

(***************************************************************************)
(* petersonlock_acquire.  The loop reads flag and turn separately; yield() *)
(* gives up the processor, which every interleaving already allows.        *)
(***************************************************************************)
AcquireCall(p, l, r) == Enter(p, l, r, "a_flag")

AcquireFlag(p) ==
  /\ pc[p] = "a_flag"
  /\ flag' = [flag EXCEPT ![id[p]][role[p]] = 1]
  /\ Goto(p, "a_turn")
  /\ UNCHANGED <<active, turn, id, role, ret>>

\* Mutant of AcquireTurn: the process keeps the turn for itself.
AcquireTurnMine(p) ==
  /\ pc[p] = "a_turn"
  /\ turn' = [turn EXCEPT ![id[p]] = role[p]]
  /\ Goto(p, "a_test_flag")
  /\ UNCHANGED <<active, flag, id, role, ret>>

\* Mutant of AcquireTurn: the turn is not written at all.
AcquireTurnDropped(p) ==
  /\ pc[p] = "a_turn"
  /\ Goto(p, "a_test_flag")
  /\ UNCHANGED <<active, flag, turn, id, role, ret>>

AcquireTurn(p) ==
  /\ pc[p] = "a_turn"
  /\ turn' = [turn EXCEPT ![id[p]] = Other(role[p])]
  /\ Goto(p, "a_test_flag")
  /\ UNCHANGED <<active, flag, id, role, ret>>

AcquireTestFlag(p) ==
  /\ pc[p] = "a_test_flag"
  /\ \/ flag[id[p]][Other(role[p])] = 0 /\ Return(p, 0)
     \/ flag[id[p]][Other(role[p])] = 1 /\ Goto(p, "a_test_turn") /\ UNCHANGED ret
  /\ UNCHANGED <<active, flag, turn, id, role>>

AcquireTestTurn(p) ==
  /\ pc[p] = "a_test_turn"
  /\ \/ turn[id[p]] # Other(role[p]) /\ Return(p, 0)
     \/ turn[id[p]] = Other(role[p]) /\ Goto(p, "a_test_flag") /\ UNCHANGED ret
  /\ UNCHANGED <<active, flag, turn, id, role>>

(***************************************************************************)
(* petersonlock_release and petersonlock_destroy                           *)
(***************************************************************************)
ReleaseCall(p, l, r) == Enter(p, l, r, "r_flag")

\* Mutant of ReleaseFlag: the flag stays up.
ReleaseFlagKept(p) ==
  /\ pc[p] = "r_flag"
  /\ Return(p, 0)
  /\ UNCHANGED <<active, flag, turn, id, role>>

ReleaseFlag(p) ==
  /\ pc[p] = "r_flag"
  /\ flag' = [flag EXCEPT ![id[p]][role[p]] = 0]
  /\ Return(p, 0)
  /\ UNCHANGED <<active, turn, id, role>>

DestroyCall(p, l) == Enter(p, l, role[p], "d_clear")

DestroyClear(p) ==
  /\ pc[p] = "d_clear"
  /\ active' = [active EXCEPT ![id[p]] = 0]
  /\ Return(p, 0)
  /\ UNCHANGED <<flag, turn, id, role>>

-----------------------------------------------------------------------------
\* One step of the kernel on behalf of a process that is inside a call
KernelStep(p) ==
  \/ CreateScan(p) \/ CreateFull(p)
  \/ CreateFlag0(p) \/ CreateFlag1(p) \/ CreateTurn(p)
  \/ AcquireFlag(p) \/ AcquireTurn(p)
  \/ AcquireTestFlag(p) \/ AcquireTestTurn(p)
  \/ ReleaseFlag(p) \/ DestroyClear(p)
=============================================================================
