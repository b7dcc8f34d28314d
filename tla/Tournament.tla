----------------------------- MODULE Tournament -----------------------------
(***************************************************************************)
(* The tournament tree lock, user/libtournament.c, as user/tournament.c    *)
(* uses it, over the kernel's lock table (PetersonLock).                   *)
(*                                                                         *)
(* Process 0 creates the N - 1 locks of the tree and forks processes       *)
(* 1 .. N-1.  Every process then climbs from its leaf to the root, taking  *)
(* one Peterson lock per level, and after its critical section gives the   *)
(* locks back from the root down.  upc[p] says which system call p made    *)
(* last; while pc[p] = "user" its result is in ret[p].                     *)
(*                                                                         *)
(* The locks are addressed by their place in the tree and not through      *)
(* lock_ids, as in the code.                                               *)
(***************************************************************************)
EXTENDS PetersonLock

CONSTANTS num_levels,  \* depth of the tree
          pow2         \* pow2[k] is 1 << k

ASSUME LevelsAssumption == num_levels \in Nat \ {0}
ASSUME Pow2Assumption ==
  /\ pow2 \in [0 .. num_levels -> Nat \ {0}]
  /\ pow2[0] = 1
  /\ pow2[1] = 2
  /\ \A a, b \in 0 .. num_levels :
       a + b <= num_levels => pow2[a + b] = pow2[a] * pow2[b]

num_processes == pow2[num_levels]
Levels == 0 .. num_levels - 1

ASSUME ProcsAssumption == Procs = 0 .. num_processes - 1

VARIABLES upc,       \* where each process is in main and libtournament
          lvl,       \* its loop variable: i or j of acquire and release
          lock_ids,  \* the locks process 0 created; the others only copy it
          made,      \* how many locks it has created
          undone,    \* how many of them it has asked to destroy again
          forked     \* how many processes process 0 has forked, plus one

userVars == <<upc, lvl, lock_ids, made, undone, forked>>
vars == <<lockVars, userVars>>

UserPC == {"unborn", "main", "create", "undo", "fork", "start", "acquire",
           "back", "release", "done", "failed"}

TypeOKUser ==
  /\ upc \in [Procs -> UserPC]
  /\ lvl \in [Procs -> Levels]
  /\ lock_ids \in [0 .. num_processes - 2 -> Locks \cup {-1}]
  /\ made \in 0 .. num_processes - 1
  /\ undone \in 0 .. made
  /\ forked \in 1 .. num_processes

TypeOK == TypeOKLock /\ TypeOKUser

\* The bit of proc_id that says from which side p comes to level i
Role(p, i) == (p \div pow2[num_levels - i - 1]) % 2

\* The node of the tree, the root being 0, where p plays at level i
Node(p, i) == (p \div pow2[num_levels - i]) + pow2[i] - 1

\* Earlier programs may have left locks active, but not taken; the fields of
\* an inactive lock are whatever its last owner left there.
Init ==
  /\ active \in [Locks -> {0, 1}]
  /\ flag \in [Locks -> [Roles -> {0, 1}]]
  /\ turn \in [Locks -> Roles]
  /\ \A l \in Locks, r \in Roles : active[l] = 1 => flag[l][r] = 0
  /\ NoCalls
  /\ upc = [p \in Procs |-> IF p = 0 THEN "main" ELSE "unborn"]
  /\ lvl = [p \in Procs |-> 0]
  /\ lock_ids = [k \in 0 .. num_processes - 2 |-> -1]
  /\ made = 0
  /\ undone = 0
  /\ forked = 1

-----------------------------------------------------------------------------
At(p, u) == upc[p] = u /\ pc[p] = "user"

UGoto(p, u) == upc' = [upc EXCEPT ![p] = u]

(***************************************************************************)
(* tournament_create, called by process 0                                  *)
(***************************************************************************)
\* malloc may fail; otherwise the first lock is created.
CreateFirst ==
  /\ At(0, "main")
  /\ \/ UGoto(0, "failed") /\ UNCHANGED lockVars
     \/ UGoto(0, "create") /\ CreateCall(0)
  /\ UNCHANGED <<lvl, lock_ids, made, undone, forked>>

\* A lock was created: create the next one, or go on to fork.
CreateNext ==
  /\ At(0, "create")
  /\ ret[0] >= 0
  /\ lock_ids' = [lock_ids EXCEPT ![made] = ret[0]]
  /\ made' = made + 1
  /\ IF made + 1 < num_processes - 1
       THEN CreateCall(0) /\ UNCHANGED upc
       ELSE UGoto(0, "fork") /\ UNCHANGED lockVars
  /\ UNCHANGED <<lvl, undone, forked>>

\* Mutant of CreateUndo: the last lock is forgotten.
UndoTooFew ==
  /\ At(0, "undo") \/ (At(0, "create") /\ ret[0] < 0)
  /\ IF undone + 1 < made
       THEN /\ DestroyCall(0, lock_ids[undone])
            /\ undone' = undone + 1
            /\ UGoto(0, "undo")
       ELSE UGoto(0, "failed") /\ UNCHANGED <<lockVars, undone>>
  /\ UNCHANGED <<lvl, lock_ids, made, forked>>

\* The table was full: destroy the locks created so far and give up.
CreateUndo ==
  /\ At(0, "undo") \/ (At(0, "create") /\ ret[0] < 0)
  /\ IF undone < made
       THEN /\ DestroyCall(0, lock_ids[undone])
            /\ undone' = undone + 1
            /\ UGoto(0, "undo")
       ELSE UGoto(0, "failed") /\ UNCHANGED <<lockVars, undone>>
  /\ UNCHANGED <<lvl, lock_ids, made, forked>>

\* One turn of the fork loop.  A failed fork ends process 0, and the children
\* it already has go on.
Fork ==
  /\ At(0, "fork")
  /\ \/ /\ forked' = forked + 1
        /\ upc' = [upc EXCEPT ![forked] = "start",
                     ![0] = IF forked + 1 = num_processes THEN "start" ELSE @]
     \/ UGoto(0, "failed") /\ UNCHANGED forked
  /\ UNCHANGED <<lockVars, lvl, lock_ids, made, undone>>

(***************************************************************************)
(* tournament_acquire: from the leaf, level num_levels - 1, to the root    *)
(***************************************************************************)
AcquireAt(p, i) ==
  /\ AcquireCall(p, Node(p, i), Role(p, i))
  /\ lvl' = [lvl EXCEPT ![p] = i]

ReleaseAt(p, i) ==
  /\ ReleaseCall(p, Node(p, i), Role(p, i))
  /\ lvl' = [lvl EXCEPT ![p] = i]

AcquireFirst(p) ==
  /\ At(p, "start")
  /\ AcquireAt(p, num_levels - 1)
  /\ UGoto(p, "acquire")
  /\ UNCHANGED <<lock_ids, made, undone, forked>>

\* The acquire at level lvl[p] returned.  If it failed, the code releases from
\* that level on, the lock that it did not get included.
AcquireNext(p) ==
  /\ At(p, "acquire")
  /\ IF ret[p] < 0
       THEN ReleaseAt(p, lvl[p]) /\ UGoto(p, "back")
       ELSE lvl[p] > 0 /\ AcquireAt(p, lvl[p] - 1) /\ UNCHANGED upc
  /\ UNCHANGED <<lock_ids, made, undone, forked>>

(***************************************************************************)
(* tournament_release, and the way back of tournament_acquire: from the    *)
(* root, or the level that failed, to the leaf                             *)
(***************************************************************************)
ReleaseFirst(p) ==
  /\ At(p, "acquire")
  /\ ret[p] = 0
  /\ lvl[p] = 0
  /\ ReleaseAt(p, 0)
  /\ UGoto(p, "release")
  /\ UNCHANGED <<lock_ids, made, undone, forked>>

\* A release returned: go on to the next level, or stop if it failed or was
\* the last one.
ReleaseNext(p) ==
  /\ upc[p] \in {"release", "back"} /\ pc[p] = "user"
  /\ IF ret[p] = 0 /\ lvl[p] + 1 < num_levels
       THEN ReleaseAt(p, lvl[p] + 1) /\ UNCHANGED upc
       ELSE /\ UGoto(p, IF upc[p] = "back" \/ ret[p] < 0 THEN "failed" ELSE "done")
            /\ UNCHANGED <<lockVars, lvl>>
  /\ UNCHANGED <<lock_ids, made, undone, forked>>

-----------------------------------------------------------------------------
ParentStep == CreateFirst \/ CreateNext \/ CreateUndo \/ Fork

ProcStep(p) ==
  \/ KernelStep(p) /\ UNCHANGED userVars
  \/ p = 0 /\ ParentStep
  \/ AcquireFirst(p) \/ AcquireNext(p)
  \/ ReleaseFirst(p) \/ ReleaseNext(p)

Finished == \A p \in Procs : upc[p] \in {"unborn", "done", "failed"}
Terminated == Finished /\ UNCHANGED vars

Next == (\E p \in Procs : ProcStep(p)) \/ Terminated

\* The scheduler (proc.c) runs every runnable process again and again.
Fairness == \A p \in Procs : WF_vars(ProcStep(p))

Spec == Init /\ [][Next]_vars
FairSpec == Spec /\ Fairness

-----------------------------------------------------------------------------
\* p has the lock of its node at level i: acquire returned for it, and the
\* store that releases it is still to come.
Won(p, i) ==
  \/ /\ upc[p] = "acquire"
     /\ lvl[p] < i \/ (lvl[p] = i /\ pc[p] = "user" /\ ret[p] = 0)
  \/ /\ upc[p] = "release"
     /\ lvl[p] < i \/ (lvl[p] = i /\ pc[p] = "r_flag")

\* p has set its flag at level i and is not through petersonlock_acquire.
Trying(p, i) ==
  /\ upc[p] = "acquire"
  /\ lvl[p] = i
  /\ pc[p] \in AcquirePC \ {"a_flag"}

\* p has the whole tree.
InCS(p) == Won(p, 0)

\* tournament_acquire is a lock: two processes of a tournament are never in
\* the critical section together.
MutualExclusion == \A p, q \in Procs : InCS(p) /\ InCS(q) => p = q

\* Peterson's algorithm is for two processes.  The tree keeps to that: two
\* processes that come to a node from the same side are never both there,
\* which needs the locks to be given back from the root down.
OnePerSide ==
  \A p, q \in Procs, i \in Levels :
    /\ Won(p, i) \/ Trying(p, i)
    /\ Won(q, i) \/ Trying(q, i)
    /\ Node(p, i) = Node(q, i)
    /\ Role(p, i) = Role(q, i)
    => p = q

\* No call of a lone tournament fails, although the code names the locks by
\* their place in the tree instead of by lock_ids: petersonlock_create picks
\* the lowest free slot, so the slots 0 .. N-2 are active once it has
\* returned N-1 times.
CallsSucceed ==
  \A p \in Procs :
    upc[p] \in {"acquire", "release"} /\ pc[p] = "user" => ret[p] = 0

\* A tournament that cannot get all its locks gives back the ones it got and
\* no others: the table was full when petersonlock_create failed, and after
\* the undo loop the inactive locks are those that tournament_create made.
UndoExact ==
  upc[0] = "failed" /\ made \in 1 .. num_processes - 2 =>
    \A l \in Locks : active[l] = 0 <=> \E k \in 0 .. made - 1 : lock_ids[k] = l

\* A process wants the abstract lock from its first peterson_acquire on, and
\* has it while it holds the root.
LockState(p) ==
  IF InCS(p) THEN "in" ELSE IF upc[p] = "acquire" THEN "want" ELSE "out"

Lock == INSTANCE Mutex
          WITH Clients <- Procs, st <- [p \in Procs |-> LockState(p)]

\* tournament_acquire and tournament_release implement a mutual exclusion lock:
\* every step of a tournament asks for, is granted or leaves the lock of Mutex,
\* which is granted only while nobody has it, or does nothing to it.
LockSafe == Lock!SafeSpec

\* tournament_acquire starves nobody: whoever starts to climb reaches the root.
LockLive == Lock!NoStarvation
=============================================================================
