------------------------ MODULE PetersonCalls_proofs -----------------------
(***************************************************************************)
(* The inductive invariant of test_peterson.c over petersonlock.c, and     *)
(* that every step inside peterson_create, peterson_acquire,               *)
(* peterson_release and peterson_destroy keeps it.                         *)
(***************************************************************************)
EXTENDS PetersonTest, TLAPS

UserPC == {"unborn", "main", "create", "loop", "acquire", "release", "wait",
           "destroy", "exited"}

TypeOKUser ==
  /\ upc \in [Procs -> UserPC]
  /\ iter \in [Procs -> Nat]
  /\ lock_id \in [Progs -> Int]
  /\ fork_ret \in [Progs -> {"none", "ok", "failed"}]
  /\ killed \in [Procs -> BOOLEAN]
  /\ bypass \in [Procs -> Nat]

TypeOK == TypeOKLock /\ TypeOKUser

(***************************************************************************)
(* The inductive invariant                                                 *)
(***************************************************************************)

\* Where a process is in the kernel says which call of main() it is in, and
\* with which arguments; which calls it makes follows from what fork() gave.
InvControl ==
  \A p \in Procs :
    /\ pc[p] \in CreatePC => upc[p] = "create"
    /\ pc[p] \in AcquirePC => upc[p] = "acquire"
    /\ pc[p] = "r_flag" => upc[p] = "release"
    /\ pc[p] = "d_clear" => upc[p] = "destroy"
    /\ pc[p] \in AcquirePC \cup {"r_flag"} =>
         role[p] = MyRole(p) /\ id[p] = lock_id[p[1]]
    /\ pc[p] = "c_scan" => id[p] \in Nat

InvFork ==
  /\ \A p \in Procs :
       /\ upc[p] \in {"main", "create"} => p[2] = 0 /\ fork_ret[p[1]] = "none"
       /\ upc[p] \in {"loop", "acquire", "release"} => fork_ret[p[1]] # "none"
       /\ upc[p] \in {"wait", "destroy"} => p[2] = 0 /\ fork_ret[p[1]] = "ok"
       /\ upc[p] = "destroy" => upc[Partner(p)] = "exited"
       /\ p[2] = 1 => (upc[p] = "unborn" <=> fork_ret[p[1]] # "ok")
       /\ upc[p] = "unborn" => p[2] = 1 /\ ~killed[p]
       /\ p[2] = 0 /\ upc[p] = "exited" /\ fork_ret[p[1]] = "ok" =>
            killed[p] \/ upc[Partner(p)] = "exited"
  /\ \A g \in Progs :
       /\ lock_id[g] = -1 <=> fork_ret[g] = "none"
       /\ lock_id[g] # -1 => lock_id[g] = id[Parent(g)]

\* What the calls return.
InvRet ==
  \A p \in Procs : pc[p] = "user" =>
    /\ upc[p] \in {"acquire", "release"} => ret[p] = 0
    /\ upc[p] = "create" /\ ret[p] >= 0 => ret[p] = id[p]

\* The slot id[Parent(g)] is g's, from the test-and-set of petersonlock_create
\* to the store of petersonlock_destroy or to the end of both processes.
Owns(g) ==
  \/ pc[Parent(g)] \in {"c_flag0", "c_flag1", "c_turn", "d_clear"}
  \/ upc[Parent(g)] = "create" /\ pc[Parent(g)] = "user" /\ ret[Parent(g)] >= 0
  \/ HasLock(g)

InvOwn ==
  \A g \in Progs : Owns(g) =>
    /\ id[Parent(g)] \in Locks
    /\ active[id[Parent(g)]] = 1
    /\ \A h \in Progs : Owns(h) /\ id[Parent(h)] = id[Parent(g)] => h = g

\* The main process ended without destroying the lock.
Leaked(g) ==
  upc[Parent(g)] = "exited" /\ (fork_ret[g] = "failed" \/ killed[Parent(g)])

InvLeak ==
  \A l \in Locks : active[l] = 1 =>
    \E g \in Progs : id[Parent(g)] = l /\ (Owns(g) \/ Leaked(g))

\* p has or wants the lock, and its flag is up.
Wants(p) == InCS(p) \/ Testing(p) \/ pc[p] = "a_turn"

InvFlag ==
  \A p \in Procs : Wants(p) => flag[lock_id[p[1]]][MyRole(p)] = 1

\* Whoever waits while its partner has the lock has given it the turn.
InvMutex ==
  \A p \in Procs : InCS(p) =>
    /\ ~InCS(Partner(p))
    /\ Testing(Partner(p)) => turn[lock_id[p[1]]] = MyRole(p)

\* A process that was overtaken has the turn as soon as its partner is back.
InvBypass ==
  \A p \in Procs :
    /\ bypass[p] <= 1
    /\ ~Testing(p) => bypass[p] = 0
    /\ bypass[p] = 1 /\ Testing(Partner(p)) => turn[lock_id[p[1]]] = MyRole(p)

Inv ==
  /\ TypeOK /\ InvControl /\ InvFork /\ InvRet
  /\ InvOwn /\ InvLeak /\ InvFlag /\ InvMutex /\ InvBypass
-----------------------------------------------------------------------------
(***************************************************************************)
(* Programs and their processes                                            *)
(***************************************************************************)

\* The main process and the child of a program are the processes whose first
\* component it is, and each is the partner of the other.
LEMMA ProcFacts ==
  /\ \A g \in Progs : /\ Parent(g) \in Procs /\ Parent(g)[1] = g /\ Parent(g)[2] = 0
                      /\ Child(g) \in Procs /\ Child(g)[1] = g /\ Child(g)[2] = 1
                      /\ Partner(Parent(g)) = Child(g)
                      /\ Partner(Child(g)) = Parent(g)
  /\ \A p \in Procs : /\ p[1] \in Progs /\ p[2] \in {0, 1}
                      /\ p[2] = 0 => p = Parent(p[1])
                      /\ p[2] = 1 => p = Child(p[1])
                      /\ Partner(p) \in Procs /\ Partner(p) # p
                      /\ Partner(Partner(p)) = p
                      /\ Partner(p)[1] = p[1] /\ Partner(p)[2] = 1 - p[2]
  /\ \A p, q \in Procs : p[1] = q[1] => q = p \/ q = Partner(p)
BY ProcsAssumption DEF Parent, Child, Partner

\* A step in which nobody comes to wait and nobody stops waiting overtakes
\* nobody.
LEMMA BypassKept ==
  ASSUME Inv, CountBypass,
         \A q \in Procs : Testing(q)' =>
           /\ Testing(q) /\ MyRole(q)' = MyRole(q)
           /\ turn'[lock_id'[q[1]]] = turn[lock_id[q[1]]],
         \A q \in Procs : Testing(q) => pc'[q] # "user"
  PROVE  InvBypass' /\ bypass' \in [Procs -> Nat]
<1>1. bypass' \in [Procs -> Nat]
  BY Zenon, ProcFacts DEF Inv, TypeOK, TypeOKUser, CountBypass
<1>2. \A q \in Procs : bypass'[q] = IF Testing(q)' THEN bypass[q] ELSE 0
  BY Zenon, ProcFacts DEF CountBypass, Testing
<1> QED BY <1>1, <1>2, ProcFacts DEF Inv, TypeOK, TypeOKUser, InvBypass

\* A step in which nobody comes to want or to get the lock, and in which the
\* fields of the locks in use stay as they are, keeps the exclusion.
LEMMA PetersonKept ==
  ASSUME Inv,
         \A q \in Procs : /\ InCS(q)' => InCS(q)
                          /\ Testing(q)' => Testing(q)
                          /\ Wants(q)' => Wants(q),
         \A q \in Procs : Wants(q)' =>
           /\ MyRole(q)' = MyRole(q)
           /\ flag'[lock_id'[q[1]]][MyRole(q)] = flag[lock_id[q[1]]][MyRole(q)]
           /\ turn'[lock_id'[q[1]]] = turn[lock_id[q[1]]]
  PROVE  InvFlag' /\ InvMutex'
<1>1. InvFlag'
  BY Zenon DEF Inv, InvFlag
<1>2. InvMutex'
  <2> SUFFICES ASSUME NEW q \in Procs, InCS(q)'
               PROVE  /\ ~InCS(Partner(q))'
                      /\ Testing(Partner(q))' => turn'[lock_id'[q[1]]] = MyRole(q)'
    BY Zenon DEF InvMutex
  <2>1. Partner(q) \in Procs /\ InCS(q) /\ Wants(q)'
    BY Zenon, ProcFacts DEF Wants
  <2> QED BY Zenon, <2>1 DEF Inv, InvMutex
<1> QED BY Zenon, <1>1, <1>2

\* A step that changes neither who has or awaits the lock nor the fields of a
\* lock somebody wants keeps the exclusion and the bound on overtaking.
LEMMA ExclusionKept ==
  ASSUME Inv, CountBypass,
         \A q \in Procs : /\ InCS(q)' => InCS(q)
                          /\ Testing(q)' <=> Testing(q)
                          /\ Wants(q)' => Wants(q),
         \A q \in Procs : Wants(q)' =>
           /\ MyRole(q)' = MyRole(q)
           /\ flag'[lock_id'[q[1]]][MyRole(q)] = flag[lock_id[q[1]]][MyRole(q)]
           /\ turn'[lock_id'[q[1]]] = turn[lock_id[q[1]]]
  PROVE  InvFlag' /\ InvMutex' /\ InvBypass' /\ bypass' \in [Procs -> Nat]
<1>1. \A q \in Procs : /\ Testing(q)' => Wants(q)'
                       /\ Testing(q)' => pc'[q] # "user"
  BY Zenon DEF Wants, Testing
<1>2. InvFlag' /\ InvMutex'
  BY Zenon, PetersonKept
<1> QED BY Zenon, <1>1, <1>2, BypassKept

\* A step after which nobody owns a slot that it did not own before.
LEMMA OwnKept ==
  ASSUME Inv,
         \A g \in Progs : Owns(g)' =>
           /\ Owns(g) /\ id'[Parent(g)] = id[Parent(g)]
           /\ active'[id[Parent(g)]] = active[id[Parent(g)]]
  PROVE  InvOwn'
BY Zenon DEF Inv, InvOwn

\* A step that activates no lock, and in which whoever answers for an active
\* lock goes on to do so.
LEMMA LeakKept ==
  ASSUME Inv,
         \A l \in Locks : active'[l] = 1 => active[l] = 1,
         \A g \in Progs :
           (Owns(g) \/ Leaked(g)) /\ active'[id[Parent(g)]] = 1 =>
             (Owns(g) \/ Leaked(g))' /\ id'[Parent(g)] = id[Parent(g)]
  PROVE  InvLeak'
BY Zenon DEF Inv, InvLeak

\* Whoever wants a lock uses the lock of its program, which is in the table.
LEMMA WantsLock ==
  ASSUME Inv, NEW p \in Procs,
         upc[p] \in {"loop", "acquire", "release", "wait"} \/ pc[p] \in {"d_clear", "r_flag"}
  PROVE  /\ Owns(p[1]) /\ lock_id[p[1]] = id[Parent(p[1])]
         /\ lock_id[p[1]] \in Locks /\ active[lock_id[p[1]]] = 1
<1>1. p[1] \in Progs /\ fork_ret[p[1]] # "none" /\ (p = Parent(p[1]) \/ p = Child(p[1]))
  BY Zenon, ProcFacts DEF Inv, InvFork, InvControl
<1>2. lock_id[p[1]] # -1
  BY Zenon, <1>1 DEF Inv, InvFork
<1>3. Owns(p[1])
  BY Zenon, <1>1, <1>2 DEF Owns, HasLock, Inv, InvControl
<1> QED BY <1>1, <1>2, <1>3, ProcFacts DEF Inv, InvFork, InvOwn

\* The two sides of a lock have different roles.
LEMMA PartnerRole ==
  ASSUME Inv, NEW p \in Procs, upc[p] \in {"acquire", "release"},
         upc[Partner(p)] \in {"acquire", "release"}
  PROVE  MyRole(Partner(p)) = Other(MyRole(p)) /\ MyRole(p) # Other(MyRole(p))
<1>1. fork_ret[p[1]] = "ok"
  BY ProcFacts DEF Inv, InvFork
<1> QED BY <1>1, ProcFacts DEF MyRole, Other

\* Whoever has the lock or waits for it is in one of the two calls.
LEMMA WantsCall ==
  ASSUME Inv, NEW p \in Procs, Wants(p)
  PROVE  upc[p] \in {"acquire", "release"}
BY Zenon DEF Inv, InvControl, Wants, InCS, Testing, AcquirePC

\* A process inside petersonlock_acquire or petersonlock_release has its
\* program's lock and its own role; its partner, if it wants the lock, has the
\* other role, and nobody else uses that lock.
LEMMA InCall ==
  ASSUME Inv, NEW p \in Procs, pc[p] \in AcquirePC \cup {"r_flag"}
  PROVE  /\ id[p] = lock_id[p[1]] /\ id[p] \in Locks
         /\ role[p] = MyRole(p) /\ role[p] \in Roles /\ Other(role[p]) \in Roles
         /\ upc[p] = IF pc[p] = "r_flag" THEN "release" ELSE "acquire"
         /\ \A q \in Procs : Wants(q) /\ q[1] # p[1] => lock_id[q[1]] \in Locks \ {id[p]}
         /\ Wants(Partner(p)) => MyRole(Partner(p)) = Other(role[p]) /\ role[p] # Other(role[p])
<1>1. /\ id[p] = lock_id[p[1]] /\ role[p] = MyRole(p)
      /\ upc[p] = IF pc[p] = "r_flag" THEN "release" ELSE "acquire"
  BY Zenon DEF Inv, InvControl, AcquirePC
<1>2. id[p] \in Locks /\ Owns(p[1]) /\ id[p] = id[Parent(p[1])]
  BY Zenon, <1>1, WantsLock
<1>3. ASSUME NEW q \in Procs, Wants(q), q[1] # p[1] PROVE lock_id[q[1]] \in Locks \ {id[p]}
  <2>1. Owns(q[1]) /\ lock_id[q[1]] = id[Parent(q[1])] /\ lock_id[q[1]] \in Locks
    BY Zenon, <1>3, WantsCall, WantsLock
  <2> QED BY <1>2, <1>3, <2>1, ProcFacts DEF Inv, InvOwn
<1>4. Wants(Partner(p)) => MyRole(Partner(p)) = Other(role[p]) /\ role[p] # Other(role[p])
  BY Zenon, <1>1, WantsCall, PartnerRole, ProcFacts
<1> QED BY <1>1, <1>2, <1>3, <1>4 DEF MyRole, Roles, Other

\* While a main process fills in or gives back the slot id[p], nobody uses it.
LEMMA Private ==
  ASSUME Inv, NEW p \in Procs, pc[p] \in {"c_flag0", "c_flag1", "c_turn", "d_clear"}
  PROVE  /\ p = Parent(p[1]) /\ p[1] \in Progs /\ Owns(p[1]) /\ id[p] \in Locks
         /\ \A h \in Progs \ {p[1]} : Owns(h) => id[Parent(h)] # id[p]
         /\ \A q \in Procs : Wants(q) => lock_id[q[1]] # id[p]
<1>1. p = Parent(p[1]) /\ p[1] \in Progs /\ upc[p] \in {"create", "destroy"}
  BY ProcFacts DEF Inv, InvControl, InvFork, CreatePC
<1>2. Owns(p[1])
  BY Zenon, <1>1 DEF Owns
<1>3. id[p] \in Locks /\ \A h \in Progs \ {p[1]} : Owns(h) => id[Parent(h)] # id[p]
  BY Zenon, <1>1, <1>2 DEF Inv, InvOwn
<1>4. ASSUME NEW q \in Procs, Wants(q) PROVE lock_id[q[1]] # id[p]
  <2>1. upc[q] \in {"acquire", "release"}
    BY Zenon, <1>4, WantsCall
  <2>2. Owns(q[1]) /\ lock_id[q[1]] = id[Parent(q[1])]
    BY Zenon, <2>1, WantsLock
  <2>3. q[1] # p[1]
    BY <1>1, <2>1, ProcFacts DEF Inv, InvFork
  <2> QED BY <1>3, <2>2, <2>3, ProcFacts
<1> QED BY Zenon, <1>1, <1>2, <1>3, <1>4

\* A step inside a call that neither takes a slot nor gives one back, and
\* returns at most 0, leaves every program where it is with what it owns.
LEMMA OwnershipKept ==
  ASSUME Inv, NEW p \in Procs,
         UNCHANGED <<active, id, role>>,
         UNCHANGED <<upc, iter, lock_id, fork_ret, killed>>,
         \A q \in Procs \ {p} : pc'[q] = pc[q] /\ ret'[q] = ret[q],
         \/ /\ pc[p] \in {"c_flag0", "c_flag1"}
            /\ pc'[p] \in {"c_flag1", "c_turn"} /\ ret'[p] = ret[p]
         \/ /\ pc[p] \in AcquirePC
            /\ pc'[p] \in AcquirePC /\ ret'[p] = ret[p]
         \/ /\ pc[p] \in AcquirePC \cup {"r_flag"}
            /\ pc'[p] = "user" /\ ret'[p] = 0
  PROVE  InvControl' /\ InvFork' /\ InvRet' /\ InvOwn' /\ InvLeak'
<1> USE DEF CreatePC, AcquirePC
<1>1. InvControl'
  BY DEF Inv, InvControl, MyRole
<1>2. InvFork'
  BY Zenon DEF Inv, InvFork
<1>3. InvRet'
  BY DEF Inv, InvControl, InvRet
<1>4. \A g \in Progs : (Owns(g)' <=> Owns(g)) /\ (Leaked(g)' <=> Leaked(g))
  BY ProcFacts DEF Inv, InvControl, Owns, HasLock, Leaked
<1>5. InvOwn'
  BY Zenon, <1>4, OwnKept
<1>6. InvLeak'
  BY Zenon, <1>4, LeakKept
<1> QED BY Zenon, <1>1, <1>2, <1>3, <1>5, <1>6
-----------------------------------------------------------------------------
(***************************************************************************)
(* The steps of the four system calls                                      *)
(***************************************************************************)

\* The test-and-set gives p a slot that was nobody's, or shows that it is taken.
LEMMA CreateScanStep ==
  ASSUME Inv, NEW p \in Procs, CreateScan(p), UNCHANGED userVars, CountBypass
  PROVE  Inv'
<1> USE DEF CreatePC, AcquirePC
<1>0. id[p] \in Locks /\ upc[p] = "create"
  BY TableAssumption DEF CreateScan, Inv, InvControl, TypeOK, TypeOKLock, Locks
<1>1. /\ \A q \in Procs \ {p} : pc'[q] = pc[q]
      /\ pc[p] = "c_scan" /\ upc[p] = "create" /\ id[p] \in Locks /\ active'[id[p]] = 1
      /\ \A l \in Locks \ {id[p]} : active'[l] = active[l]
      /\ \/ active[id[p]] = 0 /\ pc'[p] = "c_flag0" /\ id'[p] = id[p]
         \/ active[id[p]] = 1 /\ pc'[p] = "c_scan" /\ id'[p] = id[p] + 1
      /\ \A q \in Procs \ {p} : id'[q] = id[q]
      /\ UNCHANGED <<flag, turn, role, ret>>
      /\ UNCHANGED <<upc, iter, lock_id, fork_ret, killed>>
  BY Zenon, <1>0 DEF Inv, TypeOK, TypeOKLock, CreateScan, Goto, userVars
<1>2. TypeOKLock'
  <2>1. active' \in [Locks -> {0, 1}] /\ flag' \in [Locks -> [Roles -> {0, 1}]]
    BY Zenon, <1>0, ProcFacts DEF Inv, TypeOK, TypeOKLock, Roles, Other, KernelPC, CreateScan, Goto
  <2>2. turn' \in [Locks -> Roles]
    BY Zenon, <1>0, ProcFacts DEF Inv, TypeOK, TypeOKLock, Roles, Other, KernelPC, CreateScan, Goto
  <2>3. pc' \in [Procs -> KernelPC]
    BY Zenon, <1>0, ProcFacts DEF Inv, TypeOK, TypeOKLock, Roles, Other, KernelPC, CreateScan, Goto
  <2>4. id' \in [Procs -> Int] /\ role' \in [Procs -> Roles]
    BY <1>0, ProcFacts DEF Inv, TypeOK, TypeOKLock, Roles, Other, KernelPC, CreateScan, Goto
  <2>5. ret' \in [Procs -> Int]
    BY Zenon, <1>0, ProcFacts DEF Inv, TypeOK, TypeOKLock, Roles, Other, KernelPC, CreateScan, Goto
  <2> QED BY Zenon, <2>1, <2>2, <2>3, <2>4, <2>5 DEF TypeOKLock
<1>3. InvControl'
  BY <1>1, TableAssumption, ProcFacts DEF Inv, TypeOK, TypeOKLock, InvControl, MyRole, Locks
<1>4. InvFork'
  BY <1>1, ProcFacts DEF Inv, InvControl, InvFork
<1>5. InvRet'
  BY Zenon, <1>1 DEF Inv, TypeOK, TypeOKLock, InvControl, InvRet
<1>6. InvOwn'
  <2>1. p = Parent(p[1]) /\ p[1] \in Progs /\ ~HasLock(p[1])' /\ ~Owns(p[1])
    BY <1>1, ProcFacts DEF Inv, InvFork, HasLock, Owns
  <2>2. \A g \in Progs \ {p[1]} : /\ Owns(g)' => Owns(g)
                                  /\ id'[Parent(g)] = id[Parent(g)]
    BY <1>1, <2>1, ProcFacts DEF Inv, InvControl, Owns, HasLock
  <2>3. CASE active[id[p]] = 0 /\ pc'[p] = "c_flag0" /\ id'[p] = id[p]
    BY <1>1, <2>1, <2>2, <2>3 DEF Inv, InvOwn
  <2>4. CASE active[id[p]] = 1 /\ pc'[p] = "c_scan" /\ id'[p] = id[p] + 1
    <3>1. ~Owns(p[1])'
      BY Zenon, <1>1, <2>1, <2>4 DEF Owns
    <3> QED BY <1>1, <2>2, <2>4, <3>1 DEF Inv, InvOwn
  <2> QED BY Zenon, <1>1, <2>3, <2>4
<1>7. InvLeak'
  <2>1. p = Parent(p[1]) /\ p[1] \in Progs /\ ~Owns(p[1]) /\ ~Leaked(p[1])
    BY <1>1, ProcFacts DEF Inv, InvFork, HasLock, Owns, Leaked
  <2>2. \A g \in Progs \ {p[1]} : /\ Owns(g) \/ Leaked(g) => (Owns(g) \/ Leaked(g))'
                                  /\ id'[Parent(g)] = id[Parent(g)]
    BY <1>1, <2>1, ProcFacts DEF Owns, HasLock, Leaked
  <2>3. \A l \in Locks : active[l] = 1 =>
          \E g \in Progs : id'[Parent(g)] = l /\ (Owns(g) \/ Leaked(g))'
    BY Zenon, <2>1, <2>2 DEF Inv, InvLeak
  <2>4. active[id[p]] = 0 => Owns(p[1])' /\ id'[Parent(p[1])] = id[p]
    BY <1>1, <2>1 DEF Owns
  <2>5. \A l \in Locks : active'[l] = 1 =>
          \E g \in Progs : id'[Parent(g)] = l /\ (Owns(g) \/ Leaked(g))'
    BY Zenon, <1>1, <2>1, <2>3, <2>4
  <2> QED BY Zenon, <2>5 DEF InvLeak
<1>9. InvFlag' /\ InvMutex' /\ InvBypass' /\ bypass' \in [Procs -> Nat]
  <2>1. \A q \in Procs : /\ InCS(q)' => InCS(q)
                         /\ Testing(q)' <=> Testing(q)
                         /\ Wants(q)' => Wants(q)
                         /\ MyRole(q)' = MyRole(q)
    BY Zenon, <1>1 DEF InCS, Testing, Wants, MyRole
  <2> QED BY Zenon, <1>1, <2>1, ExclusionKept
<1>10. TypeOK'
  BY Zenon, <1>1, <1>2, <1>9 DEF Inv, TypeOK, TypeOKUser
<1> QED BY Zenon, <1>3, <1>4, <1>5, <1>6, <1>7, <1>9, <1>10 DEF Inv

\* petersonlock_create finds no free lock.
LEMMA CreateFullStep ==
  ASSUME Inv, NEW p \in Procs, CreateFull(p), UNCHANGED userVars, CountBypass
  PROVE  Inv'
<1> USE DEF CreatePC, AcquirePC
<1>1. /\ \A q \in Procs \ {p} : pc'[q] = pc[q]
      /\ pc[p] = "c_scan" /\ pc'[p] = "user" /\ ret'[p] = -1
      /\ \A q \in Procs \ {p} : ret'[q] = ret[q]
      /\ UNCHANGED <<active, flag, turn, id, role>>
      /\ UNCHANGED <<upc, iter, lock_id, fork_ret, killed>>
  BY Zenon DEF Inv, TypeOK, TypeOKLock, CreateFull, Return, userVars
<1>2. TypeOKLock'
  BY ProcFacts DEF Inv, TypeOK, TypeOKLock, InvControl, CreateFull, Return, KernelPC
<1>3. InvControl'
  BY <1>1, ProcFacts DEF Inv, TypeOK, TypeOKLock, InvControl, MyRole
<1>4. InvFork'
  BY Zenon, <1>1, ProcFacts DEF Inv, InvFork
<1>5. InvRet'
  BY <1>1 DEF Inv, TypeOK, TypeOKLock, InvControl, InvRet
<1>6. InvOwn'
  <2>1. \A g \in Progs : Owns(g)' => Owns(g)
    BY <1>1, ProcFacts DEF Inv, InvControl, Owns, HasLock
  <2> QED BY Zenon, <1>1, <2>1, OwnKept
<1>7. InvLeak'
  <2>1. \A g \in Progs : Owns(g) \/ Leaked(g) => (Owns(g) \/ Leaked(g))'
    BY <1>1, ProcFacts DEF Owns, HasLock, Leaked
  <2> QED BY Zenon, <1>1, <2>1, LeakKept
<1>9. InvFlag' /\ InvMutex' /\ InvBypass' /\ bypass' \in [Procs -> Nat]
  <2>1. \A q \in Procs : /\ InCS(q)' => InCS(q)
                         /\ Testing(q)' <=> Testing(q)
                         /\ Wants(q)' => Wants(q)
                         /\ MyRole(q)' = MyRole(q)
    BY <1>1 DEF InCS, Testing, Wants, MyRole
  <2> QED BY Zenon, <1>1, <2>1, ExclusionKept
<1>10. TypeOK'
  BY Zenon, <1>1, <1>2, <1>9 DEF Inv, TypeOK, TypeOKUser
<1> QED BY Zenon, <1>3, <1>4, <1>5, <1>6, <1>7, <1>9, <1>10 DEF Inv

\* flag[0] is cleared in a slot that p owns.
LEMMA CreateFlag0Step ==
  ASSUME Inv, NEW p \in Procs, CreateFlag0(p), UNCHANGED userVars, CountBypass
  PROVE  Inv'
<1> USE DEF CreatePC, AcquirePC
<1>1. /\ \A q \in Procs \ {p} : pc'[q] = pc[q]
      /\ pc[p] = "c_flag0" /\ pc'[p] = "c_flag1"
      /\ \A l \in Locks \ {id[p]} : flag'[l] = flag[l]
      /\ UNCHANGED <<active, turn, id, role, ret>>
      /\ UNCHANGED <<upc, iter, lock_id, fork_ret, killed>>
  BY Zenon DEF Inv, TypeOK, TypeOKLock, CreateFlag0, Goto, userVars
<1>2. TypeOKLock'
  <2>1. flag' \in [Locks -> [Roles -> {0, 1}]]
    BY Zenon DEF Inv, TypeOK, TypeOKLock, CreateFlag0
  <2>2. pc' \in [Procs -> KernelPC]
    BY DEF Inv, TypeOK, TypeOKLock, CreateFlag0, Goto, KernelPC
  <2> QED BY Zenon, <1>1, <2>1, <2>2 DEF Inv, TypeOK, TypeOKLock
<1>3. InvControl' /\ InvFork' /\ InvRet' /\ InvOwn' /\ InvLeak'
  BY Zenon, <1>1, OwnershipKept
<1>9. InvFlag' /\ InvMutex' /\ InvBypass' /\ bypass' \in [Procs -> Nat]
  <2>1. \A q \in Procs : /\ InCS(q)' => InCS(q)
                         /\ Testing(q)' <=> Testing(q)
                         /\ Wants(q)' => Wants(q)
                         /\ MyRole(q)' = MyRole(q)
    BY Zenon, <1>1 DEF InCS, Testing, Wants, MyRole
  <2>2. \A q \in Procs : Wants(q) => lock_id[q[1]] \in Locks \ {id[p]}
    BY Zenon, <1>1, Private, WantsCall, WantsLock
  <2> QED BY Zenon, <1>1, <2>1, <2>2, ExclusionKept
<1>10. TypeOK'
  BY Zenon, <1>1, <1>2, <1>9 DEF Inv, TypeOK, TypeOKUser
<1> QED BY Zenon, <1>3, <1>9, <1>10 DEF Inv

\* flag[1] is cleared in a slot that p owns.
LEMMA CreateFlag1Step ==
  ASSUME Inv, NEW p \in Procs, CreateFlag1(p), UNCHANGED userVars, CountBypass
  PROVE  Inv'
<1> USE DEF CreatePC, AcquirePC
<1>1. /\ \A q \in Procs \ {p} : pc'[q] = pc[q]
      /\ pc[p] = "c_flag1" /\ pc'[p] = "c_turn"
      /\ \A l \in Locks \ {id[p]} : flag'[l] = flag[l]
      /\ UNCHANGED <<active, turn, id, role, ret>>
      /\ UNCHANGED <<upc, iter, lock_id, fork_ret, killed>>
  BY Zenon DEF Inv, TypeOK, TypeOKLock, CreateFlag1, Goto, userVars
<1>2. TypeOKLock'
  BY Zenon, ProcFacts DEF Inv, TypeOK, TypeOKLock, InvControl, CreateFlag1, Goto, KernelPC
<1>3. InvControl' /\ InvFork' /\ InvRet' /\ InvOwn' /\ InvLeak'
  BY Zenon, <1>1, OwnershipKept
<1>9. InvFlag' /\ InvMutex' /\ InvBypass' /\ bypass' \in [Procs -> Nat]
  <2>1. \A q \in Procs : /\ InCS(q)' => InCS(q)
                         /\ Testing(q)' <=> Testing(q)
                         /\ Wants(q)' => Wants(q)
                         /\ MyRole(q)' = MyRole(q)
    BY Zenon, <1>1 DEF InCS, Testing, Wants, MyRole
  <2>2. \A q \in Procs : Wants(q) => lock_id[q[1]] \in Locks \ {id[p]}
    BY Zenon, <1>1, Private, WantsCall, WantsLock
  <2> QED BY Zenon, <1>1, <2>1, <2>2, ExclusionKept
<1>10. TypeOK'
  BY Zenon, <1>1, <1>2, <1>9 DEF Inv, TypeOK, TypeOKUser
<1> QED BY Zenon, <1>3, <1>9, <1>10 DEF Inv

\* The new lock is returned.
LEMMA CreateTurnStep ==
  ASSUME Inv, NEW p \in Procs, CreateTurn(p), UNCHANGED userVars, CountBypass
  PROVE  Inv'
<1> USE DEF CreatePC, AcquirePC
<1>1. /\ \A q \in Procs \ {p} : pc'[q] = pc[q]
      /\ pc[p] = "c_turn" /\ pc'[p] = "user" /\ ret'[p] = id[p]
      /\ \A q \in Procs \ {p} : ret'[q] = ret[q]
      /\ \A l \in Locks \ {id[p]} : turn'[l] = turn[l]
      /\ UNCHANGED <<active, flag, id, role>>
      /\ UNCHANGED <<upc, iter, lock_id, fork_ret, killed>>
  BY Zenon DEF Inv, TypeOK, TypeOKLock, CreateTurn, Return, userVars
<1>2. TypeOKLock'
  <2>1. active' \in [Locks -> {0, 1}] /\ flag' \in [Locks -> [Roles -> {0, 1}]]
    BY Zenon, ProcFacts DEF Inv, TypeOK, TypeOKLock, Roles, Other, KernelPC, CreateTurn, Return
  <2>2. turn' \in [Locks -> Roles]
    BY Zenon, ProcFacts DEF Inv, TypeOK, TypeOKLock, Roles, Other, KernelPC, CreateTurn, Return
  <2>3. pc' \in [Procs -> KernelPC]
    BY Zenon, ProcFacts DEF Inv, TypeOK, TypeOKLock, Roles, Other, KernelPC, CreateTurn, Return
  <2>4. id' \in [Procs -> Int] /\ role' \in [Procs -> Roles]
    BY Zenon, ProcFacts DEF Inv, TypeOK, TypeOKLock, Roles, Other, KernelPC, CreateTurn, Return
  <2>5. ret' \in [Procs -> Int]
    BY Zenon, ProcFacts DEF Inv, TypeOK, TypeOKLock, Roles, Other, KernelPC, CreateTurn, Return
  <2> QED BY Zenon, <2>1, <2>2, <2>3, <2>4, <2>5 DEF TypeOKLock
<1>3. InvControl'
  BY <1>1, ProcFacts DEF Inv, TypeOK, TypeOKLock, InvControl, MyRole
<1>4. InvFork'
  BY <1>1, ProcFacts DEF Inv, InvFork
<1>5. InvRet'
  BY Zenon, <1>1 DEF Inv, TypeOK, TypeOKLock, InvControl, InvRet
<1>6. InvOwn'
  <2>1. \A g \in Progs : Owns(g)' => Owns(g)
    BY <1>1, ProcFacts DEF Inv, InvControl, Owns, HasLock
  <2> QED BY Zenon, <1>1, <2>1, OwnKept
<1>7. InvLeak'
  <2>1. ret'[p] >= 0
    BY <1>1, Private, TableAssumption DEF Locks
  <2>2. \A g \in Progs : Owns(g) \/ Leaked(g) => (Owns(g) \/ Leaked(g))'
    BY <1>1, <2>1, ProcFacts DEF Inv, InvControl, CreatePC, Owns, HasLock, Leaked
  <2> QED BY Zenon, <1>1, <2>2, LeakKept
<1>9. InvFlag' /\ InvMutex' /\ InvBypass' /\ bypass' \in [Procs -> Nat]
  <2>1. \A q \in Procs : /\ InCS(q)' => InCS(q)
                         /\ Testing(q)' <=> Testing(q)
                         /\ Wants(q)' => Wants(q)
                         /\ MyRole(q)' = MyRole(q)
    BY <1>1 DEF Inv, InvControl, InCS, Testing, Wants, MyRole
  <2>2. \A q \in Procs : Wants(q) => lock_id[q[1]] \in Locks \ {id[p]}
    BY Zenon, <1>1, Private, WantsCall, WantsLock
  <2> QED BY Zenon, <1>1, <2>1, <2>2, ExclusionKept
<1>10. TypeOK'
  BY Zenon, <1>1, <1>2, <1>9 DEF Inv, TypeOK, TypeOKUser
<1> QED BY Zenon, <1>3, <1>4, <1>5, <1>6, <1>7, <1>9, <1>10 DEF Inv

\* p raises its flag.
LEMMA AcquireFlagStep ==
  ASSUME Inv, NEW p \in Procs, AcquireFlag(p), UNCHANGED userVars, CountBypass
  PROVE  Inv'
<1> USE DEF CreatePC, AcquirePC
<1>1. /\ \A q \in Procs \ {p} : pc'[q] = pc[q]
      /\ pc[p] = "a_flag" /\ pc'[p] = "a_turn"
      /\ UNCHANGED <<active, turn, id, role, ret>>
      /\ UNCHANGED <<upc, iter, lock_id, fork_ret, killed>>
  BY Zenon DEF Inv, TypeOK, TypeOKLock, AcquireFlag, Goto, userVars
<1>a. /\ id[p] = lock_id[p[1]] /\ id[p] \in Locks
      /\ role[p] = MyRole(p) /\ role[p] \in Roles /\ Other(role[p]) \in Roles
      /\ upc[p] = "acquire"
      /\ \A q \in Procs : Wants(q) /\ q[1] # p[1] => lock_id[q[1]] \in Locks \ {id[p]}
      /\ Wants(Partner(p)) => MyRole(Partner(p)) = Other(role[p]) /\ role[p] # Other(role[p])
  BY Zenon, <1>1, InCall
<1>b. /\ \A q \in Procs : MyRole(q)' = MyRole(q)
      /\ \A q \in Procs : q = p \/ q = Partner(p) \/ q[1] # p[1]
  BY Zenon, <1>1, ProcFacts DEF MyRole
<1>2. TypeOKLock'
  <2>1. flag' \in [Locks -> [Roles -> {0, 1}]]
    BY Zenon DEF Inv, TypeOK, TypeOKLock, AcquireFlag
  <2>2. pc' \in [Procs -> KernelPC]
    BY DEF Inv, TypeOK, TypeOKLock, AcquireFlag, Goto, KernelPC
  <2> QED BY Zenon, <1>1, <2>1, <2>2 DEF Inv, TypeOK, TypeOKLock
<1>3. InvControl' /\ InvFork' /\ InvRet' /\ InvOwn' /\ InvLeak'
  BY Zenon, <1>1, OwnershipKept
<1>8. InvFlag' /\ InvMutex'
  <2>1. \A q \in Procs \ {p} : /\ InCS(q)' <=> InCS(q)
                               /\ Testing(q)' <=> Testing(q)
                               /\ Wants(q)' <=> Wants(q)
    BY Zenon, <1>1 DEF InCS, Testing, Wants
  <2>2. ~InCS(p)' /\ ~Testing(p)' /\ ~InCS(p) /\ ~Testing(p)
    BY Zenon, <1>1, <1>a DEF InCS, Testing
  <2>3. flag'[id[p]][role[p]] = 1
    BY Zenon, <1>a DEF AcquireFlag, Inv, TypeOK, TypeOKLock
  <2>4. \A l \in Locks, r \in Roles : flag[l][r] = 1 => flag'[l][r] = 1
    BY Zenon, <1>a DEF AcquireFlag, Inv, TypeOK, TypeOKLock
  <2>5. \A q \in Procs : Wants(q) => lock_id[q[1]] \in Locks /\ MyRole(q) \in Roles
    BY Zenon, WantsCall, WantsLock DEF MyRole, Roles
  <2>6. InvFlag'
    BY <1>1, <1>a, <1>b, <2>1, <2>3, <2>4, <2>5 DEF Inv, InvFlag
  <2>7. InvMutex'
    BY <1>1, <1>b, <2>1, <2>2, ProcFacts DEF Inv, InvMutex
  <2> QED BY Zenon, <2>6, <2>7
<1>9. InvBypass' /\ bypass' \in [Procs -> Nat]
  <2>1. \A q \in Procs : /\ Testing(q)' => Testing(q)
                         /\ Testing(q) => pc'[q] # "user"
    BY Zenon, <1>1 DEF Testing
  <2> QED BY Zenon, <1>1, <1>b, <2>1, BypassKept
<1>10. TypeOK'
  BY Zenon, <1>1, <1>2, <1>9 DEF Inv, TypeOK, TypeOKUser
<1> QED BY Zenon, <1>3, <1>8, <1>9, <1>10 DEF Inv

\* p gives the turn away and starts to wait.
LEMMA AcquireTurnStep ==
  ASSUME Inv, NEW p \in Procs, AcquireTurn(p), UNCHANGED userVars, CountBypass
  PROVE  Inv'
<1> USE DEF CreatePC, AcquirePC
<1>1. /\ \A q \in Procs \ {p} : pc'[q] = pc[q]
      /\ pc[p] = "a_turn" /\ pc'[p] = "a_test_flag"
      /\ UNCHANGED <<active, flag, id, role, ret>>
      /\ UNCHANGED <<upc, iter, lock_id, fork_ret, killed>>
  BY Zenon DEF Inv, TypeOK, TypeOKLock, AcquireTurn, Goto, userVars
<1>a. /\ id[p] = lock_id[p[1]] /\ id[p] \in Locks
      /\ role[p] = MyRole(p) /\ role[p] \in Roles /\ Other(role[p]) \in Roles
      /\ upc[p] = "acquire"
      /\ \A q \in Procs : Wants(q) /\ q[1] # p[1] => lock_id[q[1]] \in Locks \ {id[p]}
      /\ Wants(Partner(p)) => MyRole(Partner(p)) = Other(role[p]) /\ role[p] # Other(role[p])
  BY Zenon, <1>1, InCall
<1>b. /\ \A q \in Procs : MyRole(q)' = MyRole(q)
      /\ \A q \in Procs : q = p \/ q = Partner(p) \/ q[1] # p[1]
  BY Zenon, <1>1, ProcFacts DEF MyRole
<1>f. turn'[id[p]] = Other(role[p]) /\ \A l \in Locks \ {id[p]} : turn'[l] = turn[l]
  BY Zenon, <1>a DEF AcquireTurn, Inv, TypeOK, TypeOKLock
<1>2. TypeOKLock'
  <2>1. active' \in [Locks -> {0, 1}] /\ flag' \in [Locks -> [Roles -> {0, 1}]]
    BY Zenon, <1>a, ProcFacts DEF Inv, TypeOK, TypeOKLock, Roles, Other, KernelPC, AcquireTurn, Goto
  <2>2. turn' \in [Locks -> Roles]
    BY Zenon, <1>a, ProcFacts DEF Inv, TypeOK, TypeOKLock, Roles, Other, KernelPC, AcquireTurn, Goto
  <2>3. pc' \in [Procs -> KernelPC]
    BY Zenon, <1>a, ProcFacts DEF Inv, TypeOK, TypeOKLock, Roles, Other, KernelPC, AcquireTurn, Goto
  <2>4. id' \in [Procs -> Int] /\ role' \in [Procs -> Roles]
    BY Zenon, <1>a, ProcFacts DEF Inv, TypeOK, TypeOKLock, Roles, Other, KernelPC, AcquireTurn, Goto
  <2>5. ret' \in [Procs -> Int]
    BY Zenon, <1>a, ProcFacts DEF Inv, TypeOK, TypeOKLock, Roles, Other, KernelPC, AcquireTurn, Goto
  <2> QED BY Zenon, <2>1, <2>2, <2>3, <2>4, <2>5 DEF TypeOKLock
<1>3. InvControl' /\ InvFork' /\ InvRet' /\ InvOwn' /\ InvLeak'
  BY Zenon, <1>1, OwnershipKept
<1>8. InvFlag' /\ InvMutex'
  <2>1. \A q \in Procs \ {p} : /\ InCS(q)' <=> InCS(q)
                               /\ Testing(q)' <=> Testing(q)
                               /\ Wants(q)' <=> Wants(q)
    BY Zenon, <1>1 DEF InCS, Testing, Wants
  <2>2. ~InCS(p)' /\ ~InCS(p) /\ ~Testing(p) /\ Wants(p)
    BY Zenon, <1>1, <1>a DEF InCS, Testing, Wants
  <2>3. InvFlag'
    BY Zenon, <1>1, <1>b, <2>1, <2>2 DEF Inv, InvFlag
  <2>4. InvMutex'
    <3> SUFFICES ASSUME NEW q \in Procs, InCS(q)'
                 PROVE  /\ ~InCS(Partner(q))'
                        /\ Testing(Partner(q))' => turn'[lock_id[q[1]]] = MyRole(q)
      BY Zenon, <1>1, <1>b DEF InvMutex
    <3>1. q # p /\ InCS(q) /\ Wants(q) /\ ~InCS(Partner(q))
      BY Zenon, <2>1, <2>2 DEF Wants, Inv, InvMutex
    <3>2. CASE q = Partner(p)
      BY Zenon, <1>1, <1>a, <1>f, <2>2, <3>1, <3>2, ProcFacts
    <3>3. CASE q[1] # p[1]
      BY <1>1, <1>a, <1>f, <2>1, <3>1, <3>3, ProcFacts DEF Inv, InvMutex
    <3> QED BY Zenon, <1>b, <3>1, <3>2, <3>3
  <2> QED BY Zenon, <2>3, <2>4
<1>9. InvBypass' /\ bypass' \in [Procs -> Nat]
  <2>1. bypass' \in [Procs -> Nat]
    BY ProcFacts DEF Inv, TypeOK, TypeOKUser, CountBypass
  <2>2. \A q \in Procs : bypass'[q] = bypass[q]
    BY Zenon, <1>1, ProcFacts DEF CountBypass, Testing, Inv, InvBypass
  <2>3. \A q \in Procs \ {p} : Testing(q)' <=> Testing(q)
    BY Zenon, <1>1 DEF Testing
  <2>4. bypass[p] = 0
    BY Zenon, <1>1 DEF Testing, Inv, InvBypass
  <2>5. InvBypass'
    <3> SUFFICES ASSUME NEW q \in Procs
                 PROVE  /\ bypass[q] <= 1
                        /\ ~Testing(q)' => bypass[q] = 0
                        /\ bypass[q] = 1 /\ Testing(Partner(q))' => turn'[lock_id[q[1]]] = MyRole(q)
      BY <1>1, <1>b, <2>2 DEF InvBypass
    <3>1. bypass[q] <= 1 /\ (~Testing(q) => bypass[q] = 0)
      BY Zenon DEF Inv, InvBypass
    <3>2. CASE q = p
      BY <2>4, <3>2
    <3>3. CASE q = Partner(p)
      BY <1>a, <1>f, <2>3, <3>1, <3>3, ProcFacts DEF Wants
    <3>4. CASE q # p /\ q[1] # p[1]
      BY <1>a, <1>f, <2>3, <3>1, <3>4, ProcFacts DEF Inv, InvBypass, Wants
    <3> QED BY Zenon, <1>b, <3>2, <3>3, <3>4
  <2> QED BY Zenon, <2>1, <2>5
<1>10. TypeOK'
  BY Zenon, <1>1, <1>2, <1>9 DEF Inv, TypeOK, TypeOKUser
<1> QED BY Zenon, <1>3, <1>8, <1>9, <1>10 DEF Inv

\* p enters because its partner's flag is down, or goes on to read the turn.
LEMMA AcquireTestFlagStep ==
  ASSUME Inv, NEW p \in Procs, AcquireTestFlag(p), UNCHANGED userVars, CountBypass
  PROVE  Inv'
<1> USE DEF CreatePC, AcquirePC
<1>1. /\ \A q \in Procs \ {p} : pc'[q] = pc[q]
      /\ pc[p] = "a_test_flag"
      /\ \A q \in Procs \ {p} : ret'[q] = ret[q]
      /\ \/ flag[id[p]][Other(role[p])] = 0 /\ pc'[p] = "user" /\ ret'[p] = 0
         \/ flag[id[p]][Other(role[p])] = 1 /\ pc'[p] = "a_test_turn" /\ ret'[p] = ret[p]
      /\ UNCHANGED <<active, flag, turn, id, role>>
      /\ UNCHANGED <<upc, iter, lock_id, fork_ret, killed>>
  BY Zenon DEF Inv, TypeOK, TypeOKLock, AcquireTestFlag, Return, Goto, userVars
<1>a. /\ id[p] = lock_id[p[1]] /\ id[p] \in Locks
      /\ role[p] = MyRole(p) /\ role[p] \in Roles /\ Other(role[p]) \in Roles
      /\ upc[p] = "acquire"
      /\ \A q \in Procs : Wants(q) /\ q[1] # p[1] => lock_id[q[1]] \in Locks \ {id[p]}
      /\ Wants(Partner(p)) => MyRole(Partner(p)) = Other(role[p]) /\ role[p] # Other(role[p])
  BY Zenon, <1>1, InCall
<1>b. /\ \A q \in Procs : MyRole(q)' = MyRole(q)
      /\ \A q \in Procs : q = p \/ q = Partner(p) \/ q[1] # p[1]
  BY Zenon, <1>1, ProcFacts DEF MyRole
<1>2. TypeOKLock'
  BY ProcFacts DEF Inv, TypeOK, TypeOKLock, InvControl, AcquireTestFlag, Return, Goto, KernelPC
<1>3. InvControl' /\ InvFork' /\ InvRet' /\ InvOwn' /\ InvLeak'
  BY Zenon, <1>1, OwnershipKept
<1>8. InvFlag' /\ InvMutex'
  <2>1. \A q \in Procs \ {p} : /\ InCS(q)' <=> InCS(q)
                               /\ Testing(q)' <=> Testing(q)
                               /\ Wants(q)' <=> Wants(q)
    BY Zenon, <1>1 DEF InCS, Testing, Wants
  <2>2. CASE pc'[p] # "user"
    <3>1. \A q \in Procs : /\ InCS(q)' <=> InCS(q)
                           /\ Testing(q)' <=> Testing(q)
                           /\ Wants(q)' <=> Wants(q)
      BY Zenon, <1>1, <1>a, <2>1, <2>2 DEF InCS, Testing, Wants
    <3> QED BY Zenon, <1>1, <1>b, <3>1, PetersonKept
  <2>3. CASE pc'[p] = "user"
    <3>1. Wants(p) /\ Testing(p) /\ ~Testing(p)' /\ ~InCS(p)
      BY Zenon, <1>1, <1>a, <2>3 DEF InCS, Testing, Wants
    <3>2. InvFlag'
      BY Zenon, <1>1, <1>b, <2>1, <3>1 DEF Inv, InvFlag
    <3>3. ~InCS(Partner(p)) /\ (Testing(Partner(p)) => turn[id[p]] = role[p])
      <4>1. ~Wants(Partner(p))
        BY <1>1, <1>a, <2>3, ProcFacts DEF Inv, InvFlag
      <4> QED BY Zenon, <4>1 DEF Wants
    <3>4. InvMutex'
      <4> SUFFICES ASSUME NEW q \in Procs, InCS(q)'
                   PROVE  /\ ~InCS(Partner(q))'
                          /\ Testing(Partner(q))' => turn[lock_id[q[1]]] = MyRole(q)
        BY Zenon, <1>1, <1>b DEF InvMutex
      <4>1. CASE q = p
        BY Zenon, <1>a, <2>1, <3>3, <4>1, ProcFacts
      <4>2. CASE q # p
        <5>1. InCS(q) /\ q # Partner(p) /\ Partner(q) # p
          BY <2>1, <3>3, <4>2, ProcFacts
        <5> QED BY Zenon, <2>1, <5>1, ProcFacts DEF Inv, InvMutex
      <4> QED BY Zenon, <4>1, <4>2
    <3> QED BY Zenon, <3>2, <3>4
  <2> QED BY Zenon, <2>2, <2>3
<1>9. InvBypass' /\ bypass' \in [Procs -> Nat]
  <2>1. CASE pc'[p] # "user"
    <3>1. \A q \in Procs : /\ Testing(q)' => Testing(q)
                           /\ Testing(q) => pc'[q] # "user"
      BY Zenon, <1>1, <2>1 DEF Testing
    <3> QED BY Zenon, <1>1, <1>b, <3>1, BypassKept
  <2>2. CASE pc'[p] = "user"
    <3>1. bypass' \in [Procs -> Nat]
      BY ProcFacts DEF Inv, TypeOK, TypeOKUser, CountBypass
    <3>2. /\ ~Testing(p)' /\ Testing(p)
          /\ \A q \in Procs \ {p} : Testing(q)' <=> Testing(q)
      BY Zenon, <1>1, <2>2 DEF Testing
    <3>3. bypass'[p] = 0 /\ \A q \in Procs : q[1] # p[1] => bypass'[q] = bypass[q]
      BY <1>1, <2>2, ProcFacts DEF CountBypass, Testing, Inv, InvBypass
    <3>4. bypass'[Partner(p)] <= 1 /\ (~Testing(Partner(p)) => bypass'[Partner(p)] = 0)
      <4>1. ~Wants(Partner(p))
        BY <1>1, <1>a, <2>2, ProcFacts DEF Inv, InvFlag
      <4>2. ~Testing(Partner(p))'
        BY Zenon, <3>2, <4>1, ProcFacts DEF Wants
      <4> QED BY <4>2, ProcFacts DEF CountBypass, Testing
    <3>5. InvBypass'
      <4> SUFFICES ASSUME NEW q \in Procs
                   PROVE  /\ bypass'[q] <= 1
                          /\ ~Testing(q)' => bypass'[q] = 0
                          /\ bypass'[q] = 1 /\ Testing(Partner(q))' => turn[lock_id[q[1]]] = MyRole(q)
        BY Zenon, <1>1, <1>b DEF InvBypass
      <4>1. CASE q = p
        BY <3>3, <4>1
      <4>2. CASE q = Partner(p)
        BY <3>2, <3>4, <4>2, ProcFacts
      <4>3. CASE q[1] # p[1]
        <5>1. q # p /\ Partner(q) # p /\ Partner(q) \in Procs
          BY Zenon, <4>3, ProcFacts
        <5> QED BY <3>2, <3>3, <4>3, <5>1 DEF Inv, InvBypass
      <4> QED BY Zenon, <1>b, <4>1, <4>2, <4>3
    <3> QED BY Zenon, <3>1, <3>5
  <2> QED BY Zenon, <2>1, <2>2
<1>10. TypeOK'
  BY Zenon, <1>1, <1>2, <1>9 DEF Inv, TypeOK, TypeOKUser
<1> QED BY Zenon, <1>3, <1>8, <1>9, <1>10 DEF Inv

\* p enters because the turn is its own, or goes round the loop.
LEMMA AcquireTestTurnStep ==
  ASSUME Inv, NEW p \in Procs, AcquireTestTurn(p), UNCHANGED userVars, CountBypass
  PROVE  Inv'
<1> USE DEF CreatePC, AcquirePC
<1>1. /\ \A q \in Procs \ {p} : pc'[q] = pc[q]
      /\ pc[p] = "a_test_turn"
      /\ \A q \in Procs \ {p} : ret'[q] = ret[q]
      /\ \/ turn[id[p]] # Other(role[p]) /\ pc'[p] = "user" /\ ret'[p] = 0
         \/ turn[id[p]] = Other(role[p]) /\ pc'[p] = "a_test_flag" /\ ret'[p] = ret[p]
      /\ UNCHANGED <<active, flag, turn, id, role>>
      /\ UNCHANGED <<upc, iter, lock_id, fork_ret, killed>>
  BY Zenon DEF Inv, TypeOK, TypeOKLock, AcquireTestTurn, Return, Goto, userVars
<1>a. /\ id[p] = lock_id[p[1]] /\ id[p] \in Locks
      /\ role[p] = MyRole(p) /\ role[p] \in Roles /\ Other(role[p]) \in Roles
      /\ upc[p] = "acquire"
      /\ \A q \in Procs : Wants(q) /\ q[1] # p[1] => lock_id[q[1]] \in Locks \ {id[p]}
      /\ Wants(Partner(p)) => MyRole(Partner(p)) = Other(role[p]) /\ role[p] # Other(role[p])
  BY Zenon, <1>1, InCall
<1>b. /\ \A q \in Procs : MyRole(q)' = MyRole(q)
      /\ \A q \in Procs : q = p \/ q = Partner(p) \/ q[1] # p[1]
  BY Zenon, <1>1, ProcFacts DEF MyRole
<1>f. pc'[p] = "user" => turn[id[p]] = role[p] /\ turn[id[p]] # Other(role[p])
  BY <1>1, <1>a DEF Inv, TypeOK, TypeOKLock, Roles, Other
<1>2. TypeOKLock'
  BY ProcFacts DEF Inv, TypeOK, TypeOKLock, InvControl, AcquireTestTurn, Return, Goto, KernelPC
<1>3. InvControl' /\ InvFork' /\ InvRet' /\ InvOwn' /\ InvLeak'
  BY Zenon, <1>1, OwnershipKept
<1>8. InvFlag' /\ InvMutex'
  <2>1. \A q \in Procs \ {p} : /\ InCS(q)' <=> InCS(q)
                               /\ Testing(q)' <=> Testing(q)
                               /\ Wants(q)' <=> Wants(q)
    BY Zenon, <1>1 DEF InCS, Testing, Wants
  <2>2. CASE pc'[p] # "user"
    <3>1. \A q \in Procs : /\ InCS(q)' <=> InCS(q)
                           /\ Testing(q)' <=> Testing(q)
                           /\ Wants(q)' <=> Wants(q)
      BY Zenon, <1>1, <1>a, <2>1, <2>2 DEF InCS, Testing, Wants
    <3> QED BY Zenon, <1>1, <1>b, <3>1, PetersonKept
  <2>3. CASE pc'[p] = "user"
    <3>1. Wants(p) /\ Testing(p) /\ ~Testing(p)' /\ ~InCS(p)
      BY Zenon, <1>1, <1>a, <2>3 DEF InCS, Testing, Wants
    <3>2. InvFlag'
      BY Zenon, <1>1, <1>b, <2>1, <3>1 DEF Inv, InvFlag
    <3>3. ~InCS(Partner(p)) /\ (Testing(Partner(p)) => turn[id[p]] = role[p])
      BY <1>a, <1>f, <2>3, <3>1, ProcFacts DEF Inv, InvMutex, Wants
    <3>4. InvMutex'
      <4> SUFFICES ASSUME NEW q \in Procs, InCS(q)'
                   PROVE  /\ ~InCS(Partner(q))'
                          /\ Testing(Partner(q))' => turn[lock_id[q[1]]] = MyRole(q)
        BY Zenon, <1>1, <1>b DEF InvMutex
      <4>1. CASE q = p
        BY Zenon, <1>a, <2>1, <3>3, <4>1, ProcFacts
      <4>2. CASE q # p
        <5>1. InCS(q) /\ q # Partner(p) /\ Partner(q) # p
          BY <2>1, <3>3, <4>2, ProcFacts
        <5> QED BY Zenon, <2>1, <5>1, ProcFacts DEF Inv, InvMutex
      <4> QED BY Zenon, <4>1, <4>2
    <3> QED BY Zenon, <3>2, <3>4
  <2> QED BY Zenon, <2>2, <2>3
<1>9. InvBypass' /\ bypass' \in [Procs -> Nat]
  <2>1. CASE pc'[p] # "user"
    <3>1. \A q \in Procs : /\ Testing(q)' => Testing(q)
                           /\ Testing(q) => pc'[q] # "user"
      BY Zenon, <1>1, <2>1 DEF Testing
    <3> QED BY Zenon, <1>1, <1>b, <3>1, BypassKept
  <2>2. CASE pc'[p] = "user"
    <3>1. bypass' \in [Procs -> Nat]
      BY ProcFacts DEF Inv, TypeOK, TypeOKUser, CountBypass
    <3>2. /\ ~Testing(p)' /\ Testing(p)
          /\ \A q \in Procs \ {p} : Testing(q)' <=> Testing(q)
      BY Zenon, <1>1, <2>2 DEF Testing
    <3>3. bypass'[p] = 0 /\ \A q \in Procs : q[1] # p[1] => bypass'[q] = bypass[q]
      BY <1>1, <2>2, ProcFacts DEF CountBypass, Testing, Inv, InvBypass
    <3>4. bypass'[Partner(p)] <= 1 /\ (~Testing(Partner(p)) => bypass'[Partner(p)] = 0)
      <4>1. Testing(Partner(p)) => bypass[Partner(p)] = 0
        <5>1. bypass[Partner(p)] = 1 => turn[id[p]] = MyRole(Partner(p))
          BY <1>a, <3>2, ProcFacts DEF Inv, InvBypass
        <5>2. bypass[Partner(p)] \in Nat /\ bypass[Partner(p)] <= 1
          BY Zenon, ProcFacts DEF Inv, TypeOK, TypeOKUser, InvBypass
        <5> QED BY <1>a, <1>f, <2>2, <5>1, <5>2 DEF Wants
      <4>2. bypass'[Partner(p)] = IF Testing(Partner(p)) THEN bypass[Partner(p)] + 1 ELSE 0
        BY Zenon, <1>1, <2>2, <3>2, ProcFacts DEF CountBypass, Testing
      <4> QED BY <4>1, <4>2
    <3>5. InvBypass'
      <4> SUFFICES ASSUME NEW q \in Procs
                   PROVE  /\ bypass'[q] <= 1
                          /\ ~Testing(q)' => bypass'[q] = 0
                          /\ bypass'[q] = 1 /\ Testing(Partner(q))' => turn[lock_id[q[1]]] = MyRole(q)
        BY Zenon, <1>1, <1>b DEF InvBypass
      <4>1. CASE q = p
        BY <3>3, <4>1
      <4>2. CASE q = Partner(p)
        BY <3>2, <3>4, <4>2, ProcFacts
      <4>3. CASE q[1] # p[1]
        <5>1. q # p /\ Partner(q) # p /\ Partner(q) \in Procs
          BY Zenon, <4>3, ProcFacts
        <5> QED BY <3>2, <3>3, <4>3, <5>1 DEF Inv, InvBypass
      <4> QED BY Zenon, <1>b, <4>1, <4>2, <4>3
    <3> QED BY Zenon, <3>1, <3>5
  <2> QED BY Zenon, <2>1, <2>2
<1>10. TypeOK'
  BY Zenon, <1>1, <1>2, <1>9 DEF Inv, TypeOK, TypeOKUser
<1> QED BY Zenon, <1>3, <1>8, <1>9, <1>10 DEF Inv

\* p lowers its flag.
LEMMA ReleaseFlagStep ==
  ASSUME Inv, NEW p \in Procs, ReleaseFlag(p), UNCHANGED userVars, CountBypass
  PROVE  Inv'
<1> USE DEF CreatePC, AcquirePC
<1>1. /\ \A q \in Procs \ {p} : pc'[q] = pc[q]
      /\ pc[p] = "r_flag" /\ pc'[p] = "user" /\ ret'[p] = 0
      /\ \A q \in Procs \ {p} : ret'[q] = ret[q]
      /\ UNCHANGED <<active, turn, id, role>>
      /\ UNCHANGED <<upc, iter, lock_id, fork_ret, killed>>
  BY Zenon DEF Inv, TypeOK, TypeOKLock, ReleaseFlag, Return, userVars
<1>a. /\ id[p] = lock_id[p[1]] /\ id[p] \in Locks
      /\ role[p] = MyRole(p) /\ role[p] \in Roles /\ Other(role[p]) \in Roles
      /\ upc[p] = "release"
      /\ \A q \in Procs : Wants(q) /\ q[1] # p[1] => lock_id[q[1]] \in Locks \ {id[p]}
      /\ Wants(Partner(p)) => MyRole(Partner(p)) = Other(role[p]) /\ role[p] # Other(role[p])
  BY Zenon, <1>1, InCall
<1>b. /\ \A q \in Procs : MyRole(q)' = MyRole(q)
      /\ \A q \in Procs : q = p \/ q = Partner(p) \/ q[1] # p[1]
  BY Zenon, <1>1, ProcFacts DEF MyRole
<1>2. TypeOKLock'
  <2>1. active' \in [Locks -> {0, 1}] /\ flag' \in [Locks -> [Roles -> {0, 1}]]
    BY Zenon, <1>a, ProcFacts DEF Inv, TypeOK, TypeOKLock, Roles, Other, KernelPC, ReleaseFlag, Return
  <2>2. turn' \in [Locks -> Roles]
    BY Zenon, <1>a, ProcFacts DEF Inv, TypeOK, TypeOKLock, Roles, Other, KernelPC, ReleaseFlag, Return
  <2>3. pc' \in [Procs -> KernelPC]
    BY Zenon, <1>a, ProcFacts DEF Inv, TypeOK, TypeOKLock, Roles, Other, KernelPC, ReleaseFlag, Return
  <2>4. id' \in [Procs -> Int] /\ role' \in [Procs -> Roles]
    BY Zenon, <1>a, ProcFacts DEF Inv, TypeOK, TypeOKLock, Roles, Other, KernelPC, ReleaseFlag, Return
  <2>5. ret' \in [Procs -> Int]
    BY <1>a, ProcFacts DEF Inv, TypeOK, TypeOKLock, Roles, Other, KernelPC, ReleaseFlag, Return
  <2> QED BY Zenon, <2>1, <2>2, <2>3, <2>4, <2>5 DEF TypeOKLock
<1>3. InvControl' /\ InvFork' /\ InvRet' /\ InvOwn' /\ InvLeak'
  BY Zenon, <1>1, OwnershipKept
<1>9. InvFlag' /\ InvMutex' /\ InvBypass' /\ bypass' \in [Procs -> Nat]
  <2>1. \A q \in Procs : /\ InCS(q)' => InCS(q)
                         /\ Testing(q)' <=> Testing(q)
                         /\ Wants(q)' => Wants(q)
                         /\ MyRole(q)' = MyRole(q)
    BY Zenon, <1>1, <1>a DEF InCS, Testing, Wants, MyRole
  <2>2. ~Wants(p)'
    BY Zenon, <1>1, <1>a DEF InCS, Testing, Wants
  <2>3. \A l \in Locks, r \in Roles : l # id[p] \/ r # role[p] => flag'[l][r] = flag[l][r]
    BY Zenon, <1>a DEF ReleaseFlag, Inv, TypeOK, TypeOKLock
  <2>4. \A q \in Procs : Wants(q) => lock_id[q[1]] \in Locks /\ MyRole(q) \in Roles
    BY Zenon, WantsCall, WantsLock DEF MyRole, Roles
  <2>5. \A q \in Procs \ {p} : Wants(q) =>
          flag'[lock_id[q[1]]][MyRole(q)] = flag[lock_id[q[1]]][MyRole(q)]
    BY <1>a, <1>b, <2>3, <2>4
  <2> QED BY Zenon, <1>1, <2>1, <2>2, <2>5, ExclusionKept
<1>10. TypeOK'
  BY Zenon, <1>1, <1>2, <1>9 DEF Inv, TypeOK, TypeOKUser
<1> QED BY Zenon, <1>3, <1>9, <1>10 DEF Inv

\* The slot is given back.
LEMMA DestroyClearStep ==
  ASSUME Inv, NEW p \in Procs, DestroyClear(p), UNCHANGED userVars, CountBypass
  PROVE  Inv'
<1> USE DEF CreatePC, AcquirePC
<1>1. /\ \A q \in Procs \ {p} : pc'[q] = pc[q]
      /\ pc[p] = "d_clear" /\ pc'[p] = "user" /\ ret'[p] = 0
      /\ \A q \in Procs \ {p} : ret'[q] = ret[q]
      /\ \A l \in Locks \ {id[p]} : active'[l] = active[l]
      /\ UNCHANGED <<flag, turn, id, role>>
      /\ UNCHANGED <<upc, iter, lock_id, fork_ret, killed>>
  BY Zenon DEF Inv, TypeOK, TypeOKLock, DestroyClear, Return, userVars
<1>a. /\ p = Parent(p[1]) /\ p[1] \in Progs /\ id[p] \in Locks
      /\ \A h \in Progs \ {p[1]} : Owns(h) => id[Parent(h)] # id[p]
  BY Zenon, <1>1, Private
<1>b. upc[p] = "destroy" /\ upc[Child(p[1])] = "exited"
  <2>1. upc[p] = "destroy"
    BY Zenon, <1>1 DEF Inv, InvControl
  <2>2. upc[Partner(p)] = "exited" /\ Partner(p) = Child(p[1])
    BY <1>a, <2>1, ProcFacts DEF Inv, InvFork
  <2> QED BY Zenon, <2>1, <2>2
<1>c. active'[id[p]] = 0
  BY Zenon, <1>a DEF DestroyClear, Inv, TypeOK, TypeOKLock
<1>2. TypeOKLock'
  <2>1. active' \in [Locks -> {0, 1}] /\ flag' \in [Locks -> [Roles -> {0, 1}]]
    BY Zenon, <1>a, ProcFacts DEF Inv, TypeOK, TypeOKLock, Roles, Other, KernelPC, DestroyClear, Return
  <2>2. turn' \in [Locks -> Roles]
    BY Zenon, <1>a, ProcFacts DEF Inv, TypeOK, TypeOKLock, Roles, Other, KernelPC, DestroyClear, Return
  <2>3. pc' \in [Procs -> KernelPC]
    BY Zenon, <1>a, ProcFacts DEF Inv, TypeOK, TypeOKLock, Roles, Other, KernelPC, DestroyClear, Return
  <2>4. id' \in [Procs -> Int] /\ role' \in [Procs -> Roles]
    BY Zenon, <1>a, ProcFacts DEF Inv, TypeOK, TypeOKLock, Roles, Other, KernelPC, DestroyClear, Return
  <2>5. ret' \in [Procs -> Int]
    BY <1>a, ProcFacts DEF Inv, TypeOK, TypeOKLock, Roles, Other, KernelPC, DestroyClear, Return
  <2> QED BY Zenon, <2>1, <2>2, <2>3, <2>4, <2>5 DEF TypeOKLock
<1>3. InvControl'
  BY <1>1, ProcFacts DEF Inv, TypeOK, TypeOKLock, InvControl, MyRole
<1>4. InvFork'
  BY <1>1, ProcFacts DEF Inv, InvFork
<1>5. InvRet'
  BY <1>1 DEF Inv, TypeOK, TypeOKLock, InvControl, InvRet
<1>6. InvOwn'
  <2>0. ~Owns(p[1])'
    BY Zenon, <1>1, <1>a, <1>b DEF Owns, HasLock
  <2>a. \A g \in Progs \ {p[1]} : Owns(g)' <=> Owns(g)
    <3>1. \A g \in Progs \ {p[1]} : Parent(g) \in Procs \ {p}
      BY Zenon, <1>a, ProcFacts
    <3> QED BY Zenon, <1>1, <3>1 DEF Owns, HasLock
  <2>1. \A g \in Progs : Owns(g)' => Owns(g) /\ g # p[1]
    BY Zenon, <2>0, <2>a
  <2>2. \A g \in Progs : Owns(g)' => active'[id[Parent(g)]] = active[id[Parent(g)]]
    BY Zenon, <1>1, <1>a, <2>1 DEF Inv, InvOwn
  <2> QED BY Zenon, <1>1, <2>1, <2>2, OwnKept
<1>7. InvLeak'
  <2>1. \A g \in Progs \ {p[1]} : Owns(g) \/ Leaked(g) => (Owns(g) \/ Leaked(g))'
    <3>1. \A g \in Progs \ {p[1]} : Parent(g) \in Procs \ {p}
      BY Zenon, <1>a, ProcFacts
    <3> QED BY Zenon, <1>1, <3>1 DEF Owns, HasLock, Leaked
  <2>2. \A l \in Locks : active'[l] = 1 => active[l] = 1
    <3>1. \A l \in Locks \ {id[p]} : active'[l] = active[l]
      BY Zenon, <1>1
    <3> QED BY <1>c, <3>1
  <2>3. active'[id[Parent(p[1])]] # 1
    BY <1>a, <1>c
  <2> QED BY Zenon, <1>1, <2>1, <2>2, <2>3, LeakKept
<1>9. InvFlag' /\ InvMutex' /\ InvBypass' /\ bypass' \in [Procs -> Nat]
  <2>1. \A q \in Procs : /\ InCS(q)' => InCS(q)
                         /\ Testing(q)' <=> Testing(q)
                         /\ Wants(q)' => Wants(q)
                         /\ MyRole(q)' = MyRole(q)
    BY Zenon, <1>1, <1>b DEF InCS, Testing, Wants, MyRole
  <2> QED BY Zenon, <1>1, <2>1, ExclusionKept
<1>10. TypeOK'
  BY Zenon, <1>1, <1>2, <1>9 DEF Inv, TypeOK, TypeOKUser
<1> QED BY Zenon, <1>3, <1>4, <1>5, <1>6, <1>7, <1>9, <1>10 DEF Inv
=============================================================================
