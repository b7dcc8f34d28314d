------------------------ MODULE PetersonTest_proofs ------------------------
(***************************************************************************)
(* Any number of copies of test_peterson.c over a lock table of any size,  *)
(* with any number of rounds, forks that fail and processes that are       *)
(* killed: the locks exclude, belong to one program each, let nobody be    *)
(* overtaken twice, and are left behind only for the two reasons that      *)
(* LeaksExplained names. The invariant and the steps inside the kernel are *)
(* in PetersonCalls_proofs; here are the steps of the program itself.      *)
(***************************************************************************)
EXTENDS PetersonCalls_proofs

\* A program that got no lock exits.
LEMMA CreateFailedStep ==
  ASSUME Inv, NEW g \in Progs, CreateFailed(g), CountBypass
  PROVE  Inv'
<1>0. Parent(g) \in Procs /\ Parent(g)[1] = g /\ Parent(g)[2] = 0 /\ Child(g) \in Procs
  BY Zenon, ProcFacts
<1>1. /\ UNCHANGED <<active, flag, turn, pc, id, role, ret>>
      /\ upc[Parent(g)] = "create" /\ pc[Parent(g)] = "user" /\ ret[Parent(g)] < 0
      /\ upc'[Parent(g)] = "exited"
      /\ \A q \in Procs \ {Parent(g)} : upc'[q] = upc[q]
      /\ UNCHANGED <<iter, lock_id, fork_ret, killed>>
  BY <1>0, ProcFacts DEF Inv, TypeOK, TypeOKLock, TypeOKUser, CreateFailed, At, UGoto, lockVars
<1>a. \A h \in Progs \ {g} : Parent(h) \in Procs \ {Parent(g), Child(g)} /\ Child(h) \in Procs \ {Parent(g), Child(g)}
  BY <1>0, ProcFacts
<1>2. TypeOKLock' /\ upc' \in [Procs -> UserPC] /\ iter' \in [Procs -> Nat]
      /\ lock_id' \in [Progs -> Int] /\ fork_ret' \in [Progs -> {"none", "ok", "failed"}]
      /\ killed' \in [Procs -> BOOLEAN]
  BY Zenon, <1>0, <1>1 DEF Inv, TypeOK, TypeOKLock, TypeOKUser, UserPC, CreateFailed, At, UGoto
<1>3. InvControl'
  BY <1>0, <1>1, ProcFacts DEF Inv, InvControl, MyRole, CreatePC, AcquirePC
<1>4. InvFork'
  BY <1>0, <1>1, ProcFacts DEF Inv, TypeOK, TypeOKUser, InvFork
<1>5. InvRet'
  BY Zenon, <1>0, <1>1 DEF Inv, InvRet
<1>6. InvOwn'
  <2>1. \A g1 \in Progs : Owns(g1)' => Owns(g1)
    BY <1>0, <1>1, ProcFacts DEF Inv, InvFork, InvControl, Owns, HasLock
  <2> QED BY Zenon, <1>1, <2>1, OwnKept
<1>7. InvLeak'
  <2>0. lock_id[g] = -1
    BY <1>0, <1>1 DEF Inv, InvFork
  <2>1. ~Owns(g) /\ ~Leaked(g)
    BY <1>0, <1>1, <2>0 DEF Inv, TypeOK, TypeOKLock, Owns, HasLock, Leaked
  <2>2. \A h \in Progs \ {g} : Owns(h) \/ Leaked(h) => (Owns(h) \/ Leaked(h))'
    BY Zenon, <1>1, <1>a DEF Owns, HasLock, Leaked
  <2> QED BY Zenon, <1>1, <2>1, <2>2, LeakKept
<1>8. \A q \in Procs : /\ InCS(q)' => InCS(q)
                       /\ Testing(q)' <=> Testing(q)
                       /\ Wants(q)' => Wants(q)
  BY Zenon, <1>0, <1>1 DEF InCS, Testing, Wants
<1>9. \A q \in Procs : Wants(q)' =>
        /\ MyRole(q)' = MyRole(q)
        /\ flag'[lock_id'[q[1]]][MyRole(q)] = flag[lock_id[q[1]]][MyRole(q)]
        /\ turn'[lock_id'[q[1]]] = turn[lock_id[q[1]]]
  BY Zenon, <1>1 DEF MyRole
<1>10. InvFlag' /\ InvMutex' /\ InvBypass' /\ bypass' \in [Procs -> Nat]
  BY Zenon, <1>8, <1>9, ExclusionKept
<1>11. TypeOK'
  BY Zenon, <1>2, <1>10 DEF TypeOK, TypeOKUser
<1> QED BY Zenon, <1>3, <1>4, <1>5, <1>6, <1>7, <1>10, <1>11 DEF Inv

\* After fork() both processes, or the parent alone, use the lock.
LEMMA ForkStep ==
  ASSUME Inv, NEW g \in Progs, Fork(g), CountBypass
  PROVE  Inv'
<1>0. Parent(g) \in Procs /\ Parent(g)[1] = g /\ Parent(g)[2] = 0 /\ Child(g) \in Procs
  BY Zenon, ProcFacts
<1>1. /\ UNCHANGED <<active, flag, turn, pc, id, role, ret>>
      /\ upc[Parent(g)] = "create" /\ pc[Parent(g)] = "user" /\ ret[Parent(g)] >= 0
      /\ upc'[Parent(g)] = "loop" /\ lock_id'[g] = ret[Parent(g)]
      /\ \/ fork_ret'[g] = "ok" /\ upc'[Child(g)] = "loop"
         \/ fork_ret'[g] = "failed" /\ upc'[Child(g)] = upc[Child(g)]
      /\ \A q \in Procs \ {Parent(g), Child(g)} : upc'[q] = upc[q]
      /\ \A h \in Progs \ {g} : lock_id'[h] = lock_id[h] /\ fork_ret'[h] = fork_ret[h]
      /\ UNCHANGED <<iter, killed>>
  BY <1>0, ProcFacts DEF Inv, TypeOK, TypeOKLock, TypeOKUser, Fork, At, UGoto, lockVars
<1>a. \A h \in Progs \ {g} : Parent(h) \in Procs \ {Parent(g), Child(g)} /\ Child(h) \in Procs \ {Parent(g), Child(g)}
  BY <1>0, ProcFacts
<1>b. /\ upc[Child(g)] = "unborn" /\ pc[Child(g)] = "user" /\ fork_ret[g] = "none"
      /\ lock_id[g] = -1 /\ ret[Parent(g)] = id[Parent(g)] /\ Owns(g)
      /\ id[Parent(g)] \in Locks
  <2>1. fork_ret[g] = "none" /\ ret[Parent(g)] = id[Parent(g)] /\ Owns(g)
    BY <1>0, <1>1 DEF Inv, InvFork, InvRet, Owns
  <2>2. upc[Child(g)] = "unborn" /\ lock_id[g] = -1
    BY <1>0, <2>1, ProcFacts DEF Inv, InvFork
  <2>3. pc[Child(g)] = "user"
    BY Zenon, <1>0, <2>2 DEF Inv, InvControl, TypeOK, TypeOKLock, KernelPC, CreatePC, AcquirePC
  <2> QED BY Zenon, <2>1, <2>2, <2>3 DEF Inv, InvOwn
<1>c. id[Parent(g)] \in Nat
  BY <1>b, TableAssumption DEF Locks
<1>d. \A q \in Procs : q = Parent(g) \/ q = Child(g) \/ (q \in Procs \ {Parent(g), Child(g)} /\ q[1] \in Progs \ {g})
  BY <1>0, ProcFacts
<1>2. TypeOKLock' /\ upc' \in [Procs -> UserPC] /\ iter' \in [Procs -> Nat]
      /\ lock_id' \in [Progs -> Int] /\ fork_ret' \in [Progs -> {"none", "ok", "failed"}]
      /\ killed' \in [Procs -> BOOLEAN]
  <2>1. TypeOKLock'
    BY Zenon, <1>1 DEF Inv, TypeOK, TypeOKLock
  <2>2. upc' \in [Procs -> UserPC]
    BY Zenon, <1>0 DEF Fork, UGoto, Inv, TypeOK, TypeOKUser, UserPC
  <2>3. lock_id' \in [Progs -> Int] /\ fork_ret' \in [Progs -> {"none", "ok", "failed"}]
    BY Zenon, <1>0, <1>1 DEF Fork, Inv, TypeOK, TypeOKLock, TypeOKUser
  <2> QED BY Zenon, <1>1, <2>1, <2>2, <2>3 DEF Inv, TypeOK, TypeOKUser
<1>3. InvControl'
  <2>1. \A q \in Procs \ {Parent(g), Child(g)} : MyRole(q)' = MyRole(q) /\ lock_id'[q[1]] = lock_id[q[1]]
    BY Zenon, <1>1, <1>d DEF MyRole
  <2> QED BY <1>1, <1>b, <1>d, <2>1 DEF Inv, InvControl, CreatePC, AcquirePC
<1>4. InvFork'
  <2>1. lock_id'[g] # -1 /\ lock_id'[g] = id'[Parent(g)]
    BY <1>1, <1>b, <1>c
  <2> QED BY <1>0, <1>1, <1>b, <1>d, <2>1, ProcFacts DEF Inv, TypeOK, TypeOKUser, InvFork
<1>5. InvRet'
  BY Zenon, <1>0, <1>1 DEF Inv, InvRet
<1>6. InvOwn'
  <2>1. \A g1 \in Progs : Owns(g1)' => Owns(g1)
    BY <1>0, <1>1, ProcFacts DEF Inv, InvFork, InvControl, Owns, HasLock
  <2> QED BY Zenon, <1>1, <2>1, OwnKept
<1>7. InvLeak'
  <2>1. \A g1 \in Progs : Owns(g1) \/ Leaked(g1) => (Owns(g1) \/ Leaked(g1))'
    BY <1>0, <1>1, ProcFacts DEF Inv, InvFork, InvControl, Owns, HasLock, Leaked
  <2> QED BY Zenon, <1>1, <2>1, LeakKept
<1>8. \A q \in Procs : /\ InCS(q)' => InCS(q)
                       /\ Testing(q)' <=> Testing(q)
                       /\ Wants(q)' => Wants(q)
  <2>1. ~Wants(Parent(g))' /\ ~Wants(Child(g))'
    BY Zenon, <1>1, <1>b DEF InCS, Testing, Wants
  <2> QED BY Zenon, <1>1, <1>d, <2>1 DEF InCS, Testing, Wants
<1>9. \A q \in Procs : Wants(q)' =>
        /\ MyRole(q)' = MyRole(q)
        /\ flag'[lock_id'[q[1]]][MyRole(q)] = flag[lock_id[q[1]]][MyRole(q)]
        /\ turn'[lock_id'[q[1]]] = turn[lock_id[q[1]]]
  <2>1. ~Wants(Parent(g))' /\ ~Wants(Child(g))'
    BY Zenon, <1>1, <1>b DEF InCS, Testing, Wants
  <2> QED BY Zenon, <1>1, <1>d, <2>1 DEF MyRole
<1>10. InvFlag' /\ InvMutex' /\ InvBypass' /\ bypass' \in [Procs -> Nat]
  BY Zenon, <1>8, <1>9, ExclusionKept
<1>11. TypeOK'
  BY Zenon, <1>2, <1>10 DEF TypeOK, TypeOKUser
<1> QED BY Zenon, <1>3, <1>4, <1>5, <1>6, <1>7, <1>10, <1>11 DEF Inv

\* Back to the head of the loop.
LEMMA NextRoundStep ==
  ASSUME Inv, NEW p \in Procs, NextRound(p), CountBypass
  PROVE  Inv'
<1>1. /\ UNCHANGED <<active, flag, turn, pc, id, role, ret>>
      /\ upc[p] = "release" /\ pc[p] = "user" /\ upc'[p] = "loop"
      /\ \A q \in Procs \ {p} : upc'[q] = upc[q]
      /\ UNCHANGED <<lock_id, fork_ret, killed>>
  BY ProcFacts DEF Inv, TypeOK, TypeOKLock, TypeOKUser, NextRound, At, UGoto, InvRet, lockVars
<1>2. TypeOKLock' /\ upc' \in [Procs -> UserPC] /\ iter' \in [Procs -> Nat]
      /\ lock_id' \in [Progs -> Int] /\ fork_ret' \in [Progs -> {"none", "ok", "failed"}]
      /\ killed' \in [Procs -> BOOLEAN]
  BY <1>1 DEF Inv, TypeOK, TypeOKLock, TypeOKUser, UserPC, NextRound, At, UGoto, InvRet
<1>3. InvControl'
  BY <1>1, ProcFacts DEF Inv, InvControl, MyRole, CreatePC, AcquirePC
<1>4. InvFork'
  BY <1>1, ProcFacts DEF Inv, TypeOK, TypeOKUser, InvFork
<1>5. InvRet'
  BY Zenon, <1>1 DEF Inv, InvRet
<1>6. InvOwn'
  <2>1. \A g1 \in Progs : Owns(g1)' => Owns(g1)
    BY <1>1, ProcFacts DEF Inv, InvFork, InvControl, Owns, HasLock
  <2> QED BY Zenon, <1>1, <2>1, OwnKept
<1>7. InvLeak'
  <2>1. \A g1 \in Progs : Owns(g1) \/ Leaked(g1) => (Owns(g1) \/ Leaked(g1))'
    BY <1>1, ProcFacts DEF Inv, InvFork, InvControl, Owns, HasLock, Leaked
  <2> QED BY Zenon, <1>1, <2>1, LeakKept
<1>8. \A q \in Procs : /\ InCS(q)' => InCS(q)
                       /\ Testing(q)' <=> Testing(q)
                       /\ Wants(q)' => Wants(q)
  BY Zenon, <1>1 DEF InCS, Testing, Wants
<1>9. \A q \in Procs : Wants(q)' =>
        /\ MyRole(q)' = MyRole(q)
        /\ flag'[lock_id'[q[1]]][MyRole(q)] = flag[lock_id[q[1]]][MyRole(q)]
        /\ turn'[lock_id'[q[1]]] = turn[lock_id[q[1]]]
  BY Zenon, <1>1 DEF MyRole
<1>10. InvFlag' /\ InvMutex' /\ InvBypass' /\ bypass' \in [Procs -> Nat]
  BY Zenon, <1>8, <1>9, ExclusionKept
<1>11. TypeOK'
  BY Zenon, <1>2, <1>10 DEF TypeOK, TypeOKUser
<1> QED BY Zenon, <1>3, <1>4, <1>5, <1>6, <1>7, <1>10, <1>11 DEF Inv

\* The end of the loop: wait for the child, or exit.
LEMMA LoopDoneStep ==
  ASSUME Inv, NEW p \in Procs, LoopDone(p), CountBypass
  PROVE  Inv'
<1>1. /\ UNCHANGED <<active, flag, turn, pc, id, role, ret>>
      /\ upc[p] = "loop" /\ pc[p] = "user" /\ upc'[p] = (IF MyRole(p) = 0 THEN "wait" ELSE "exited")
      /\ \A q \in Procs \ {p} : upc'[q] = upc[q]
      /\ UNCHANGED <<iter, lock_id, fork_ret, killed>>
  BY ProcFacts DEF Inv, TypeOK, TypeOKLock, TypeOKUser, LoopDone, At, UGoto, lockVars
<1>2. TypeOKLock' /\ upc' \in [Procs -> UserPC] /\ iter' \in [Procs -> Nat]
      /\ lock_id' \in [Progs -> Int] /\ fork_ret' \in [Progs -> {"none", "ok", "failed"}]
      /\ killed' \in [Procs -> BOOLEAN]
  BY Zenon, <1>1 DEF Inv, TypeOK, TypeOKLock, TypeOKUser, UserPC, LoopDone, At, UGoto
<1>3. InvControl'
  BY <1>1, ProcFacts DEF Inv, InvControl, MyRole, CreatePC, AcquirePC
<1>4. InvFork'
  <2>1. MyRole(p) = 0 => p[2] = 0 /\ fork_ret[p[1]] = "ok"
    BY DEF MyRole
  <2>2. p[2] = 0 /\ fork_ret[p[1]] = "ok" => upc'[p] = "wait"
    BY Zenon, <1>1 DEF MyRole
  <2> QED BY <1>1, <2>1, <2>2, ProcFacts DEF Inv, TypeOK, TypeOKUser, InvFork
<1>5. InvRet'
  BY Zenon, <1>1 DEF Inv, InvRet
<1>6. InvOwn'
  <2>1. \A g1 \in Progs : Owns(g1)' => Owns(g1)
    BY <1>1, ProcFacts DEF Inv, InvFork, InvControl, Owns, HasLock
  <2> QED BY Zenon, <1>1, <2>1, OwnKept
<1>7. InvLeak'
  <2>1. Owns(p[1]) \/ Leaked(p[1]) => (Owns(p[1]) \/ Leaked(p[1]))'
    <3>1. CASE p[2] = 0
      <4>1. p = Parent(p[1]) /\ p[1] \in Progs
        BY Zenon, <3>1, ProcFacts
      <4>2. fork_ret[p[1]] \in {"ok", "failed"}
        BY <1>1, <4>1 DEF Inv, TypeOK, TypeOKUser, InvFork
      <4>3. CASE fork_ret[p[1]] = "ok"
        BY Zenon, <1>1, <3>1, <4>1, <4>3, ProcFacts DEF MyRole, Owns, HasLock, Leaked
      <4>4. CASE fork_ret[p[1]] = "failed"
        BY Zenon, <1>1, <3>1, <4>1, <4>4, ProcFacts DEF MyRole, Owns, HasLock, Leaked
      <4> QED BY Zenon, <4>2, <4>3, <4>4
    <3>2. CASE p[2] = 1
      <4>1. /\ p = Child(p[1]) /\ p[1] \in Progs /\ Parent(p[1]) \in Procs \ {p}
            /\ fork_ret[p[1]] = "ok" /\ upc[Parent(p[1])] # "destroy"
        BY <1>1, <3>2, ProcFacts DEF Inv, InvFork
      <4>2. upc[Parent(p[1])] = "exited" => killed[Parent(p[1])]
        BY <1>1, <4>1, ProcFacts DEF Inv, InvFork
      <4>3. CASE upc[Parent(p[1])] = "exited"
        BY Zenon, <1>1, <4>1, <4>2, <4>3 DEF Leaked
      <4>4. CASE upc[Parent(p[1])] # "exited"
        BY Zenon, <1>1, <4>1, <4>4 DEF Owns, HasLock, Leaked
      <4> QED BY Zenon, <4>3, <4>4
    <3> QED BY Zenon, <3>1, <3>2, ProcFacts
  <2>2. \A h \in Progs \ {p[1]} : Owns(h) \/ Leaked(h) => (Owns(h) \/ Leaked(h))'
    <3>1. \A h \in Progs \ {p[1]} : Parent(h) \in Procs \ {p} /\ Child(h) \in Procs \ {p}
      BY Zenon, ProcFacts
    <3> QED BY Zenon, <1>1, <3>1 DEF Owns, HasLock, Leaked
  <2> QED BY Zenon, <1>1, <2>1, <2>2, LeakKept
<1>8. \A q \in Procs : /\ InCS(q)' => InCS(q)
                       /\ Testing(q)' <=> Testing(q)
                       /\ Wants(q)' => Wants(q)
  BY Zenon, <1>1 DEF InCS, Testing, Wants
<1>9. \A q \in Procs : Wants(q)' =>
        /\ MyRole(q)' = MyRole(q)
        /\ flag'[lock_id'[q[1]]][MyRole(q)] = flag[lock_id[q[1]]][MyRole(q)]
        /\ turn'[lock_id'[q[1]]] = turn[lock_id[q[1]]]
  BY Zenon, <1>1 DEF MyRole
<1>10. InvFlag' /\ InvMutex' /\ InvBypass' /\ bypass' \in [Procs -> Nat]
  BY Zenon, <1>8, <1>9, ExclusionKept
<1>11. TypeOK'
  BY Zenon, <1>2, <1>10 DEF TypeOK, TypeOKUser
<1> QED BY Zenon, <1>3, <1>4, <1>5, <1>6, <1>7, <1>10, <1>11 DEF Inv

\* The main process exits after it destroyed the lock.
LEMMA ExitStep ==
  ASSUME Inv, NEW g \in Progs, Exit(g), CountBypass
  PROVE  Inv'
<1>0. Parent(g) \in Procs /\ Parent(g)[1] = g /\ Parent(g)[2] = 0 /\ Child(g) \in Procs
  BY Zenon, ProcFacts
<1>1. /\ UNCHANGED <<active, flag, turn, pc, id, role, ret>>
      /\ upc[Parent(g)] = "destroy" /\ pc[Parent(g)] = "user" /\ upc'[Parent(g)] = "exited"
      /\ \A q \in Procs \ {Parent(g)} : upc'[q] = upc[q]
      /\ UNCHANGED <<iter, lock_id, fork_ret, killed>>
  BY <1>0, ProcFacts DEF Inv, TypeOK, TypeOKLock, TypeOKUser, Exit, At, UGoto, lockVars
<1>2. TypeOKLock' /\ upc' \in [Procs -> UserPC] /\ iter' \in [Procs -> Nat]
      /\ lock_id' \in [Progs -> Int] /\ fork_ret' \in [Progs -> {"none", "ok", "failed"}]
      /\ killed' \in [Procs -> BOOLEAN]
  BY Zenon, <1>0, <1>1 DEF Inv, TypeOK, TypeOKLock, TypeOKUser, UserPC, Exit, At, UGoto
<1>3. InvControl'
  BY <1>0, <1>1, ProcFacts DEF Inv, InvControl, MyRole, CreatePC, AcquirePC
<1>4. InvFork'
  BY <1>0, <1>1, ProcFacts DEF Inv, TypeOK, TypeOKUser, InvFork
<1>5. InvRet'
  BY Zenon, <1>0, <1>1 DEF Inv, InvRet
<1>6. InvOwn'
  <2>1. \A g1 \in Progs : Owns(g1)' => Owns(g1)
    BY <1>0, <1>1, ProcFacts DEF Inv, InvFork, InvControl, Owns, HasLock
  <2> QED BY Zenon, <1>1, <2>1, OwnKept
<1>7. InvLeak'
  <2>1. \A g1 \in Progs : Owns(g1) \/ Leaked(g1) => (Owns(g1) \/ Leaked(g1))'
    BY <1>0, <1>1, ProcFacts DEF Inv, InvFork, InvControl, Owns, HasLock, Leaked
  <2> QED BY Zenon, <1>1, <2>1, LeakKept
<1>8. \A q \in Procs : /\ InCS(q)' => InCS(q)
                       /\ Testing(q)' <=> Testing(q)
                       /\ Wants(q)' => Wants(q)
  BY Zenon, <1>0, <1>1 DEF InCS, Testing, Wants
<1>9. \A q \in Procs : Wants(q)' =>
        /\ MyRole(q)' = MyRole(q)
        /\ flag'[lock_id'[q[1]]][MyRole(q)] = flag[lock_id[q[1]]][MyRole(q)]
        /\ turn'[lock_id'[q[1]]] = turn[lock_id[q[1]]]
  BY Zenon, <1>1 DEF MyRole
<1>10. InvFlag' /\ InvMutex' /\ InvBypass' /\ bypass' \in [Procs -> Nat]
  BY Zenon, <1>8, <1>9, ExclusionKept
<1>11. TypeOK'
  BY Zenon, <1>2, <1>10 DEF TypeOK, TypeOKUser
<1> QED BY Zenon, <1>3, <1>4, <1>5, <1>6, <1>7, <1>10, <1>11 DEF Inv

\* A killed process exits.
LEMMA DieStep ==
  ASSUME Inv, NEW p \in Procs, Die(p), CountBypass
  PROVE  Inv'
<1>1. /\ UNCHANGED <<active, flag, turn, pc, id, role, ret>>
      /\ killed[p] /\ pc[p] = "user" /\ upc[p] # "exited" /\ upc'[p] = "exited"
      /\ \A q \in Procs \ {p} : upc'[q] = upc[q]
      /\ UNCHANGED <<iter, lock_id, fork_ret, killed>>
  BY ProcFacts DEF Inv, TypeOK, TypeOKLock, TypeOKUser, Die, UGoto, lockVars
<1>2. TypeOKLock' /\ upc' \in [Procs -> UserPC] /\ iter' \in [Procs -> Nat]
      /\ lock_id' \in [Progs -> Int] /\ fork_ret' \in [Progs -> {"none", "ok", "failed"}]
      /\ killed' \in [Procs -> BOOLEAN]
  BY Zenon, <1>1 DEF Inv, TypeOK, TypeOKLock, TypeOKUser, UserPC, Die, UGoto
<1>3. InvControl'
  BY <1>1, ProcFacts DEF Inv, InvControl, MyRole, CreatePC, AcquirePC
<1>4. InvFork'
  <2>1. \A q \in Procs : upc'[q] = "exited" => upc[q] = "exited" \/ (q = p /\ killed[q])
    BY Zenon, <1>1
  <2>2. \A q \in Procs : upc'[q] # "exited" => upc'[q] = upc[q]
    BY Zenon, <1>1
  <2>3. \A q \in Procs : upc[q] = "exited" => upc'[q] = "exited"
    BY Zenon, <1>1
  <2>4. upc[p] # "unborn"
    BY Zenon, <1>1 DEF Inv, InvFork
  <2> QED BY <1>1, <2>1, <2>2, <2>3, <2>4, ProcFacts DEF Inv, TypeOK, TypeOKUser, InvFork
<1>5. InvRet'
  BY Zenon, <1>1 DEF Inv, InvRet
<1>6. InvOwn'
  <2>1. \A g1 \in Progs : Owns(g1)' => Owns(g1)
    BY <1>1, ProcFacts DEF Inv, InvFork, InvControl, Owns, HasLock
  <2> QED BY Zenon, <1>1, <2>1, OwnKept
<1>7. InvLeak'
  <2>1. Owns(p[1]) \/ Leaked(p[1]) => (Owns(p[1]) \/ Leaked(p[1]))'
    <3>1. CASE p[2] = 0
      <4>1. p = Parent(p[1])
        BY Zenon, <3>1, ProcFacts
      <4> QED BY Zenon, <1>1, <4>1 DEF Leaked
    <3>2. CASE p[2] = 1
      <4>1. /\ p = Child(p[1]) /\ p[1] \in Progs /\ Parent(p[1]) \in Procs \ {p}
            /\ upc[Parent(p[1])] # "destroy"
        BY <1>1, <3>2, ProcFacts DEF Inv, InvFork
      <4>2. fork_ret[p[1]] = "ok"
        BY Zenon, <1>1, <3>2 DEF Inv, InvFork
      <4>3. upc[Parent(p[1])] = "exited" => killed[Parent(p[1])]
        BY <1>1, <4>1, <4>2, ProcFacts DEF Inv, InvFork
      <4>4. CASE upc[Parent(p[1])] = "exited"
        BY Zenon, <1>1, <4>1, <4>3, <4>4 DEF Leaked
      <4>5. CASE upc[Parent(p[1])] # "exited"
        BY Zenon, <1>1, <4>1, <4>5 DEF Owns, HasLock, Leaked
      <4> QED BY Zenon, <4>4, <4>5
    <3> QED BY Zenon, <3>1, <3>2, ProcFacts
  <2>2. \A h \in Progs \ {p[1]} : Owns(h) \/ Leaked(h) => (Owns(h) \/ Leaked(h))'
    <3>1. \A h \in Progs \ {p[1]} : Parent(h) \in Procs \ {p} /\ Child(h) \in Procs \ {p}
      BY Zenon, ProcFacts
    <3> QED BY Zenon, <1>1, <3>1 DEF Owns, HasLock, Leaked
  <2> QED BY Zenon, <1>1, <2>1, <2>2, LeakKept
<1>8. \A q \in Procs : /\ InCS(q)' => InCS(q)
                       /\ Testing(q)' <=> Testing(q)
                       /\ Wants(q)' => Wants(q)
  BY Zenon, <1>1 DEF InCS, Testing, Wants
<1>9. \A q \in Procs : Wants(q)' =>
        /\ MyRole(q)' = MyRole(q)
        /\ flag'[lock_id'[q[1]]][MyRole(q)] = flag[lock_id[q[1]]][MyRole(q)]
        /\ turn'[lock_id'[q[1]]] = turn[lock_id[q[1]]]
  BY Zenon, <1>1 DEF MyRole
<1>10. InvFlag' /\ InvMutex' /\ InvBypass' /\ bypass' \in [Procs -> Nat]
  BY Zenon, <1>8, <1>9, ExclusionKept
<1>11. TypeOK'
  BY Zenon, <1>2, <1>10 DEF TypeOK, TypeOKUser
<1> QED BY Zenon, <1>3, <1>4, <1>5, <1>6, <1>7, <1>10, <1>11 DEF Inv

\* kill() marks a process.
LEMMA KillStep ==
  ASSUME Inv, NEW p \in Procs, Kill(p), CountBypass
  PROVE  Inv'
<1>1. /\ UNCHANGED <<active, flag, turn, pc, id, role, ret>>
      /\ upc[p] # "unborn" /\ killed'[p] /\ (\A q \in Procs \ {p} : killed'[q] = killed[q])
      /\ \A q \in Procs : killed[q] => killed'[q]
      /\ UNCHANGED <<upc, iter, lock_id, fork_ret>>
  BY ProcFacts DEF Inv, TypeOK, TypeOKLock, TypeOKUser, Kill, UGoto, lockVars
<1>2. TypeOKLock' /\ upc' \in [Procs -> UserPC] /\ iter' \in [Procs -> Nat]
      /\ lock_id' \in [Progs -> Int] /\ fork_ret' \in [Progs -> {"none", "ok", "failed"}]
      /\ killed' \in [Procs -> BOOLEAN]
  BY Zenon, <1>1 DEF Inv, TypeOK, TypeOKLock, TypeOKUser, UserPC, Kill, UGoto
<1>3. InvControl'
  BY Zenon, <1>1, ProcFacts DEF Inv, InvControl, MyRole, CreatePC, AcquirePC
<1>4. InvFork'
  BY <1>1, ProcFacts DEF Inv, TypeOK, TypeOKUser, InvFork
<1>5. InvRet'
  BY Zenon, <1>1 DEF Inv, InvRet
<1>6. InvOwn'
  <2>1. \A g1 \in Progs : Owns(g1)' => Owns(g1)
    BY Zenon, <1>1, ProcFacts DEF Inv, InvFork, InvControl, Owns, HasLock
  <2> QED BY Zenon, <1>1, <2>1, OwnKept
<1>7. InvLeak'
  <2>1. \A g1 \in Progs : Owns(g1) \/ Leaked(g1) => (Owns(g1) \/ Leaked(g1))'
    BY Zenon, <1>1, ProcFacts DEF Inv, InvFork, InvControl, Owns, HasLock, Leaked
  <2> QED BY Zenon, <1>1, <2>1, LeakKept
<1>8. \A q \in Procs : /\ InCS(q)' => InCS(q)
                       /\ Testing(q)' <=> Testing(q)
                       /\ Wants(q)' => Wants(q)
  BY Zenon, <1>1 DEF InCS, Testing, Wants
<1>9. \A q \in Procs : Wants(q)' =>
        /\ MyRole(q)' = MyRole(q)
        /\ flag'[lock_id'[q[1]]][MyRole(q)] = flag[lock_id[q[1]]][MyRole(q)]
        /\ turn'[lock_id'[q[1]]] = turn[lock_id[q[1]]]
  BY Zenon, <1>1 DEF MyRole
<1>10. InvFlag' /\ InvMutex' /\ InvBypass' /\ bypass' \in [Procs -> Nat]
  BY Zenon, <1>8, <1>9, ExclusionKept
<1>11. TypeOK'
  BY Zenon, <1>2, <1>10 DEF TypeOK, TypeOKUser
<1> QED BY Zenon, <1>3, <1>4, <1>5, <1>6, <1>7, <1>10, <1>11 DEF Inv

\* main() calls peterson_create.
LEMMA CreateStep ==
  ASSUME Inv, NEW g \in Progs, Create(g), CountBypass
  PROVE  Inv'
<1> DEFINE p == Parent(g)
<1>p. p \in Procs /\ p[1] = g /\ p[2] = 0 /\ Partner(p) = Child(g) /\ p = Parent(p[1])
  BY Zenon, ProcFacts
<1> HIDE DEF p
<1>1. /\ UNCHANGED <<active, flag, turn, ret, iter, lock_id, fork_ret, killed>>
      /\ upc[p] = "main" /\ pc[p] = "user" /\ upc'[p] = "create" /\ pc'[p] = "c_scan" /\ id'[p] = 0
      /\ \A q \in Procs \ {p} : pc'[q] = pc[q]
      /\ \A q \in Procs \ {p} : id'[q] = id[q]
      /\ \A q \in Procs \ {p} : role'[q] = role[q]
      /\ \A q \in Procs \ {p} : upc'[q] = upc[q]
  BY Zenon, <1>p DEF Inv, TypeOK, TypeOKLock, TypeOKUser, Create, CreateCall, Goto, At, UGoto, tableVars, p
<1>2. TypeOKLock' /\ upc' \in [Procs -> UserPC]
  <2>1. pc' \in [Procs -> KernelPC] /\ upc' \in [Procs -> UserPC]
    BY Zenon, <1>p DEF Inv, TypeOK, TypeOKLock, TypeOKUser, Create, CreateCall, Goto, UGoto, KernelPC, CreatePC, AcquirePC, UserPC, p
  <2>2. id' \in [Procs -> Int] /\ role' \in [Procs -> Roles]
    BY <1>p DEF Inv, TypeOK, TypeOKLock, TypeOKUser, Create, CreateCall, Goto, MyRole, Roles, p
  <2> QED BY Zenon, <1>1, <2>1, <2>2 DEF Inv, TypeOK, TypeOKLock
<1>3. InvControl'
  BY <1>1, <1>p DEF Inv, InvControl, MyRole, CreatePC, AcquirePC
<1>4. InvFork'
  BY <1>1, <1>p, ProcFacts DEF Inv, InvFork
<1>5. InvRet'
  BY Zenon, <1>1 DEF Inv, InvRet
<1>o. \A h \in Progs \ {p[1]} : Parent(h) \in Procs \ {p} /\ Child(h) \in Procs \ {p}
  BY <1>p, ProcFacts
<1>6. \A h \in Progs \ {p[1]} : /\ Owns(h)' <=> Owns(h)
                                /\ Leaked(h)' <=> Leaked(h)
                                /\ id'[Parent(h)] = id[Parent(h)]
  BY Zenon, <1>1, <1>o DEF Owns, HasLock, Leaked
<1>7. InvOwn'
  <2>1. ~Owns(p[1])'
    BY <1>1, <1>p, <1>4 DEF InvFork, Owns, HasLock
  <2> QED BY Zenon, <1>1, <1>6, <2>1, OwnKept
<1>8. InvLeak'
  <2>1. ~Owns(p[1]) /\ ~Leaked(p[1])
    BY Zenon, <1>1, <1>p DEF Inv, InvFork, Owns, HasLock, Leaked
  <2> QED BY Zenon, <1>1, <1>6, <2>1, LeakKept
<1>9. \A q \in Procs : /\ InCS(q)' => InCS(q)
                       /\ Testing(q)' <=> Testing(q)
                       /\ Wants(q)' => Wants(q)
  BY Zenon, <1>1 DEF InCS, Testing, Wants
<1>10. \A q \in Procs : MyRole(q)' = MyRole(q)
  BY Zenon, <1>1 DEF MyRole
<1>11. InvFlag' /\ InvMutex' /\ InvBypass' /\ bypass' \in [Procs -> Nat]
  BY Zenon, <1>1, <1>9, <1>10, ExclusionKept
<1>12. TypeOK'
  BY Zenon, <1>1, <1>2, <1>11 DEF Inv, TypeOK, TypeOKUser
<1> QED BY Zenon, <1>3, <1>4, <1>5, <1>7, <1>8, <1>11, <1>12 DEF Inv

\* A process calls peterson_acquire: its lock is there.
LEMMA AcquireStep ==
  ASSUME Inv, NEW p \in Procs, Acquire(p), CountBypass
  PROVE  Inv'
<1>p. p[1] \in Progs
  BY Zenon, ProcFacts
<1>0. /\ Owns(p[1]) /\ lock_id[p[1]] = id[Parent(p[1])] /\ lock_id[p[1]] \in Locks
      /\ ~BadLock(lock_id[p[1]])
  BY <1>p, WantsLock DEF BadLock, Acquire, At
<1>1. /\ UNCHANGED <<active, flag, turn, ret, iter, lock_id, fork_ret, killed>>
      /\ upc[p] = "loop" /\ pc[p] = "user" /\ upc'[p] = "acquire" /\ pc'[p] = "a_flag"
      /\ id'[p] = lock_id[p[1]] /\ role'[p] = MyRole(p)
      /\ \A q \in Procs \ {p} : pc'[q] = pc[q]
      /\ \A q \in Procs \ {p} : id'[q] = id[q]
      /\ \A q \in Procs \ {p} : role'[q] = role[q]
      /\ \A q \in Procs \ {p} : upc'[q] = upc[q]
  BY Zenon, <1>p, <1>0 DEF Inv, TypeOK, TypeOKLock, TypeOKUser, Acquire, AcquireCall, Enter, Goto, Return, At, UGoto, tableVars
<1>2. TypeOKLock' /\ upc' \in [Procs -> UserPC]
  <2>1. pc' \in [Procs -> KernelPC] /\ upc' \in [Procs -> UserPC]
    BY Zenon, <1>p, <1>0 DEF Inv, TypeOK, TypeOKLock, TypeOKUser, Acquire, AcquireCall, Enter, Goto, Return, UGoto, KernelPC, CreatePC, AcquirePC, UserPC
  <2>2. id' \in [Procs -> Int] /\ role' \in [Procs -> Roles]
    BY Zenon, <1>p, <1>0 DEF Inv, TypeOK, TypeOKLock, TypeOKUser, Acquire, AcquireCall, Enter, Goto, Return, MyRole, Roles
  <2> QED BY Zenon, <1>1, <2>1, <2>2 DEF Inv, TypeOK, TypeOKLock
<1>3. InvControl'
  BY <1>1, <1>p DEF Inv, InvControl, MyRole, CreatePC, AcquirePC
<1>4. InvFork'
  BY <1>1, <1>p, ProcFacts DEF Inv, InvFork
<1>5. InvRet'
  BY Zenon, <1>1 DEF Inv, InvRet
<1>o. \A h \in Progs \ {p[1]} : Parent(h) \in Procs \ {p} /\ Child(h) \in Procs \ {p}
  BY Zenon, <1>p, ProcFacts
<1>6. \A h \in Progs \ {p[1]} : /\ Owns(h)' <=> Owns(h)
                                /\ Leaked(h)' <=> Leaked(h)
                                /\ id'[Parent(h)] = id[Parent(h)]
  BY Zenon, <1>1, <1>o DEF Owns, HasLock, Leaked
<1>7. InvOwn'
  <2>1. Owns(p[1]) /\ id'[Parent(p[1])] = id[Parent(p[1])]
    BY Zenon, <1>1, <1>0, <1>p, ProcFacts
  <2> QED BY Zenon, <1>1, <1>6, <2>1, OwnKept
<1>8. InvLeak'
  <2>1. Owns(p[1])' /\ id'[Parent(p[1])] = id[Parent(p[1])]
    <3>1. lock_id[p[1]] # -1 /\ (p = Parent(p[1]) \/ p = Child(p[1]))
      BY <1>0, TableAssumption, ProcFacts DEF Locks
    <3> QED BY Zenon, <1>0, <1>1, <1>p, <3>1, ProcFacts DEF Owns, HasLock
  <2> QED BY Zenon, <1>1, <1>6, <2>1, LeakKept
<1>9. \A q \in Procs : /\ InCS(q)' => InCS(q)
                       /\ Testing(q)' <=> Testing(q)
                       /\ Wants(q)' => Wants(q)
  BY Zenon, <1>1 DEF InCS, Testing, Wants
<1>10. \A q \in Procs : MyRole(q)' = MyRole(q)
  BY Zenon, <1>1 DEF MyRole
<1>11. InvFlag' /\ InvMutex' /\ InvBypass' /\ bypass' \in [Procs -> Nat]
  BY Zenon, <1>1, <1>9, <1>10, ExclusionKept
<1>12. TypeOK'
  BY Zenon, <1>1, <1>2, <1>11 DEF Inv, TypeOK, TypeOKUser
<1> QED BY Zenon, <1>3, <1>4, <1>5, <1>7, <1>8, <1>11, <1>12 DEF Inv

\* It leaves the critical section and calls peterson_release.
LEMMA ReleaseStep ==
  ASSUME Inv, NEW p \in Procs, Release(p), CountBypass
  PROVE  Inv'
<1>p. p[1] \in Progs
  BY Zenon, ProcFacts
<1>0. /\ Owns(p[1]) /\ lock_id[p[1]] = id[Parent(p[1])] /\ lock_id[p[1]] \in Locks
      /\ ~BadLock(lock_id[p[1]]) /\ ret[p] = 0
  BY <1>p, WantsLock DEF BadLock, Release, At, Inv, InvRet
<1>1. /\ UNCHANGED <<active, flag, turn, ret, iter, lock_id, fork_ret, killed>>
      /\ upc[p] = "acquire" /\ pc[p] = "user" /\ ret[p] = 0 /\ upc'[p] = "release" /\ pc'[p] = "r_flag"
      /\ id'[p] = lock_id[p[1]] /\ role'[p] = MyRole(p)
      /\ \A q \in Procs \ {p} : pc'[q] = pc[q]
      /\ \A q \in Procs \ {p} : id'[q] = id[q]
      /\ \A q \in Procs \ {p} : role'[q] = role[q]
      /\ \A q \in Procs \ {p} : upc'[q] = upc[q]
  BY <1>p, <1>0 DEF Inv, TypeOK, TypeOKLock, TypeOKUser, Release, ReleaseCall, Enter, Goto, Return, At, UGoto, tableVars
<1>2. TypeOKLock' /\ upc' \in [Procs -> UserPC]
  <2>1. pc' \in [Procs -> KernelPC] /\ upc' \in [Procs -> UserPC]
    BY <1>p, <1>0 DEF Inv, TypeOK, TypeOKLock, TypeOKUser, Release, ReleaseCall, Enter, Goto, Return, UGoto, KernelPC, CreatePC, AcquirePC, UserPC
  <2>2. id' \in [Procs -> Int] /\ role' \in [Procs -> Roles]
    BY <1>p, <1>0 DEF Inv, TypeOK, TypeOKLock, TypeOKUser, Release, ReleaseCall, Enter, Goto, Return, MyRole, Roles
  <2> QED BY Zenon, <1>1, <2>1, <2>2 DEF Inv, TypeOK, TypeOKLock
<1>3. InvControl'
  BY <1>1, <1>p DEF Inv, InvControl, MyRole, CreatePC, AcquirePC
<1>4. InvFork'
  BY <1>1, <1>p, ProcFacts DEF Inv, InvFork
<1>5. InvRet'
  BY Zenon, <1>1 DEF Inv, InvRet
<1>o. \A h \in Progs \ {p[1]} : Parent(h) \in Procs \ {p} /\ Child(h) \in Procs \ {p}
  BY Zenon, <1>p, ProcFacts
<1>6. \A h \in Progs \ {p[1]} : /\ Owns(h)' <=> Owns(h)
                                /\ Leaked(h)' <=> Leaked(h)
                                /\ id'[Parent(h)] = id[Parent(h)]
  BY Zenon, <1>1, <1>o DEF Owns, HasLock, Leaked
<1>7. InvOwn'
  <2>1. Owns(p[1]) /\ id'[Parent(p[1])] = id[Parent(p[1])]
    BY Zenon, <1>1, <1>0, <1>p, ProcFacts
  <2> QED BY Zenon, <1>1, <1>6, <2>1, OwnKept
<1>8. InvLeak'
  <2>1. Owns(p[1])' /\ id'[Parent(p[1])] = id[Parent(p[1])]
    <3>1. lock_id[p[1]] # -1 /\ (p = Parent(p[1]) \/ p = Child(p[1]))
      BY <1>0, TableAssumption, ProcFacts DEF Locks
    <3> QED BY Zenon, <1>0, <1>1, <1>p, <3>1, ProcFacts DEF Owns, HasLock
  <2> QED BY Zenon, <1>1, <1>6, <2>1, LeakKept
<1>9. \A q \in Procs : /\ InCS(q)' => InCS(q)
                       /\ Testing(q)' <=> Testing(q)
                       /\ Wants(q)' => Wants(q)
  BY Zenon, <1>1 DEF InCS, Testing, Wants
<1>10. \A q \in Procs : MyRole(q)' = MyRole(q)
  BY Zenon, <1>1 DEF MyRole
<1>11. InvFlag' /\ InvMutex' /\ InvBypass' /\ bypass' \in [Procs -> Nat]
  BY Zenon, <1>1, <1>9, <1>10, ExclusionKept
<1>12. TypeOK'
  BY Zenon, <1>1, <1>2, <1>11 DEF Inv, TypeOK, TypeOKUser
<1> QED BY Zenon, <1>3, <1>4, <1>5, <1>7, <1>8, <1>11, <1>12 DEF Inv

\* The main process has waited for its child and calls peterson_destroy.
LEMMA DestroyStep ==
  ASSUME Inv, NEW g \in Progs, Destroy(g), CountBypass
  PROVE  Inv'
<1> DEFINE p == Parent(g)
<1>p. p \in Procs /\ p[1] = g /\ p[2] = 0 /\ Partner(p) = Child(g) /\ p = Parent(p[1])
  BY Zenon, ProcFacts
<1> HIDE DEF p
<1>0. /\ Owns(p[1]) /\ lock_id[p[1]] = id[Parent(p[1])] /\ lock_id[p[1]] \in Locks
      /\ ~BadLock(lock_id[p[1]])
  BY <1>p, WantsLock DEF BadLock, Destroy, At, p
<1>1. /\ UNCHANGED <<active, flag, turn, ret, iter, lock_id, fork_ret, killed>>
      /\ upc[p] = "wait" /\ pc[p] = "user" /\ upc'[p] = "destroy" /\ pc'[p] = "d_clear"
      /\ upc[Partner(p)] = "exited" /\ id'[p] = lock_id[p[1]]
      /\ \A q \in Procs \ {p} : pc'[q] = pc[q]
      /\ \A q \in Procs \ {p} : id'[q] = id[q]
      /\ \A q \in Procs \ {p} : role'[q] = role[q]
      /\ \A q \in Procs \ {p} : upc'[q] = upc[q]
  BY Zenon, <1>p, <1>0 DEF Inv, TypeOK, TypeOKLock, TypeOKUser, Destroy, DestroyCall, Enter, Goto, Return, At, UGoto, tableVars, p
<1>2. TypeOKLock' /\ upc' \in [Procs -> UserPC]
  <2>1. pc' \in [Procs -> KernelPC] /\ upc' \in [Procs -> UserPC]
    BY Zenon, <1>p, <1>0 DEF Inv, TypeOK, TypeOKLock, TypeOKUser, Destroy, DestroyCall, Enter, Goto, Return, UGoto, KernelPC, CreatePC, AcquirePC, UserPC, p
  <2>2. id' \in [Procs -> Int] /\ role' \in [Procs -> Roles]
    BY Zenon, <1>p, <1>0 DEF Inv, TypeOK, TypeOKLock, TypeOKUser, Destroy, DestroyCall, Enter, Goto, Return, MyRole, Roles, p
  <2> QED BY Zenon, <1>1, <2>1, <2>2 DEF Inv, TypeOK, TypeOKLock
<1>3. InvControl'
  BY <1>1, <1>p DEF Inv, InvControl, MyRole, CreatePC, AcquirePC
<1>4. InvFork'
  BY <1>1, <1>p, ProcFacts DEF Inv, InvFork
<1>5. InvRet'
  BY Zenon, <1>1 DEF Inv, InvRet
<1>o. \A h \in Progs \ {p[1]} : Parent(h) \in Procs \ {p} /\ Child(h) \in Procs \ {p}
  BY <1>p, ProcFacts
<1>6. \A h \in Progs \ {p[1]} : /\ Owns(h)' <=> Owns(h)
                                /\ Leaked(h)' <=> Leaked(h)
                                /\ id'[Parent(h)] = id[Parent(h)]
  BY Zenon, <1>1, <1>o DEF Owns, HasLock, Leaked
<1>7. InvOwn'
  <2>1. Owns(p[1]) /\ id'[Parent(p[1])] = id[Parent(p[1])]
    BY Zenon, <1>1, <1>0, <1>p, ProcFacts
  <2> QED BY Zenon, <1>1, <1>6, <2>1, OwnKept
<1>8. InvLeak'
  <2>1. Owns(p[1])' /\ id'[Parent(p[1])] = id[Parent(p[1])]
    BY Zenon, <1>0, <1>1, <1>p DEF Owns
  <2> QED BY Zenon, <1>1, <1>6, <2>1, LeakKept
<1>9. \A q \in Procs : /\ InCS(q)' => InCS(q)
                       /\ Testing(q)' <=> Testing(q)
                       /\ Wants(q)' => Wants(q)
  BY Zenon, <1>1 DEF InCS, Testing, Wants
<1>10. \A q \in Procs : MyRole(q)' = MyRole(q)
  BY Zenon, <1>1 DEF MyRole
<1>11. InvFlag' /\ InvMutex' /\ InvBypass' /\ bypass' \in [Procs -> Nat]
  BY Zenon, <1>1, <1>9, <1>10, ExclusionKept
<1>12. TypeOK'
  BY Zenon, <1>1, <1>2, <1>11 DEF Inv, TypeOK, TypeOKUser
<1> QED BY Zenon, <1>3, <1>4, <1>5, <1>7, <1>8, <1>11, <1>12 DEF Inv

-----------------------------------------------------------------------------
(***************************************************************************)
(* The theorems                                                            *)
(***************************************************************************)
\* The boot state, every slot inactive and every process about to start, is
\* one of the invariant's.
LEMMA InitInv == Init => Inv
<1> SUFFICES ASSUME Init PROVE Inv
  BY Zenon
<1> USE DEF Init, petersonlock_init, NoCalls
<1>1. TypeOK
  BY ProcFacts DEF TypeOK, TypeOKLock, TypeOKUser, KernelPC, UserPC, Roles
<1>2. InvControl /\ InvRet
  BY Zenon DEF InvControl, InvRet, CreatePC, AcquirePC
<1>3. InvFork
  BY ProcFacts DEF InvFork
<1>4. \A g \in Progs : ~Owns(g)
  BY Zenon, ProcFacts DEF Owns, HasLock
<1>5. InvOwn /\ InvLeak
  BY <1>4 DEF InvOwn, InvLeak
<1>6. \A p \in Procs : ~InCS(p) /\ ~Testing(p) /\ ~Wants(p)
  BY Zenon DEF InCS, Testing, Wants
<1>7. InvFlag /\ InvMutex /\ InvBypass
  BY <1>6, ProcFacts DEF InvFlag, InvMutex, InvBypass
<1> QED BY Zenon, <1>1, <1>2, <1>3, <1>5, <1>7 DEF Inv

\* Every step of a system call, of main() or of the child, every kill() and
\* the end keep the invariant.
LEMMA NextInv == Inv /\ [Next]_vars => Inv'
<1>1. ASSUME Inv, UNCHANGED vars PROVE Inv'
  <2> USE DEF vars, lockVars, userVars
  <2>1. TypeOK'
    BY Zenon, <1>1 DEF Inv, TypeOK, TypeOKLock, TypeOKUser
  <2>2. (InvControl /\ InvFork /\ InvRet)'
    BY Zenon, <1>1 DEF Inv, InvControl, InvFork, InvRet, MyRole
  <2>3. \A g \in Progs : (Owns(g)' <=> Owns(g)) /\ (Leaked(g)' <=> Leaked(g))
    BY Zenon, <1>1 DEF Owns, HasLock, Leaked
  <2>4. (InvOwn /\ InvLeak)'
    BY Zenon, <1>1, <2>3 DEF Inv, InvOwn, InvLeak
  <2>5. \A p \in Procs : /\ InCS(p)' <=> InCS(p)
                         /\ Testing(p)' <=> Testing(p)
                         /\ Wants(p)' <=> Wants(p)
                         /\ MyRole(p)' = MyRole(p)
    BY Zenon, <1>1 DEF InCS, Testing, Wants, MyRole
  <2>6. (InvFlag /\ InvMutex /\ InvBypass)'
    BY <1>1, <2>5, ProcFacts DEF Inv, InvFlag, InvMutex, InvBypass
  <2> QED BY Zenon, <2>1, <2>2, <2>4, <2>6 DEF Inv
<1>2. ASSUME Inv, NEW p \in Procs, KernelStep(p), UNCHANGED userVars, CountBypass
      PROVE  Inv'
  BY Zenon, <1>2, CreateScanStep, CreateFullStep, CreateFlag0Step, CreateFlag1Step,
     CreateTurnStep, AcquireFlagStep, AcquireTurnStep, AcquireTestFlagStep,
     AcquireTestTurnStep, ReleaseFlagStep, DestroyClearStep
     DEF KernelStep
<1>3. ASSUME Inv, NEW p \in Procs, MainStep(p[1]), CountBypass
      PROVE  Inv'
  <2>1. p[1] \in Progs
    BY Zenon, ProcFacts
  <2> QED BY Zenon, <1>3, <2>1, CreateStep, CreateFailedStep, ForkStep, DestroyStep,
             ExitStep DEF MainStep
<1>4. ASSUME Inv, NEW p \in Procs, ProcStep(p)
      PROVE  Inv'
  BY Zenon, <1>2, <1>3, <1>4, AcquireStep, ReleaseStep, NextRoundStep, LoopDoneStep,
     DieStep DEF ProcStep
<1> QED BY Zenon, <1>1, <1>4, KillStep DEF Next, Terminated

\* The invariant holds in every state of test_peterson.c over peterson.c.
THEOREM PetersonTestInv == Spec => []Inv
BY InitInv, NextInv, PTL DEF Spec

\* Parent and child of test_peterson.c are never both between a successful
\* peterson_acquire and the store of their peterson_release, for any number of
\* programs, locks and rounds, whoever is killed and whichever fork() fails.
THEOREM PetersonExcludes == Spec => []MutualExclusion
<1>1. Inv => MutualExclusion
  BY ProcFacts DEF Inv, InvMutex, MutualExclusion
<1> QED BY <1>1, PetersonTestInv, PTL

\* A lock in use stays active, belongs to one program, and is not reset by a
\* peterson_create of another one.
THEOREM SlotsAreExclusive == Spec => []LockIsOurs
<1>1. Inv => LockIsOurs
  <2> SUFFICES ASSUME Inv, NEW g \in Progs, HasLock(g)
               PROVE  /\ active[lock_id[g]] = 1
                      /\ \A h \in Progs \ {g} :
                           /\ HasLock(h) => lock_id[h] # lock_id[g]
                           /\ pc[Parent(h)] \in {"c_flag0", "c_flag1", "c_turn"}
                                => id[Parent(h)] # lock_id[g]
    BY Zenon DEF LockIsOurs
  <2>1. \A h \in Progs : HasLock(h) => Owns(h) /\ lock_id[h] = id[Parent(h)]
    BY Zenon DEF Inv, InvFork, HasLock, Owns
  <2>2. \A h \in Progs : pc[Parent(h)] \in {"c_flag0", "c_flag1", "c_turn"} => Owns(h)
    BY DEF Owns
  <2> QED BY <2>1, <2>2 DEF Inv, InvOwn
<1> QED BY <1>1, PetersonTestInv, PTL

\* Nobody who waits in petersonlock_acquire is overtaken twice.
THEOREM OvertakenAtMostOnce == Spec => []BoundedBypass
<1>1. Inv => BoundedBypass
  BY Zenon DEF Inv, InvBypass, BoundedBypass
<1> QED BY <1>1, PetersonTestInv, PTL

\* A lock that stays active for ever is one whose program could not fork or
\* whose main process was killed.
THEOREM LeaksAreExplained == Spec => []LeaksExplained
<1>1. Inv => LeaksExplained
  <2> SUFFICES ASSUME Inv, \A p \in Procs : upc[p] \in {"unborn", "exited"}
               PROVE  \A g \in Progs : Owns(g) \/ Leaked(g) => Leaked(g)
    BY Zenon DEF Inv, InvLeak, LeaksExplained, Leaked
  <2> SUFFICES ASSUME NEW g \in Progs, Owns(g) PROVE FALSE
    BY Zenon
  <2>1. Parent(g) \in Procs /\ Child(g) \in Procs /\ Parent(g)[2] = 0
    BY Zenon, ProcFacts
  <2>2. upc[Parent(g)] = "exited"
    BY <2>1 DEF Inv, InvFork
  <2>3. pc[Parent(g)] \notin {"c_flag0", "c_flag1", "c_turn", "d_clear"}
    BY <2>1, <2>2 DEF Inv, InvControl, CreatePC
  <2> QED BY <2>1, <2>2, <2>3 DEF Owns, HasLock
<1> QED BY <1>1, PetersonTestInv, PTL
=============================================================================
