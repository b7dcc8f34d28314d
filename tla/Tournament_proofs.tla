-------------------------- MODULE Tournament_proofs -------------------------
(***************************************************************************)
(* The tournament tree lock excludes for every depth of the tree and every *)
(* size of the lock table.                                                 *)
(***************************************************************************)
EXTENDS Tournament, TLAPS

(***************************************************************************)
(* Arithmetic of the tree                                                  *)
(***************************************************************************)

\* Shifting right by one more bit halves: the shifts of proc_id that give
\* Node and Role are related from level to level by this.
LEMMA DivTwo ==
  ASSUME NEW p \in Nat, NEW a \in Nat \ {0}
  PROVE  p \div (2 * a) = (p \div a) \div 2
<1> DEFINE d == p \div a
<1> DEFINE r == p % a
<1> DEFINE e == d \div 2
<1> DEFINE f == d % 2
<1>1. d \in Nat /\ r \in 0 .. a - 1 /\ p = a * d + r
  BY SMT
<1>2. e \in Nat /\ f \in 0 .. 1 /\ d = 2 * e + f
  BY Zenon, <1>1, SMT
<1>3. p = (2 * a) * e + (a * f + r)
  <2> HIDE DEF e, f, d, r
  <2>1. p = a * (2 * e + f) + r
    BY Zenon, <1>1, <1>2
  <2>2. a * (2 * e + f) = (2 * a) * e + a * f
    BY Zenon, <1>2, SMT
  <2>3. a * f \in Nat /\ (2 * a) * e \in Nat /\ r \in Nat
    BY Zenon, <1>1, <1>2, SMT
  <2> QED BY Zenon, <2>1, <2>2, <2>3, SMT
<1>4. a * f + r \in 0 .. 2 * a - 1
  BY Zenon, <1>1, <1>2, SMT
<1>5. p \div (2 * a) = e
  <2> HIDE DEF e, f, d, r
  <2> QED BY Zenon, <1>2, <1>3, <1>4, <1>1, SMTT(60)
<1> QED BY Zenon, <1>5

\* 1 << (k + 1) is twice 1 << k.
LEMMA Pow2Step ==
  ASSUME NEW k \in 0 .. num_levels - 1
  PROVE  pow2[k + 1] = 2 * pow2[k] /\ pow2[k] \in Nat \ {0}
<1>1. 1 \in 0 .. num_levels /\ k + 1 \in 0 .. num_levels /\ k \in 0 .. num_levels
  BY LevelsAssumption
<1>2. pow2[1 + k] = pow2[1] * pow2[k]
  BY <1>1, LevelsAssumption, Pow2Assumption
<1> QED BY <1>1, <1>2, LevelsAssumption, Pow2Assumption

\* The nodes of level i are numbered from pow2[i] - 1 up, pow2[i] of them.
LEMMA NodeRange ==
  ASSUME NEW p \in Procs, NEW i \in Levels
  PROVE  /\ Node(p, i) \in pow2[i] - 1 .. 2 * pow2[i] - 2
         /\ Role(p, i) \in {0, 1}
<1> DEFINE b == pow2[num_levels - i]
<1> DEFINE c == pow2[i]
<1>1. i \in 0 .. num_levels /\ num_levels - i \in 0 .. num_levels
      /\ num_levels - i - 1 \in 0 .. num_levels /\ i + (num_levels - i) = num_levels
  BY LevelsAssumption DEF Levels
<1>2. pow2[num_levels] = c * b /\ b \in Nat \ {0} /\ c \in Nat \ {0}
  <2>1. b \in Nat \ {0} /\ c \in Nat \ {0}
    BY Zenon, <1>1, Pow2Assumption
  <2>2. pow2[i + (num_levels - i)] = c * b
    <3>1. i + (num_levels - i) <= num_levels
      BY LevelsAssumption DEF Levels
    <3> QED BY Zenon, <1>1, <3>1, Pow2Assumption
  <2> QED BY Zenon, <1>1, <2>1, <2>2
<1>3. p \in Nat /\ p < c * b
  BY Zenon, <1>2, ProcsAssumption, SMT DEF num_processes
<1>4. p \div b \in 0 .. c - 1
  <2> HIDE DEF b, c
  <2> DEFINE d == p \div b
  <2>1. d \in Nat /\ p >= b * d
    BY Zenon, <1>2, <1>3, SMT
  <2> HIDE DEF d
  <2>2. d < c
    <3> SUFFICES ASSUME d >= c PROVE FALSE
      BY <1>2, <2>1
    <3>1. b * d >= b * c
      BY Zenon, <1>2, <2>1, SMT
    <3>2. b * d \in Nat /\ b * c \in Nat /\ b * c = c * b
      BY Zenon, <1>2, <2>1, SMT
    <3> QED BY <1>3, <2>1, <3>1, <3>2
  <2> QED BY <2>1, <2>2, <1>2 DEF d
<1>5. Node(p, i) = (p \div b) + c - 1
  BY Zenon DEF Node
<1>6. pow2[num_levels - i - 1] \in Nat \ {0}
  BY Zenon, <1>1, Pow2Assumption
<1>7. Role(p, i) \in {0, 1}
  BY Zenon, <1>6, <1>3, SMT DEF Role
<1> HIDE DEF b
<1> QED BY <1>2, <1>4, <1>5, <1>7

\* The nodes of different levels are different, and all have a lock.
LEMMA NodeLevels ==
  ASSUME NEW p \in Procs, NEW q \in Procs, NEW i \in Levels, NEW j \in Levels,
         i < j
  PROVE  Node(p, i) # Node(q, j)
<1>1. j - i \in 1 .. num_levels /\ j - i - 1 \in 0 .. num_levels - 1
      /\ i \in 0 .. num_levels /\ j \in 0 .. num_levels /\ i + (j - i) = j
  BY LevelsAssumption DEF Levels
<1> DEFINE d == pow2[j - i - 1]
<1>2. pow2[j - i - 1 + 1] = 2 * d /\ d \in Nat \ {0}
  BY Zenon, <1>1, Pow2Step
<1>3. pow2[j - i] = 2 * d
  BY <1>1, <1>2
<1>4. pow2[i + (j - i)] = pow2[i] * pow2[j - i]
  <2>1. i + (j - i) <= num_levels
    BY <1>1
  <2> QED BY <1>1, <2>1, Pow2Assumption
<1>5. pow2[i] \in Nat \ {0} /\ pow2[j] \in Nat
  BY Zenon, <1>1, Pow2Assumption
<1> HIDE DEF d
<1>6. pow2[j] >= 2 * pow2[i]
  <2>1. pow2[j] = pow2[i] * (2 * d)
    BY Zenon, <1>1, <1>3, <1>4
  <2> QED BY Zenon, <2>1, <1>2, <1>5, SMT
<1> QED BY <1>5, <1>6, NodeRange

\* The lock of a node is one of the table's.
LEMMA NodeLock ==
  ASSUME NEW p \in Procs, NEW i \in Levels
  PROVE  Node(p, i) \in 0 .. num_processes - 2
<1>1. i \in 0 .. num_levels - 1 /\ i + 1 \in 0 .. num_levels
      /\ num_levels - (i + 1) \in 0 .. num_levels
      /\ num_levels \in 0 .. num_levels
  BY LevelsAssumption DEF Levels
<1>2. pow2[i + 1] = 2 * pow2[i] /\ pow2[i] \in Nat \ {0}
  BY Zenon, <1>1, Pow2Step
<1> DEFINE c == pow2[num_levels - (i + 1)]
<1>3. c \in Nat \ {0} /\ pow2[num_levels] \in Nat
  BY Zenon, <1>1, Pow2Assumption
<1>4. pow2[(i + 1) + (num_levels - (i + 1))] = pow2[i + 1] * c
  <2>1. (i + 1) + (num_levels - (i + 1)) <= num_levels
    BY <1>1, LevelsAssumption
  <2> QED BY Zenon, <1>1, <2>1, Pow2Assumption
<1>5. (i + 1) + (num_levels - (i + 1)) = num_levels
  BY <1>1, LevelsAssumption
<1> HIDE DEF c
<1>6. num_processes = (2 * pow2[i]) * c
  BY Zenon, <1>2, <1>4, <1>5 DEF num_processes
<1>7. num_processes >= 2 * pow2[i] /\ num_processes \in Nat
  BY Zenon, <1>2, <1>3, <1>6, SMT DEF num_processes
<1> QED BY <1>2, <1>7, NodeRange

\* Two processes that come to a node from the same side have met below it,
\* or are the same.
LEMMA SameSide ==
  ASSUME NEW p \in Procs, NEW q \in Procs, NEW i \in Levels,
         Node(p, i) = Node(q, i), Role(p, i) = Role(q, i)
  PROVE  p = q \/ (i + 1 \in Levels /\ Node(p, i + 1) = Node(q, i + 1))
<1> DEFINE k == num_levels - i - 1
<1> DEFINE a == pow2[k]
<1>1. k \in 0 .. num_levels - 1 /\ k + 1 = num_levels - i
      /\ i \in 0 .. num_levels /\ num_levels - (i + 1) = k
  BY LevelsAssumption DEF Levels
<1>2. pow2[num_levels - i] = 2 * a /\ a \in Nat \ {0}
  <2>1. pow2[k + 1] = 2 * pow2[k] /\ pow2[k] \in Nat \ {0}
    BY Zenon, <1>1, Pow2Step
  <2> QED BY Zenon, <1>1, <2>1
<1>3. p \in Nat /\ q \in Nat
  <2>1. num_processes \in Nat
    BY LevelsAssumption, Pow2Assumption DEF num_processes
  <2> QED BY <2>1, ProcsAssumption
<1>4. pow2[i] \in Nat
  BY Zenon, <1>1, Pow2Assumption
<1>5. Node(p, i) = (p \div (2 * a)) + pow2[i] - 1
      /\ Node(q, i) = (q \div (2 * a)) + pow2[i] - 1
  BY Zenon, <1>2 DEF Node
<1>6. Role(p, i) = (p \div a) % 2 /\ Role(q, i) = (q \div a) % 2
  BY Zenon DEF Role
<1>7. p \div (2 * a) = (p \div a) \div 2 /\ q \div (2 * a) = (q \div a) \div 2
  BY Zenon, <1>2, <1>3, DivTwo
<1> DEFINE dp == p \div a
<1> DEFINE dq == q \div a
<1>8. dp \in Nat /\ dq \in Nat
  BY Zenon, <1>2, <1>3, SMT
<1>9. dp = dq
  <2>1. (dp \div 2) + pow2[i] - 1 = (dq \div 2) + pow2[i] - 1 /\ dp % 2 = dq % 2
    BY Zenon, <1>5, <1>6, <1>7
  <2> HIDE DEF dp, dq
  <2> QED BY Zenon, <1>8, <1>4, <2>1, SMT
<1>10. CASE i = num_levels - 1
  <2>1. a = 1
    BY <1>10, LevelsAssumption, Pow2Assumption
  <2>2. dp = p /\ dq = q
    BY Zenon, <1>3, <2>1, SMT
  <2> QED BY Zenon, <1>9, <2>2
<1>11. CASE i # num_levels - 1
  <2>1. i + 1 \in Levels
    BY <1>11, LevelsAssumption DEF Levels
  <2>2. Node(p, i + 1) = dp + pow2[i + 1] - 1 /\ Node(q, i + 1) = dq + pow2[i + 1] - 1
    BY Zenon, <1>1 DEF Node
  <2> QED BY Zenon, <2>1, <2>2, <1>9
<1> QED BY Zenon, <1>10, <1>11

-----------------------------------------------------------------------------
(***************************************************************************)
(* The inductive invariant                                                 *)
(***************************************************************************)
Climbing == {"acquire", "release"}

\* The kernel and the user program counters agree, and a call is about the
\* node of the level that the process is at.
InvControl ==
  \A p \in Procs :
    /\ upc[p] # "back"
    /\ pc[p] \in CreatePC => p = 0 /\ upc[p] = "create"
    /\ pc[p] = "d_clear" => p = 0 /\ upc[p] = "undo"
    /\ pc[p] \in AcquirePC => upc[p] = "acquire"
    /\ pc[p] = "r_flag" => upc[p] = "release"
    /\ upc[p] \in {"main", "create", "undo", "fork"} => p = 0
    /\ upc[p] \in Climbing =>
         IF pc[p] = "user" THEN ret[p] = 0
         ELSE id[p] = Node(p, lvl[p]) /\ role[p] = Role(p, lvl[p])

\* Processes are born in order, after tournament_create has its locks.
InvBirth ==
  /\ \A p \in Procs : p >= forked => upc[p] = "unborn"
  /\ upc[0] \in {"main", "create", "undo"} => forked = 1
  /\ upc[0] = "fork" => forked < num_processes

LowActive(n) == \A l \in 0 .. n - 1 : l \in Locks /\ active[l] = 1

\* petersonlock_create fills the table from below.
InvCreate ==
  /\ upc[0] = "main" => made = 0
  /\ upc[0] = "create" =>
       /\ made < num_processes - 1
       /\ LowActive(made)
       /\ pc[0] = "c_scan" =>
            id[0] \in 0 .. MAX_PETERSON_LOCKS /\ LowActive(id[0])
       /\ pc[0] \in CreatePC \ {"c_scan"} =>
            id[0] \in Locks /\ made <= id[0] /\ LowActive(id[0] + 1)
       /\ pc[0] = "user" /\ ret[0] >= 0 =>
            ret[0] \in Locks /\ made <= ret[0] /\ LowActive(ret[0] + 1)

\* From the first fork on, every node of the tree has an active lock.
InvActive ==
  forked > 1 \/ upc[0] \notin {"main", "create", "undo", "failed"} =>
    LowActive(num_processes - 1)

InvUndo ==
  /\ upc[0] = "undo" => made < num_processes - 1
  /\ \A k \in 0 .. made - 1 : lock_ids[k] \in Locks
  /\ pc[0] = "d_clear" => id[0] \in Locks

\* p waits in the loop of petersonlock_acquire at level i.
Waiting(p, i) == Trying(p, i) /\ pc[p] # "a_turn"

\* Whoever has or wants the lock of a node has its flag set.
InvFlag ==
  \A p \in Procs, i \in Levels :
    Won(p, i) \/ Trying(p, i) => flag[Node(p, i)][Role(p, i)] = 1

\* A node has one winner.
InvOne ==
  \A p, q \in Procs, i \in Levels :
    Won(p, i) /\ Won(q, i) /\ Node(p, i) = Node(q, i) => p = q

\* While a node has a winner, whoever waits there has given it the turn.
InvTurn ==
  \A p, q \in Procs, i \in Levels :
    /\ Won(p, i) /\ Waiting(q, i)
    /\ Node(p, i) = Node(q, i) /\ Role(p, i) # Role(q, i)
    => turn[Node(p, i)] = Role(p, i)

Inv ==
  /\ TypeOK
  /\ InvControl /\ InvBirth /\ InvCreate /\ InvActive /\ InvUndo
  /\ InvFlag /\ InvOne /\ InvTurn

-----------------------------------------------------------------------------
(***************************************************************************)
(* Preservation, action by action                                          *)
(***************************************************************************)
LEMMA TreeFacts ==
  /\ num_processes \in Nat \ {0, 1} /\ 0 \in Procs /\ num_levels \in Nat \ {0}
  /\ \A p \in Procs : p \in Nat /\ p < num_processes
  /\ \A p \in Procs, i \in Levels :
       Node(p, i) \in 0 .. num_processes - 2 /\ Role(p, i) \in Roles
<1>1. num_processes \in Nat \ {0, 1}
  <2>1. num_levels - 1 \in 0 .. num_levels - 1 /\ num_levels = num_levels - 1 + 1
    BY LevelsAssumption
  <2>2. pow2[num_levels - 1 + 1] = 2 * pow2[num_levels - 1] /\ pow2[num_levels - 1] \in Nat \ {0}
    BY Zenon, <2>1, Pow2Step
  <2> QED BY <2>1, <2>2 DEF num_processes
<1>2. \A p \in Procs, i \in Levels :
        Node(p, i) \in 0 .. num_processes - 2 /\ Role(p, i) \in Roles
  BY Zenon, NodeLock, NodeRange DEF Roles
<1> QED BY <1>1, <1>2, ProcsAssumption, LevelsAssumption

\* A step that leaves the flags, the turns and everybody's place in the tree
\* alone keeps the part of the invariant that is about the tree.
LEMMA TreeUnchanged ==
  ASSUME Inv, flag' = flag, turn' = turn,
         \A q \in Procs, i \in Levels :
           /\ Won(q, i)' <=> Won(q, i)
           /\ Trying(q, i)' <=> Trying(q, i)
           /\ Waiting(q, i)' <=> Waiting(q, i)
  PROVE  (InvFlag /\ InvOne /\ InvTurn)'
BY Zenon DEF Inv, InvFlag, InvOne, InvTurn, Node, Role

\* The first petersonlock_create() of tournament_create() keeps the invariant.
LEMMA CreateFirstStep ==
  ASSUME Inv, CreateFirst
  PROVE  Inv'
<1> USE DEF KernelPC, CreatePC, AcquirePC, Roles, UserPC, Climbing
<1> USE DEF CreateFirst, At, UGoto, CreateCall, Goto, lockVars
<1>1. TypeOKLock'
  BY DEF Inv, TypeOK, TypeOKLock
<1>2. TypeOKUser'
  BY Zenon DEF Inv, TypeOK, TypeOKUser
<1>3. InvControl'
  BY TreeFacts DEF Inv, TypeOK, TypeOKLock, TypeOKUser, InvControl, InvBirth
<1>4. InvBirth'
  BY TreeFacts DEF Inv, TypeOK, TypeOKUser, InvControl, InvBirth
<1>5. InvCreate'
  BY TreeFacts, TableAssumption
     DEF Inv, TypeOK, TypeOKLock, TypeOKUser, InvCreate, LowActive
<1>6. InvActive'
  BY Zenon, TreeFacts DEF Inv, TypeOK, TypeOKUser, InvBirth, InvActive, LowActive
<1>7. InvUndo'
  BY TreeFacts DEF Inv, TypeOK, TypeOKLock, TypeOKUser, InvControl, InvUndo
<1>8. \A q \in Procs, i \in Levels :
        /\ Won(q, i)' <=> Won(q, i)
        /\ Trying(q, i)' <=> Trying(q, i)
        /\ Waiting(q, i)' <=> Waiting(q, i)
  BY TreeFacts DEF Inv, TypeOK, TypeOKLock, TypeOKUser, Won, Trying, Waiting
<1>9. (InvFlag /\ InvOne /\ InvTurn)'
  BY Zenon, <1>8, TreeUnchanged
<1> QED BY Zenon, <1>1, <1>2, <1>3, <1>4, <1>5, <1>6, <1>7, <1>9 DEF Inv, TypeOK

\* So does every later one, which fills the table from below,
LEMMA CreateNextStep ==
  ASSUME Inv, CreateNext
  PROVE  Inv'
<1> USE DEF KernelPC, CreatePC, AcquirePC, Roles, UserPC, Climbing
<1> USE DEF CreateNext, At, UGoto, CreateCall, Goto, lockVars
<1>0. ret[0] \in Locks /\ made \in 0 .. num_processes - 2 /\ LowActive(made + 1)
  BY TreeFacts, TableAssumption
     DEF Inv, TypeOK, TypeOKLock, TypeOKUser, InvCreate, LowActive, Locks
<1>1. TypeOKLock'
  BY DEF Inv, TypeOK, TypeOKLock
<1>2. TypeOKUser'
  <2>1. lock_ids' \in [0 .. num_processes - 2 -> Locks \cup {-1}]
    BY Zenon, <1>0 DEF Inv, TypeOK, TypeOKUser
  <2>2. upc' \in [Procs -> UserPC] /\ lvl' \in [Procs -> Levels]
    BY Zenon DEF Inv, TypeOK, TypeOKUser
  <2>3. made' \in 0 .. num_processes - 1 /\ undone' \in 0 .. made'
    BY <1>0, TreeFacts DEF Inv, TypeOK, TypeOKUser
  <2> QED BY Zenon, <2>1, <2>2, <2>3 DEF Inv, TypeOK, TypeOKUser
<1>3. InvControl'
  BY TreeFacts DEF Inv, TypeOK, TypeOKLock, TypeOKUser, InvControl, InvBirth
<1>4. InvBirth'
  BY TreeFacts DEF Inv, TypeOK, TypeOKUser, InvControl, InvBirth
<1>5. InvCreate'
  BY <1>0, TreeFacts, TableAssumption
     DEF Inv, TypeOK, TypeOKLock, TypeOKUser, InvCreate, LowActive
<1>6. InvActive'
  BY <1>0, TreeFacts DEF Inv, TypeOK, TypeOKUser, InvBirth, InvActive, LowActive
<1>7. InvUndo'
  BY <1>0, TreeFacts DEF Inv, TypeOK, TypeOKLock, TypeOKUser, InvControl, InvUndo
<1>8. \A q \in Procs, i \in Levels :
        /\ Won(q, i)' <=> Won(q, i)
        /\ Trying(q, i)' <=> Trying(q, i)
        /\ Waiting(q, i)' <=> Waiting(q, i)
  BY SMTT(30), TreeFacts DEF Inv, TypeOK, TypeOKLock, TypeOKUser, Won, Trying, Waiting
<1>9. (InvFlag /\ InvOne /\ InvTurn)'
  BY Zenon, <1>8, TreeUnchanged
<1> QED BY Zenon, <1>1, <1>2, <1>3, <1>4, <1>5, <1>6, <1>7, <1>9 DEF Inv, TypeOK

\* and the loop that destroys what was created when the table is full.
LEMMA CreateUndoStep ==
  ASSUME Inv, CreateUndo
  PROVE  Inv'
<1> USE DEF KernelPC, CreatePC, AcquirePC, Roles, UserPC, Climbing
<1> USE DEF CreateUndo, At, UGoto, DestroyCall, Enter, Return, Goto, BadLock,
        tableVars, lockVars
<1>1. TypeOKLock'
  <2>1. undone < made => lock_ids[undone] \in Locks
    BY TreeFacts DEF Inv, TypeOK, TypeOKUser, InvUndo
  <2>2. UNCHANGED tableVars
    BY Zenon
  <2>3. pc' \in [Procs -> KernelPC]
    BY TreeFacts DEF Inv, TypeOK, TypeOKLock
  <2>4. id' \in [Procs -> Int]
    BY <2>1, TreeFacts, TableAssumption DEF Inv, TypeOK, TypeOKLock, Locks
  <2>5. role' \in [Procs -> Roles]
    BY Zenon, TreeFacts DEF Inv, TypeOK, TypeOKLock
  <2>6. ret' \in [Procs -> Int]
    BY TreeFacts DEF Inv, TypeOK, TypeOKLock
  <2> QED BY Zenon, <2>2, <2>3, <2>4, <2>5, <2>6 DEF Inv, TypeOK, TypeOKLock
<1>2. TypeOKUser'
  <2>1. upc' \in [Procs -> UserPC]
    BY Zenon, TreeFacts DEF Inv, TypeOK, TypeOKUser
  <2>2. undone' \in 0 .. made'
    BY TreeFacts DEF Inv, TypeOK, TypeOKUser
  <2> QED BY Zenon, <2>1, <2>2 DEF Inv, TypeOK, TypeOKUser
<1>3. InvControl'
  BY SMTT(30), TreeFacts DEF Inv, TypeOK, TypeOKLock, TypeOKUser, InvControl, InvBirth
<1>4. InvBirth'
  BY TreeFacts DEF Inv, TypeOK, TypeOKUser, InvControl, InvBirth
<1>5. InvCreate'
  BY TreeFacts DEF Inv, TypeOK, TypeOKLock, TypeOKUser, InvCreate
<1>6. InvActive'
  BY Zenon, TreeFacts DEF Inv, TypeOK, TypeOKUser, InvBirth, InvActive, LowActive
<1>7. InvUndo'
  BY TreeFacts DEF Inv, TypeOK, TypeOKLock, TypeOKUser, InvControl, InvCreate, InvUndo
<1>8. \A q \in Procs, i \in Levels :
        /\ Won(q, i)' <=> Won(q, i)
        /\ Trying(q, i)' <=> Trying(q, i)
        /\ Waiting(q, i)' <=> Waiting(q, i)
  BY SMTT(30), TreeFacts DEF Inv, TypeOK, TypeOKLock, TypeOKUser, Won, Trying, Waiting
<1>9. (InvFlag /\ InvOne /\ InvTurn)'
  BY Zenon, <1>8, TreeUnchanged
<1> QED BY Zenon, <1>1, <1>2, <1>3, <1>4, <1>5, <1>6, <1>7, <1>9 DEF Inv, TypeOK

\* The fork loop keeps the invariant: a child starts below its leaf.
LEMMA ForkStep ==
  ASSUME Inv, Fork
  PROVE  Inv'
<1> USE DEF KernelPC, CreatePC, AcquirePC, Roles, UserPC, Climbing
<1> USE DEF Fork, At, UGoto, lockVars
<1>0. forked \in Procs /\ forked # 0 /\ upc[forked] = "unborn" /\ upc[0] = "fork"
  <2>1. forked \in 1 .. num_processes /\ forked < num_processes /\ upc[0] = "fork"
    BY Zenon DEF Inv, TypeOK, TypeOKUser, InvBirth
  <2>2. forked \in Procs /\ forked # 0 /\ forked >= forked
    BY <2>1, TreeFacts, ProcsAssumption
  <2> QED BY Zenon, <2>1, <2>2 DEF Inv, InvBirth
<1>1. TypeOKLock'
  BY Zenon DEF Inv, TypeOK, TypeOKLock
<1>a. \A q \in Procs :
        /\ upc[q] # "unborn" /\ q # 0 => upc'[q] = upc[q]
        /\ upc[q] = "unborn" => upc'[q] \in {"unborn", "start"}
        /\ q = 0 => upc'[q] \in {"fork", "start", "failed"}
        /\ upc'[q] = upc[q] \/ upc[q] \in {"fork", "unborn"}
  BY Zenon, <1>0 DEF Inv, TypeOK, TypeOKUser
<1>2. TypeOKUser'
  <2>1. upc' \in [Procs -> UserPC]
    BY <1>0 DEF Inv, TypeOK, TypeOKUser
  <2>2. forked' \in 1 .. num_processes
    BY TreeFacts DEF Inv, TypeOK, TypeOKUser, InvBirth
  <2> QED BY Zenon, <2>1, <2>2 DEF Inv, TypeOK, TypeOKUser
<1>3. InvControl'
  BY SMTT(30), <1>a, <1>0, TreeFacts DEF Inv, TypeOK, TypeOKLock, TypeOKUser, InvControl
<1>4. InvBirth'
  BY <1>0, TreeFacts DEF Inv, TypeOK, TypeOKUser, InvBirth
<1>5. InvCreate'
  BY Zenon, <1>a, <1>0, TreeFacts DEF Inv, InvCreate
<1>6. InvActive'
  BY Zenon, <1>0 DEF Inv, InvActive, LowActive
<1>7. InvUndo'
  BY Zenon, <1>a, <1>0, TreeFacts DEF Inv, InvUndo
<1>8. \A q \in Procs, i \in Levels :
        /\ Won(q, i)' <=> Won(q, i)
        /\ Trying(q, i)' <=> Trying(q, i)
        /\ Waiting(q, i)' <=> Waiting(q, i)
  BY <1>a, <1>0, TreeFacts DEF Won, Trying, Waiting
<1>9. (InvFlag /\ InvOne /\ InvTurn)'
  BY Zenon, <1>8, TreeUnchanged
<1> QED BY Zenon, <1>1, <1>2, <1>3, <1>4, <1>5, <1>6, <1>7, <1>9 DEF Inv, TypeOK
\* The steps of a process that climbs or comes down change nobody's place in
\* the tree: a lock is had until the kernel takes its flag down, and is not
\* had until the kernel has let the process through.
LEMMA ClimbStep ==
  ASSUME Inv, NEW p \in Procs,
         AcquireFirst(p) \/ AcquireNext(p) \/ ReleaseFirst(p) \/ ReleaseNext(p)
  PROVE  Inv'
<1> USE DEF KernelPC, CreatePC, AcquirePC, Roles, UserPC, Climbing
<1> USE DEF At, UGoto, AcquireAt, ReleaseAt, AcquireCall, ReleaseCall, Enter,
        Return, Goto, BadLock, tableVars, lockVars
<1>0. /\ lvl[p] \in Levels /\ num_levels - 1 \in Levels
      /\ lvl[p] > 0 => lvl[p] - 1 \in Levels
      /\ lvl[p] + 1 < num_levels => lvl[p] + 1 \in Levels
  BY LevelsAssumption DEF Inv, TypeOK, TypeOKUser, Levels
<1>1. \A i \in Levels : ~BadLock(Node(p, i))
  <2>1. upc[p] \in {"start", "acquire", "release", "back"}
    BY Zenon DEF AcquireFirst, AcquireNext, ReleaseFirst, ReleaseNext
  <2>2. p # 0 => forked > 1
    <3>1. p \in Nat /\ forked \in Nat \ {0}
      BY TreeFacts DEF Inv, TypeOK, TypeOKUser
    <3>2. ~(p >= forked)
      BY Zenon, <2>1 DEF Inv, InvBirth
    <3> QED BY <3>1, <3>2
  <2>3. LowActive(num_processes - 1)
    BY SMTT(30), <2>1, <2>2 DEF Inv, InvActive
  <2> QED BY <2>3, TreeFacts DEF LowActive
<1>2. upc[p] # "back" /\ (upc[p] \in Climbing => ret[p] = 0)
  BY SMTT(30) DEF AcquireFirst, AcquireNext, ReleaseFirst, ReleaseNext, Inv, InvControl
\* What these steps do, whichever it is
<1>3. /\ UNCHANGED <<active, flag, turn, ret, lock_ids, made, undone, forked>>
      /\ pc[p] = "user"
      /\ \/ /\ upc[p] = "start" /\ upc' = [upc EXCEPT ![p] = "acquire"]
            /\ lvl' = [lvl EXCEPT ![p] = num_levels - 1]
            /\ pc' = [pc EXCEPT ![p] = "a_flag"]
            /\ id' = [id EXCEPT ![p] = Node(p, num_levels - 1)]
            /\ role' = [role EXCEPT ![p] = Role(p, num_levels - 1)]
         \/ /\ upc[p] = "acquire" /\ lvl[p] > 0 /\ UNCHANGED upc
            /\ lvl' = [lvl EXCEPT ![p] = lvl[p] - 1]
            /\ pc' = [pc EXCEPT ![p] = "a_flag"]
            /\ id' = [id EXCEPT ![p] = Node(p, lvl[p] - 1)]
            /\ role' = [role EXCEPT ![p] = Role(p, lvl[p] - 1)]
         \/ /\ upc[p] = "acquire" /\ lvl[p] = 0
            /\ upc' = [upc EXCEPT ![p] = "release"]
            /\ lvl' = [lvl EXCEPT ![p] = 0]
            /\ pc' = [pc EXCEPT ![p] = "r_flag"]
            /\ id' = [id EXCEPT ![p] = Node(p, 0)]
            /\ role' = [role EXCEPT ![p] = Role(p, 0)]
         \/ /\ upc[p] = "release" /\ lvl[p] + 1 < num_levels /\ UNCHANGED upc
            /\ lvl' = [lvl EXCEPT ![p] = lvl[p] + 1]
            /\ pc' = [pc EXCEPT ![p] = "r_flag"]
            /\ id' = [id EXCEPT ![p] = Node(p, lvl[p] + 1)]
            /\ role' = [role EXCEPT ![p] = Role(p, lvl[p] + 1)]
         \/ /\ upc[p] = "release" /\ ~(lvl[p] + 1 < num_levels)
            /\ upc' = [upc EXCEPT ![p] = "done"]
            /\ UNCHANGED <<lvl, pc, id, role>>
  <2>1. CASE AcquireFirst(p)
    BY SMTT(30), <2>1, <1>0, <1>1 DEF AcquireFirst
  <2>2. CASE AcquireNext(p)
    BY SMTT(30), <2>2, <1>0, <1>1, <1>2 DEF AcquireNext
  <2>3. CASE ReleaseFirst(p)
    BY SMTT(30), <2>3, <1>0, <1>1 DEF ReleaseFirst
  <2>4. CASE ReleaseNext(p)
    <3>1. upc[p] = "release" /\ pc[p] = "user" /\ ret[p] = 0
      BY Zenon, <2>4, <1>2, Zenon DEF ReleaseNext
    <3>2. CASE lvl[p] + 1 < num_levels
      <4>1. ~BadLock(Node(p, lvl[p] + 1))
        BY Zenon, <1>0, <1>1, <3>2, Zenon
      <4>2. ReleaseAt(p, lvl[p] + 1) /\ UNCHANGED upc /\ UNCHANGED <<lock_ids, made, undone, forked>>
        BY Zenon, <2>4, <3>1, <3>2, Zenon DEF ReleaseNext
      <4> QED BY SMTT(30), <3>1, <3>2, <4>1, <4>2
    <3>3. CASE ~(lvl[p] + 1 < num_levels)
      <4>1. ~(ret[p] < 0)
        BY <3>1
      <4>2. upc' = [upc EXCEPT ![p] = "done"] /\ UNCHANGED <<lockVars, lvl>>
            /\ UNCHANGED <<lock_ids, made, undone, forked>>
        BY Zenon, <2>4, <3>1, <3>3, <4>1, Zenon DEF ReleaseNext
      <4> QED BY SMTT(30), <3>1, <3>3, <4>2
    <3> QED BY Zenon, <3>2, <3>3
  <2> QED BY Zenon, <2>1, <2>2, <2>3, <2>4, <1>2
<1>4. TypeOKLock'
  <2>1. pc' \in [Procs -> KernelPC] /\ ret' \in [Procs -> Int]
    BY Zenon, <1>3 DEF Inv, TypeOK, TypeOKLock
  <2>2. id' \in [Procs -> Int] /\ role' \in [Procs -> Roles]
    BY <1>0, <1>3, TreeFacts DEF Inv, TypeOK, TypeOKLock
  <2> QED BY Zenon, <1>3, <2>1, <2>2 DEF Inv, TypeOK, TypeOKLock
<1>5. TypeOKUser'
  BY <1>0, <1>3 DEF Inv, TypeOK, TypeOKUser
<1>6. InvControl'
  BY SMTT(30), <1>0, <1>2, <1>3 DEF Inv, TypeOK, TypeOKLock, TypeOKUser, InvControl
<1>7. InvBirth'
  BY SMTT(30), <1>3, TreeFacts DEF Inv, TypeOK, TypeOKUser, InvControl, InvBirth
<1>8. InvCreate' /\ InvUndo'
  BY SMTT(30), <1>3, TreeFacts
     DEF Inv, TypeOK, TypeOKLock, TypeOKUser, InvCreate, InvUndo, LowActive
<1>9. InvActive'
  BY Zenon, <1>3, TreeFacts DEF Inv, TypeOK, TypeOKUser, InvActive, LowActive
<1>10. \A q \in Procs, i \in Levels :
        /\ Won(q, i)' <=> Won(q, i)
        /\ Trying(q, i)' <=> Trying(q, i)
        /\ Waiting(q, i)' <=> Waiting(q, i)
  <2> SUFFICES ASSUME NEW q \in Procs, NEW i \in Levels
               PROVE  /\ Won(q, i)' <=> Won(q, i)
                      /\ Trying(q, i)' <=> Trying(q, i)
                      /\ Waiting(q, i)' <=> Waiting(q, i)
    BY Zenon
  <2>1. CASE q # p
    BY SMTT(30), <1>3, <2>1 DEF Inv, TypeOK, TypeOKLock, TypeOKUser, Won, Trying, Waiting
  <2>2. CASE q = p
    <3>1. i \in 0 .. num_levels - 1 /\ lvl[p] \in 0 .. num_levels - 1
      BY Zenon, <1>0 DEF Levels
    <3> QED BY <1>2, <1>3, <2>2, <3>1, LevelsAssumption
            DEF Inv, TypeOK, TypeOKLock, TypeOKUser, Won, Trying, Waiting
  <2> QED BY Zenon, <2>1, <2>2
<1>11. (InvFlag /\ InvOne /\ InvTurn)'
  BY Zenon, <1>3, <1>10, TreeUnchanged
<1> QED BY Zenon, <1>4, <1>5, <1>6, <1>7, <1>8, <1>9, <1>11 DEF Inv, TypeOK
\* petersonlock_create and petersonlock_destroy run before anybody is in the
\* tree.
LEMMA CreateKernelStep ==
  ASSUME Inv, NEW p \in Procs, UNCHANGED userVars,
         CreateScan(p) \/ CreateFull(p) \/ CreateFlag0(p) \/ CreateFlag1(p)
           \/ CreateTurn(p) \/ DestroyClear(p)
  PROVE  Inv'
<1> USE DEF KernelPC, CreatePC, AcquirePC, Roles, UserPC, Climbing
<1> USE DEF userVars, Goto, Return
<1>0. /\ p = 0 /\ upc[0] \in {"create", "undo"} /\ forked = 1
      /\ upc[0] = "create" => pc[0] \in CreatePC
      /\ upc[0] = "undo" => pc[0] = "d_clear"
  BY Zenon, TreeFacts DEF CreateScan, CreateFull, CreateFlag0, CreateFlag1, CreateTurn,
         DestroyClear, Inv, InvControl, InvBirth
<1>1. TypeOKLock'
  <2>1. active' \in [Locks -> {0, 1}]
    BY Zenon DEF CreateScan, CreateFull, CreateFlag0, CreateFlag1, CreateTurn,
           DestroyClear, Inv, TypeOK, TypeOKLock
  <2>2. flag' \in [Locks -> [Roles -> {0, 1}]]
    BY DEF CreateScan, CreateFull, CreateFlag0, CreateFlag1, CreateTurn,
           DestroyClear, Inv, TypeOK, TypeOKLock
  <2>3. turn' \in [Locks -> Roles]
    BY Zenon DEF CreateScan, CreateFull, CreateFlag0, CreateFlag1, CreateTurn,
           DestroyClear, Inv, TypeOK, TypeOKLock
  <2>4. pc' \in [Procs -> KernelPC] /\ id' \in [Procs -> Int]
        /\ role' \in [Procs -> Roles] /\ ret' \in [Procs -> Int]
    BY DEF CreateScan, CreateFull, CreateFlag0, CreateFlag1, CreateTurn,
           DestroyClear, Inv, TypeOK, TypeOKLock
  <2> QED BY Zenon, <2>1, <2>2, <2>3, <2>4 DEF TypeOKLock
<1>2. TypeOKUser'
  BY Zenon DEF Inv, TypeOK, TypeOKUser
<1>3. InvControl'
  <2>1. \A q \in Procs : q # 0 => pc'[q] = pc[q] /\ id'[q] = id[q]
                                   /\ role'[q] = role[q] /\ ret'[q] = ret[q]
    BY <1>0 DEF CreateScan, CreateFull, CreateFlag0, CreateFlag1, CreateTurn,
           DestroyClear, Inv, TypeOK, TypeOKLock
  <2>2. pc'[0] \in CreatePC \cup {"user"} /\ (pc'[0] \in CreatePC => upc[0] = "create")
    BY <1>0 DEF CreateScan, CreateFull, CreateFlag0, CreateFlag1, CreateTurn,
           DestroyClear, Inv, TypeOK, TypeOKLock, InvControl
  <2> QED BY SMTT(30), <1>0, <2>1, <2>2 DEF Inv, InvControl, Node, Role
<1>4. InvBirth'
  BY Zenon DEF Inv, InvBirth
<1>5. InvCreate'
  <2> USE TreeFacts, TableAssumption, <1>0 DEF Inv, TypeOK, TypeOKLock,
          TypeOKUser, InvCreate, LowActive, Locks
  <2>1. CASE CreateScan(p) /\ active[id[p]] = 0
    <3>1. /\ upc[0] = "create" /\ pc[0] = "c_scan" /\ upc' = upc /\ made' = made
          /\ id[0] \in Locks /\ id' = id /\ pc' = [pc EXCEPT ![0] = "c_flag0"]
          /\ active' = [active EXCEPT ![id[0]] = 1] /\ active[id[0]] = 0
      BY <2>1 DEF CreateScan
    <3>2. made <= id[0]
      <4>1. made \in Nat /\ id[0] \in Nat
        BY <3>1
      <4>2. ~(id[0] < made)
        BY <3>1, <4>1
      <4> QED BY <4>1, <4>2
    <3>3. LowActive(made)' /\ LowActive(id[0] + 1)'
      BY <3>1
    <3>4. pc'[0] = "c_flag0"
      BY SMTT(30), <3>1
    <3> QED BY Zenon, <3>1, <3>2, <3>3, <3>4
  <2>2. CASE CreateScan(p) /\ active[id[p]] = 1
    BY SMTT(30), <2>2 DEF CreateScan
  <2>3. CASE CreateFull(p)
    BY SMTT(30), <2>3 DEF CreateFull
  <2>4. CASE CreateFlag0(p) \/ CreateFlag1(p)
    BY SMTT(30), <2>4 DEF CreateFlag0, CreateFlag1
  <2>5. CASE CreateTurn(p)
    BY SMTT(30), <2>5 DEF CreateTurn
  <2>6. CASE DestroyClear(p)
    BY Zenon, <2>6 DEF DestroyClear
  <2> QED BY Zenon, <2>1, <2>2, <2>3, <2>4, <2>5, <2>6 DEF CreateScan
<1>6. InvActive'
  BY SMTT(30), <1>0 DEF InvActive
<1>7. InvUndo'
  BY <1>0, TreeFacts DEF CreateScan, CreateFull, CreateFlag0, CreateFlag1,
     CreateTurn, DestroyClear, Inv, TypeOK, TypeOKLock, InvUndo
<1>8. \A q \in Procs : upc'[q] \notin Climbing
  BY <1>0, TreeFacts DEF Inv, InvBirth
<1>9. (InvFlag /\ InvOne /\ InvTurn)'
  BY ZenonT(40), <1>8 DEF InvFlag, InvOne, InvTurn, Won, Trying, Waiting
<1> QED BY Zenon, <1>1, <1>2, <1>3, <1>4, <1>5, <1>6, <1>7, <1>9 DEF Inv, TypeOK

\* Two processes that are at a node from the same side are the same process.
LEMMA Sides ==
  ASSUME Inv, NEW p \in Procs, NEW q \in Procs, NEW i \in Levels,
         Won(p, i) \/ Trying(p, i), Won(q, i) \/ Trying(q, i),
         Node(p, i) = Node(q, i), Role(p, i) = Role(q, i)
  PROVE  p = q
<1>1. CASE i + 1 \in Levels /\ Node(p, i + 1) = Node(q, i + 1)
  <2>1. Won(p, i + 1) /\ Won(q, i + 1)
    BY LevelsAssumption DEF Won, Trying, Inv, TypeOK, TypeOKUser, Levels
  <2> QED BY Zenon, <1>1, <2>1 DEF Inv, InvOne
<1> QED BY Zenon, <1>1, SameSide

\* A level is not below itself.
LEMMA NotBelowItself ==
  ASSUME NEW L \in Levels PROVE ~(L < L)
BY LevelsAssumption DEF Levels

\* Nodes of different levels are different.
LEMMA SameLevel ==
  ASSUME NEW p \in Procs, NEW q \in Procs, NEW i \in Levels, NEW j \in Levels,
         Node(p, i) = Node(q, j)
  PROVE  i = j
BY SMTT(30), NodeLevels, LevelsAssumption DEF Levels

\* The steps of petersonlock_acquire and petersonlock_release keep the part of
\* the invariant that is not about the tree.
LEMMA ClimbKernelFrame ==
  ASSUME Inv, NEW p \in Procs, UNCHANGED userVars,
         AcquireFlag(p) \/ AcquireTurn(p) \/ AcquireTestFlag(p)
           \/ AcquireTestTurn(p) \/ ReleaseFlag(p),
         NEW L \in Levels, L = lvl[p]
  PROVE  /\ TypeOK' /\ InvControl' /\ InvBirth'
         /\ InvCreate' /\ InvActive' /\ InvUndo'
         /\ id[p] = Node(p, L) /\ role[p] = Role(p, L)
         /\ id[p] \in Locks /\ role[p] \in Roles
<1> USE DEF KernelPC, CreatePC, AcquirePC, Roles, UserPC, Climbing
<1> USE DEF userVars, Goto, Return
<1>0. /\ pc[p] \in AcquirePC \cup {"r_flag"} /\ UNCHANGED <<active, id, role, userVars>>
      /\ \A q \in Procs \ {p} : pc'[q] = pc[q] /\ ret'[q] = ret[q]
      /\ pc' \in [Procs -> KernelPC] /\ ret' \in [Procs -> Int]
      /\ pc'[p] = "user" => ret'[p] = 0
      /\ pc[p] = "r_flag" => pc'[p] = "user"
      /\ pc[p] # "r_flag" => pc'[p] \in AcquirePC \cup {"user"}
  <2> USE DEF Inv, TypeOK, TypeOKLock
  <2>1. CASE AcquireFlag(p)
    BY Zenon, <2>1 DEF AcquireFlag
  <2>2. CASE AcquireTurn(p)
    BY Zenon, <2>2 DEF AcquireTurn
  <2>3. CASE AcquireTestFlag(p)
    BY <2>3 DEF AcquireTestFlag
  <2>4. CASE AcquireTestTurn(p)
    BY <2>4 DEF AcquireTestTurn
  <2>5. CASE ReleaseFlag(p)
    BY <2>5 DEF ReleaseFlag
  <2> QED BY Zenon, <2>1, <2>2, <2>3, <2>4, <2>5
<1>1. /\ upc[p] = IF pc[p] = "r_flag" THEN "release" ELSE "acquire"
      /\ id[p] = Node(p, lvl[p]) /\ role[p] = Role(p, lvl[p])
  BY Zenon, <1>0 DEF Inv, InvControl
<1>2. lvl[p] \in Levels /\ role[p] \in Roles
  BY Zenon, <1>1 DEF Inv, TypeOK, TypeOKUser, TypeOKLock
<1>3. id[p] \in Locks
  <2>1. p # 0 => forked > 1
    <3>1. p \in Nat /\ forked \in Nat \ {0}
      BY TreeFacts DEF Inv, TypeOK, TypeOKUser
    <3>2. ~(p >= forked)
      BY Zenon, <1>1 DEF Inv, InvBirth
    <3> QED BY <3>1, <3>2
  <2>2. LowActive(num_processes - 1)
    BY Zenon, <1>1, <2>1 DEF Inv, InvActive
  <2> QED BY <1>1, <1>2, <2>2, TreeFacts DEF LowActive
<1>4. TypeOKLock'
  <2>1. flag' \in [Locks -> [Roles -> {0, 1}]]
    BY SMTT(30) DEF AcquireFlag, AcquireTurn, AcquireTestFlag, AcquireTestTurn,
         ReleaseFlag, Inv, TypeOK, TypeOKLock
  <2>2. turn' \in [Locks -> Roles]
    BY <1>2 DEF AcquireFlag, AcquireTurn, AcquireTestFlag, AcquireTestTurn,
         ReleaseFlag, Other, Inv, TypeOK, TypeOKLock
  <2> QED BY SMTT(30), <1>0, <2>1, <2>2 DEF Inv, TypeOK, TypeOKLock
<1>5. TypeOKUser'
  BY SMTT(30) DEF Inv, TypeOK, TypeOKUser
<1>6. InvControl'
  BY <1>0, <1>1 DEF Inv, InvControl, Node, Role
<1>7. InvBirth'
  BY SMTT(30) DEF Inv, InvBirth
<1>8. InvCreate' /\ InvUndo'
  BY <1>0, <1>1, TreeFacts DEF Inv, InvCreate, InvUndo, LowActive
<1>9. InvActive'
  BY Zenon, <1>0 DEF Inv, InvActive, LowActive
<1> QED BY Zenon, <1>1, <1>2, <1>3, <1>4, <1>5, <1>6, <1>7, <1>8, <1>9, Zenon DEF TypeOK

\* What a kernel step of p does to the places in the tree: nothing to those
\* of the others, and at most its own current level for p.
LEMMA PlacesOfOthers ==
  ASSUME Inv, NEW p \in Procs, UNCHANGED userVars,
         AcquireFlag(p) \/ AcquireTurn(p) \/ AcquireTestFlag(p)
           \/ AcquireTestTurn(p) \/ ReleaseFlag(p),
         NEW q \in Procs, NEW i \in Levels, q # p \/ i # lvl[p]
  PROVE  /\ Won(q, i)' <=> Won(q, i)
         /\ Trying(q, i)' <=> Trying(q, i)
         /\ Waiting(q, i)' <=> Waiting(q, i)
<1>1. q # p => pc'[q] = pc[q] /\ ret'[q] = ret[q]
  BY DEF AcquireFlag, AcquireTurn, AcquireTestFlag, AcquireTestTurn,
         ReleaseFlag, Inv, TypeOK, TypeOKLock, Goto, Return
<1>2. upc' = upc /\ lvl' = lvl
  BY Zenon DEF userVars
<1> QED BY Zenon, <1>1, <1>2 DEF Won, Trying, Waiting

\* The store of the flag in petersonlock_acquire() keeps the invariant.
LEMMA AcquireFlagStep ==
  ASSUME Inv, NEW p \in Procs, UNCHANGED userVars, AcquireFlag(p)
  PROVE  Inv'
<1>0. PICK L \in Levels : L = lvl[p]
  BY Zenon DEF Inv, TypeOK, TypeOKUser
<1>1. /\ TypeOK' /\ InvControl' /\ InvBirth' /\ InvCreate' /\ InvActive' /\ InvUndo'
      /\ id[p] = Node(p, L) /\ role[p] = Role(p, L)
      /\ id[p] \in Locks /\ role[p] \in Roles
  BY Zenon, <1>0, ClimbKernelFrame
<1>i. ~(L < L)
  BY Zenon, NotBelowItself
<1>2. ~Won(p, L) /\ ~Won(p, L)' /\ ~Waiting(p, L) /\ ~Waiting(p, L)'
  BY Zenon, <1>0, <1>1, <1>i DEF AcquireFlag, Goto, userVars, Inv, TypeOK, TypeOKLock, InvControl, Won, Waiting, Trying
<1>3. \A q \in Procs, i \in Levels :
        (Won(q, i)' <=> Won(q, i)) /\ (Waiting(q, i)' <=> Waiting(q, i))
  BY Zenon, <1>0, <1>2, PlacesOfOthers
<1>4. InvFlag'
  <2> SUFFICES ASSUME NEW q \in Procs, NEW i \in Levels, (Won(q, i) \/ Trying(q, i))'
               PROVE  flag'[Node(q, i)][Role(q, i)] = 1
    BY Zenon DEF InvFlag, Node, Role
  <2>1. CASE q = p /\ i = L
    BY <1>1, <2>1 DEF AcquireFlag, Inv, TypeOK, TypeOKLock
  <2>2. CASE q # p \/ i # L
    <3>1. flag[Node(q, i)][Role(q, i)] = 1
      BY Zenon, <1>0, <2>2, PlacesOfOthers DEF Inv, InvFlag
    <3> QED BY <3>1, <1>1 DEF AcquireFlag, Inv, TypeOK, TypeOKLock
  <2> QED BY ZenonT(40), <2>1, <2>2
<1>5. InvOne' /\ InvTurn'
  <2>1. turn' = turn
    BY Zenon DEF AcquireFlag
  <2> QED BY <1>3, <2>1 DEF Inv, InvOne, InvTurn, Node, Role
<1> QED BY Zenon, <1>1, <1>4, <1>5 DEF Inv

\* So does the store of the turn: whoever has the node is given way to.
LEMMA AcquireTurnStep ==
  ASSUME Inv, NEW p \in Procs, UNCHANGED userVars, AcquireTurn(p)
  PROVE  Inv'
<1>0. PICK L \in Levels : L = lvl[p]
  BY Zenon DEF Inv, TypeOK, TypeOKUser
<1>1. /\ TypeOK' /\ InvControl' /\ InvBirth' /\ InvCreate' /\ InvActive' /\ InvUndo'
      /\ id[p] = Node(p, L) /\ role[p] = Role(p, L)
      /\ id[p] \in Locks /\ role[p] \in Roles
  BY ZenonT(40), <1>0, ClimbKernelFrame
<1>i. ~(L < L)
  BY Zenon, NotBelowItself
<1>2. ~Won(p, L) /\ ~Won(p, L)' /\ Trying(p, L) /\ Trying(p, L)'
  BY Zenon, <1>0, <1>1, <1>i DEF AcquireTurn, Goto, userVars, Inv, TypeOK, TypeOKLock, InvControl,
       AcquirePC, Won, Trying
<1>3. \A q \in Procs, i \in Levels :
        (Won(q, i)' <=> Won(q, i)) /\ (Trying(q, i)' <=> Trying(q, i))
  BY Zenon, <1>0, <1>2, PlacesOfOthers
<1>4. InvFlag' /\ InvOne'
  <2>1. flag' = flag
    BY Zenon DEF AcquireTurn
  <2> QED BY Zenon, <1>3, <2>1 DEF Inv, InvFlag, InvOne, Node, Role
<1>5. InvTurn'
  <2> SUFFICES ASSUME NEW w \in Procs, NEW q \in Procs, NEW i \in Levels,
                      Won(w, i), Waiting(q, i)',
                      Node(w, i) = Node(q, i), Role(w, i) # Role(q, i)
               PROVE  turn'[Node(w, i)] = Role(w, i)
    BY <1>3 DEF InvTurn, Node, Role
  <2>0. Role(w, i) \in {0, 1} /\ Role(q, i) \in {0, 1} /\ Role(p, L) \in {0, 1}
    BY Zenon, <1>1, TreeFacts DEF Roles
  <2>1. CASE Node(w, i) = id[p]
    <3>0. Node(w, i) = Node(p, L)
      BY Zenon, <1>1, <2>1
    <3>1. i = L
      BY Zenon, <3>0, SameLevel
    <3>2. turn'[Node(w, i)] = 1 - Role(p, L)
      BY Zenon, <1>1, <2>1 DEF AcquireTurn, Other, Inv, TypeOK, TypeOKLock
    <3>3. CASE Role(q, i) = Role(p, L)
      BY <2>0, <3>2, <3>3
    <3>4. CASE Role(q, i) # Role(p, L)
      <4>1. Role(w, i) = Role(p, L)
        BY Zenon, <2>0, <3>4
      <4>2. Node(w, L) = Node(p, L) /\ Role(w, L) = Role(p, L) /\ Won(w, L)
        BY Zenon, <1>1, <2>1, <3>1, <4>1
      <4>3. w = p
        BY ZenonT(40), <1>2, <4>2, Sides
      <4> QED BY Zenon, <1>2, <4>2, <4>3
    <3> QED BY SMTT(30), <3>3, <3>4
  <2>2. CASE Node(w, i) # id[p]
    <3>1. turn'[Node(w, i)] = turn[Node(w, i)]
      BY <1>1, <2>2 DEF AcquireTurn, Inv, TypeOK, TypeOKLock
    <3>2. Waiting(q, i)
      BY Zenon, <1>0, <1>1, <2>2, PlacesOfOthers
    <3> QED BY Zenon, <3>1, <3>2 DEF Inv, InvTurn
  <2> QED BY Zenon, <2>1, <2>2
<1> QED BY Zenon, <1>1, <1>4, <1>5 DEF Inv

\* Both tests of the loop, seen together: the process stays where it is, or
\* it is let through because the other side is not there or has the turn
\* against it.
LEMMA AcquireTestStep ==
  ASSUME Inv, NEW p \in Procs, UNCHANGED userVars,
         AcquireTestFlag(p) \/ AcquireTestTurn(p)
  PROVE  Inv'
<1>0. PICK L \in Levels : L = lvl[p]
  BY Zenon DEF Inv, TypeOK, TypeOKUser
<1>1. /\ TypeOK' /\ InvControl' /\ InvBirth' /\ InvCreate' /\ InvActive' /\ InvUndo'
      /\ id[p] = Node(p, L) /\ role[p] = Role(p, L)
      /\ id[p] \in Locks /\ role[p] \in Roles
  BY Zenon, <1>0, ClimbKernelFrame
<1>i. ~(L < L)
  BY Zenon, NotBelowItself
<1>2. flag' = flag /\ turn' = turn
  BY Zenon DEF AcquireTestFlag, AcquireTestTurn
<1>3. ~Won(p, L) /\ Trying(p, L) /\ Waiting(p, L)
  BY ZenonT(40), <1>0, <1>1, <1>i DEF AcquireTestFlag, AcquireTestTurn, Inv, InvControl, AcquirePC, Won,
       Trying, Waiting
<1>p. /\ \/ pc'[p] = "user"
         \/ pc'[p] \in {"a_test_flag", "a_test_turn"}
      /\ pc'[p] = "user" => ret'[p] = 0
      /\ upc'[p] = "acquire" /\ lvl'[p] = L
  BY <1>0, <1>1 DEF AcquireTestFlag, AcquireTestTurn, Goto, Return, userVars, Inv, TypeOK,
       TypeOKLock, InvControl, AcquirePC
<1>4. CASE pc'[p] # "user"
  <2>1. ~Won(p, L)' /\ Trying(p, L)' /\ Waiting(p, L)'
    BY Zenon, <1>i, <1>p, <1>4 DEF Won, Trying, Waiting, AcquirePC
  <2>2. \A q \in Procs, i \in Levels :
          /\ Won(q, i)' <=> Won(q, i)
          /\ Trying(q, i)' <=> Trying(q, i)
          /\ Waiting(q, i)' <=> Waiting(q, i)
    BY Zenon, <1>0, <1>3, <2>1, PlacesOfOthers
  <2> QED BY Zenon, <1>1, <1>2, <2>2, TreeUnchanged DEF Inv
<1>5. CASE pc'[p] = "user"
  <2>1. Won(p, L)' /\ ~Trying(p, L)' /\ ~Waiting(p, L)'
    BY Zenon, <1>i, <1>p, <1>5 DEF Won, Trying, Waiting, AcquirePC
  <2>2. \/ flag[id[p]][1 - role[p]] = 0
        \/ turn[id[p]] # 1 - role[p]
    BY Zenon, <1>5 DEF AcquireTestFlag, AcquireTestTurn, Goto, Return, Other, Inv,
         TypeOK, TypeOKLock
  <2>3. ASSUME NEW q \in Procs, q # p, Node(q, L) = Node(p, L)
        PROVE  ~Won(q, L) /\ (Waiting(q, L) => turn[Node(p, L)] = Role(p, L))
    <3>1. CASE Role(q, L) = Role(p, L)
      BY ZenonT(40), <1>3, <2>3, <3>1, Sides DEF Waiting
    <3>2. CASE Role(q, L) # Role(p, L)
      <4>0. Role(q, L) \in {0, 1} /\ Role(p, L) \in {0, 1}
        BY Zenon, TreeFacts DEF Roles
      <4>1. Role(q, L) = 1 - Role(p, L)
        BY <3>2, <4>0
      <4>2. CASE flag[id[p]][1 - role[p]] = 0
        <5>1. flag[Node(q, L)][Role(q, L)] = 0
          BY ZenonT(40), <1>1, <2>3, <4>1, <4>2
        <5>2. ~Won(q, L) /\ ~Trying(q, L)
          BY <5>1 DEF Inv, InvFlag
        <5> QED BY Zenon, <5>2 DEF Waiting
      <4>3. CASE turn[id[p]] # 1 - role[p]
        <5>1. turn[Node(p, L)] = Role(p, L)
          BY <1>1, <4>0, <4>3 DEF Inv, TypeOK, TypeOKLock, Roles
        <5>2. ~Won(q, L)
          BY ZenonT(40), <1>3, <2>3, <3>2, <5>1 DEF Inv, InvTurn
        <5> QED BY Zenon, <5>1, <5>2
      <4> QED BY Zenon, <2>2, <4>2, <4>3
    <3> QED BY Zenon, <3>1, <3>2
  <2>4. InvFlag'
    <3> SUFFICES ASSUME NEW q \in Procs, NEW i \in Levels, (Won(q, i) \/ Trying(q, i))'
                 PROVE  flag[Node(q, i)][Role(q, i)] = 1
      BY Zenon, <1>2 DEF InvFlag, Node, Role
    <3>1. Won(q, i) \/ Trying(q, i)
      BY Zenon, <1>0, <1>3, PlacesOfOthers
    <3>2. InvFlag
      BY Zenon DEF Inv
    <3> QED BY Zenon, <3>1, <3>2 DEF InvFlag
  <2>5. InvOne'
    <3> SUFFICES ASSUME NEW w \in Procs, NEW q \in Procs, NEW i \in Levels,
                        Won(w, i)', Won(q, i)', Node(w, i) = Node(q, i)
                 PROVE  w = q
      BY Zenon DEF InvOne, Node
    <3>1. CASE i = L /\ (w = p \/ q = p)
      <4>1. \A x \in Procs : x # p /\ Node(x, L) = Node(p, L) => ~Won(x, L)'
        BY Zenon, <1>0, <2>3, PlacesOfOthers
      <4> QED BY Zenon, <3>1, <4>1
    <3>2. CASE ~(i = L /\ (w = p \/ q = p))
      BY Zenon, <1>0, <3>2, PlacesOfOthers DEF Inv, InvOne
    <3> QED BY Zenon, <3>1, <3>2
  <2>6. InvTurn'
    <3> SUFFICES ASSUME NEW w \in Procs, NEW q \in Procs, NEW i \in Levels,
                        Won(w, i)', Waiting(q, i)',
                        Node(w, i) = Node(q, i), Role(w, i) # Role(q, i)
                 PROVE  turn[Node(w, i)] = Role(w, i)
      BY <1>2 DEF InvTurn, Node, Role
    <3>1. Waiting(q, i) /\ (q # p \/ i # L)
      BY Zenon, <1>0, <2>1, PlacesOfOthers
    <3>2. CASE w = p /\ i = L
      BY Zenon, <2>3, <3>1, <3>2
    <3>3. CASE w # p \/ i # L
      BY Zenon, <1>0, <3>1, <3>3, PlacesOfOthers DEF Inv, InvTurn
    <3> QED BY Zenon, <3>2, <3>3
  <2> QED BY Zenon, <1>1, <2>4, <2>5, <2>6 DEF Inv
<1> QED BY Zenon, <1>4, <1>5

\* petersonlock_release() keeps the invariant: the node has no winner then.
LEMMA ReleaseFlagStep ==
  ASSUME Inv, NEW p \in Procs, UNCHANGED userVars, ReleaseFlag(p)
  PROVE  Inv'
<1>0. PICK L \in Levels : L = lvl[p]
  BY Zenon DEF Inv, TypeOK, TypeOKUser
<1>1. /\ TypeOK' /\ InvControl' /\ InvBirth' /\ InvCreate' /\ InvActive' /\ InvUndo'
      /\ id[p] = Node(p, L) /\ role[p] = Role(p, L)
      /\ id[p] \in Locks /\ role[p] \in Roles
  BY Zenon, <1>0, ClimbKernelFrame
<1>i. ~(L < L)
  BY Zenon, NotBelowItself
<1>2. /\ Won(p, L) /\ ~Trying(p, L)
      /\ ~Won(p, L)' /\ ~Trying(p, L)' /\ ~Waiting(p, L)'
  BY Zenon, <1>0, <1>1, <1>i DEF ReleaseFlag, Return, userVars, Inv, TypeOK, TypeOKLock, InvControl,
         Won, Trying, Waiting
<1>3. InvFlag'
  <2> SUFFICES ASSUME NEW q \in Procs, NEW i \in Levels, (Won(q, i) \/ Trying(q, i))'
               PROVE  flag'[Node(q, i)][Role(q, i)] = 1
    BY Zenon DEF InvFlag, Node, Role
  <2>1. (q # p \/ i # L) /\ (Won(q, i) \/ Trying(q, i))
    BY Zenon, <1>0, <1>2, PlacesOfOthers
  <2>2. ~(Node(q, i) = id[p] /\ Role(q, i) = role[p])
    <3> SUFFICES ASSUME Node(q, i) = id[p], Role(q, i) = role[p] PROVE FALSE
      BY SMTT(30)
    <3>0. Node(q, i) = Node(p, L)
      BY Zenon, <1>1
    <3>1. i = L
      BY Zenon, <3>0, SameLevel
    <3> QED BY Zenon, <1>1, <1>2, <2>1, <3>1, Sides
  <2>3. flag[Node(q, i)][Role(q, i)] = 1
    BY Zenon, <2>1 DEF Inv, InvFlag
  <2> QED BY SMTT(30), <1>1, <2>2, <2>3 DEF ReleaseFlag, Inv, TypeOK, TypeOKLock
<1>4. \A q \in Procs, i \in Levels :
        (Won(q, i)' => Won(q, i)) /\ (Waiting(q, i)' => Waiting(q, i))
  BY Zenon, <1>0, <1>2, PlacesOfOthers
<1>5. InvOne' /\ InvTurn'
  <2>1. turn' = turn
    BY Zenon DEF ReleaseFlag
  <2> QED BY <1>4, <2>1 DEF Inv, InvOne, InvTurn, Node, Role
<1> QED BY Zenon, <1>1, <1>i, <1>3, <1>5 DEF Inv
-----------------------------------------------------------------------------
\* The invariant holds in every initial table,
LEMMA InitInv ==
  ASSUME Init PROVE Inv
<1> USE DEF KernelPC, CreatePC, AcquirePC, Roles, UserPC, Climbing
<1> USE DEF Init, NoCalls
<1>1. TypeOKLock
  BY TreeFacts DEF TypeOKLock
<1>2. TypeOKUser
  BY TreeFacts, LevelsAssumption DEF TypeOKUser, Levels
<1>3. InvControl /\ InvBirth
  BY TreeFacts DEF InvControl, InvBirth
<1>4. InvCreate /\ InvActive /\ InvUndo
  BY SMTT(30), TreeFacts DEF InvCreate, InvActive, InvUndo
<1>5. InvFlag /\ InvOne /\ InvTurn
  BY TreeFacts DEF InvFlag, InvOne, InvTurn, Won, Trying, Waiting
<1> QED BY Zenon, <1>1, <1>2, <1>3, <1>4, <1>5 DEF Inv, TypeOK

\* and every step of main() and of the four system calls keeps it.
LEMMA NextInv ==
  ASSUME Inv, [Next]_vars PROVE Inv'
<1>1. ASSUME NEW p \in Procs, KernelStep(p), UNCHANGED userVars PROVE Inv'
  BY Zenon, <1>1, CreateKernelStep, AcquireFlagStep, AcquireTurnStep, AcquireTestStep,
     ReleaseFlagStep DEF KernelStep
<1>2. ASSUME ParentStep PROVE Inv'
  BY Zenon, <1>2, CreateFirstStep, CreateNextStep, CreateUndoStep, ForkStep DEF ParentStep
<1>3. CASE UNCHANGED vars
  <2>1. UNCHANGED <<lockVars, userVars>>
    BY Zenon, <1>3 DEF vars
  <2>2. TypeOK'
    BY SMTT(30), <2>1 DEF lockVars, userVars, Inv, TypeOK, TypeOKLock, TypeOKUser
  <2>3. (InvControl /\ InvBirth)'
    BY SMTT(30), <2>1 DEF lockVars, userVars, Inv, InvControl, InvBirth, Node, Role
  <2>4. (InvCreate /\ InvActive /\ InvUndo)'
    BY Zenon, <2>1 DEF lockVars, userVars, Inv, InvCreate, InvActive, InvUndo, LowActive
  <2>5. \A q \in Procs, i \in Levels :
          /\ Won(q, i)' <=> Won(q, i)
          /\ Trying(q, i)' <=> Trying(q, i)
          /\ Waiting(q, i)' <=> Waiting(q, i)
    BY ZenonT(40), <2>1 DEF lockVars, userVars, Won, Trying, Waiting
  <2>6. flag' = flag /\ turn' = turn
    BY Zenon, <2>1 DEF lockVars
  <2>7. (InvFlag /\ InvOne /\ InvTurn)'
    BY Zenon, <2>5, <2>6, TreeUnchanged
  <2> QED BY Zenon, <2>2, <2>3, <2>4, <2>7 DEF Inv
<1> QED BY Zenon, <1>1, <1>2, <1>3, ClimbStep DEF Next, ProcStep, Terminated

\* The state of the lock table and of the processes stays within its types.
THEOREM TypeCorrect == Spec => []TypeOK
<1>1. Init => Inv
  BY Zenon, InitInv
<1>2. Inv /\ [Next]_vars => Inv'
  BY Zenon, NextInv
<1>3. Inv => TypeOK
  BY DEF Inv
<1> QED BY <1>1, <1>2, <1>3, PTL DEF Spec

\* tournament_acquire excludes, for a tree of any depth and a lock table of
\* any size, whatever locks earlier programs left active: the root has one
\* winner because every node has.
THEOREM TournamentExcludes == Spec => []MutualExclusion
<1>1. Init => Inv
  BY Zenon, InitInv
<1>2. Inv /\ [Next]_vars => Inv'
  BY Zenon, NextInv
<1>3. Inv => MutualExclusion
  <2> SUFFICES ASSUME Inv, NEW p \in Procs, NEW q \in Procs, Won(p, 0), Won(q, 0)
               PROVE  p = q
    BY Zenon DEF MutualExclusion, InCS
  <2>1. 0 \in Levels /\ num_levels - 0 = num_levels
    BY LevelsAssumption DEF Levels
  <2>2. Node(p, 0) = Node(q, 0)
    <3>1. Node(p, 0) \in 0 .. 0 /\ Node(q, 0) \in 0 .. 0
      BY <2>1, NodeRange, Pow2Assumption
    <3> QED BY <3>1
  <2> QED BY <2>1, <2>2 DEF Inv, InvOne
<1> QED BY <1>1, <1>2, <1>3, PTL DEF Spec

\* At every node Peterson's precondition holds: at most one process per side.
THEOREM TournamentOnePerSide == Spec => []OnePerSide
<1>1. Init => Inv
  BY Zenon, InitInv
<1>2. Inv /\ [Next]_vars => Inv'
  BY Zenon, NextInv
<1>3. Inv => OnePerSide
  BY Sides DEF OnePerSide
<1> QED BY <1>1, <1>2, <1>3, PTL DEF Spec

\* No peterson_acquire or peterson_release of a lone tournament fails.
THEOREM TournamentCallsSucceed == Spec => []CallsSucceed
<1>1. Init => Inv
  BY Zenon, InitInv
<1>2. Inv /\ [Next]_vars => Inv'
  BY Zenon, NextInv
<1>3. Inv => CallsSucceed
  BY DEF Inv, InvControl, CallsSucceed, Climbing
<1> QED BY <1>1, <1>2, <1>3, PTL DEF Spec
-----------------------------------------------------------------------------
(***************************************************************************)
(* The tournament implements the abstract lock                             *)
(***************************************************************************)

\* What a step of p does to the lock as its clients see it.
LEMMA LockStates ==
  ASSUME Inv, NEW p \in Procs, ProcStep(p)
  PROVE  /\ \A q \in Procs \ {p} : LockState(q)' = LockState(q)
         /\ \/ LockState(p)' = LockState(p)
            \/ LockState(p) = "out" /\ LockState(p)' = "want"
            \/ LockState(p) = "want" /\ LockState(p)' = "in"
            \/ LockState(p) = "in" /\ LockState(p)' = "out"
<1> USE DEF KernelPC, CreatePC, AcquirePC, Roles, UserPC, Climbing
<1> USE DEF LockState, InCS, Won
<1>0. lvl \in [Procs -> 0 .. num_levels - 1] /\ num_levels \in Nat \ {0}
  BY Zenon, LevelsAssumption DEF Inv, TypeOK, TypeOKUser, Levels
<1>1. CASE ParentStep /\ p = 0
  <2>1. \A q \in Procs : /\ upc'[q] = "acquire" <=> upc[q] = "acquire"
                         /\ upc'[q] = "release" <=> upc[q] = "release"
                         /\ upc[q] \in Climbing => pc'[q] = pc[q] /\ ret'[q] = ret[q]
    <3>1. CASE CreateFirst
      BY <3>1 DEF CreateFirst, At, UGoto, CreateCall, Goto, lockVars, Inv,
         TypeOK, TypeOKLock, TypeOKUser
    <3>2. CASE CreateNext
      BY SMTT(30), <3>2 DEF CreateNext, At, UGoto, CreateCall, Goto, lockVars, Inv,
         TypeOK, TypeOKLock, TypeOKUser
    <3>3. CASE CreateUndo
      BY SMTT(30), <3>3 DEF CreateUndo, At, UGoto, DestroyCall, Enter, Return, Goto,
         lockVars, Inv, TypeOK, TypeOKLock, TypeOKUser
    <3>4. CASE Fork
      <4>1. upc[forked] = "unborn"
        <5>1. forked \in 1 .. num_processes /\ forked < num_processes
          BY Zenon, <3>4 DEF Fork, At, Inv, TypeOK, TypeOKUser, InvBirth
        <5>2. forked \in Procs /\ forked >= forked
          BY <5>1, TreeFacts, ProcsAssumption
        <5> QED BY Zenon, <5>2 DEF Inv, InvBirth
      <4> QED BY Zenon, <3>4, <4>1 DEF Fork, At, UGoto, lockVars, Inv, TypeOK, TypeOKUser
    <3> QED BY Zenon, <1>1, <3>1, <3>2, <3>3, <3>4 DEF ParentStep
  <2>2. lvl' = lvl
    BY Zenon, <1>1 DEF ParentStep, CreateFirst, CreateNext, CreateUndo, Fork
  <2> QED BY Zenon, <2>1, <2>2
<1>2. CASE KernelStep(p) /\ UNCHANGED userVars
  <2>1. \A q \in Procs \ {p} : pc'[q] = pc[q] /\ ret'[q] = ret[q]
    BY ZenonT(40), <1>2 DEF KernelStep, CreateScan, CreateFull, CreateFlag0, CreateFlag1,
       CreateTurn, AcquireFlag, AcquireTurn, AcquireTestFlag, AcquireTestTurn,
       ReleaseFlag, DestroyClear, Goto, Return, Inv, TypeOK, TypeOKLock
  <2>2. upc[p] = "release" => pc[p] = "r_flag" /\ pc'[p] = "user"
    BY ZenonT(40), <1>2 DEF KernelStep, CreateScan, CreateFull, CreateFlag0, CreateFlag1,
       CreateTurn, AcquireFlag, AcquireTurn, AcquireTestFlag, AcquireTestTurn,
       ReleaseFlag, DestroyClear, Goto, Return, Inv, TypeOK, TypeOKLock, InvControl
  <2>3. upc[p] = "acquire" => pc[p] # "user"
    BY Zenon, <1>2 DEF KernelStep, CreateScan, CreateFull, CreateFlag0, CreateFlag1,
       CreateTurn, AcquireFlag, AcquireTurn, AcquireTestFlag, AcquireTestTurn,
       ReleaseFlag, DestroyClear
  <2> QED BY Zenon, <1>0, <1>2, <2>1, <2>2, <2>3 DEF userVars
<1>3. CASE AcquireFirst(p) \/ AcquireNext(p) \/ ReleaseFirst(p) \/ ReleaseNext(p)
  <2> USE DEF At, UGoto, AcquireAt, ReleaseAt, AcquireCall, ReleaseCall, Enter,
          Return, Goto, lockVars
  <2>1. \A q \in Procs \ {p} : /\ pc'[q] = pc[q] /\ ret'[q] = ret[q]
                               /\ upc'[q] = upc[q] /\ lvl'[q] = lvl[q]
    BY ZenonT(40), <1>3 DEF AcquireFirst, AcquireNext, ReleaseFirst, ReleaseNext, Inv,
       TypeOK, TypeOKLock, TypeOKUser
  <2>2. Inv'
    BY Zenon, <1>3, ClimbStep
  <2>3. CASE AcquireFirst(p)
    <3>1. LockState(p) = "out" /\ upc'[p] = "acquire"
      BY SMTT(30), <2>3 DEF AcquireFirst, Inv, TypeOK, TypeOKUser
    <3>2. pc'[p] = "user" => lvl'[p] # 0 \/ ret'[p] # 0
      BY <2>3 DEF AcquireFirst, Inv, TypeOK, TypeOKLock
    <3>3. lvl'[p] \in 0 .. num_levels - 1
      BY SMTT(30), <2>2, LevelsAssumption DEF Inv, TypeOK, TypeOKUser, Levels
    <3>4. ~InCS(p)' /\ LockState(p)' = "want"
      BY <3>1, <3>2, <3>3
    <3> QED BY Zenon, <2>1, <3>1, <3>4
  <2>4. CASE AcquireNext(p)
    <3>0. ret[p] = 0
      BY SMTT(30), <2>4 DEF AcquireNext, Inv, InvControl
    <3>1. pc'[p] = "user" => ret'[p] # 0
      BY SMTT(30), <2>4, <3>0 DEF AcquireNext, Inv, TypeOK, TypeOKLock
    <3>2. lvl'[p] \in 0 .. num_levels - 1
      BY Zenon, <2>2, LevelsAssumption DEF Inv, TypeOK, TypeOKUser, Levels
    <3>3. upc[p] = "acquire" /\ upc'[p] = "acquire" /\ lvl[p] > 0
      BY SMTT(30), <2>4, <3>0 DEF AcquireNext
    <3>4. LockState(p) = "want" /\ LockState(p)' = "want"
      BY <1>0, <3>1, <3>2, <3>3
    <3> QED BY Zenon, <2>1, <3>4
  <2>6. CASE ReleaseFirst(p)
    <3>1. upc'[p] = "release" /\ lvl'[p] = 0
      BY Zenon, <2>6 DEF ReleaseFirst, Inv, TypeOK, TypeOKUser
    <3>2. upc[p] = "acquire" /\ lvl[p] = 0 /\ pc[p] = "user" /\ ret[p] = 0
      BY Zenon, <2>6 DEF ReleaseFirst
    <3> QED BY Zenon, <3>1, <3>2, <2>1
  <2>7. CASE ReleaseNext(p)
    <3>1. LockState(p) = "out"
      BY SMTT(30), <1>0, <2>7 DEF ReleaseNext, Inv, InvControl
    <3>2. upc'[p] # "acquire" /\ (lvl'[p] = 0 => pc'[p] # "r_flag")
      BY SMTT(30), <1>0, <2>7 DEF ReleaseNext, Inv, InvControl, TypeOK, TypeOKUser
    <3>3. lvl'[p] \in 0 .. num_levels - 1
      BY Zenon, <2>2, LevelsAssumption DEF Inv, TypeOK, TypeOKUser, Levels
    <3>4. LockState(p)' = "out"
      BY <3>2, <3>3
    <3> QED BY ZenonT(40), <2>1, <3>1, <3>4
  <2> QED BY Zenon, <1>3, <2>3, <2>4, <2>6, <2>7
<1> QED BY Zenon, <1>1, <1>2, <1>3 DEF ProcStep
\* Every step of the tournament is a step of the abstract lock or leaves it
\* unchanged.
LEMMA LockStep ==
  ASSUME Inv, Inv', [Next]_vars
  PROVE  [Lock!Next]_([p \in Procs |-> LockState(p)])
<1> DEFINE st == [p \in Procs |-> LockState(p)]
<1>1. CASE UNCHANGED vars
  BY Zenon, <1>1 DEF vars, lockVars, userVars, LockState, InCS, Won
<1>2. ASSUME NEW p \in Procs, ProcStep(p)
      PROVE  [Lock!Next]_st
  <2>1. st' = [st EXCEPT ![p] = LockState(p)']
    BY Zenon, <1>2, LockStates
  <2>2. CASE LockState(p)' = LockState(p)
    BY Zenon, <2>1, <2>2
  <2>3. CASE LockState(p) = "out" /\ LockState(p)' = "want"
    BY Zenon, <2>1, <2>3 DEF Lock!Next, Lock!Request
  <2>4. CASE LockState(p) = "want" /\ LockState(p)' = "in"
    <3>1. ASSUME NEW q \in Procs, st[q] = "in" PROVE FALSE
      <4>1. q # p /\ LockState(q) = "in" /\ LockState(q)' = "in"
        BY Zenon, <1>2, <2>4, <3>1, LockStates
      <4>2. Won(p, 0)' /\ Won(q, 0)'
        BY Zenon, <2>4, <4>1 DEF LockState, InCS
      <4>3. 0 \in Levels
        BY LevelsAssumption DEF Levels
      <4>4. Node(p, 0) = Node(q, 0)
        <5>1. Node(p, 0) \in 0 .. 0 /\ Node(q, 0) \in 0 .. 0
          BY <4>3, NodeRange, Pow2Assumption
        <5> QED BY <5>1
      <4> QED BY Zenon, <4>1, <4>2, <4>3, <4>4 DEF Inv, InvOne, Node
    <3> QED BY Zenon, <2>1, <2>4, <3>1 DEF Lock!Next, Lock!Grant
  <2>5. CASE LockState(p) = "in" /\ LockState(p)' = "out"
    BY Zenon, <2>1, <2>5 DEF Lock!Next, Lock!Leave
  <2> QED BY Zenon, <1>2, <2>2, <2>3, <2>4, <2>5, LockStates
<1> QED BY Zenon, <1>1, <1>2 DEF Next, Terminated

\* The tournament tree over the kernel's Peterson locks implements the
\* abstract lock of module Mutex for all its processes.
THEOREM TournamentImplementsLock == Spec => LockSafe
<1>1. Init => Inv
  BY Zenon, InitInv
<1>2. Inv /\ [Next]_vars => Inv'
  BY Zenon, NextInv
<1>3. Init => Lock!Init
  BY Zenon DEF Init, Lock!Init, LockState, InCS, Won
<1>4. Inv /\ Inv' /\ [Next]_vars => [Lock!Next]_([p \in Procs |-> LockState(p)])
  BY LockStep
<1> QED BY <1>1, <1>2, <1>3, <1>4, PTL DEF Spec, LockSafe, Lock!SafeSpec
-----------------------------------------------------------------------------
(***************************************************************************)
(* A tournament that fails gives back what it took                         *)
(***************************************************************************)

\* The inactive locks are the first n that tournament_create made.
Destroyed(n) ==
  \A l \in Locks : active[l] = 0 <=> \E k \in 0 .. n - 1 : lock_ids[k] = l

\* petersonlock_create fails on a full table, and the undo loop frees the locks
\* one by one, the one of a call that is under way not yet.
InvFailed ==
  /\ upc[0] \in {"main", "create"} => undone = 0
  /\ upc[0] = "create" /\ pc[0] = "user" /\ ret[0] < 0 => Destroyed(0)
  /\ upc[0] = "undo" /\ pc[0] = "user" => Destroyed(undone)
  /\ upc[0] = "undo" /\ pc[0] = "d_clear" =>
       undone > 0 /\ id[0] = lock_ids[undone - 1] /\ Destroyed(undone - 1)
  /\ upc[0] \notin {"main", "create", "undo", "failed"} => made = num_processes - 1
  /\ UndoExact

\* It is kept by a step that leaves the table and process 0 alone,
LEMMA FailedKept ==
  ASSUME InvFailed, UNCHANGED <<active, lock_ids, made, undone>>,
         upc'[0] = upc[0], pc'[0] = pc[0], ret'[0] = ret[0], id'[0] = id[0]
  PROVE  InvFailed'
BY Zenon DEF InvFailed, Destroyed, UndoExact

\* and by every step that leaves process 0 with all its locks created.
LEMMA FailedAll ==
  ASSUME made' = num_processes - 1, upc'[0] \notin {"main", "create", "undo"},
         num_processes \in Nat
  PROVE  InvFailed'
<1>1. ~(made' \in 1 .. num_processes - 2)
  OBVIOUS
<1> QED BY Zenon, <1>1 DEF InvFailed, UndoExact

\* main() keeps it: the loop of tournament_create() that destroys what was
\* created asks for one lock at a time, and stops when it has asked for all.
LEMMA FailedParent ==
  ASSUME Inv, InvFailed, ParentStep
  PROVE  InvFailed'
<1> USE DEF At, UGoto, Goto
<1>0. /\ 0 \in Procs /\ num_processes \in Nat
      /\ upc \in [Procs -> UserPC] /\ pc \in [Procs -> KernelPC]
      /\ id \in [Procs -> Int] /\ ret \in [Procs -> Int]
      /\ made \in Nat /\ undone \in Nat /\ undone <= made
  BY TreeFacts DEF Inv, TypeOK, TypeOKLock, TypeOKUser
<1>1. CASE CreateFirst
  <2>1. made' = 0 /\ undone' = 0 /\ ~(made' \in 1 .. num_processes - 2)
        /\ (upc'[0] = "failed" \/ (upc'[0] = "create" /\ pc'[0] = "c_scan"))
    BY <1>0, <1>1 DEF CreateFirst, CreateCall, Inv, InvCreate, InvFailed
  <2> QED BY Zenon, <2>1 DEF InvFailed, UndoExact
<1>2. CASE CreateNext
  <2>1. CASE made + 1 < num_processes - 1
    <3>1. undone' = 0 /\ upc'[0] = "create" /\ pc'[0] = "c_scan"
      BY Zenon, <1>0, <1>2, <2>1 DEF CreateNext, CreateCall, InvFailed
    <3> QED BY Zenon, <3>1 DEF InvFailed, UndoExact
  <2>2. CASE ~(made + 1 < num_processes - 1)
    <3>1. upc'[0] = "fork" /\ made' = made + 1 /\ upc[0] = "create"
      BY Zenon, <1>0, <1>2, <2>2 DEF CreateNext
    <3>2. made < num_processes - 1
      BY Zenon, <3>1 DEF Inv, InvCreate
    <3>3. made' = num_processes - 1
      BY <1>0, <2>2, <3>1, <3>2
    <3> QED BY Zenon, <1>0, <3>1, <3>3, FailedAll
  <2> QED BY Zenon, <2>1, <2>2
<1>3. CASE CreateUndo
  <2>1. Destroyed(undone) /\ pc[0] = "user"
    BY Zenon, <1>3 DEF CreateUndo, InvFailed
  <2>2. UNCHANGED <<active, lock_ids, made>>
    BY Zenon, <1>3 DEF CreateUndo, DestroyCall, Enter, tableVars, lockVars
  <2>3. CASE undone < made
    <3>1. undone' = undone + 1 /\ upc'[0] = "undo" /\ id'[0] = lock_ids[undone]
      BY Zenon, <1>0, <1>3, <2>3 DEF CreateUndo, DestroyCall, Enter
    <3>2. undone' > 0 /\ undone' - 1 = undone
      BY <1>0, <3>1
    <3>3. \/ pc'[0] = "d_clear"
          \/ pc'[0] = "user" /\ BadLock(lock_ids[undone])
      BY Zenon, <1>0, <1>3, <2>3 DEF CreateUndo, DestroyCall, Enter, Return
    <3>4. CASE pc'[0] = "d_clear"
      <4>1. Destroyed(undone - 1)'
        BY Zenon, <2>1, <2>2, <3>2 DEF Destroyed
      <4> QED BY Zenon, <2>2, <3>1, <3>2, <3>4, <4>1 DEF InvFailed, UndoExact
    <3>5. CASE pc'[0] = "user" /\ BadLock(lock_ids[undone])
      <4>1. lock_ids[undone] \in Locks
        BY <1>0, <2>3 DEF Inv, InvUndo
      <4>2. active[lock_ids[undone]] = 0
        BY Zenon, <3>5, <4>1 DEF BadLock
      <4>3. \A k : k \in 0 .. undone' - 1 <=> k \in 0 .. undone - 1 \/ k = undone
        BY <1>0, <3>1
      <4>4. Destroyed(undone)'
        BY Zenon, <2>1, <2>2, <4>2, <4>3 DEF Destroyed
      <4> QED BY Zenon, <2>2, <3>1, <3>5, <4>4 DEF InvFailed, UndoExact
    <3> QED BY Zenon, <3>3, <3>4, <3>5
  <2>4. CASE ~(undone < made)
    <3>1. undone = made /\ upc'[0] = "failed"
      BY <1>0, <1>3, <2>4 DEF CreateUndo
    <3>2. Destroyed(made)'
      BY Zenon, <2>1, <2>2, <3>1 DEF Destroyed
    <3> QED BY Zenon, <3>1, <3>2 DEF InvFailed, UndoExact, Destroyed
  <2> QED BY Zenon, <2>3, <2>4
<1>4. CASE Fork
  <2>1. upc[0] = "fork" /\ made' = made
    BY Zenon, <1>4 DEF Fork
  <2>2. forked # 0
    BY DEF Inv, TypeOK, TypeOKUser
  <2>3. upc'[0] \in {"fork", "start", "failed"}
    BY Zenon, <1>0, <1>4, <2>1, <2>2 DEF Fork
  <2>4. made' = num_processes - 1
    BY Zenon, <2>1 DEF InvFailed
  <2> QED BY Zenon, <1>0, <2>3, <2>4, FailedAll
<1> QED BY Zenon, <1>1, <1>2, <1>3, <1>4 DEF ParentStep

\* The kernel keeps it: petersonlock_create() gives up only after it has found
\* every lock active, and petersonlock_destroy() frees one lock.
LEMMA FailedKernel ==
  ASSUME Inv, InvFailed, NEW p \in Procs, KernelStep(p), UNCHANGED userVars
  PROVE  InvFailed'
<1> USE DEF userVars, Goto, Return
<1>0. /\ 0 \in Procs /\ num_processes \in Nat
      /\ active \in [Locks -> {0, 1}]
      /\ upc \in [Procs -> UserPC] /\ pc \in [Procs -> KernelPC]
      /\ id \in [Procs -> Int] /\ ret \in [Procs -> Int]
      /\ made \in Nat /\ undone \in Nat /\ undone <= made
  BY TreeFacts DEF Inv, TypeOK, TypeOKLock, TypeOKUser
<1>1. CASE CreateScan(p) \/ CreateFlag0(p) \/ CreateFlag1(p)
  <2>1. p = 0 /\ upc[0] = "create"
    BY Zenon, <1>1 DEF CreateScan, CreateFlag0, CreateFlag1, CreatePC, Inv, InvControl
  <2>2. pc'[0] # "user"
    BY Zenon, <1>0, <1>1, <2>1 DEF CreateScan, CreateFlag0, CreateFlag1
  <2> QED BY Zenon, <2>1, <2>2 DEF InvFailed, UndoExact
<1>2. CASE CreateTurn(p)
  <2>1. p = 0 /\ upc[0] = "create" /\ pc[0] = "c_turn"
    BY Zenon, <1>2 DEF CreateTurn, CreatePC, Inv, InvControl
  <2>2. id[0] \in Locks
    BY Zenon, <2>1 DEF CreatePC, Inv, InvCreate
  <2>3. ~(ret'[0] < 0)
    BY <1>0, <1>2, <2>1, <2>2, TableAssumption DEF CreateTurn, Locks
  <2> QED BY Zenon, <2>1, <2>3 DEF InvFailed, UndoExact
<1>3. CASE CreateFull(p)
  <2>1. p = 0 /\ upc[0] = "create" /\ pc[0] = "c_scan" /\ active' = active
    BY Zenon, <1>3 DEF CreateFull, CreatePC, Inv, InvControl
  <2>2. id[0] \in 0 .. MAX_PETERSON_LOCKS /\ LowActive(id[0])
    BY Zenon, <2>1 DEF CreatePC, Inv, InvCreate
  <2>3. id[0] = MAX_PETERSON_LOCKS
    BY <1>3, <2>1, <2>2, TableAssumption DEF CreateFull
  <2>4. \A l \in Locks : active[l] # 0
    BY <2>2, <2>3 DEF LowActive, Locks
  <2>5. \A k : k \notin 0 .. 0 - 1
    OBVIOUS
  <2>6. Destroyed(0)'
    BY Zenon, <2>1, <2>4, <2>5 DEF Destroyed
  <2> QED BY Zenon, <2>1, <2>6 DEF InvFailed, UndoExact
<1>4. CASE AcquireFlag(p) \/ AcquireTurn(p) \/ AcquireTestFlag(p)
           \/ AcquireTestTurn(p) \/ ReleaseFlag(p)
  <2>1. active' = active /\ id' = id
    BY Zenon, <1>4 DEF AcquireFlag, AcquireTurn, AcquireTestFlag, AcquireTestTurn, ReleaseFlag
  <2>2. CASE p = 0
    <3>1. upc[0] \in Climbing
      BY Zenon, <1>4, <2>2 DEF AcquireFlag, AcquireTurn, AcquireTestFlag,
         AcquireTestTurn, ReleaseFlag, AcquirePC, Climbing, Inv, InvControl
    <3>2. made = num_processes - 1 /\ upc[0] \notin {"main", "create", "undo"}
      BY Zenon, <3>1 DEF Climbing, InvFailed
    <3> QED BY Zenon, <1>0, <3>2, FailedAll
  <2>3. CASE p # 0
    <3>1. pc'[0] = pc[0] /\ ret'[0] = ret[0]
      BY Zenon, <1>0, <1>4, <2>3 DEF AcquireFlag, AcquireTurn, AcquireTestFlag,
         AcquireTestTurn, ReleaseFlag
    <3> QED BY Zenon, <2>1, <3>1, FailedKept
  <2> QED BY Zenon, <2>2, <2>3
<1>5. CASE DestroyClear(p)
  <2>1. p = 0 /\ upc[0] = "undo" /\ pc[0] = "d_clear"
    BY Zenon, <1>5 DEF DestroyClear, Inv, InvControl
  <2>2. pc'[0] = "user" /\ active' = [active EXCEPT ![id[0]] = 0]
    BY Zenon, <1>0, <1>5, <2>1 DEF DestroyClear
  <2>3. undone > 0 /\ id[0] = lock_ids[undone - 1] /\ Destroyed(undone - 1)
    BY Zenon, <2>1 DEF InvFailed
  <2>4. \A k : k \in 0 .. undone - 1 <=> k \in 0 .. (undone - 1) - 1 \/ k = undone - 1
    BY <1>0, <2>3
  <2>5. \A l \in Locks : active'[l] = 0 <=> active[l] = 0 \/ l = id[0]
    BY Zenon, <1>0, <2>2
  <2>6. Destroyed(undone)'
    BY Zenon, <2>3, <2>4, <2>5 DEF Destroyed
  <2> QED BY Zenon, <2>1, <2>2, <2>6 DEF InvFailed, UndoExact
<1> QED BY Zenon, <1>1, <1>2, <1>3, <1>4, <1>5 DEF KernelStep

\* So do the steps of tournament_acquire() and tournament_release().
LEMMA FailedClimb ==
  ASSUME Inv, InvFailed, NEW p \in Procs,
         AcquireFirst(p) \/ AcquireNext(p) \/ ReleaseFirst(p) \/ ReleaseNext(p)
  PROVE  InvFailed'
<1> USE DEF At, UGoto, AcquireAt, ReleaseAt, AcquireCall, ReleaseCall, Enter,
        Return, Goto, tableVars, lockVars
<1>0. /\ 0 \in Procs /\ num_processes \in Nat
      /\ upc \in [Procs -> UserPC] /\ pc \in [Procs -> KernelPC]
      /\ id \in [Procs -> Int] /\ ret \in [Procs -> Int]
  BY TreeFacts DEF Inv, TypeOK, TypeOKLock, TypeOKUser
<1>1. UNCHANGED <<active, lock_ids, made, undone>>
  BY Zenon DEF AcquireFirst, AcquireNext, ReleaseFirst, ReleaseNext
<1>2. CASE p = 0
  <2>1. upc[0] \in {"start", "acquire", "release", "back"}
    BY Zenon, <1>2 DEF AcquireFirst, AcquireNext, ReleaseFirst, ReleaseNext
  <2>2. upc'[0] \notin {"main", "create", "undo"}
    BY Zenon, <1>0, <1>2, <2>1 DEF AcquireFirst, AcquireNext, ReleaseFirst, ReleaseNext
  <2>3. made' = num_processes - 1
    BY Zenon, <1>1, <2>1 DEF InvFailed
  <2> QED BY Zenon, <1>0, <2>2, <2>3, FailedAll
<1>3. CASE p # 0
  <2>1. upc'[0] = upc[0] /\ pc'[0] = pc[0] /\ ret'[0] = ret[0] /\ id'[0] = id[0]
    BY ZenonT(40), <1>0, <1>3 DEF AcquireFirst, AcquireNext, ReleaseFirst, ReleaseNext
  <2> QED BY Zenon, <1>1, <2>1, FailedKept
<1> QED BY Zenon, <1>2, <1>3

\* A tournament_create() that meets a full table gives back exactly the locks it
\* got, for every depth of the tree and whatever locks other programs hold.
THEOREM FailedCreateGivesBack == Spec => []UndoExact
<1>1. Init => Inv /\ InvFailed
  <2>1. ASSUME Init PROVE InvFailed
    <3>1. upc[0] = "main" /\ undone = 0
      BY Zenon, <2>1, TreeFacts DEF Init
    <3> QED BY Zenon, <3>1 DEF InvFailed, UndoExact
  <2> QED BY Zenon, <2>1, InitInv
<1>2. Inv /\ InvFailed /\ [Next]_vars => (Inv /\ InvFailed)'
  <2> SUFFICES ASSUME Inv, InvFailed, [Next]_vars PROVE (Inv /\ InvFailed)'
    BY Zenon
  <2>1. UNCHANGED vars => InvFailed'
    BY Zenon, FailedKept DEF vars, lockVars, userVars
  <2>2. InvFailed'
    BY Zenon, <2>1, FailedParent, FailedKernel, FailedClimb DEF Next, ProcStep, Terminated
  <2> QED BY Zenon, <2>2, NextInv
<1>3. InvFailed => UndoExact
  BY Zenon DEF InvFailed
<1> QED BY <1>1, <1>2, <1>3, PTL DEF Spec
=============================================================================
