----------------------------- MODULE Proc_proofs -----------------------------
(***************************************************************************)
(* Processes, for any number of slots, CPUs and process ids: a kernel      *)
(* stack is used by one CPU at a time, no exit of a child is missed by a   *)
(* parent that sleeps in wait(), and every process has a live parent.      *)
(***************************************************************************)
EXTENDS Proc, TLAPS

States == {"UNUSED", "USED", "SLEEPING", "RUNNABLE", "RUNNING", "ZOMBIE"}
Forking == {"f_copy", "f_parent", "f_run"}
Exiting == {"x_reparent", "x_wake_init", "x_wake_parent", "x_zombie", "x_release"}
Waiting == {"w_scan", "w_killed", "w_sleep", "s_release"}
Places == {"user", "ret", "f_alloc", "k_scan", "w_lock", "x_lock"}
            \cup Forking \cup Exiting \cup Waiting
Free == {"UNUSED", "USED"}

TypeOK ==
  /\ state \in [Slots -> States] /\ chan \in [Slots -> Slots \cup {NoProc}]
  /\ parent \in [Slots -> Slots \cup {NoProc}]
  /\ lock \in [Slots -> CPUs \cup {NoCpu}]
  /\ cproc \in [CPUs -> Slots \cup {NoProc}] /\ on \in [CPUs -> Slots \cup {NoProc}]
  /\ next \in [CPUs -> Slots]
  /\ pc \in [Slots -> Places]
  /\ after \in [Slots -> {"none", "forkret", "yield", "sleep", "exit"}]
  /\ i \in [Slots -> 0 .. NPROC] /\ w \in [Slots -> 0 .. NPROC]
  /\ arg \in [Slots -> Nat]

(***************************************************************************)
(* The inductive invariant                                                 *)
(***************************************************************************)

\* What holds of the process p that belongs to CPU c, from the moment
\* scheduler() chooses it until that scheduler has its lock back: the lock is
\* held while the process switches.
Owned(c, p) ==
  /\ state[p] \notin Free
  /\ on[c] = NoProc => after[p] # "none" /\ state[p] # "RUNNING"
  /\ after[p] # "none" \/ pc[p] \in {"s_release", "x_release"} => lock[p] = c
  /\ on[c] # NoProc /\ after[p] = "none" /\ pc[p] # "x_release" => state[p] = "RUNNING"

\* A process belongs to one CPU.
InvCpu ==
  /\ \A c \in CPUs : on[c] # NoProc => cproc[c] = on[c]
  /\ \A c, d \in CPUs : cproc[c] = cproc[d] /\ cproc[c] # NoProc => c = d
  /\ \A c \in CPUs : cproc[c] # NoProc => Owned(c, cproc[c])

\* What the state of a slot says about the thread of its process.
Consistent(p) ==
  /\ state[p] \in {"USED", "RUNNABLE", "SLEEPING"} => after[p] # "none"
  /\ state[p] \in Free => pc[p] = "user"
  /\ state[p] = "ZOMBIE" => pc[p] \in {"user", "x_release"}
  /\ state[p] = "ZOMBIE" /\ pc[p] = "user" => after[p] = "exit"
  /\ pc[p] = "x_release" => state[p] = "ZOMBIE"
  /\ state[p] = "SLEEPING" => chan[p] = p

InvState == \A p \in Slots : Consistent(p)

Holding == Waiting \cup Exiting

\* wait_lock is held by the CPU that runs a process in wait() or exit().
HoldsWaitLock(p) ==
  pc[p] \in Holding => after[p] = "none" /\ \E c \in CPUs : on[c] = p /\ wait_lock = c

InvWait == \A p \in Slots : HoldsWaitLock(p)

\* The slot that fork() fills belongs to one parent.
Fills(p) ==
  pc[p] \in Forking =>
    /\ arg[p] \in Slots /\ state[arg[p]] = "USED"
    /\ parent[arg[p]] = IF pc[p] = "f_run" THEN p ELSE NoProc

InvFork ==
  /\ \A p \in Slots : Fills(p)
  /\ \A p, q \in Slots : pc[p] \in Forking /\ pc[q] \in Forking /\ arg[p] = arg[q] => p = q

\* Parents are live, and every process but init has one.
InvParent ==
  /\ \A q \in Slots : parent[q] # NoProc =>
       /\ parent[q] # q /\ state[q] # "UNUSED"
       /\ state[parent[q]] \notin Free \cup {"ZOMBIE"}
  /\ \A q \in Slots \ {initproc} : state[q] \notin Free => parent[q] # NoProc
  /\ parent[initproc] = NoProc /\ state[initproc] \notin Free \cup {"ZOMBIE"}
  /\ pc[initproc] \notin Exiting

\* An exiting process gives away its children before it is a zombie.
GivesAway(p) ==
  /\ pc[p] = "x_reparent" => \A q \in Slots : q < i[p] => parent[q] # p
  /\ pc[p] = "x_wake_init" => i[p] < NPROC /\ \A q \in Slots : q <= i[p] => parent[q] # p
  /\ pc[p] \in {"x_wake_parent", "x_zombie", "x_release"} => \A q \in Slots : parent[q] # p

InvReparent == \A p \in Slots : GivesAway(p)

\* Who looks for zombies has found none so far, and who will be one has woken
\* its parent.
Scans(p) ==
  /\ pc[p] = "w_scan" => \A q \in Slots : q < i[p] /\ parent[q] = p => state[q] # "ZOMBIE"
  /\ pc[p] \in {"w_killed", "w_sleep", "s_release"} =>
       \A q \in Slots : parent[q] = p => state[q] # "ZOMBIE"
  /\ pc[p] = "x_wake_parent" /\ parent[p] < w[p] => state[parent[p]] # "SLEEPING"
  /\ pc[p] \in {"x_zombie", "x_release"} => state[parent[p]] # "SLEEPING"

InvScan == \A p \in Slots : Scans(p)

\* Only init may be asleep while it gets a zombie, and is about to be woken.
InitAbout == \E x \in Slots : pc[x] = "x_wake_init" /\ w[x] = 0

InvChild ==
  \A p, q \in Slots :
    state[p] = "SLEEPING" /\ parent[q] = p /\ state[q] = "ZOMBIE" => p = initproc /\ InitAbout

\* The loop indexes start at 0.
Indexes(p) ==
  /\ pc[p] \in {"user", "ret", "x_lock", "x_wake_parent", "x_zombie", "x_release"} => i[p] = 0
  /\ pc[p] \notin {"x_wake_init", "x_wake_parent"} => w[p] = 0

InvIndex == \A p \in Slots : Indexes(p)

Inv ==
  /\ TypeOK /\ InvCpu /\ InvState /\ InvWait /\ InvFork /\ InvParent /\ InvReparent
  /\ InvScan /\ InvChild /\ InvIndex
-----------------------------------------------------------------------------
(***************************************************************************)
(* Facts                                                                   *)
(***************************************************************************)

\* The slots are natural numbers, initproc is the first.
LEMMA SlotFacts ==
  /\ NoProc \notin Slots /\ initproc \in Slots /\ NoCpu \notin CPUs
  /\ \A q \in Slots : q \in Nat /\ q >= 0 /\ q < NPROC
BY ProcAssumption DEF Slots, NoProc, initproc

\* c->proc and p->parent are slots or nothing.
LEMMA SlotOrNone ==
  ASSUME TypeOK
  PROVE  /\ \A c \in CPUs : cproc[c] # NoProc => cproc[c] \in Slots
         /\ \A c \in CPUs : on[c] # NoProc => on[c] \in Slots
         /\ \A q \in Slots : parent[q] # NoProc => parent[q] \in Slots
BY Zenon DEF TypeOK

\* The process whose thread a CPU runs is the CPU's own, is not free, and is
\* "RUNNING" unless it is about to leave exit().
LEMMA Runner ==
  ASSUME Inv, NEW c \in CPUs, NEW p \in Slots, Runs(c, p)
  PROVE  /\ on[c] = p /\ after[p] = "none" /\ cproc[c] = p /\ state[p] \notin Free
         /\ \A d \in CPUs \ {c} : cproc[d] # p /\ on[d] # p
         /\ pc[p] # "x_release" => state[p] = "RUNNING"
         /\ pc[p] \in Holding => wait_lock = c
<1>1. on[c] = p /\ after[p] = "none" /\ p # NoProc
  BY Zenon, SlotFacts DEF Runs
<1>2. cproc[c] = p
  BY Zenon, <1>1 DEF Inv, InvCpu
<1>3. \A d \in CPUs \ {c} : cproc[d] # p
  BY Zenon, <1>1, <1>2 DEF Inv, InvCpu
<1>4. \A d \in CPUs \ {c} : on[d] # p
  BY Zenon, <1>1, <1>3 DEF Inv, InvCpu
<1>5. state[p] \notin Free /\ (pc[p] # "x_release" => state[p] = "RUNNING")
  BY Zenon, <1>1, <1>2 DEF Inv, InvCpu, Owned
<1>6. pc[p] \in Holding => wait_lock = c
  BY Zenon, <1>1, <1>4 DEF Inv, InvWait, HoldsWaitLock
<1> QED BY Zenon, <1>1, <1>2, <1>3, <1>4, <1>5, <1>6

\* At most one process is at a place where wait_lock is held.
LEMMA OneHolder ==
  ASSUME Inv, NEW p \in Slots, NEW q \in Slots, pc[p] \in Holding, pc[q] \in Holding
  PROVE  p = q
<1>1. PICK c \in CPUs : on[c] = p /\ wait_lock = c
  BY Zenon DEF Inv, InvWait, HoldsWaitLock
<1>2. PICK d \in CPUs : on[d] = q /\ wait_lock = d
  BY Zenon DEF Inv, InvWait, HoldsWaitLock
<1> QED BY Zenon, <1>1, <1>2

\* While wait_lock is free nobody is at such a place.
LEMMA NoHolder ==
  ASSUME Inv, wait_lock = NoCpu
  PROVE  \A q \in Slots : pc[q] \notin Holding
BY Zenon, SlotFacts DEF Inv, InvWait, HoldsWaitLock

\* A process in exit() is not init and has a live parent.
LEMMA Exits ==
  ASSUME Inv, NEW p \in Slots, pc[p] \in Exiting
  PROVE  /\ p # initproc /\ parent[p] \in Slots /\ parent[p] # p
         /\ state[p] \notin Free
<1>1. p # initproc
  BY Zenon DEF Inv, InvParent
<1>2. pc[p] # "user"
  BY Zenon DEF Exiting
<1>3. state[p] \notin Free
  BY Zenon, <1>2 DEF Inv, InvState, Consistent
<1> QED BY Zenon, <1>1, <1>3, SlotOrNone DEF Inv, InvParent
-----------------------------------------------------------------------------
(***************************************************************************)
(* Steps of one running process                                            *)
(***************************************************************************)

\* The places and locals of all processes but p are as they were.
Private(p) ==
  \A q \in Slots \ {p} : pc'[q] = pc[q] /\ arg'[q] = arg[q] /\ i'[q] = i[q] /\ w'[q] = w[q]

\* Some sleeping processes may have been woken.
Wakes == \A q \in Slots : state'[q] = state[q] \/ (state[q] = "SLEEPING" /\ state'[q] = "RUNNABLE")

LocalTypes ==
  /\ state' \in [Slots -> States] /\ pc' \in [Slots -> Places] /\ arg' \in [Slots -> Nat]
  /\ i' \in [Slots -> 0 .. NPROC] /\ w' \in [Slots -> 0 .. NPROC]

\* The places of p before and after the step are outside fork() and the
\* switches, and wait_lock is held where it has to be.
Moves(c, p) ==
  /\ pc[p] \notin Forking \cup {"s_release", "x_release"}
  /\ pc'[p] \notin Forking \cup {"s_release", "x_release"}
  /\ p = initproc => pc'[p] \notin Exiting
  /\ pc'[p] \in Holding => wait_lock' = c
  /\ wait_lock' = wait_lock \/ wait_lock = NoCpu \/ pc[p] \in Holding

\* A step that takes one running process to its next place and at most makes
\* sleeping processes runnable, outside fork() and the switches.
LEMMA LocalKept ==
  ASSUME Inv, NEW c \in CPUs, NEW p \in Slots, Runs(c, p),
         UNCHANGED <<chan, parent, lock, cproc, on, next, after>>,
         LocalTypes, Private(p), Wakes, Moves(c, p),
         GivesAway(p)', Scans(p)', Indexes(p)',
         pc[p] = "x_wake_init" /\ w[p] = 0 => InitAbout' \/ state'[initproc] # "SLEEPING"
  PROVE  Inv'
<1> USE SlotFacts
<1>1. /\ on[c] = p /\ after[p] = "none" /\ cproc[c] = p /\ state[p] = "RUNNING"
      /\ \A d \in CPUs \ {c} : cproc[d] # p /\ on[d] # p
  BY Zenon, Runner DEF Moves
<1>2. /\ state'[p] = "RUNNING"
      /\ \A q \in Slots : /\ state'[q] \in Free \cup {"ZOMBIE"} <=> state[q] \in Free \cup {"ZOMBIE"}
                          /\ state'[q] \in Free <=> state[q] \in Free
                          /\ state[q] \in Free \cup {"ZOMBIE", "RUNNING"} => state'[q] = state[q]
                          /\ \A s \in Free \cup {"ZOMBIE", "RUNNING", "SLEEPING"} : state'[q] = s => state[q] = s
                          /\ state'[q] \in {"RUNNABLE", "SLEEPING"} => state[q] \in {"RUNNABLE", "SLEEPING"}
  BY Zenon, <1>1 DEF Free, Wakes
<1>3. TypeOK'
  BY Zenon DEF Inv, TypeOK, LocalTypes
<1>4. InvCpu'
  <2>1. ASSUME NEW d \in CPUs, cproc[d] # NoProc PROVE Owned(d, cproc[d])'
    <3>1. CASE d = c
      BY <1>1, <1>2, <3>1 DEF Free, Owned, Moves
    <3>2. CASE d # c
      <4>1. cproc[d] \in Slots /\ pc'[cproc[d]] = pc[cproc[d]]
        BY Zenon, <1>1, <2>1, <3>2, SlotOrNone DEF Private, Inv
      <4>2. Owned(d, cproc[d])
        BY Zenon, <2>1 DEF Inv, InvCpu
      <4> QED BY Zenon, <1>2, <4>1, <4>2 DEF Free, Owned
    <3> QED BY Zenon, <3>1, <3>2
  <2> QED BY Zenon, <2>1 DEF Inv, InvCpu
<1>5. InvState'
  <2> SUFFICES ASSUME NEW q \in Slots PROVE Consistent(q)'
    BY Zenon DEF InvState
  <2>1. CASE q = p
    BY Zenon, <1>2, <2>1 DEF Free, Consistent, Moves
  <2>2. CASE q # p
    BY <1>2, <2>2 DEF Free, Inv, InvState, Consistent, Private
  <2> QED BY Zenon, <2>1, <2>2
<1>6. InvWait'
  <2>1. ASSUME NEW q \in Slots \ {p}, pc[q] \in Holding PROVE wait_lock' = wait_lock
    BY Zenon, <2>1, OneHolder, NoHolder DEF Moves
  <2>2. HoldsWaitLock(p)'
    BY Zenon, <1>1 DEF HoldsWaitLock, Moves
  <2>3. \A q \in Slots \ {p} : HoldsWaitLock(q)'
    <3> SUFFICES ASSUME NEW q \in Slots \ {p}, pc[q] \in Holding PROVE HoldsWaitLock(q)'
      BY Zenon DEF HoldsWaitLock, Private
    <3>1. HoldsWaitLock(q) /\ pc'[q] = pc[q] /\ wait_lock' = wait_lock
      BY Zenon, <2>1 DEF Inv, InvWait, Private
    <3> QED BY Zenon, <3>1 DEF HoldsWaitLock
  <2> QED BY Zenon, <2>2, <2>3 DEF InvWait
<1>7. InvFork'
  <2>1. \A q \in Slots : pc'[q] \in Forking => q # p /\ pc[q] = pc'[q] /\ arg'[q] = arg[q]
    BY Zenon DEF Private, Moves
  <2>2. \A q \in Slots : state[q] = "USED" => state'[q] = "USED"
    BY Zenon, <1>2 DEF Free
  <2>3. ASSUME NEW q \in Slots PROVE Fills(q)'
    <3> SUFFICES ASSUME pc'[q] \in Forking PROVE Fills(q)'
      BY Zenon DEF Fills
    <3>1. Fills(q) /\ pc[q] = pc'[q] /\ arg'[q] = arg[q]
      BY Zenon, <2>1 DEF Inv, InvFork
    <3> QED BY Zenon, <2>2, <3>1 DEF Fills
  <2> QED BY Zenon, <2>1, <2>3 DEF Inv, InvFork
<1>8. InvParent'
  <2>1. \A q \in Slots : state'[q] = "UNUSED" => state[q] = "UNUSED"
    BY Zenon, <1>2 DEF Free
  <2>2. pc'[initproc] \notin Exiting
    BY Zenon DEF Inv, InvParent, Private, Moves
  <2> QED BY Zenon, <1>2, <2>1, <2>2, SlotOrNone DEF Inv, InvParent
<1>9. InvReparent'
  <2>1. ASSUME NEW x \in Slots \ {p} PROVE GivesAway(x)'
    <3>1. GivesAway(x) /\ pc'[x] = pc[x] /\ i'[x] = i[x]
      BY Zenon DEF Inv, InvReparent, Private
    <3> QED BY Zenon, <3>1 DEF GivesAway
  <2> QED BY Zenon, <2>1 DEF InvReparent
<1>10. InvScan'
  <2> SUFFICES ASSUME NEW x \in Slots \ {p} PROVE Scans(x)'
    BY Zenon DEF InvScan
  <2>1. Scans(x) /\ pc'[x] = pc[x] /\ i'[x] = i[x] /\ w'[x] = w[x]
    BY Zenon DEF Inv, InvScan, Private
  <2>2. pc[x] \in {"x_wake_parent", "x_zombie", "x_release"} => parent[x] \in Slots
    BY Zenon, Exits DEF Exiting
  <2> QED BY Zenon, <1>2, <2>1, <2>2 DEF Scans
<1>11. InvChild'
  <2>1. ASSUME NEW x \in Slots, NEW q \in Slots,
               state'[x] = "SLEEPING", parent[q] = x, state'[q] = "ZOMBIE"
        PROVE  x = initproc /\ InitAbout'
    <3>1. state[x] = "SLEEPING" /\ state[q] = "ZOMBIE"
      BY Zenon, <1>2, <2>1
    <3>2. x = initproc /\ InitAbout
      BY Zenon, <2>1, <3>1 DEF Inv, InvChild
    <3>3. PICK y \in Slots : pc[y] = "x_wake_init" /\ w[y] = 0
      BY Zenon, <3>2 DEF InitAbout
    <3>4. CASE y = p
      BY Zenon, <2>1, <3>2, <3>3, <3>4
    <3>5. CASE y # p
      BY Zenon, <3>2, <3>3, <3>5 DEF InitAbout, Private
    <3> QED BY Zenon, <3>4, <3>5
  <2> QED BY Zenon, <2>1 DEF InvChild
<1>12. InvIndex'
  BY Zenon DEF Inv, InvIndex, Indexes, Private
<1> QED BY Zenon, <1>3, <1>4, <1>5, <1>6, <1>7, <1>8, <1>9, <1>10, <1>11, <1>12 DEF Inv

Plain == {"user", "ret", "f_alloc", "k_scan", "w_lock", "x_lock"}

\* The same when the next place is in no loop that holds wait_lock.
LEMMA PlainKept ==
  ASSUME Inv, NEW c \in CPUs, NEW p \in Slots, Runs(c, p),
         UNCHANGED <<chan, parent, lock, cproc, on, next, after>>,
         LocalTypes, Private(p), Wakes, Indexes(p)', pc'[p] \in Plain,
         (pc[p] \in Plain /\ wait_lock' = wait_lock) \/ pc[p] \in {"w_scan", "w_killed"}
  PROVE  Inv'
<1>1. Moves(c, p) /\ GivesAway(p)' /\ Scans(p)' /\ pc[p] # "x_wake_init"
  <2>1. pc'[p] \notin {"x_reparent", "x_wake_init", "x_wake_parent", "x_zombie", "x_release",
                       "w_scan", "w_killed", "w_sleep", "s_release"}
    BY Zenon DEF Plain
  <2>2. /\ pc[p] \notin Forking \cup {"s_release", "x_release"}
        /\ pc'[p] \notin Forking \cup {"s_release", "x_release"} \cup Holding
        /\ wait_lock' = wait_lock \/ pc[p] \in Holding
        /\ pc[p] # "x_wake_init"
    BY Zenon DEF Plain, Forking, Holding, Waiting, Exiting
  <2> QED BY Zenon, <2>1, <2>2 DEF Moves, GivesAway, Scans, Holding
<1> QED BY Zenon, <1>1, LocalKept

\* What a system call's return leaves.
LEMMA ReturnFacts ==
  ASSUME Inv, NEW p \in Slots, Return(p)
  PROVE  /\ pc' = [pc EXCEPT ![p] = "ret"] /\ i' = [i EXCEPT ![p] = 0] /\ arg' = [arg EXCEPT ![p] = 0]
         /\ pc' \in [Slots -> Places] /\ i' \in [Slots -> 0 .. NPROC] /\ arg' \in [Slots -> Nat]
         /\ pc'[p] = "ret" /\ i'[p] = 0
         /\ \A q \in Slots \ {p} : pc'[q] = pc[q] /\ i'[q] = i[q] /\ arg'[q] = arg[q]
<1>1. pc \in [Slots -> Places] /\ i \in [Slots -> 0 .. NPROC] /\ arg \in [Slots -> Nat]
  BY Zenon DEF Inv, TypeOK
<1>2. "ret" \in Places /\ 0 \in 0 .. NPROC /\ 0 \in Nat
  BY ProcAssumption DEF Places
<1>3. pc' = [pc EXCEPT ![p] = "ret"] /\ i' = [i EXCEPT ![p] = 0] /\ arg' = [arg EXCEPT ![p] = 0]
  BY Zenon DEF Return, Goto
<1> QED BY Zenon, <1>1, <1>2, <1>3

\* A trap enters the kernel.
LEMMA SyscallStep ==
  ASSUME Inv, NEW c \in CPUs, NEW p \in Slots, Syscall(c, p)
  PROVE  Inv'
<1>1. /\ Runs(c, p) /\ pc[p] = "user"
      /\ UNCHANGED <<state, chan, parent, lock, wait_lock, cproc, on, next, after, w>>
  BY Zenon DEF Syscall, At, slotVars, lockVars, cpuVars
<1>2. \E s \in {"x_lock", "f_alloc", "w_lock", "k_scan"} : pc' = [pc EXCEPT ![p] = s]
  BY Zenon DEF Syscall, Goto
<1>3. /\ i' = i \/ i' = [i EXCEPT ![p] = 0]
      /\ arg' = arg \/ \E t \in Targets : arg' = [arg EXCEPT ![p] = t]
  BY Zenon DEF Syscall
<1>4. i[p] = 0 /\ w[p] = 0
  BY Zenon, <1>1 DEF Inv, InvIndex, Indexes
<1>5. /\ pc \in [Slots -> Places] /\ i \in [Slots -> 0 .. NPROC] /\ arg \in [Slots -> Nat]
      /\ w \in [Slots -> 0 .. NPROC] /\ state \in [Slots -> States]
  BY Zenon DEF Inv, TypeOK
<1>6. /\ pc'[p] \in {"x_lock", "f_alloc", "w_lock", "k_scan"} /\ pc' \in [Slots -> Places]
      /\ \A q \in Slots \ {p} : pc'[q] = pc[q]
  BY Zenon, <1>2, <1>5 DEF Places
<1>7. i' \in [Slots -> 0 .. NPROC] /\ i'[p] = 0 /\ \A q \in Slots \ {p} : i'[q] = i[q]
  BY Zenon, <1>3, <1>4, <1>5, ProcAssumption
<1>8. arg' \in [Slots -> Nat] /\ \A q \in Slots \ {p} : arg'[q] = arg[q]
  BY Zenon, <1>3, <1>5, ProcAssumption
<1>9. LocalTypes /\ Private(p) /\ Wakes
  BY Zenon, <1>1, <1>5, <1>6, <1>7, <1>8 DEF LocalTypes, Private, Wakes
<1>10. Indexes(p)' /\ pc'[p] \in Plain /\ pc[p] \in Plain
  BY Zenon, <1>1, <1>4, <1>6, <1>7 DEF Indexes, Plain
<1> QED BY Zenon, <1>1, <1>9, <1>10, PlainKept

\* The way back to user space.
LEMMA UsertrapretStep ==
  ASSUME Inv, NEW c \in CPUs, NEW p \in Slots, usertrapret(c, p)
  PROVE  Inv'
<1>1. /\ Runs(c, p) /\ pc[p] = "ret"
      /\ UNCHANGED <<state, chan, parent, lock, wait_lock, cproc, on, next, after, w, i, arg>>
  BY Zenon DEF usertrapret, At, slotVars, lockVars, cpuVars, localVars
<1>2. \E s \in {"x_lock", "user"} : pc' = [pc EXCEPT ![p] = s]
  BY Zenon DEF usertrapret, Goto
<1>3. i[p] = 0 /\ w[p] = 0
  BY Zenon, <1>1 DEF Inv, InvIndex, Indexes
<1>4. /\ pc \in [Slots -> Places] /\ i \in [Slots -> 0 .. NPROC] /\ arg \in [Slots -> Nat]
      /\ w \in [Slots -> 0 .. NPROC] /\ state \in [Slots -> States]
  BY Zenon DEF Inv, TypeOK
<1>5. /\ pc'[p] \in {"x_lock", "user"} /\ pc' \in [Slots -> Places]
      /\ \A q \in Slots \ {p} : pc'[q] = pc[q]
  BY Zenon, <1>2, <1>4 DEF Places
<1>6. LocalTypes /\ Private(p) /\ Wakes
  BY Zenon, <1>1, <1>4, <1>5 DEF LocalTypes, Private, Wakes
<1>7. Indexes(p)' /\ pc'[p] \in Plain /\ pc[p] \in Plain
  BY Zenon, <1>1, <1>3, <1>5 DEF Indexes, Plain
<1> QED BY Zenon, <1>1, <1>6, <1>7, PlainKept

\* kill() looks at one slot, and wakes its process if it is the one.
LEMMA KillStep ==
  ASSUME Inv, NEW c \in CPUs, NEW p \in Slots, kill(c, p)
  PROVE  Inv'
<1>1. /\ Runs(c, p) /\ pc[p] = "k_scan" /\ w' = w
      /\ UNCHANGED <<chan, parent, lock, wait_lock, cproc, on, next, after>>
  BY Zenon DEF kill, At, lockVars, cpuVars
<1>2. w[p] = 0
  BY Zenon, <1>1 DEF Inv, InvIndex, Indexes
<1>3. /\ pc \in [Slots -> Places] /\ i \in [Slots -> 0 .. NPROC] /\ arg \in [Slots -> Nat]
      /\ w \in [Slots -> 0 .. NPROC] /\ state \in [Slots -> States]
  BY Zenon DEF Inv, TypeOK
<1>4. /\ pc' \in [Slots -> Places] /\ i' \in [Slots -> 0 .. NPROC] /\ arg' \in [Slots -> Nat]
      /\ pc'[p] \in {"ret", "k_scan"} /\ (pc'[p] = "ret" => i'[p] = 0)
      /\ \A q \in Slots \ {p} : pc'[q] = pc[q] /\ i'[q] = i[q] /\ arg'[q] = arg[q]
  <2>1. CASE Return(p)
    BY Zenon, <2>1, ReturnFacts
  <2>2. CASE ~Return(p)
    <3>1. /\ i' = [i EXCEPT ![p] = i[p] + 1] /\ i[p] < NPROC
          /\ UNCHANGED <<pc, arg>>
      BY Zenon, <2>2 DEF kill
    <3>2. i[p] + 1 \in 0 .. NPROC
      BY <1>3, <3>1, ProcAssumption
    <3> QED BY Zenon, <1>1, <1>3, <3>1, <3>2
  <2> QED BY Zenon, <2>1, <2>2
<1>5. state' \in [Slots -> States] /\ Wakes
  <2>1. CASE state' = state
    BY Zenon, <1>3, <2>1 DEF Wakes
  <2>2. CASE state' # state
    <3>1. state' = [state EXCEPT ![i[p]] = IF @ = "SLEEPING" THEN "RUNNABLE" ELSE @]
      BY Zenon, <2>2 DEF kill
    <3> QED BY Zenon, <1>3, <3>1 DEF Wakes, States
  <2> QED BY Zenon, <2>1, <2>2
<1>6. LocalTypes /\ Private(p)
  BY Zenon, <1>1, <1>3, <1>4, <1>5 DEF LocalTypes, Private
<1>7. Indexes(p)' /\ pc'[p] \in Plain /\ pc[p] \in Plain
  BY Zenon, <1>1, <1>2, <1>4 DEF Indexes, Plain
<1> QED BY Zenon, <1>1, <1>5, <1>6, <1>7, PlainKept
-----------------------------------------------------------------------------
(***************************************************************************)
(* wait() and exit() while they hold wait_lock                             *)
(***************************************************************************)

\* acquire(&wait_lock) in wait().
LEMMA WaitLockStep ==
  ASSUME Inv, NEW c \in CPUs, NEW p \in Slots, WaitLock(c, p)
  PROVE  Inv'
<1>1. /\ Runs(c, p) /\ pc[p] = "w_lock" /\ wait_lock = NoCpu /\ wait_lock' = c
      /\ pc' = [pc EXCEPT ![p] = "w_scan"] /\ i' = [i EXCEPT ![p] = 0]
      /\ UNCHANGED <<state, chan, parent, lock, cproc, on, next, after, w, arg>>
  BY Zenon DEF WaitLock, At, Goto, slotVars, cpuVars
<1>2. w[p] = 0
  BY Zenon, <1>1 DEF Inv, InvIndex, Indexes
<1>3. /\ pc \in [Slots -> Places] /\ i \in [Slots -> 0 .. NPROC] /\ arg \in [Slots -> Nat]
      /\ w \in [Slots -> 0 .. NPROC] /\ state \in [Slots -> States]
  BY Zenon DEF Inv, TypeOK
<1>4. /\ pc' \in [Slots -> Places] /\ i' \in [Slots -> 0 .. NPROC] /\ pc'[p] = "w_scan" /\ i'[p] = 0
      /\ \A q \in Slots \ {p} : pc'[q] = pc[q] /\ i'[q] = i[q]
  BY <1>1, <1>3, ProcAssumption DEF Places, Waiting
<1>5. LocalTypes /\ Private(p) /\ Wakes
  BY Zenon, <1>1, <1>3, <1>4 DEF LocalTypes, Private, Wakes
<1>6. Moves(c, p) /\ GivesAway(p)' /\ Indexes(p)' /\ pc[p] # "x_wake_init"
  BY Zenon, <1>1, <1>2, <1>4 DEF Moves, GivesAway, Indexes, Forking, Exiting
<1>7. Scans(p)'
  <2>1. \A q \in Slots : ~(q < i'[p])
    BY <1>4, SlotFacts
  <2> QED BY Zenon, <1>4, <2>1 DEF Scans
<1> QED BY Zenon, <1>1, <1>5, <1>6, <1>7, LocalKept

\* wait() looks at one slot and finds no zombie of its own, or cannot copy the
\* zombie's status out.
LEMMA WaitScanStep ==
  ASSUME Inv, NEW c \in CPUs, NEW p \in Slots, WaitScan(c, p), UNCHANGED <<slotVars, after>>
  PROVE  Inv'
<1>1. /\ Runs(c, p) /\ pc[p] = "w_scan"
      /\ UNCHANGED <<state, chan, parent, lock, cproc, on, next, after, w>>
  BY Zenon DEF WaitScan, At, slotVars, cpuVars, localVars
<1>2. w[p] = 0 /\ Scans(p) /\ wait_lock = c
  BY Zenon, <1>1, Runner DEF Inv, InvIndex, Indexes, InvScan, Holding, Waiting
<1>3. /\ pc \in [Slots -> Places] /\ i \in [Slots -> 0 .. NPROC] /\ arg \in [Slots -> Nat]
      /\ w \in [Slots -> 0 .. NPROC] /\ state \in [Slots -> States]
  BY Zenon DEF Inv, TypeOK
<1>4. CASE Return(p)
  <2>1. LocalTypes /\ Private(p) /\ Wakes /\ pc'[p] = "ret" /\ i'[p] = 0
    BY Zenon, <1>1, <1>3, <1>4, ReturnFacts DEF LocalTypes, Private, Wakes
  <2>2. Indexes(p)' /\ pc'[p] \in Plain
    BY Zenon, <1>1, <1>2, <2>1 DEF Indexes, Plain
  <2> QED BY Zenon, <1>1, <2>1, <2>2, PlainKept
<1>5. CASE ~Return(p)
  <2>1. \/ i[p] = NPROC /\ pc' = [pc EXCEPT ![p] = "w_killed"] /\ i' = i /\ arg' = arg
        \/ /\ i[p] < NPROC /\ (parent[i[p]] = p => state[i[p]] # "ZOMBIE")
           /\ i' = [i EXCEPT ![p] = i[p] + 1] /\ pc' = pc /\ arg' = arg
    BY Zenon, <1>5 DEF WaitScan, Goto, localVars
  <2>2. wait_lock' = c
    BY Zenon, <1>2, <1>5 DEF WaitScan
  <2>3. /\ pc' \in [Slots -> Places] /\ i' \in [Slots -> 0 .. NPROC] /\ arg' = arg
        /\ \/ pc'[p] = "w_killed" /\ i[p] = NPROC
           \/ pc'[p] = "w_scan" /\ i'[p] = i[p] + 1 /\ (parent[i[p]] = p => state[i[p]] # "ZOMBIE")
        /\ \A q \in Slots \ {p} : pc'[q] = pc[q] /\ i'[q] = i[q]
    <3>1. CASE i[p] = NPROC /\ pc' = [pc EXCEPT ![p] = "w_killed"] /\ i' = i /\ arg' = arg
      BY Zenon, <1>3, <3>1 DEF Places, Waiting
    <3>2. CASE /\ i[p] < NPROC /\ (parent[i[p]] = p => state[i[p]] # "ZOMBIE")
               /\ i' = [i EXCEPT ![p] = i[p] + 1] /\ pc' = pc /\ arg' = arg
      <4>1. i[p] + 1 \in 0 .. NPROC
        BY <1>3, <3>2, ProcAssumption
      <4> QED BY Zenon, <1>1, <1>3, <3>2, <4>1
    <3> QED BY Zenon, <2>1, <3>1, <3>2
  <2>4. LocalTypes /\ Private(p) /\ Wakes
    BY Zenon, <1>1, <1>3, <2>3 DEF LocalTypes, Private, Wakes
  <2>5. Moves(c, p) /\ GivesAway(p)' /\ Indexes(p)' /\ pc[p] # "x_wake_init"
    BY Zenon, <1>1, <1>2, <2>2, <2>3 DEF Moves, GivesAway, Indexes, Forking, Exiting
  <2>6. Scans(p)'
    <3>1. \A q \in Slots : q < i[p] /\ parent[q] = p => state[q] # "ZOMBIE"
      BY Zenon, <1>1, <1>2 DEF Scans
    <3>2. CASE pc'[p] = "w_killed" /\ i[p] = NPROC
      BY Zenon, <1>1, <3>1, <3>2, SlotFacts DEF Scans
    <3>3. CASE pc'[p] = "w_scan" /\ i'[p] = i[p] + 1 /\ (parent[i[p]] = p => state[i[p]] # "ZOMBIE")
      <4>1. \A q \in Slots : q < i'[p] => q < i[p] \/ q = i[p]
        BY <1>3, <3>3, SlotFacts
      <4> QED BY Zenon, <1>1, <3>1, <3>3, <4>1 DEF Scans
    <3> QED BY Zenon, <2>3, <3>2, <3>3
  <2> QED BY Zenon, <1>1, <2>4, <2>5, <2>6, LocalKept
<1> QED BY Zenon, <1>4, <1>5

\* wait() gives up, or is going to sleep with wait_lock held.
LEMMA WaitKilledStep ==
  ASSUME Inv, NEW c \in CPUs, NEW p \in Slots, WaitKilled(c, p)
  PROVE  Inv'
<1>1. /\ Runs(c, p) /\ pc[p] = "w_killed"
      /\ UNCHANGED <<state, chan, parent, lock, cproc, on, next, after, w>>
  BY Zenon DEF WaitKilled, At, slotVars, cpuVars, localVars
<1>2. w[p] = 0 /\ Scans(p) /\ wait_lock = c
  BY Zenon, <1>1, Runner DEF Inv, InvIndex, Indexes, InvScan, Holding, Waiting
<1>3. /\ pc \in [Slots -> Places] /\ i \in [Slots -> 0 .. NPROC] /\ arg \in [Slots -> Nat]
      /\ w \in [Slots -> 0 .. NPROC] /\ state \in [Slots -> States]
  BY Zenon DEF Inv, TypeOK
<1>4. CASE Return(p)
  <2>1. LocalTypes /\ Private(p) /\ Wakes /\ pc'[p] = "ret" /\ i'[p] = 0
    BY Zenon, <1>1, <1>3, <1>4, ReturnFacts DEF LocalTypes, Private, Wakes
  <2>2. Indexes(p)' /\ pc'[p] \in Plain
    BY Zenon, <1>1, <1>2, <2>1 DEF Indexes, Plain
  <2> QED BY Zenon, <1>1, <2>1, <2>2, PlainKept
<1>5. CASE ~Return(p)
  <2>1. pc' = [pc EXCEPT ![p] = "w_sleep"] /\ i' = i /\ arg' = arg /\ wait_lock' = c
    BY Zenon, <1>2, <1>5 DEF WaitKilled, Goto
  <2>2. pc' \in [Slots -> Places] /\ pc'[p] = "w_sleep" /\ \A q \in Slots \ {p} : pc'[q] = pc[q]
    BY Zenon, <1>3, <2>1 DEF Places, Waiting
  <2>3. LocalTypes /\ Private(p) /\ Wakes
    BY Zenon, <1>1, <1>3, <2>1, <2>2 DEF LocalTypes, Private, Wakes
  <2>4. Moves(c, p) /\ GivesAway(p)' /\ Indexes(p)' /\ pc[p] # "x_wake_init"
    BY Zenon, <1>1, <1>2, <2>1, <2>2 DEF Moves, GivesAway, Indexes, Forking, Exiting
  <2>5. Scans(p)'
    BY Zenon, <1>1, <1>2, <2>2 DEF Scans
  <2> QED BY Zenon, <1>1, <2>3, <2>4, <2>5, LocalKept
<1> QED BY Zenon, <1>4, <1>5

\* acquire(&wait_lock) in exit().
LEMMA ExitLockStep ==
  ASSUME Inv, NEW c \in CPUs, NEW p \in Slots, ExitLock(c, p)
  PROVE  Inv'
<1>1. /\ Runs(c, p) /\ pc[p] = "x_lock" /\ wait_lock = NoCpu /\ wait_lock' = c
      /\ pc' = [pc EXCEPT ![p] = "x_reparent"] /\ p # initproc
      /\ UNCHANGED <<state, chan, parent, lock, cproc, on, next, after, w, arg, i>>
  BY Zenon DEF ExitLock, At, Goto, slotVars, cpuVars, localVars
<1>2. w[p] = 0 /\ i[p] = 0
  BY Zenon, <1>1 DEF Inv, InvIndex, Indexes
<1>3. /\ pc \in [Slots -> Places] /\ i \in [Slots -> 0 .. NPROC] /\ arg \in [Slots -> Nat]
      /\ w \in [Slots -> 0 .. NPROC] /\ state \in [Slots -> States]
  BY Zenon DEF Inv, TypeOK
<1>4. pc' \in [Slots -> Places] /\ pc'[p] = "x_reparent" /\ \A q \in Slots \ {p} : pc'[q] = pc[q]
  BY Zenon, <1>1, <1>3 DEF Places, Exiting
<1>5. LocalTypes /\ Private(p) /\ Wakes
  BY Zenon, <1>1, <1>3, <1>4 DEF LocalTypes, Private, Wakes
<1>6. Moves(c, p) /\ Scans(p)' /\ Indexes(p)' /\ pc[p] # "x_wake_init"
  BY Zenon, <1>1, <1>2, <1>4 DEF Moves, Scans, Indexes, Forking
<1>7. GivesAway(p)'
  <2>1. \A q \in Slots : ~(q < i'[p])
    BY <1>1, <1>2, SlotFacts
  <2> QED BY Zenon, <1>4, <2>1 DEF GivesAway
<1> QED BY Zenon, <1>1, <1>5, <1>6, <1>7, LocalKept

\* reparent() looks at a slot that is not a child, or has seen all.
LEMMA ReparentScan ==
  ASSUME Inv, NEW c \in CPUs, NEW p \in Slots, reparent(c, p), UNCHANGED parent
  PROVE  Inv'
<1>1. /\ Runs(c, p) /\ pc[p] = "x_reparent"
      /\ UNCHANGED <<state, chan, parent, lock, wait_lock, cproc, on, next, after, w, arg>>
  BY Zenon DEF reparent, At, lockVars, cpuVars
<1>2. w[p] = 0 /\ GivesAway(p) /\ wait_lock = c
  BY Zenon, <1>1, Runner DEF Inv, InvIndex, Indexes, InvReparent, Holding, Exiting
<1>3. /\ pc \in [Slots -> Places] /\ i \in [Slots -> 0 .. NPROC] /\ arg \in [Slots -> Nat]
      /\ w \in [Slots -> 0 .. NPROC] /\ state \in [Slots -> States]
  BY Zenon DEF Inv, TypeOK
<1>4. p # initproc /\ parent[p] \in Slots
  BY Zenon, <1>1, Exits DEF Exiting
<1>5. \A q \in Slots : q < i[p] => parent[q] # p
  BY Zenon, <1>1, <1>2 DEF GivesAway
<1>6. CASE i[p] = NPROC
  <2>1. pc' = [pc EXCEPT ![p] = "x_wake_parent"] /\ i' = [i EXCEPT ![p] = 0]
    BY Zenon, <1>6 DEF reparent, Goto
  <2>2. /\ pc' \in [Slots -> Places] /\ pc'[p] = "x_wake_parent" /\ i' \in [Slots -> 0 .. NPROC] /\ i'[p] = 0
        /\ \A q \in Slots \ {p} : pc'[q] = pc[q] /\ i'[q] = i[q]
    BY <1>3, <2>1, ProcAssumption DEF Places, Exiting
  <2>3. LocalTypes /\ Private(p) /\ Wakes
    BY Zenon, <1>1, <1>3, <2>2 DEF LocalTypes, Private, Wakes
  <2>4. Moves(c, p) /\ Indexes(p)' /\ pc[p] # "x_wake_init"
    BY Zenon, <1>1, <1>2, <1>4, <2>2 DEF Moves, Indexes, Forking
  <2>5. GivesAway(p)'
    <3>1. \A q \in Slots : parent[q] # p
      BY Zenon, <1>5, <1>6, SlotFacts
    <3> QED BY Zenon, <1>1, <2>2, <3>1 DEF GivesAway
  <2>6. Scans(p)'
    <3>1. ~(parent[p] < w[p])
      BY <1>2, <1>4, SlotFacts
    <3> QED BY Zenon, <1>1, <2>2, <3>1 DEF Scans
  <2> QED BY Zenon, <1>1, <2>3, <2>4, <2>5, <2>6, LocalKept
<1>7. CASE i[p] # NPROC
  <2>1. i[p] \in Slots /\ i[p] + 1 \in 0 .. NPROC
    BY <1>3, <1>7, ProcAssumption DEF Slots
  <2>2. parent[i[p]] # p
    <3>1. CASE parent[i[p]] = p
      <4>1. parent' = [parent EXCEPT ![i[p]] = initproc]
        BY Zenon, <1>7, <3>1 DEF reparent
      <4>2. parent'[i[p]] = initproc
        BY <2>1, <4>1 DEF Inv, TypeOK
      <4> QED BY Zenon, <1>1, <1>4, <3>1, <4>2
    <3> QED BY Zenon, <3>1
  <2>3. i' = [i EXCEPT ![p] = i[p] + 1] /\ pc' = pc
    BY Zenon, <1>7, <2>2 DEF reparent
  <2>4. i' \in [Slots -> 0 .. NPROC] /\ i'[p] = i[p] + 1 /\ \A q \in Slots \ {p} : i'[q] = i[q]
    BY Zenon, <1>3, <2>1, <2>3
  <2>5. LocalTypes /\ Private(p) /\ Wakes
    BY Zenon, <1>1, <1>3, <2>3, <2>4 DEF LocalTypes, Private, Wakes
  <2>6. Moves(c, p) /\ Indexes(p)' /\ Scans(p)' /\ pc[p] # "x_wake_init"
    BY Zenon, <1>1, <1>2, <1>4, <2>3 DEF Moves, Indexes, Scans, Forking
  <2>7. GivesAway(p)'
    <3>1. \A q \in Slots : q < i'[p] => q < i[p] \/ q = i[p]
      BY <1>3, <2>4, SlotFacts
    <3> QED BY Zenon, <1>1, <1>5, <2>2, <2>3, <3>1 DEF GivesAway
  <2> QED BY Zenon, <1>1, <2>5, <2>6, <2>7, LocalKept
<1> QED BY Zenon, <1>6, <1>7

\* A round of wakeup(), or its end.
LEMMA WakeupStep ==
  ASSUME Inv, NEW c \in CPUs, NEW p \in Slots, wakeup(c, p)
  PROVE  Inv'
<1>1. /\ Runs(c, p) /\ pc[p] \in {"x_wake_init", "x_wake_parent"}
      /\ UNCHANGED <<chan, parent, lock, wait_lock, cproc, on, next, after, arg>>
  BY Zenon DEF wakeup, At, lockVars, cpuVars
<1>2. GivesAway(p) /\ Scans(p) /\ wait_lock = c
  BY Zenon, <1>1, Runner DEF Inv, InvReparent, InvScan, Holding, Exiting
<1>3. /\ pc \in [Slots -> Places] /\ i \in [Slots -> 0 .. NPROC] /\ arg \in [Slots -> Nat]
      /\ w \in [Slots -> 0 .. NPROC] /\ state \in [Slots -> States]
  BY Zenon DEF Inv, TypeOK
<1>4. p # initproc /\ parent[p] \in Slots /\ parent[p] # p
  BY Zenon, <1>1, Exits DEF Exiting
<1>0. pc[p] = "x_wake_parent" => i[p] = 0
  BY Zenon DEF Inv, InvIndex, Indexes
<1>5. ASSUME NEW target \in Slots, WakeOne(p, target)
      PROVE  /\ LocalTypes /\ Private(p) /\ Wakes /\ pc' = pc /\ i' = i
             /\ w[p] \in Slots /\ w'[p] = w[p] + 1
             /\ w[p] = target /\ target # p => state'[target] # "SLEEPING"
  <2>1. w[p] \in Slots /\ w[p] + 1 \in 0 .. NPROC
    <3>1. w[p] < NPROC
      BY Zenon, <1>5 DEF WakeOne
    <3> QED BY <1>3, <3>1, ProcAssumption DEF Slots
  <2>2. w' \in [Slots -> 0 .. NPROC] /\ w'[p] = w[p] + 1 /\ \A q \in Slots \ {p} : w'[q] = w[q]
    BY Zenon, <1>3, <1>5, <2>1 DEF WakeOne
  <2>3. state' = [state EXCEPT ![w[p]] =
                    IF w[p] # p /\ state[w[p]] = "SLEEPING" /\ chan[w[p]] = target THEN "RUNNABLE" ELSE state[w[p]]]
    BY Zenon, <1>5 DEF WakeOne
  <2>4. state' \in [Slots -> States] /\ Wakes
    BY Zenon, <1>3, <2>1, <2>3 DEF Wakes, States
  <2>5. w[p] = target /\ target # p => state'[target] # "SLEEPING"
    <3>1. state[target] = "SLEEPING" => chan[target] = target
      BY Zenon DEF Inv, InvState, Consistent
    <3> QED BY Zenon, <1>3, <2>1, <2>3, <3>1
  <2> QED BY Zenon, <1>1, <1>3, <1>5, <2>1, <2>2, <2>4, <2>5 DEF LocalTypes, Private, WakeOne
<1>6. CASE pc[p] = "x_wake_init" /\ WakeOne(p, initproc)
  <2>1. /\ LocalTypes /\ Private(p) /\ Wakes /\ pc' = pc /\ i' = i
        /\ w[p] = 0 => state'[initproc] # "SLEEPING"
    BY Zenon, <1>4, <1>5, <1>6, SlotFacts DEF initproc
  <2>2. Moves(c, p) /\ Scans(p)' /\ Indexes(p)'
    BY Zenon, <1>1, <1>2, <1>4, <1>6, <2>1 DEF Moves, Scans, Indexes, Forking
  <2>3. GivesAway(p)'
    BY Zenon, <1>1, <1>2, <2>1 DEF GivesAway
  <2> QED BY Zenon, <1>1, <2>1, <2>2, <2>3, LocalKept
<1>7. CASE pc[p] = "x_wake_parent" /\ WakeOne(p, parent[p])
  <2>1. /\ LocalTypes /\ Private(p) /\ Wakes /\ pc' = pc /\ i' = i /\ w'[p] = w[p] + 1
        /\ w[p] \in Slots /\ (w[p] = parent[p] => state'[parent[p]] # "SLEEPING")
    BY Zenon, <1>4, <1>5, <1>7
  <2>2. Moves(c, p) /\ Indexes(p)'
    BY Zenon, <1>1, <1>2, <1>4, <1>0, <1>7, <2>1 DEF Moves, Indexes, Forking
  <2>3. GivesAway(p)'
    BY Zenon, <1>1, <1>2, <2>1 DEF GivesAway
  <2>4. Scans(p)'
    <3>1. parent[p] < w[p] => state[parent[p]] # "SLEEPING"
      BY Zenon, <1>2, <1>7 DEF Scans
    <3>2. state'[parent[p]] = "SLEEPING" => state[parent[p]] = "SLEEPING"
      BY Zenon, <1>4, <2>1 DEF Wakes
    <3>3. parent[p] < w'[p] => parent[p] < w[p] \/ parent[p] = w[p]
      BY <1>4, <2>1, SlotFacts
    <3>4. parent[p] < w'[p] => state'[parent[p]] # "SLEEPING"
      BY Zenon, <2>1, <3>1, <3>2, <3>3
    <3> QED BY Zenon, <1>1, <1>7, <2>1, <3>4 DEF Scans
  <2>5. pc[p] # "x_wake_init"
    BY Zenon, <1>7
  <2> QED BY Zenon, <1>1, <2>1, <2>2, <2>3, <2>4, <2>5, LocalKept
<1>8. CASE /\ pc[p] = "x_wake_init" /\ w[p] = NPROC /\ w' = [w EXCEPT ![p] = 0]
           /\ pc' = [pc EXCEPT ![p] = "x_reparent"] /\ i' = [i EXCEPT ![p] = i[p] + 1]
           /\ state' = state
  <2>1. i[p] < NPROC /\ \A q \in Slots : q <= i[p] => parent[q] # p
    BY Zenon, <1>2, <1>8 DEF GivesAway
  <2>2. i[p] + 1 \in 0 .. NPROC
    BY <1>3, <2>1, ProcAssumption
  <2>3. /\ w' \in [Slots -> 0 .. NPROC] /\ w'[p] = 0 /\ pc' \in [Slots -> Places] /\ pc'[p] = "x_reparent"
        /\ i' \in [Slots -> 0 .. NPROC] /\ i'[p] = i[p] + 1
        /\ \A q \in Slots \ {p} : w'[q] = w[q] /\ pc'[q] = pc[q] /\ i'[q] = i[q]
    BY <1>3, <1>8, <2>2, ProcAssumption DEF Places, Exiting
  <2>4. LocalTypes /\ Private(p) /\ Wakes
    BY Zenon, <1>1, <1>3, <1>8, <2>3 DEF LocalTypes, Private, Wakes
  <2>5. Moves(c, p) /\ Indexes(p)' /\ Scans(p)'
    BY Zenon, <1>1, <1>2, <1>4, <1>8, <2>3 DEF Moves, Indexes, Scans, Forking
  <2>6. GivesAway(p)'
    <3>1. \A q \in Slots : q < i'[p] => q <= i[p]
      BY <1>3, <2>3, SlotFacts
    <3> QED BY Zenon, <1>1, <2>1, <2>3, <3>1 DEF GivesAway
  <2>7. w[p] # 0
    BY Zenon, <1>8, ProcAssumption
  <2> QED BY Zenon, <1>1, <2>4, <2>5, <2>6, <2>7, LocalKept
<1>9. CASE /\ pc[p] = "x_wake_parent" /\ w[p] = NPROC /\ w' = [w EXCEPT ![p] = 0]
           /\ pc' = [pc EXCEPT ![p] = "x_zombie"] /\ i' = i /\ state' = state
  <2>1. (\A q \in Slots : parent[q] # p) /\ state[parent[p]] # "SLEEPING"
    <3>1. parent[p] < w[p]
      BY Zenon, <1>4, <1>9, SlotFacts
    <3> QED BY Zenon, <1>2, <1>9, <3>1 DEF GivesAway, Scans
  <2>2. /\ w' \in [Slots -> 0 .. NPROC] /\ w'[p] = 0 /\ pc' \in [Slots -> Places] /\ pc'[p] = "x_zombie"
        /\ \A q \in Slots \ {p} : w'[q] = w[q] /\ pc'[q] = pc[q]
    BY <1>3, <1>9, ProcAssumption DEF Places, Exiting
  <2>3. LocalTypes /\ Private(p) /\ Wakes
    BY Zenon, <1>1, <1>3, <1>9, <2>2 DEF LocalTypes, Private, Wakes
  <2>4. Moves(c, p) /\ Indexes(p)'
    BY Zenon, <1>1, <1>2, <1>4, <1>0, <1>9, <2>2 DEF Moves, Indexes, Forking
  <2>5. GivesAway(p)' /\ Scans(p)' /\ pc[p] # "x_wake_init"
    BY Zenon, <1>1, <1>9, <2>1, <2>2 DEF GivesAway, Scans
  <2> QED BY Zenon, <1>1, <2>3, <2>4, <2>5, LocalKept
<1> QED BY Zenon, <1>6, <1>7, <1>8, <1>9 DEF wakeup, At, Goto

\* Of a process that does not hold wait_lock little is required.
LEMMA NotHolding ==
  ASSUME NEW q \in Slots, pc'[q] \notin Holding
  PROVE  GivesAway(q)' /\ Scans(q)' /\ HoldsWaitLock(q)'
<1>1. pc'[q] \notin {"x_reparent", "x_wake_init", "x_wake_parent", "x_zombie", "x_release",
                     "w_scan", "w_killed", "w_sleep", "s_release"}
  BY Zenon DEF Holding, Waiting, Exiting
<1> QED BY Zenon, <1>1 DEF GivesAway, Scans, HoldsWaitLock

\* The slot that reparent() looks at is a child.
FindsChild(p) == i[p] # NPROC /\ parent[i[p]] = p

\* reparent() gives a child to init.
LEMMA ReparentChild ==
  ASSUME Inv, NEW c \in CPUs, NEW p \in Slots, reparent(c, p), FindsChild(p)
  PROVE  Inv'
<1>1. /\ Runs(c, p) /\ pc[p] = "x_reparent"
      /\ pc' = [pc EXCEPT ![p] = "x_wake_init"] /\ parent' = [parent EXCEPT ![i[p]] = initproc]
      /\ UNCHANGED <<state, chan, lock, wait_lock, cproc, on, next, after, i, w, arg>>
  BY Zenon DEF reparent, FindsChild, At, Goto, lockVars, cpuVars
<1>2. /\ on[c] = p /\ after[p] = "none" /\ cproc[c] = p /\ state[p] = "RUNNING" /\ wait_lock = c
      /\ \A d \in CPUs \ {c} : cproc[d] # p
      /\ w[p] = 0 /\ GivesAway(p)
  <2>1. pc[p] \in Holding /\ pc[p] \notin {"x_release", "x_wake_init", "x_wake_parent"}
    BY Zenon, <1>1 DEF Holding, Exiting
  <2>2. w[p] = 0 /\ GivesAway(p)
    BY Zenon, <2>1 DEF Inv, InvIndex, Indexes, InvReparent
  <2>3. pc[p] # "x_release"
    BY Zenon, <1>1
  <2>4. /\ on[c] = p /\ after[p] = "none" /\ cproc[c] = p /\ state[p] = "RUNNING"
        /\ \A d \in CPUs \ {c} : cproc[d] # p
    <3>1. on[c] = p /\ after[p] = "none" /\ cproc[c] = p
      BY Zenon, <1>1, Runner
    <3>2. state[p] = "RUNNING"
      BY Zenon, <1>1, <2>3, Runner
    <3>3. \A d \in CPUs \ {c} : cproc[d] # p /\ on[d] # p
      BY Zenon, <1>1, Runner
    <3> QED BY Zenon, <3>1, <3>2, <3>3
  <2>5. wait_lock = c
    BY Zenon, <1>1, <2>1, Runner
  <2> QED BY Zenon, <2>2, <2>4, <2>5
<1>3. p # initproc /\ parent[p] \in Slots
  BY Zenon, <1>1, Exits DEF Exiting
<1>4. i[p] \in Slots /\ i[p] < NPROC
  <2>1. i[p] \in 0 .. NPROC /\ i[p] # NPROC
    <3>1. i \in [Slots -> 0 .. NPROC]
      BY Zenon DEF Inv, TypeOK
    <3> QED BY Zenon, <3>1 DEF FindsChild
  <2> QED BY <2>1, ProcAssumption DEF Slots
<1>5. /\ pc' \in [Slots -> Places] /\ pc'[p] = "x_wake_init" /\ (\A q \in Slots \ {p} : pc'[q] = pc[q])
      /\ parent' \in [Slots -> Slots \cup {NoProc}] /\ parent'[i[p]] = initproc
      /\ \A q \in Slots \ {i[p]} : parent'[q] = parent[q]
  BY Zenon, <1>1, <1>4, SlotFacts DEF Inv, TypeOK, Places, Exiting
<1>6. \A q \in Slots \ {p} : pc'[q] \notin Holding
  BY Zenon, <1>1, <1>5, OneHolder DEF Holding, Exiting
<1>7. TypeOK'
  BY Zenon, <1>1, <1>5 DEF Inv, TypeOK
<1>8. InvCpu'
  <2>1. ASSUME NEW d \in CPUs, cproc[d] # NoProc PROVE Owned(d, cproc[d])'
    <3>1. Owned(d, cproc[d]) /\ cproc[d] \in Slots
      BY Zenon, <2>1, SlotOrNone DEF Inv, InvCpu
    <3>2. \/ pc'[cproc[d]] = pc[cproc[d]]
          \/ pc'[cproc[d]] \notin {"s_release", "x_release"} /\ state[cproc[d]] = "RUNNING"
      <4>1. pc'[p] \notin {"s_release", "x_release"}
        BY Zenon, <1>5
      <4>2. CASE cproc[d] = p
        BY Zenon, <1>2, <4>1, <4>2
      <4>3. CASE cproc[d] # p
        BY Zenon, <1>5, <3>1, <4>3
      <4> QED BY Zenon, <4>2, <4>3
    <3> QED BY Zenon, <1>1, <3>1, <3>2 DEF Owned
  <2> QED BY Zenon, <1>1, <2>1 DEF Inv, InvCpu
<1>9. InvState'
  <2>1. Consistent(p)'
    BY Zenon, <1>1, <1>2, <1>5 DEF Consistent, Free
  <2> QED BY Zenon, <1>1, <1>5, <2>1 DEF Inv, InvState, Consistent
<1>10. InvFork'
  <2>1. \A q \in Slots : pc'[q] \in Forking => q # p /\ pc'[q] = pc[q]
    BY Zenon, <1>5 DEF Forking
  <2>2. \A q \in Slots : pc'[q] \in Forking => arg[q] \in Slots \ {i[p]}
    BY <1>3, <2>1, SlotFacts DEF Inv, InvFork, Fills, FindsChild
  <2>3. \A q \in Slots : Fills(q)'
    BY Zenon, <1>1, <1>5, <2>1, <2>2 DEF Inv, InvFork, Fills
  <2> QED BY Zenon, <1>1, <2>1, <2>3 DEF Inv, InvFork
<1>11. InvParent'
  <2>1. i[p] # initproc /\ state[i[p]] # "UNUSED"
    BY Zenon, <1>3, <1>4, SlotFacts DEF Inv, InvParent, FindsChild
  <2>2. state[initproc] \notin Free \cup {"ZOMBIE"} /\ parent[initproc] = NoProc /\ pc[initproc] \notin Exiting
    BY Zenon DEF Inv, InvParent
  <2>3. parent'[initproc] = NoProc /\ pc'[initproc] \notin Exiting
    BY Zenon, <1>3, <1>5, <2>1, <2>2, SlotFacts
  <2>4. \A q \in Slots : parent'[q] # NoProc =>
             /\ parent'[q] # q /\ state[q] # "UNUSED"
             /\ state[parent'[q]] \notin Free \cup {"ZOMBIE"}
    BY Zenon, <1>5, <2>1, <2>2 DEF Inv, InvParent
  <2>5. \A q \in Slots \ {initproc} : state[q] \notin Free => parent'[q] # NoProc
    <3>1. \A q \in Slots : parent'[q] = parent[q] \/ parent'[q] = initproc
      BY Zenon, <1>5
    <3> QED BY Zenon, <3>1, SlotFacts DEF Inv, InvParent
  <2> QED BY Zenon, <1>1, <2>2, <2>3, <2>4, <2>5 DEF InvParent
<1>12. GivesAway(p)' /\ Scans(p)' /\ HoldsWaitLock(p)' /\ Indexes(p)'
  <2>1. \A q \in Slots : q <= i[p] => parent'[q] # p
    <3>1. \A q \in Slots : q < i[p] => parent[q] # p
      BY Zenon, <1>1, <1>2 DEF GivesAway
    <3>2. \A q \in Slots : q <= i[p] => q = i[p] \/ (q < i[p] /\ q # i[p])
      BY <1>4, SlotFacts
    <3> QED BY Zenon, <1>3, <1>5, <3>1, <3>2
  <2>2. HoldsWaitLock(p)'
    BY Zenon, <1>1, <1>2 DEF HoldsWaitLock
  <2> QED BY Zenon, <1>1, <1>4, <1>5, <2>1, <2>2 DEF GivesAway, Scans, Indexes
<1>13. InvReparent' /\ InvScan' /\ InvWait'
  BY Zenon, <1>6, <1>12, NotHolding DEF InvReparent, InvScan, InvWait
<1>14. InvChild'
  <2>1. InitAbout'
    BY Zenon, <1>1, <1>2, <1>5 DEF InitAbout
  <2>2. \A x, q \in Slots : state[x] = "SLEEPING" /\ parent'[q] = x /\ state[q] = "ZOMBIE" => x = initproc
    <3>1. \A q \in Slots : parent'[q] = parent[q] \/ parent'[q] = initproc
      BY Zenon, <1>5
    <3> QED BY Zenon, <3>1 DEF Inv, InvChild
  <2> QED BY Zenon, <1>1, <2>1, <2>2 DEF InvChild
<1>15. InvIndex'
  BY Zenon, <1>1, <1>5, <1>12 DEF Inv, InvIndex, Indexes
<1> QED BY Zenon, <1>7, <1>8, <1>9, <1>10, <1>11, <1>13, <1>14, <1>15 DEF Inv
-----------------------------------------------------------------------------
(***************************************************************************)
(* Steps that fill or free a slot                                          *)
(***************************************************************************)

\* Slot q is no running process, has no children, and is filled by no process
\* but p.
Apart(p, q) ==
  /\ q \in Slots \ {p, initproc} /\ pc[q] = "user"
  /\ \A d \in CPUs : cproc[d] # q
  /\ \A x \in Slots : parent[x] # q
  /\ \A x \in Slots \ {p} : pc[x] \in Forking => arg[x] # q

\* Of the slots' fields only those of q change, of the locals only p's.
OnlySlot(p, q) ==
  /\ \A x \in Slots \ {q} : /\ state'[x] = state[x] /\ chan'[x] = chan[x] /\ parent'[x] = parent[x]
                            /\ after'[x] = after[x] /\ lock'[x] = lock[x]
  /\ \A x \in Slots \ {p} : pc'[x] = pc[x] /\ arg'[x] = arg[x] /\ i'[x] = i[x]
  /\ w' = w /\ cproc' = cproc /\ on' = on /\ next' = next

\* The slot is free or being filled, or p has made it runnable.
FilledBy(p, q) ==
  /\ \/ state'[q] \in Free /\ parent'[q] = NoProc
     \/ state'[q] \in {"USED", "RUNNABLE"} /\ parent'[q] = p
  /\ state'[q] # "UNUSED" => after'[q] # "none"

\* From fork() or wait() to fork()'s next part or back to the caller.
ForkMove(p, q) ==
  /\ pc[p] \in Forking \cup {"f_alloc", "w_scan"} /\ pc'[p] \in Forking \cup {"ret"}
  /\ pc'[p] = "ret" => i'[p] = 0
  /\ pc'[p] \in Forking => arg'[p] = q
  /\ wait_lock' = wait_lock \/ pc[p] = "w_scan"

\* A step of one running process that fills or frees a slot.
LEMMA SlotKept ==
  ASSUME Inv, NEW c \in CPUs, NEW p \in Slots, NEW q \in Slots, Runs(c, p), TypeOK',
         Apart(p, q), OnlySlot(p, q), FilledBy(p, q), ForkMove(p, q), Fills(p)'
  PROVE  Inv'
<1> USE SlotFacts
<1>1. pc[p] \notin Exiting \cup {"s_release"} /\ pc'[p] \notin Holding
  BY Zenon DEF ForkMove, Forking, Exiting, Holding, Waiting
<1>2. on[c] = p /\ after[p] = "none" /\ cproc[c] = p /\ state[p] = "RUNNING"
  <2>1. pc[p] # "x_release"
    BY Zenon, <1>1 DEF Exiting
  <2> QED BY Zenon, <2>1, Runner
<1>3. \A d \in CPUs \ {c} : cproc[d] # p /\ on[d] # p
  BY Zenon, Runner
<1>4. /\ q # p /\ q # initproc /\ pc[q] = "user" /\ pc'[q] = "user"
      /\ pc[q] \notin Holding \cup Forking
  <2>1. q # p /\ q # initproc /\ pc[q] = "user" /\ pc'[q] = "user"
    BY Zenon DEF Apart, OnlySlot
  <2> QED BY Zenon, <2>1 DEF Forking, Exiting, Holding, Waiting
<1>5. state'[p] = "RUNNING" /\ after'[p] = "none"
  BY Zenon, <1>2, <1>4 DEF OnlySlot
<1>6. state'[q] \in {"UNUSED", "USED", "RUNNABLE"} /\ state'[q] \notin {"SLEEPING", "ZOMBIE", "RUNNING"}
  BY Zenon DEF FilledBy, Free
<1>7. \A x \in Slots \ {q} :
        /\ state'[x] = state[x] /\ chan'[x] = chan[x] /\ parent'[x] = parent[x]
        /\ after'[x] = after[x] /\ lock'[x] = lock[x]
  BY Zenon DEF OnlySlot
<1>8. \A x \in Slots \ {p} : pc'[x] = pc[x] /\ arg'[x] = arg[x] /\ i'[x] = i[x] /\ w'[x] = w[x]
  BY Zenon DEF OnlySlot
<1>9. InvCpu'
  <2>1. ASSUME NEW d \in CPUs, cproc[d] # NoProc PROVE Owned(d, cproc[d])'
    <3>1. CASE d = c
      <4>1. pc'[p] \notin {"s_release", "x_release"} /\ "RUNNING" \notin Free
        BY Zenon, <1>1 DEF Holding, Waiting, Exiting, Free
      <4> QED BY Zenon, <1>2, <1>5, <3>1, <4>1 DEF Owned, OnlySlot
    <3>2. CASE d # c
      <4>1. cproc[d] \in Slots \ {p, q}
        BY Zenon, <1>3, <2>1, <3>2, SlotOrNone DEF Apart, Inv
      <4>2. Owned(d, cproc[d])
        BY Zenon, <2>1 DEF Inv, InvCpu
      <4> QED BY Zenon, <1>7, <1>8, <4>1, <4>2 DEF Owned, OnlySlot
    <3> QED BY Zenon, <3>1, <3>2
  <2> QED BY Zenon, <2>1 DEF Inv, InvCpu, OnlySlot
<1>10. InvState'
  <2>1. Consistent(q)'
    BY Zenon, <1>4, <1>6 DEF Consistent, FilledBy, Free
  <2>2. Consistent(p)'
    BY Zenon, <1>1, <1>5 DEF Consistent, Free, Holding, Exiting
  <2>3. ASSUME NEW x \in Slots \ {p, q} PROVE Consistent(x)'
    <3>1. Consistent(x) /\ state'[x] = state[x] /\ chan'[x] = chan[x] /\ after'[x] = after[x] /\ pc'[x] = pc[x]
      BY Zenon, <1>7, <1>8 DEF Inv, InvState
    <3> QED BY Zenon, <3>1 DEF Consistent
  <2> QED BY Zenon, <2>1, <2>2, <2>3 DEF InvState
<1>11. InvWait'
  <2> SUFFICES ASSUME NEW x \in Slots, pc'[x] \in Holding PROVE HoldsWaitLock(x)'
    BY Zenon DEF InvWait, HoldsWaitLock
  <2>1. x # p /\ x # q /\ pc[x] \in Holding
    BY Zenon, <1>1, <1>4, <1>8
  <2>2. HoldsWaitLock(x) /\ after'[x] = after[x]
    BY Zenon, <1>7, <2>1 DEF Inv, InvWait
  <2>3. pc[p] # "w_scan"
    BY Zenon, <2>1, OneHolder DEF Holding, Waiting
  <2>4. wait_lock' = wait_lock /\ on' = on
    BY Zenon, <2>3 DEF ForkMove, OnlySlot
  <2> QED BY Zenon, <2>1, <2>2, <2>4 DEF HoldsWaitLock
<1>12. InvFork'
  <2>1. \A x \in Slots \ {p} : pc'[x] \in Forking =>
          pc[x] \in Forking /\ pc'[x] = pc[x] /\ arg'[x] = arg[x] /\ arg[x] # q
    BY Zenon, <1>8 DEF Apart
  <2>2. \A x \in Slots \ {p} : Fills(x)'
    <3> SUFFICES ASSUME NEW x \in Slots \ {p}, pc'[x] \in Forking PROVE Fills(x)'
      BY Zenon DEF Fills
    <3>1. Fills(x) /\ pc[x] \in Forking /\ pc'[x] = pc[x] /\ arg'[x] = arg[x] /\ arg[x] # q
      BY Zenon, <2>1 DEF Inv, InvFork
    <3>2. arg[x] \in Slots \ {q}
      BY Zenon, <3>1 DEF Fills
    <3>3. state'[arg[x]] = state[arg[x]] /\ parent'[arg[x]] = parent[arg[x]]
      BY Zenon, <1>7, <3>2
    <3> QED BY Zenon, <3>1, <3>3 DEF Fills
  <2>3. ASSUME NEW x \in Slots, NEW y \in Slots,
               pc'[x] \in Forking, pc'[y] \in Forking, arg'[x] = arg'[y]
        PROVE  x = y
    <3>1. CASE x = p
      BY Zenon, <2>1, <2>3, <3>1 DEF ForkMove
    <3>2. CASE y = p
      BY Zenon, <2>1, <2>3, <3>2 DEF ForkMove
    <3>3. CASE x # p /\ y # p
      BY Zenon, <2>1, <2>3, <3>3 DEF Inv, InvFork
    <3> QED BY Zenon, <3>1, <3>2, <3>3
  <2> QED BY Zenon, <2>2, <2>3 DEF InvFork
<1>13. InvParent'
  <2>1. ASSUME NEW x \in Slots, parent'[x] # NoProc
        PROVE  /\ parent'[x] # x /\ state'[x] # "UNUSED"
               /\ state'[parent'[x]] \notin Free \cup {"ZOMBIE"}
    <3>1. CASE x = q
      <4>1. parent'[q] = p /\ state'[q] \in {"USED", "RUNNABLE"}
        BY Zenon, <2>1, <3>1 DEF FilledBy
      <4> QED BY Zenon, <1>4, <1>5, <3>1, <4>1 DEF Free
    <3>2. CASE x # q
      <4>1. parent'[x] = parent[x] /\ state'[x] = state[x] /\ parent[x] # q
        BY Zenon, <1>7, <3>2 DEF Apart
      <4>2. parent[x] \in Slots \ {q}
        BY Zenon, <2>1, <4>1, SlotOrNone DEF Inv
      <4> QED BY Zenon, <1>7, <2>1, <4>1, <4>2 DEF Inv, InvParent
    <3> QED BY Zenon, <3>1, <3>2
  <2>2. ASSUME NEW x \in Slots \ {initproc}, state'[x] \notin Free PROVE parent'[x] # NoProc
    <3>1. CASE x = q
      BY Zenon, <2>2, <3>1 DEF FilledBy
    <3>2. CASE x # q
      BY Zenon, <1>7, <2>2, <3>2 DEF Inv, InvParent
    <3> QED BY Zenon, <3>1, <3>2
  <2>3. parent'[initproc] = NoProc /\ state'[initproc] \notin Free \cup {"ZOMBIE"}
    BY Zenon, <1>4, <1>7 DEF Inv, InvParent
  <2>4. pc'[initproc] \notin Exiting
    BY Zenon, <1>1, <1>8 DEF Inv, InvParent, Holding
  <2> QED BY Zenon, <2>1, <2>2, <2>3, <2>4 DEF InvParent
<1>14. \A x \in Slots \ {p} : \A y \in Slots : parent'[y] = x => parent[y] = x /\ y # q
  BY Zenon, <1>7 DEF FilledBy
<1>15. InvReparent' /\ InvScan'
  <2>1. ASSUME NEW x \in Slots \ {p} PROVE GivesAway(x)'
    <3>1. GivesAway(x) /\ pc'[x] = pc[x] /\ i'[x] = i[x]
      BY Zenon, <1>8 DEF Inv, InvReparent
    <3> QED BY Zenon, <1>14, <3>1 DEF GivesAway
  <2>2. ASSUME NEW x \in Slots \ {p} PROVE Scans(x)'
    <3>1. Scans(x) /\ pc'[x] = pc[x] /\ i'[x] = i[x] /\ w'[x] = w[x]
      BY Zenon, <1>8 DEF Inv, InvScan
    <3>2. pc[x] \in {"x_wake_parent", "x_zombie", "x_release"} =>
            parent'[x] = parent[x] /\ state'[parent[x]] = state[parent[x]]
      <4> SUFFICES ASSUME pc[x] \in {"x_wake_parent", "x_zombie", "x_release"}
                   PROVE  parent'[x] = parent[x] /\ state'[parent[x]] = state[parent[x]]
        BY Zenon
      <4>1. pc[x] \in Exiting
        BY Zenon DEF Exiting
      <4>2. x # q /\ parent[x] \in Slots \ {q}
        BY Zenon, <1>4, <4>1, Exits DEF Apart, Holding
      <4> QED BY Zenon, <1>7, <4>2
    <3>3. \A y \in Slots : parent'[y] = x => parent[y] = x /\ state'[y] = state[y]
      BY Zenon, <1>7, <1>14
    <3> QED BY Zenon, <3>1, <3>2, <3>3 DEF Scans
  <2> QED BY Zenon, <1>1, <2>1, <2>2, NotHolding DEF InvReparent, InvScan
<1>16. InvChild'
  <2>1. ASSUME NEW x \in Slots, NEW y \in Slots,
               state'[x] = "SLEEPING", parent'[y] = x, state'[y] = "ZOMBIE"
        PROVE  x = initproc /\ InitAbout'
    <3>1. x # q /\ y # q
      BY Zenon, <1>6, <2>1
    <3>2. x = initproc /\ InitAbout
      BY Zenon, <1>7, <2>1, <3>1 DEF Inv, InvChild
    <3>3. PICK z \in Slots : pc[z] = "x_wake_init" /\ w[z] = 0
      BY Zenon, <3>2 DEF InitAbout
    <3>4. z # p
      BY Zenon, <1>1, <3>3 DEF Exiting
    <3> QED BY Zenon, <1>8, <3>2, <3>3, <3>4 DEF InitAbout
  <2> QED BY Zenon, <2>1 DEF InvChild
<1>17. InvIndex'
  <2>1. Indexes(p)'
    <3>1. /\ pc[p] \notin {"x_wake_init", "x_wake_parent"}
          /\ pc'[p] \notin {"x_wake_init", "x_wake_parent"}
          /\ pc'[p] \in {"user", "ret", "x_lock", "x_wake_parent", "x_zombie", "x_release"} => pc'[p] = "ret"
      BY Zenon, <1>1 DEF ForkMove, Forking, Exiting
    <3>2. w[p] = 0
      BY Zenon, <3>1 DEF Inv, InvIndex, Indexes
    <3> QED BY Zenon, <3>1, <3>2 DEF Indexes, ForkMove, OnlySlot
  <2> QED BY Zenon, <1>8, <2>1 DEF Inv, InvIndex, Indexes
<1> QED BY Zenon, <1>9, <1>10, <1>11, <1>12, <1>13, <1>15, <1>16, <1>17 DEF Inv

\* A slot that is free, or that p fills, is no concern of anyone else.
LEMMA FreeSlot ==
  ASSUME Inv, NEW c \in CPUs, NEW p \in Slots, NEW q \in Slots, Runs(c, p), pc[p] # "x_release",
         state[q] \in Free, state[q] = "USED" => pc[p] \in Forking /\ arg[p] = q
  PROVE  Apart(p, q)
<1>1. q # p /\ q # initproc /\ pc[q] = "user"
  <2>1. state[p] \notin Free /\ state[initproc] \notin Free
    BY Zenon, Runner DEF Inv, InvParent
  <2>2. pc[q] = "user"
    BY Zenon DEF Inv, InvState, Consistent
  <2> QED BY Zenon, <2>1, <2>2
<1>2. \A d \in CPUs : cproc[d] # q
  BY Zenon, SlotFacts DEF Inv, InvCpu, Owned
<1>3. \A x \in Slots : parent[x] # q
  BY Zenon, SlotFacts DEF Inv, InvParent
<1>4. ASSUME NEW x \in Slots \ {p}, pc[x] \in Forking, arg[x] = q PROVE FALSE
  <2>1. state[q] = "USED"
    BY Zenon, <1>4 DEF Inv, InvFork, Fills
  <2> QED BY Zenon, <1>4, <2>1 DEF Inv, InvFork
<1> QED BY Zenon, <1>1, <1>2, <1>3, <1>4 DEF Apart

\* So is a zombie whose lock is free, for the parent that holds wait_lock: it
\* has switched away for the last time.
LEMMA ZombieSlot ==
  ASSUME Inv, NEW c \in CPUs, NEW p \in Slots, NEW q \in Slots, Runs(c, p), pc[p] = "w_scan",
         state[q] = "ZOMBIE", lock[q] = NoCpu
  PROVE  Apart(p, q)
<1>1. q # p /\ q # initproc
  BY Zenon, Runner DEF Inv, InvParent
<1>2. pc[q] = "user"
  <2>1. pc[q] = "x_release" => q = p
    BY Zenon, OneHolder DEF Holding, Waiting, Exiting
  <2> QED BY Zenon, <1>1, <2>1 DEF Inv, InvState, Consistent
<1>3. ASSUME NEW d \in CPUs, cproc[d] = q PROVE FALSE
  <2>1. Owned(d, q)
    BY Zenon, <1>3, SlotFacts DEF Inv, InvCpu
  <2>2. after[q] # "none"
    BY Zenon, <1>2 DEF Inv, InvState, Consistent
  <2> QED BY Zenon, <2>1, <2>2, SlotFacts DEF Owned
<1>4. \A x \in Slots : parent[x] # q
  BY Zenon, SlotFacts DEF Inv, InvParent
<1>5. \A x \in Slots \ {p} : pc[x] \in Forking => arg[x] # q
  BY Zenon DEF Inv, InvFork, Fills
<1> QED BY Zenon, <1>1, <1>2, <1>3, <1>4, <1>5 DEF Apart

\* freeproc() and the return from the system call.
LEMMA FreeKept ==
  ASSUME Inv, NEW c \in CPUs, NEW p \in Slots, NEW q \in Slots, Runs(c, p), Apart(p, q),
         freeproc(q), Return(p), UNCHANGED <<cpuVars, w>>,
         lock' \in [Slots -> CPUs \cup {NoCpu}], \A x \in Slots \ {q} : lock'[x] = lock[x],
         pc[p] \in Forking \cup {"f_alloc", "w_scan"}, wait_lock' = wait_lock \/ pc[p] = "w_scan"
  PROVE  Inv'
<1>1. /\ state' = [state EXCEPT ![q] = "UNUSED"] /\ chan' = [chan EXCEPT ![q] = NoProc]
      /\ parent' = [parent EXCEPT ![q] = NoProc] /\ after' = [after EXCEPT ![q] = "none"]
  BY Zenon DEF freeproc
<1>2. /\ state \in [Slots -> States] /\ chan \in [Slots -> Slots \cup {NoProc}]
      /\ parent \in [Slots -> Slots \cup {NoProc}]
      /\ after \in [Slots -> {"none", "forkret", "yield", "sleep", "exit"}]
  BY Zenon DEF Inv, TypeOK
<1>3. /\ state' \in [Slots -> States] /\ chan' \in [Slots -> Slots \cup {NoProc}]
      /\ parent' \in [Slots -> Slots \cup {NoProc}]
      /\ after' \in [Slots -> {"none", "forkret", "yield", "sleep", "exit"}]
      /\ state'[q] = "UNUSED" /\ parent'[q] = NoProc
      /\ \A x \in Slots \ {q} : /\ state'[x] = state[x] /\ chan'[x] = chan[x]
                                /\ parent'[x] = parent[x] /\ after'[x] = after[x]
  BY Zenon, <1>1, <1>2 DEF States
<1>4. /\ pc' \in [Slots -> Places] /\ i' \in [Slots -> 0 .. NPROC] /\ arg' \in [Slots -> Nat]
      /\ pc'[p] = "ret" /\ i'[p] = 0
      /\ \A x \in Slots \ {p} : pc'[x] = pc[x] /\ i'[x] = i[x] /\ arg'[x] = arg[x]
  BY Zenon, ReturnFacts
<1>5. TypeOK'
  BY Zenon, <1>3, <1>4 DEF Inv, TypeOK, cpuVars
<1>6. OnlySlot(p, q)
  BY Zenon, <1>3, <1>4 DEF OnlySlot, cpuVars
<1>7. FilledBy(p, q)
  BY Zenon, <1>3 DEF FilledBy, Free
<1>8. pc'[p] \notin Forking
  BY Zenon, <1>4 DEF Forking
<1>9. ForkMove(p, q) /\ Fills(p)'
  BY Zenon, <1>4, <1>8 DEF ForkMove, Fills
<1> QED BY Zenon, <1>5, <1>6, <1>7, <1>9, SlotKept

\* A round of allocproc().
LEMMA AllocprocStep ==
  ASSUME Inv, NEW c \in CPUs, NEW p \in Slots, allocproc(c, p)
  PROVE  Inv'
<1>1. Runs(c, p) /\ pc[p] = "f_alloc" /\ UNCHANGED <<wait_lock, cproc, on, next, w>>
  BY Zenon DEF allocproc, At, cpuVars
<1>2. pc[p] # "x_release" /\ pc[p] \notin Forking
  BY Zenon, <1>1 DEF Forking
<1>3. /\ state \in [Slots -> States] /\ pc \in [Slots -> Places] /\ i \in [Slots -> 0 .. NPROC]
      /\ arg \in [Slots -> Nat] /\ w \in [Slots -> 0 .. NPROC] /\ lock \in [Slots -> CPUs \cup {NoCpu}]
      /\ after \in [Slots -> {"none", "forkret", "yield", "sleep", "exit"}]
  BY Zenon DEF Inv, TypeOK
<1>4. w[p] = 0
  BY Zenon, <1>1 DEF Inv, InvIndex, Indexes
<1>5. i[p] < NPROC => i[p] \in Slots
  BY <1>3, ProcAssumption DEF Slots
<1>6. CASE Return(p) /\ UNCHANGED <<slotVars, lock, nextpid, after, w>>
  <2>1. LocalTypes /\ Private(p) /\ Wakes /\ pc'[p] = "ret" /\ i'[p] = 0
    BY Zenon, <1>1, <1>3, <1>6, ReturnFacts DEF LocalTypes, Private, Wakes, slotVars
  <2>2. Indexes(p)' /\ pc'[p] \in Plain /\ pc[p] \in Plain
    BY Zenon, <1>1, <1>4, <2>1 DEF Indexes, Plain
  <2>3. UNCHANGED <<chan, parent, lock, cproc, on, next, after>>
    BY Zenon, <1>1, <1>6 DEF slotVars
  <2> QED BY Zenon, <1>1, <2>1, <2>2, <2>3, PlainKept
<1>7. CASE /\ i[p] < NPROC /\ i' = [i EXCEPT ![p] = i[p] + 1]
           /\ UNCHANGED <<slotVars, lock, nextpid, pc, after, w, havekids, arg>>
  <2>1. i[p] + 1 \in 0 .. NPROC
    BY <1>3, <1>7, ProcAssumption
  <2>2. i' \in [Slots -> 0 .. NPROC] /\ \A x \in Slots \ {p} : i'[x] = i[x]
    BY Zenon, <1>3, <1>7, <2>1
  <2>3. UNCHANGED <<state, chan, parent, lock, cproc, on, next, after, pc, arg>>
    BY Zenon, <1>1, <1>7 DEF slotVars
  <2>4. LocalTypes /\ Private(p) /\ Wakes
    BY Zenon, <1>1, <1>3, <2>2, <2>3 DEF LocalTypes, Private, Wakes
  <2>5. Indexes(p)' /\ pc'[p] \in Plain /\ pc[p] \in Plain
    BY Zenon, <1>1, <1>4, <2>3 DEF Indexes, Plain
  <2> QED BY Zenon, <1>1, <2>3, <2>4, <2>5, PlainKept
<1>8. CASE /\ i[p] < NPROC /\ state[i[p]] = "UNUSED" /\ freeproc(i[p]) /\ Return(p)
           /\ UNCHANGED <<lock, w>>
  <2>1. PICK q \in Slots : q = i[p]
    BY Zenon, <1>5, <1>8
  <2>2. state[q] \in Free /\ state[q] # "USED" /\ freeproc(q)
    BY Zenon, <1>8, <2>1 DEF Free
  <2>3. Apart(p, q)
    BY Zenon, <1>1, <1>2, <2>2, FreeSlot
  <2>4. UNCHANGED <<cpuVars, w>> /\ pc[p] \in Forking \cup {"f_alloc", "w_scan"}
    BY Zenon, <1>1 DEF cpuVars
  <2> QED BY Zenon, <1>1, <1>3, <1>8, <2>2, <2>3, <2>4, FreeKept
<1>9. CASE /\ i[p] < NPROC /\ state[i[p]] = "UNUSED"
           /\ state' = [state EXCEPT ![i[p]] = "USED"] /\ lock' = [lock EXCEPT ![i[p]] = c]
           /\ after' = [after EXCEPT ![i[p]] = "forkret"]
           /\ pc' = [pc EXCEPT ![p] = "f_copy", ![i[p]] = "user"]
           /\ i' = [i EXCEPT ![p] = 0] /\ arg' = [arg EXCEPT ![p] = i[p]]
           /\ UNCHANGED <<chan, killed, parent, w, havekids>>
  <2>1. PICK q \in Slots : q = i[p]
    BY Zenon, <1>5, <1>9
  <2>2. state[q] \in Free /\ state[q] # "USED" /\ state[q] = "UNUSED"
    BY Zenon, <1>9, <2>1 DEF Free
  <2>3. Apart(p, q)
    BY Zenon, <1>1, <1>2, <2>2, FreeSlot
  <2>4. parent[q] = NoProc /\ q # p /\ pc[q] = "user"
    BY Zenon, <2>2, <2>3 DEF Inv, InvParent, Apart
  <2>5. /\ state' = [state EXCEPT ![q] = "USED"] /\ lock' = [lock EXCEPT ![q] = c]
        /\ after' = [after EXCEPT ![q] = "forkret"]
        /\ pc' = [pc EXCEPT ![p] = "f_copy", ![q] = "user"]
        /\ i' = [i EXCEPT ![p] = 0] /\ arg' = [arg EXCEPT ![p] = q]
        /\ UNCHANGED <<chan, parent>>
    BY Zenon, <1>9, <2>1
  <2>6. /\ state' \in [Slots -> States] /\ lock' \in [Slots -> CPUs \cup {NoCpu}]
        /\ after' \in [Slots -> {"none", "forkret", "yield", "sleep", "exit"}]
        /\ state'[q] = "USED" /\ after'[q] = "forkret"
        /\ \A x \in Slots \ {q} : state'[x] = state[x] /\ lock'[x] = lock[x] /\ after'[x] = after[x]
    BY Zenon, <1>3, <2>5 DEF States
  <2>7. /\ pc' \in [Slots -> Places] /\ i' \in [Slots -> 0 .. NPROC]
        /\ pc'[p] = "f_copy" /\ i'[p] = 0
        /\ \A x \in Slots \ {p} : pc'[x] = pc[x] /\ i'[x] = i[x]
    BY <1>3, <2>4, <2>5, ProcAssumption DEF Places, Forking
  <2>8. arg' \in [Slots -> Nat] /\ arg'[p] = q /\ \A x \in Slots \ {p} : arg'[x] = arg[x]
    BY Zenon, <1>3, <2>5, SlotFacts
  <2>9. TypeOK'
    BY Zenon, <1>1, <2>5, <2>6, <2>7, <2>8 DEF Inv, TypeOK
  <2>10. OnlySlot(p, q)
    BY Zenon, <1>1, <2>5, <2>6, <2>7, <2>8 DEF OnlySlot
  <2>11. FilledBy(p, q)
    BY Zenon, <2>4, <2>5, <2>6 DEF FilledBy, Free
  <2>12. ForkMove(p, q) /\ Fills(p)'
    BY Zenon, <1>1, <2>4, <2>5, <2>6, <2>7, <2>8 DEF ForkMove, Fills, Forking
  <2> QED BY Zenon, <1>1, <2>3, <2>9, <2>10, <2>11, <2>12, SlotKept
<1> QED BY Zenon, <1>6, <1>7, <1>8, <1>9 DEF allocproc

\* The slot that fork() fills.
LEMMA ForkFacts ==
  ASSUME Inv, NEW c \in CPUs, NEW p \in Slots, Runs(c, p), pc[p] \in Forking
  PROVE  \E q \in Slots : /\ q = arg[p] /\ Apart(p, q) /\ state[q] = "USED" /\ after[q] # "none"
                          /\ parent[q] = IF pc[p] = "f_run" THEN p ELSE NoProc
<1>1. arg[p] \in Slots /\ state[arg[p]] = "USED" /\ parent[arg[p]] = IF pc[p] = "f_run" THEN p ELSE NoProc
  BY Zenon DEF Inv, InvFork, Fills
<1>2. after[arg[p]] # "none"
  BY Zenon, <1>1 DEF Inv, InvState, Consistent
<1>3. pc[p] # "x_release" /\ state[arg[p]] \in Free
  BY Zenon, <1>1 DEF Forking, Free
<1>4. Apart(p, arg[p])
  BY Zenon, <1>1, <1>3, FreeSlot
<1> QED BY Zenon, <1>1, <1>2, <1>4

\* The copy of the parent's memory, or its failure.
LEMMA ForkCopyStep ==
  ASSUME Inv, NEW c \in CPUs, NEW p \in Slots, ForkCopy(c, p)
  PROVE  Inv'
<1>1. Runs(c, p) /\ pc[p] = "f_copy" /\ UNCHANGED <<wait_lock, cproc, on, next, w>>
  BY Zenon DEF ForkCopy, At, cpuVars, localVars
<1>2. pc[p] \in Forking /\ pc[p] # "f_run"
  BY Zenon, <1>1 DEF Forking
<1>3. PICK q \in Slots : /\ q = arg[p] /\ Apart(p, q) /\ state[q] = "USED" /\ after[q] # "none"
                         /\ parent[q] = NoProc
  BY Zenon, <1>1, <1>2, ForkFacts
<1>4. lock' = [lock EXCEPT ![q] = NoCpu]
  BY Zenon, <1>3 DEF ForkCopy
<1>5. lock' \in [Slots -> CPUs \cup {NoCpu}] /\ \A x \in Slots \ {q} : lock'[x] = lock[x]
  BY Zenon, <1>4 DEF Inv, TypeOK
<1>6. CASE freeproc(arg[p]) /\ Return(p)
  <2>1. freeproc(q)
    BY Zenon, <1>3, <1>6
  <2>2. UNCHANGED <<cpuVars, w>>
    BY Zenon, <1>1 DEF cpuVars
  <2> QED BY Zenon, <1>1, <1>2, <1>3, <1>5, <1>6, <2>1, <2>2, FreeKept
<1>7. CASE Goto(p, "f_parent") /\ UNCHANGED <<slotVars, after, localVars>>
  <2>1. /\ pc' = [pc EXCEPT ![p] = "f_parent"]
        /\ UNCHANGED <<state, chan, parent, after, i, arg>>
    BY Zenon, <1>7 DEF Goto, slotVars, localVars
  <2>2. pc' \in [Slots -> Places] /\ pc'[p] = "f_parent" /\ \A x \in Slots \ {p} : pc'[x] = pc[x]
    BY Zenon, <2>1 DEF Inv, TypeOK, Places, Forking
  <2>3. TypeOK'
    BY Zenon, <1>1, <1>5, <2>1, <2>2 DEF Inv, TypeOK
  <2>4. OnlySlot(p, q)
    BY Zenon, <1>1, <1>5, <2>1, <2>2 DEF OnlySlot
  <2>5. FilledBy(p, q)
    BY Zenon, <1>3, <2>1 DEF FilledBy, Free
  <2>6. ForkMove(p, q) /\ Fills(p)'
    BY Zenon, <1>1, <1>3, <2>1, <2>2 DEF ForkMove, Fills, Forking
  <2> QED BY Zenon, <1>1, <1>3, <2>3, <2>4, <2>5, <2>6, SlotKept
<1> QED BY Zenon, <1>6, <1>7 DEF ForkCopy

\* np->parent = p, under wait_lock.
LEMMA ForkParentStep ==
  ASSUME Inv, NEW c \in CPUs, NEW p \in Slots, ForkParent(c, p)
  PROVE  Inv'
<1>1. /\ Runs(c, p) /\ pc[p] = "f_parent" /\ pc' = [pc EXCEPT ![p] = "f_run"]
      /\ UNCHANGED <<state, chan, lock, wait_lock, cproc, on, next, after, i, w, arg>>
  BY Zenon DEF ForkParent, At, Goto, lockVars, cpuVars, localVars
<1>2. pc[p] \in Forking /\ pc[p] # "f_run"
  BY Zenon, <1>1 DEF Forking
<1>3. PICK q \in Slots : q = arg[p] /\ Apart(p, q) /\ state[q] = "USED" /\ after[q] # "none"
  BY Zenon, <1>1, <1>2, ForkFacts
<1>4. parent' = [parent EXCEPT ![q] = p]
  BY Zenon, <1>3 DEF ForkParent
<1>5. /\ parent' \in [Slots -> Slots \cup {NoProc}] /\ parent'[q] = p
      /\ \A x \in Slots \ {q} : parent'[x] = parent[x]
  BY Zenon, <1>4 DEF Inv, TypeOK
<1>6. pc' \in [Slots -> Places] /\ pc'[p] = "f_run" /\ \A x \in Slots \ {p} : pc'[x] = pc[x]
  BY Zenon, <1>1 DEF Inv, TypeOK, Places, Forking
<1>7. TypeOK'
  BY Zenon, <1>1, <1>5, <1>6 DEF Inv, TypeOK
<1>8. OnlySlot(p, q)
  BY Zenon, <1>1, <1>5, <1>6 DEF OnlySlot
<1>9. FilledBy(p, q)
  BY Zenon, <1>1, <1>3, <1>5 DEF FilledBy
<1>10. ForkMove(p, q) /\ Fills(p)'
  BY Zenon, <1>1, <1>3, <1>5, <1>6 DEF ForkMove, Fills, Forking
<1> QED BY Zenon, <1>1, <1>3, <1>7, <1>8, <1>9, <1>10, SlotKept

\* np->state = RUNNABLE, and fork() returns.
LEMMA ForkRunnableStep ==
  ASSUME Inv, NEW c \in CPUs, NEW p \in Slots, ForkRunnable(c, p)
  PROVE  Inv'
<1>1. /\ Runs(c, p) /\ pc[p] = "f_run" /\ Return(p)
      /\ UNCHANGED <<chan, parent, lock, wait_lock, cproc, on, next, after, w>>
  BY Zenon DEF ForkRunnable, At, lockVars, cpuVars
<1>2. pc[p] \in Forking
  BY Zenon, <1>1 DEF Forking
<1>3. PICK q \in Slots : q = arg[p] /\ Apart(p, q) /\ after[q] # "none" /\ parent[q] = p
  BY Zenon, <1>1, <1>2, ForkFacts
<1>4. state' = [state EXCEPT ![q] = "RUNNABLE"]
  BY Zenon, <1>3 DEF ForkRunnable
<1>5. /\ state' \in [Slots -> States] /\ state'[q] = "RUNNABLE"
      /\ \A x \in Slots \ {q} : state'[x] = state[x]
  BY Zenon, <1>4 DEF Inv, TypeOK, States
<1>6. /\ pc' \in [Slots -> Places] /\ i' \in [Slots -> 0 .. NPROC] /\ arg' \in [Slots -> Nat]
      /\ pc'[p] = "ret" /\ i'[p] = 0
      /\ \A x \in Slots \ {p} : pc'[x] = pc[x] /\ i'[x] = i[x] /\ arg'[x] = arg[x]
  BY Zenon, <1>1, ReturnFacts
<1>7. TypeOK'
  BY Zenon, <1>1, <1>5, <1>6 DEF Inv, TypeOK
<1>8. OnlySlot(p, q)
  BY Zenon, <1>1, <1>5, <1>6 DEF OnlySlot
<1>9. FilledBy(p, q)
  BY Zenon, <1>1, <1>3, <1>5 DEF FilledBy
<1>10. ForkMove(p, q) /\ Fills(p)'
  BY Zenon, <1>1, <1>6 DEF ForkMove, Fills, Forking
<1> QED BY Zenon, <1>1, <1>3, <1>7, <1>8, <1>9, <1>10, SlotKept

\* wait() frees a zombie.
LEMMA WaitFreeStep ==
  ASSUME Inv, NEW c \in CPUs, NEW p \in Slots, WaitScan(c, p), ~UNCHANGED <<slotVars, after>>
  PROVE  Inv'
<1>1. /\ Runs(c, p) /\ pc[p] = "w_scan" /\ Return(p) /\ freeproc(i[p]) /\ UNCHANGED <<w, lock, cpuVars>>
      /\ i[p] < NPROC /\ lock[i[p]] = NoCpu /\ state[i[p]] = "ZOMBIE"
  BY Zenon DEF WaitScan, At
<1>2. PICK q \in Slots : q = i[p]
  BY <1>1, ProcAssumption DEF Slots, Inv, TypeOK
<1>3. freeproc(q) /\ lock[q] = NoCpu /\ state[q] = "ZOMBIE"
  BY Zenon, <1>1, <1>2
<1>4. Apart(p, q)
  BY Zenon, <1>1, <1>3, ZombieSlot
<1>5. lock' \in [Slots -> CPUs \cup {NoCpu}] /\ \A x \in Slots \ {q} : lock'[x] = lock[x]
  BY Zenon, <1>1 DEF Inv, TypeOK
<1>6. UNCHANGED <<cpuVars, w>> /\ pc[p] \in Forking \cup {"f_alloc", "w_scan"}
  BY Zenon, <1>1
<1> QED BY Zenon, <1>1, <1>3, <1>4, <1>5, <1>6, FreeKept
-----------------------------------------------------------------------------
(***************************************************************************)
(* Switches: steps of one process and the CPU it belongs to                *)
(***************************************************************************)

\* Nothing changes for the other processes and the other CPUs.
OnlyTurn(c, p) ==
  /\ parent' = parent /\ i' = i /\ w' = w /\ arg' = arg
  /\ \A x \in Slots \ {p} : /\ state'[x] = state[x] /\ chan'[x] = chan[x] /\ after'[x] = after[x]
                            /\ lock'[x] = lock[x] /\ pc'[x] = pc[x]
  /\ \A d \in CPUs \ {c} : cproc'[d] = cproc[d] /\ on'[d] = on[d]

\* No other CPU has p, and c has it by the rules.
Seat(c, p) ==
  /\ \A d \in CPUs \ {c} : cproc[d] # p
  /\ on[c] \in {NoProc, p} /\ cproc'[c] \in {NoProc, p} /\ on'[c] \in {NoProc, cproc'[c]}
  /\ cproc'[c] = p => Owned(c, p)'

\* p becomes a zombie in exit() and falls asleep in wait().
Turn(p) ==
  /\ state[p] \notin Free /\ state'[p] \notin Free
  /\ state'[p] = "ZOMBIE" /\ state[p] # "ZOMBIE" =>
       /\ pc[p] \in Exiting /\ state[parent[p]] # "SLEEPING"
       /\ \A y \in Slots : parent[y] # p
  /\ state'[p] = "SLEEPING" /\ state[p] # "SLEEPING" =>
       /\ pc[p] \in Holding
       /\ \A y \in Slots : parent[y] = p => state[y] # "ZOMBIE"

\* p stays at its place or moves outside fork(), and gives up wait_lock only if
\* it holds it.
TurnMove(p) ==
  /\ \/ pc'[p] = pc[p]
     \/ pc[p] \notin Forking /\ pc'[p] \notin Forking /\ (pc'[p] \in Exiting => pc[p] \in Exiting)
  /\ pc[p] # "x_wake_init"
  /\ wait_lock' = wait_lock \/ pc[p] \in Holding

\* A step of one process and its CPU, by these rules.
LEMMA SwitchKept ==
  ASSUME Inv, NEW c \in CPUs, NEW p \in Slots, TypeOK', OnlyTurn(c, p), Seat(c, p), Turn(p),
         TurnMove(p), Consistent(p)', HoldsWaitLock(p)', GivesAway(p)', Scans(p)', Indexes(p)'
  PROVE  Inv'
<1> USE SlotFacts
<1>1. \A x \in Slots \ {p} :
        /\ state'[x] = state[x] /\ chan'[x] = chan[x] /\ after'[x] = after[x]
        /\ lock'[x] = lock[x] /\ pc'[x] = pc[x]
  BY Zenon DEF OnlyTurn
<1>2. parent' = parent /\ i' = i /\ w' = w /\ arg' = arg
  BY Zenon DEF OnlyTurn
<1>3. \A d \in CPUs \ {c} : cproc'[d] = cproc[d] /\ on'[d] = on[d] /\ cproc[d] # p
  BY Zenon DEF OnlyTurn, Seat
<1>4. InvCpu'
  <2>1. \A d \in CPUs : on'[d] # NoProc => cproc'[d] = on'[d]
    BY Zenon, <1>3 DEF Seat, Inv, InvCpu
  <2>2. ASSUME NEW d \in CPUs, NEW e \in CPUs, cproc'[d] = cproc'[e], cproc'[d] # NoProc PROVE d = e
    <3>1. CASE d = c
      BY Zenon, <1>3, <2>2, <3>1 DEF Seat
    <3>2. CASE e = c
      BY Zenon, <1>3, <2>2, <3>2 DEF Seat
    <3>3. CASE d # c /\ e # c
      BY Zenon, <1>3, <2>2, <3>3 DEF Inv, InvCpu
    <3> QED BY Zenon, <3>1, <3>2, <3>3
  <2>3. ASSUME NEW d \in CPUs, cproc'[d] # NoProc PROVE Owned(d, cproc[d])'
    <3>1. CASE d = c
      BY Zenon, <2>3, <3>1 DEF Seat
    <3>2. CASE d # c
      <4>1. cproc'[d] = cproc[d] /\ cproc[d] # p /\ cproc[d] # NoProc /\ on'[d] = on[d]
        BY Zenon, <1>3, <2>3, <3>2
      <4>2. cproc[d] \in Slots \ {p} /\ Owned(d, cproc[d])
        BY Zenon, <4>1, SlotOrNone DEF Inv, InvCpu
      <4> QED BY Zenon, <1>1, <4>1, <4>2 DEF Owned
    <3> QED BY Zenon, <3>1, <3>2
  <2> QED BY Zenon, <2>1, <2>2, <2>3 DEF InvCpu
<1>5. InvState'
  <2>1. ASSUME NEW x \in Slots \ {p} PROVE Consistent(x)'
    <3>1. Consistent(x) /\ state'[x] = state[x] /\ chan'[x] = chan[x] /\ after'[x] = after[x] /\ pc'[x] = pc[x]
      BY Zenon, <1>1 DEF Inv, InvState
    <3> QED BY Zenon, <3>1 DEF Consistent
  <2> QED BY Zenon, <2>1 DEF InvState
<1>6. ASSUME NEW x \in Slots \ {p}, pc[p] \in Holding PROVE pc[x] \notin Holding
  BY Zenon, <1>6, OneHolder
<1>7. InvWait'
  <2> SUFFICES ASSUME NEW x \in Slots \ {p}, pc'[x] \in Holding PROVE HoldsWaitLock(x)'
    BY Zenon DEF InvWait, HoldsWaitLock
  <2>1. pc[x] \in Holding /\ after'[x] = after[x]
    BY Zenon, <1>1
  <2>2. wait_lock' = wait_lock
    BY Zenon, <1>6, <2>1 DEF TurnMove
  <2>3. after[x] = "none" /\ \E d \in CPUs : on[d] = x /\ wait_lock = d
    BY Zenon, <2>1 DEF Inv, InvWait, HoldsWaitLock
  <2>4. PICK d \in CPUs : on[d] = x /\ wait_lock = d
    BY Zenon, <2>3
  <2>5. on'[d] = x
    BY Zenon, <1>3, <2>4 DEF Seat
  <2> QED BY Zenon, <2>1, <2>2, <2>3, <2>4, <2>5 DEF HoldsWaitLock
<1>8. InvFork'
  <2>1. \A x \in Slots : pc'[x] \in Forking => pc'[x] = pc[x]
    BY Zenon, <1>1 DEF TurnMove
  <2>2. ASSUME NEW x \in Slots, pc'[x] \in Forking PROVE Fills(x)'
    <3>1. pc'[x] = pc[x] /\ arg[x] \in Slots /\ state[arg[x]] = "USED"
          /\ parent[arg[x]] = IF pc[x] = "f_run" THEN x ELSE NoProc
      BY Zenon, <2>1, <2>2 DEF Inv, InvFork, Fills
    <3>2. arg[x] # p
      BY Zenon, <3>1 DEF Turn, Free
    <3> QED BY Zenon, <1>1, <1>2, <3>1, <3>2 DEF Fills
  <2>3. \A x \in Slots : Fills(x)'
    BY Zenon, <2>2 DEF Fills
  <2> QED BY Zenon, <1>2, <2>1, <2>3 DEF Inv, InvFork
<1>9. \A x \in Slots : state'[x] \in Free <=> state[x] \in Free
  BY Zenon, <1>1 DEF Turn
<1>10. InvParent'
  <2>1. ASSUME NEW x \in Slots, parent[x] # NoProc
        PROVE  /\ parent[x] # x /\ state'[x] # "UNUSED"
               /\ state'[parent[x]] \notin Free \cup {"ZOMBIE"}
    <3>1. /\ parent[x] \in Slots /\ parent[x] # x /\ state[x] # "UNUSED"
          /\ state[parent[x]] \notin Free /\ state[parent[x]] # "ZOMBIE"
      BY Zenon, <2>1, SlotOrNone DEF Inv, InvParent
    <3>2. state'[x] # "UNUSED"
      BY Zenon, <1>1, <3>1 DEF Turn, Free
    <3>3. state'[parent[x]] # "ZOMBIE"
      BY Zenon, <1>1, <3>1 DEF Turn
    <3> QED BY Zenon, <1>9, <3>1, <3>2, <3>3
  <2>2. \A x \in Slots \ {initproc} : state'[x] \notin Free => parent[x] # NoProc
    BY Zenon, <1>9 DEF Inv, InvParent
  <2>3. pc'[initproc] \notin Exiting
    BY Zenon, <1>1 DEF TurnMove, Inv, InvParent
  <2>4. state'[initproc] \notin Free /\ parent[initproc] = NoProc
    BY Zenon, <1>9 DEF Inv, InvParent
  <2>5. state'[initproc] # "ZOMBIE"
    BY Zenon, <1>1 DEF Turn, Inv, InvParent
  <2> QED BY Zenon, <1>2, <2>1, <2>2, <2>3, <2>4, <2>5 DEF InvParent
<1>11. InvReparent'
  <2>1. ASSUME NEW x \in Slots \ {p} PROVE GivesAway(x)'
    <3>1. GivesAway(x) /\ pc'[x] = pc[x]
      BY Zenon, <1>1 DEF Inv, InvReparent
    <3> QED BY Zenon, <1>2, <3>1 DEF GivesAway
  <2> QED BY Zenon, <2>1 DEF InvReparent
<1>12. InvScan'
  <2>1. CASE pc[p] \in Holding
    BY Zenon, <1>1, <1>6, <2>1, NotHolding DEF InvScan
  <2>2. CASE pc[p] \notin Holding
    <3>1. \A x \in Slots : /\ state'[x] = "ZOMBIE" => state[x] = "ZOMBIE"
                           /\ state'[x] = "SLEEPING" => state[x] = "SLEEPING"
      BY Zenon, <1>1, <2>2 DEF Turn, Holding
    <3>2. ASSUME NEW x \in Slots \ {p} PROVE Scans(x)'
      <4>1. Scans(x) /\ pc'[x] = pc[x]
        BY Zenon, <1>1 DEF Inv, InvScan
      <4>2. pc[x] \in {"x_wake_parent", "x_zombie", "x_release"} => parent[x] \in Slots
        BY Zenon, Exits DEF Exiting
      <4> QED BY Zenon, <1>2, <3>1, <4>1, <4>2 DEF Scans
    <3> QED BY Zenon, <3>2 DEF InvScan
  <2> QED BY Zenon, <2>1, <2>2
<1>13. InvChild'
  <2>1. ASSUME NEW x \in Slots, NEW y \in Slots,
               state'[x] = "SLEEPING", parent[y] = x, state'[y] = "ZOMBIE"
        PROVE  x = initproc /\ InitAbout'
    <3>1. x # y
      BY Zenon, <2>1
    <3>2. state[x] = "SLEEPING"
      <4>1. CASE state[x] # "SLEEPING"
        <5>1. x = p /\ y # p
          BY Zenon, <1>1, <2>1, <3>1, <4>1
        <5>2. state[y] # "ZOMBIE"
          BY Zenon, <2>1, <4>1, <5>1 DEF Turn
        <5> QED BY Zenon, <1>1, <2>1, <5>1, <5>2
      <4> QED BY Zenon, <4>1
    <3>3. state[y] = "ZOMBIE"
      <4>1. CASE state[y] # "ZOMBIE"
        <5>1. y = p
          BY Zenon, <1>1, <2>1, <4>1
        <5> QED BY Zenon, <2>1, <3>2, <4>1, <5>1 DEF Turn
      <4> QED BY Zenon, <4>1
    <3>4. x = initproc /\ InitAbout
      BY Zenon, <2>1, <3>2, <3>3 DEF Inv, InvChild
    <3>5. PICK z \in Slots : pc[z] = "x_wake_init" /\ w[z] = 0
      BY Zenon, <3>4 DEF InitAbout
    <3>6. z # p
      BY Zenon, <3>5 DEF TurnMove
    <3> QED BY Zenon, <1>1, <1>2, <3>4, <3>5, <3>6 DEF InitAbout
  <2> QED BY Zenon, <1>2, <2>1 DEF InvChild
<1>14. InvIndex'
  BY Zenon, <1>1, <1>2 DEF Inv, InvIndex, Indexes
<1> QED BY Zenon, <1>4, <1>5, <1>7, <1>8, <1>10, <1>11, <1>12, <1>13, <1>14 DEF Inv

\* The place of a process that has not yet returned from a switch is not one
\* where wait_lock is held.
LEMMA Switched ==
  ASSUME Inv, NEW p \in Slots, after[p] # "none"
  PROVE  /\ pc[p] \notin Holding
         /\ pc[p] \notin {"s_release", "x_release", "x_wake_init"}
<1>1. pc[p] \notin Holding
  BY Zenon DEF Inv, InvWait, HoldsWaitLock
<1> QED BY Zenon, <1>1 DEF Holding, Waiting, Exiting

\* What a step that leaves p at its place need not show.
LEMMA SamePlace ==
  ASSUME Inv, NEW p \in Slots, pc'[p] = pc[p], i' = i, w' = w, pc[p] \notin Holding
  PROVE  HoldsWaitLock(p)' /\ GivesAway(p)' /\ Scans(p)' /\ Indexes(p)'
<1>1. pc'[p] \notin Holding /\ Indexes(p)
  BY Zenon DEF Inv, InvIndex
<1>2. Indexes(p)'
  BY Zenon, <1>1 DEF Indexes
<1> QED BY Zenon, <1>1, <1>2, NotHolding

\* acquire(&p->lock) in sleep().
LEMMA SleepLockStep ==
  ASSUME Inv, NEW c \in CPUs, NEW p \in Slots, SleepLock(c, p)
  PROVE  Inv'
<1>1. /\ Runs(c, p) /\ pc[p] = "w_sleep"
      /\ lock' = [lock EXCEPT ![p] = c] /\ pc' = [pc EXCEPT ![p] = "s_release"]
      /\ UNCHANGED <<state, chan, parent, wait_lock, cproc, on, next, after, i, w, arg>>
  BY Zenon DEF SleepLock, At, Goto, slotVars, cpuVars, localVars
<1>2. pc[p] \in Holding /\ pc[p] # "x_release"
  BY Zenon, <1>1 DEF Holding, Waiting
<1>3. /\ on[c] = p /\ after[p] = "none" /\ cproc[c] = p /\ state[p] = "RUNNING" /\ wait_lock = c
  BY Zenon, <1>1, <1>2, Runner
<1>4. (\A d \in CPUs \ {c} : cproc[d] # p /\ on[d] # p) /\ p # NoProc
  BY Zenon, <1>1, Runner, SlotFacts
<1>5. /\ lock' \in [Slots -> CPUs \cup {NoCpu}] /\ lock'[p] = c /\ \A x \in Slots \ {p} : lock'[x] = lock[x]
      /\ pc' \in [Slots -> Places] /\ pc'[p] = "s_release" /\ \A x \in Slots \ {p} : pc'[x] = pc[x]
  BY Zenon, <1>1 DEF Inv, TypeOK, Places, Waiting
<1>6. TypeOK' /\ OnlyTurn(c, p)
  BY Zenon, <1>1, <1>5 DEF Inv, TypeOK, OnlyTurn
<1>7. Seat(c, p)
  BY Zenon, <1>1, <1>3, <1>4, <1>5 DEF Seat, Owned, Free
<1>8. Turn(p) /\ TurnMove(p) /\ Consistent(p)'
  BY Zenon, <1>1, <1>3, <1>5 DEF Turn, TurnMove, Consistent, Free, Forking, Exiting
<1>9. HoldsWaitLock(p)'
  BY Zenon, <1>1, <1>3 DEF HoldsWaitLock
<1>10. Scans(p) /\ Indexes(p)
  BY Zenon DEF Inv, InvScan, InvIndex
<1>11. Scans(p)' /\ GivesAway(p)' /\ Indexes(p)'
  BY Zenon, <1>1, <1>5, <1>10 DEF Scans, GivesAway, Indexes
<1> QED BY Zenon, <1>6, <1>7, <1>8, <1>9, <1>11, SwitchKept

\* release(lk), and p is asleep.
LEMMA SleepStep ==
  ASSUME Inv, NEW c \in CPUs, NEW p \in Slots, Sleep(c, p)
  PROVE  Inv'
<1>1. /\ Runs(c, p) /\ pc[p] = "s_release" /\ wait_lock' = NoCpu
      /\ chan' = [chan EXCEPT ![p] = p] /\ state' = [state EXCEPT ![p] = "SLEEPING"]
      /\ after' = [after EXCEPT ![p] = "sleep"] /\ pc' = [pc EXCEPT ![p] = "w_lock"]
      /\ UNCHANGED <<parent, lock, cproc, on, next, i, w, arg>>
  BY Zenon DEF Sleep, At, Goto, cpuVars, localVars
<1>2. pc[p] \in Holding /\ pc[p] # "x_release"
  BY Zenon, <1>1 DEF Holding, Waiting
<1>3. on[c] = p /\ cproc[c] = p /\ state[p] = "RUNNING" /\ p # NoProc
  BY Zenon, <1>1, <1>2, Runner, SlotFacts
<1>4. \A d \in CPUs \ {c} : cproc[d] # p /\ on[d] # p
  BY Zenon, <1>1, Runner
<1>5. /\ state' \in [Slots -> States] /\ state'[p] = "SLEEPING" /\ \A x \in Slots \ {p} : state'[x] = state[x]
      /\ pc' \in [Slots -> Places] /\ pc'[p] = "w_lock" /\ \A x \in Slots \ {p} : pc'[x] = pc[x]
  BY Zenon, <1>1 DEF Inv, TypeOK, Places, States
<1>6. /\ after' \in [Slots -> {"none", "forkret", "yield", "sleep", "exit"}]
      /\ after'[p] = "sleep" /\ \A x \in Slots \ {p} : after'[x] = after[x]
      /\ chan' \in [Slots -> Slots \cup {NoProc}]
      /\ chan'[p] = p /\ \A x \in Slots \ {p} : chan'[x] = chan[x]
  BY Zenon, <1>1 DEF Inv, TypeOK
<1>7. TypeOK' /\ OnlyTurn(c, p)
  BY Zenon, <1>1, <1>5, <1>6 DEF Inv, TypeOK, OnlyTurn
<1>8. lock[p] = c
  <2>1. Owned(c, p)
    BY Zenon, <1>3 DEF Inv, InvCpu
  <2> QED BY Zenon, <1>1, <2>1 DEF Owned
<1>9. Seat(c, p)
  BY Zenon, <1>1, <1>3, <1>4, <1>5, <1>6, <1>8 DEF Seat, Owned, Free
<1>10. \A y \in Slots : parent[y] = p => state[y] # "ZOMBIE"
  BY Zenon, <1>1 DEF Inv, InvScan, Scans
<1>11. Turn(p) /\ TurnMove(p) /\ Consistent(p)'
  BY Zenon, <1>1, <1>2, <1>3, <1>5, <1>6, <1>10 DEF Turn, TurnMove, Consistent, Free, Forking, Exiting
<1>12. pc'[p] \notin Holding /\ Indexes(p)
  BY Zenon, <1>5 DEF Holding, Waiting, Exiting, Inv, InvIndex
<1>13. Indexes(p)'
  BY Zenon, <1>1, <1>5, <1>12 DEF Indexes
<1> QED BY Zenon, <1>7, <1>9, <1>11, <1>12, <1>13, NotHolding, SwitchKept

\* p->state = ZOMBIE, with p->lock taken.
LEMMA ExitZombieStep ==
  ASSUME Inv, NEW c \in CPUs, NEW p \in Slots, ExitZombie(c, p)
  PROVE  Inv'
<1>1. /\ Runs(c, p) /\ pc[p] = "x_zombie"
      /\ lock' = [lock EXCEPT ![p] = c] /\ state' = [state EXCEPT ![p] = "ZOMBIE"]
      /\ pc' = [pc EXCEPT ![p] = "x_release"]
      /\ UNCHANGED <<chan, parent, wait_lock, cproc, on, next, after, i, w, arg>>
  BY Zenon DEF ExitZombie, At, Goto, cpuVars, localVars
<1>2. pc[p] \in Holding /\ pc[p] \in Exiting /\ pc[p] # "x_release"
  BY Zenon, <1>1 DEF Holding, Exiting
<1>3. /\ on[c] = p /\ after[p] = "none" /\ cproc[c] = p /\ state[p] = "RUNNING" /\ wait_lock = c
  BY Zenon, <1>1, <1>2, Runner
<1>4. (\A d \in CPUs \ {c} : cproc[d] # p /\ on[d] # p) /\ p # NoProc
  BY Zenon, <1>1, Runner, SlotFacts
<1>5. /\ state' \in [Slots -> States] /\ state'[p] = "ZOMBIE" /\ \A x \in Slots \ {p} : state'[x] = state[x]
      /\ pc' \in [Slots -> Places] /\ pc'[p] = "x_release" /\ \A x \in Slots \ {p} : pc'[x] = pc[x]
  BY Zenon, <1>1 DEF Inv, TypeOK, Places, States, Exiting
<1>6. lock' \in [Slots -> CPUs \cup {NoCpu}] /\ lock'[p] = c /\ \A x \in Slots \ {p} : lock'[x] = lock[x]
  BY Zenon, <1>1 DEF Inv, TypeOK
<1>7. TypeOK' /\ OnlyTurn(c, p)
  BY Zenon, <1>1, <1>5, <1>6 DEF Inv, TypeOK, OnlyTurn
<1>8. Seat(c, p)
  BY Zenon, <1>1, <1>3, <1>4, <1>5, <1>6 DEF Seat, Owned, Free
<1>9. /\ \A y \in Slots : parent[y] # p
      /\ state[parent[p]] # "SLEEPING"
      /\ i[p] = 0 /\ w[p] = 0
  BY Zenon, <1>1 DEF Inv, InvReparent, GivesAway, InvScan, Scans, InvIndex, Indexes
<1>10. parent[p] \in Slots /\ parent[p] # p
  BY Zenon, <1>2, Exits
<1>11. Turn(p) /\ TurnMove(p) /\ Consistent(p)'
  BY Zenon, <1>1, <1>2, <1>3, <1>5, <1>9 DEF Turn, TurnMove, Consistent, Free, Forking
<1>12. HoldsWaitLock(p)'
  BY Zenon, <1>1, <1>3 DEF HoldsWaitLock
<1>13. GivesAway(p)' /\ Scans(p)' /\ Indexes(p)'
  BY Zenon, <1>1, <1>5, <1>9, <1>10 DEF GivesAway, Scans, Indexes
<1> QED BY Zenon, <1>7, <1>8, <1>11, <1>12, <1>13, SwitchKept

\* release(&wait_lock), and sched() for the last time.
LEMMA ExitReleaseStep ==
  ASSUME Inv, NEW c \in CPUs, NEW p \in Slots, ExitRelease(c, p)
  PROVE  Inv'
<1>1. /\ Runs(c, p) /\ pc[p] = "x_release" /\ wait_lock' = NoCpu
      /\ after' = [after EXCEPT ![p] = "exit"] /\ pc' = [pc EXCEPT ![p] = "user"]
      /\ UNCHANGED <<state, chan, parent, lock, cproc, on, next, i, w, arg>>
  BY Zenon DEF ExitRelease, At, Goto, slotVars, cpuVars, localVars
<1>2. pc[p] \in Holding /\ state[p] = "ZOMBIE"
  BY Zenon, <1>1 DEF Holding, Exiting, Inv, InvState, Consistent
<1>3. on[c] = p /\ cproc[c] = p /\ p # NoProc
  BY Zenon, <1>1, Runner, SlotFacts
<1>4. \A d \in CPUs \ {c} : cproc[d] # p /\ on[d] # p
  BY Zenon, <1>1, Runner
<1>5. /\ after' \in [Slots -> {"none", "forkret", "yield", "sleep", "exit"}]
      /\ after'[p] = "exit" /\ \A x \in Slots \ {p} : after'[x] = after[x]
      /\ pc' \in [Slots -> Places] /\ pc'[p] = "user" /\ \A x \in Slots \ {p} : pc'[x] = pc[x]
  BY Zenon, <1>1 DEF Inv, TypeOK, Places
<1>6. TypeOK' /\ OnlyTurn(c, p)
  BY Zenon, <1>1, <1>5 DEF Inv, TypeOK, OnlyTurn
<1>7. lock[p] = c
  <2>1. Owned(c, p)
    BY Zenon, <1>3 DEF Inv, InvCpu
  <2> QED BY Zenon, <1>1, <2>1 DEF Owned
<1>8. Seat(c, p)
  BY Zenon, <1>1, <1>2, <1>3, <1>4, <1>5, <1>7 DEF Seat, Owned, Free
<1>9. Turn(p) /\ TurnMove(p) /\ Consistent(p)'
  BY Zenon, <1>1, <1>2, <1>5 DEF Turn, TurnMove, Consistent, Free, Forking, Exiting
<1>10. pc'[p] \notin Holding /\ i[p] = 0 /\ w[p] = 0
  <2>1. i[p] = 0 /\ w[p] = 0
    BY Zenon, <1>1 DEF Inv, InvIndex, Indexes
  <2> QED BY Zenon, <1>5, <2>1 DEF Holding, Waiting, Exiting
<1>11. Indexes(p)'
  BY Zenon, <1>1, <1>10 DEF Indexes
<1> QED BY Zenon, <1>6, <1>8, <1>9, <1>10, <1>11, NotHolding, SwitchKept

\* A slot of the table follows another.
LEMMA NextSlot ==
  ASSUME Inv, NEW c \in CPUs
  PROVE  next[c] \in Slots /\ [next EXCEPT ![c] = (@ + 1) % NPROC] \in [CPUs -> Slots]
<1>1. next \in [CPUs -> Slots] /\ next[c] \in Slots
  BY Zenon DEF Inv, TypeOK
<1>2. (next[c] + 1) % NPROC \in 0 .. NPROC - 1
  BY <1>1, SlotFacts, ProcAssumption
<1> QED BY Zenon, <1>1, <1>2 DEF Slots

\* A step that at most moves a scheduler to another slot.
LEMMA SameKept ==
  ASSUME Inv, TypeOK',
         UNCHANGED <<state, chan, parent, lock, wait_lock, cproc, on, pc, after, i, w, arg>>
  PROVE  Inv'
<1>1. InvCpu'
  BY Zenon DEF Inv, InvCpu, Owned
<1>2. InvState'
  BY Zenon DEF Inv, InvState, Consistent
<1>3. InvWait' /\ InvFork'
  BY Zenon DEF Inv, InvWait, HoldsWaitLock, InvFork, Fills
<1>4. InvParent'
  BY Zenon DEF Inv, InvParent
<1>5. InvReparent' /\ InvScan' /\ InvChild' /\ InvIndex'
  BY Zenon DEF Inv, InvReparent, GivesAway, InvScan, Scans, InvChild, InitAbout, InvIndex, Indexes
<1> QED BY Zenon, <1>1, <1>2, <1>3, <1>4, <1>5 DEF Inv

\* scheduler() looks at a process.
LEMMA ScheduleStep ==
  ASSUME Inv, NEW c \in CPUs, Schedule(c)
  PROVE  Inv'
<1>1. CASE state[next[c]] # "RUNNABLE"
  <2>1. /\ next' = [next EXCEPT ![c] = (@ + 1) % NPROC]
        /\ UNCHANGED <<state, lock, cproc, on, chan, parent, wait_lock, pc, after, i, w, arg>>
    BY Zenon, <1>1 DEF Schedule, localVars
  <2>2. TypeOK'
    BY Zenon, <2>1, NextSlot DEF Inv, TypeOK
  <2> QED BY Zenon, <2>1, <2>2, SameKept
<1>2. CASE state[next[c]] = "RUNNABLE"
  <2>1. PICK p \in Slots : p = next[c]
    BY Zenon, NextSlot
  <2>2. /\ on[c] = NoProc /\ cproc[c] = NoProc /\ lock[p] = NoCpu /\ state[p] = "RUNNABLE"
        /\ state' = [state EXCEPT ![p] = "RUNNING"] /\ lock' = [lock EXCEPT ![p] = c]
        /\ cproc' = [cproc EXCEPT ![c] = p] /\ on' = [on EXCEPT ![c] = p]
        /\ UNCHANGED <<next, chan, parent, wait_lock, pc, after, i, w, arg>>
    BY Zenon, <1>2, <2>1 DEF Schedule, localVars
  <2>3. after[p] # "none" /\ p # NoProc
    BY Zenon, <2>2, SlotFacts DEF Inv, InvState, Consistent
  <2>4. pc[p] \notin Holding /\ pc[p] \notin {"s_release", "x_release", "x_wake_init"}
    BY Zenon, <2>3, Switched
  <2>5. ASSUME NEW d \in CPUs, cproc[d] = p PROVE FALSE
    <3>1. Owned(d, p)
      BY Zenon, <2>3, <2>5 DEF Inv, InvCpu
    <3> QED BY Zenon, <2>2, <2>3, <3>1, SlotFacts DEF Owned
  <2>6. /\ state' \in [Slots -> States] /\ state'[p] = "RUNNING" /\ \A x \in Slots \ {p} : state'[x] = state[x]
        /\ lock' \in [Slots -> CPUs \cup {NoCpu}] /\ lock'[p] = c /\ \A x \in Slots \ {p} : lock'[x] = lock[x]
    BY Zenon, <2>2 DEF Inv, TypeOK, States
  <2>7. /\ cproc' \in [CPUs -> Slots \cup {NoProc}] /\ on' \in [CPUs -> Slots \cup {NoProc}]
        /\ cproc'[c] = p /\ on'[c] = p /\ \A d \in CPUs \ {c} : cproc'[d] = cproc[d] /\ on'[d] = on[d]
    BY Zenon, <2>2 DEF Inv, TypeOK
  <2>8. TypeOK' /\ OnlyTurn(c, p)
    BY Zenon, <2>2, <2>6, <2>7 DEF Inv, TypeOK, OnlyTurn
  <2>9. Seat(c, p)
    BY Zenon, <2>2, <2>3, <2>4, <2>5, <2>6, <2>7 DEF Seat, Owned, Free
  <2>10. Turn(p) /\ TurnMove(p) /\ Consistent(p)'
    BY Zenon, <2>2, <2>4, <2>6 DEF Turn, TurnMove, Consistent, Free
  <2>11. HoldsWaitLock(p)' /\ GivesAway(p)' /\ Scans(p)' /\ Indexes(p)'
    BY Zenon, <2>2, <2>4, SamePlace
  <2> QED BY Zenon, <2>8, <2>9, <2>10, <2>11, SwitchKept
<1> QED BY Zenon, <1>1, <1>2

\* scheduler() has the CPU back.
LEMMA ScheduleDoneStep ==
  ASSUME Inv, NEW c \in CPUs, ScheduleDone(c)
  PROVE  Inv'
<1>1. PICK p \in Slots : p = cproc[c]
  BY Zenon, SlotOrNone DEF ScheduleDone, Inv
<1>2. /\ on[c] = NoProc /\ cproc[c] = p /\ p # NoProc
      /\ lock' = [lock EXCEPT ![p] = NoCpu] /\ cproc' = [cproc EXCEPT ![c] = NoProc]
      /\ next' = [next EXCEPT ![c] = (@ + 1) % NPROC]
      /\ UNCHANGED <<state, chan, parent, wait_lock, on, pc, after, i, w, arg>>
  BY Zenon, <1>1 DEF ScheduleDone, slotVars, localVars
<1>3. Owned(c, p)
  BY Zenon, <1>2 DEF Inv, InvCpu
<1>4. after[p] # "none" /\ state[p] \notin Free
  BY Zenon, <1>2, <1>3 DEF Owned
<1>5. pc[p] \notin Holding /\ pc[p] \notin {"s_release", "x_release", "x_wake_init"}
  BY Zenon, <1>4, Switched
<1>6. /\ lock' \in [Slots -> CPUs \cup {NoCpu}] /\ \A x \in Slots \ {p} : lock'[x] = lock[x]
      /\ cproc' \in [CPUs -> Slots \cup {NoProc}] /\ cproc'[c] = NoProc
      /\ \A d \in CPUs \ {c} : cproc'[d] = cproc[d]
  BY Zenon, <1>2 DEF Inv, TypeOK
<1>7. TypeOK'
  BY Zenon, <1>2, <1>6, NextSlot DEF Inv, TypeOK
<1>8. OnlyTurn(c, p)
  BY Zenon, <1>2, <1>6 DEF OnlyTurn
<1>9. \A d \in CPUs \ {c} : cproc[d] # p
  BY Zenon, <1>2 DEF Inv, InvCpu
<1>10. Seat(c, p)
  BY Zenon, <1>2, <1>6, <1>9 DEF Seat
<1>11. Turn(p) /\ TurnMove(p)
  BY Zenon, <1>2, <1>4, <1>5 DEF Turn, TurnMove
<1>12. Consistent(p)'
  BY Zenon, <1>2 DEF Inv, InvState, Consistent
<1>13. HoldsWaitLock(p)' /\ GivesAway(p)' /\ Scans(p)' /\ Indexes(p)'
  BY Zenon, <1>2, <1>5, SamePlace
<1> QED BY Zenon, <1>7, <1>8, <1>10, <1>11, <1>12, <1>13, SwitchKept

\* What a process finds at a switch: it belongs to its CPU, and no other.
LEMMA Switching ==
  ASSUME Inv, NEW c \in CPUs, NEW p \in Slots, on[c] = p
  PROVE  /\ p # NoProc /\ cproc[c] = p /\ Owned(c, p) /\ state[p] \notin Free
         /\ \A d \in CPUs \ {c} : cproc[d] # p
<1>1. p # NoProc /\ cproc[c] = p
  BY Zenon, SlotFacts DEF Inv, InvCpu
<1>2. Owned(c, p)
  BY Zenon, <1>1 DEF Inv, InvCpu
<1>3. \A d \in CPUs \ {c} : cproc[d] # p
  BY Zenon, <1>1 DEF Inv, InvCpu
<1> QED BY Zenon, <1>1, <1>2, <1>3 DEF Owned

\* swtch() to the scheduler.
LEMMA SchedStep ==
  ASSUME Inv, NEW c \in CPUs, NEW p \in Slots, sched(c, p)
  PROVE  Inv'
<1>1. /\ on[c] = p /\ after[p] # "none" /\ state[p] # "RUNNING" /\ on' = [on EXCEPT ![c] = NoProc]
      /\ UNCHANGED <<state, chan, parent, lock, wait_lock, cproc, next, pc, after, i, w, arg>>
  BY Zenon DEF sched, slotVars, lockVars, localVars
<1>2. p # NoProc /\ cproc[c] = p /\ Owned(c, p) /\ state[p] \notin Free
  BY Zenon, <1>1, Switching
<1>3. \A d \in CPUs \ {c} : cproc[d] # p
  BY Zenon, <1>1, Switching
<1>4. pc[p] \notin Holding /\ pc[p] \notin {"s_release", "x_release", "x_wake_init"}
  BY Zenon, <1>1, Switched
<1>5. on' \in [CPUs -> Slots \cup {NoProc}] /\ on'[c] = NoProc /\ \A d \in CPUs \ {c} : on'[d] = on[d]
  BY Zenon, <1>1 DEF Inv, TypeOK
<1>6. TypeOK' /\ OnlyTurn(c, p)
  BY Zenon, <1>1, <1>5 DEF Inv, TypeOK, OnlyTurn
<1>7. Owned(c, p)'
  BY Zenon, <1>1, <1>2, <1>5 DEF Owned
<1>8. Seat(c, p)
  BY Zenon, <1>1, <1>2, <1>3, <1>5, <1>7 DEF Seat
<1>9. Turn(p) /\ TurnMove(p)
  BY Zenon, <1>1, <1>2, <1>4 DEF Turn, TurnMove
<1>10. Consistent(p)'
  BY Zenon, <1>1 DEF Inv, InvState, Consistent
<1>11. HoldsWaitLock(p)' /\ GivesAway(p)' /\ Scans(p)' /\ Indexes(p)'
  BY Zenon, <1>1, <1>4, SamePlace
<1> QED BY Zenon, <1>6, <1>8, <1>9, <1>10, <1>11, SwitchKept

\* A process runs again and releases its lock.
LEMMA ResumeStep ==
  ASSUME Inv, NEW c \in CPUs, NEW p \in Slots, Resume(c, p)
  PROVE  Inv'
<1>1. /\ on[c] = p /\ after[p] # "none" /\ state[p] = "RUNNING"
      /\ lock' = [lock EXCEPT ![p] = NoCpu] /\ after' = [after EXCEPT ![p] = "none"]
      /\ chan' = chan \/ chan' = [chan EXCEPT ![p] = NoProc]
      /\ UNCHANGED <<state, parent, wait_lock, cproc, on, next, pc, i, w, arg>>
  BY Zenon DEF Resume, cpuVars, localVars
<1>2. p # NoProc /\ cproc[c] = p
  BY Zenon, <1>1, Switching
<1>3. \A d \in CPUs \ {c} : cproc[d] # p
  BY Zenon, <1>1, Switching
<1>4. pc[p] \notin Holding /\ pc[p] \notin {"s_release", "x_release", "x_wake_init"}
  BY Zenon, <1>1, Switched
<1>5. /\ lock' \in [Slots -> CPUs \cup {NoCpu}] /\ \A x \in Slots \ {p} : lock'[x] = lock[x]
      /\ chan' \in [Slots -> Slots \cup {NoProc}] /\ \A x \in Slots \ {p} : chan'[x] = chan[x]
  BY Zenon, <1>1 DEF Inv, TypeOK
<1>6. /\ after' \in [Slots -> {"none", "forkret", "yield", "sleep", "exit"}]
      /\ after'[p] = "none" /\ \A x \in Slots \ {p} : after'[x] = after[x]
  BY <1>1 DEF Inv, TypeOK
<1>7. TypeOK' /\ OnlyTurn(c, p)
  BY Zenon, <1>1, <1>5, <1>6 DEF Inv, TypeOK, OnlyTurn
<1>8. Seat(c, p)
  BY Zenon, <1>1, <1>2, <1>3, <1>4, <1>6 DEF Seat, Owned, Free
<1>9. Turn(p) /\ TurnMove(p) /\ Consistent(p)'
  BY Zenon, <1>1, <1>4 DEF Turn, TurnMove, Consistent, Free
<1>10. HoldsWaitLock(p)' /\ GivesAway(p)' /\ Scans(p)' /\ Indexes(p)'
  BY Zenon, <1>1, <1>4, SamePlace
<1> QED BY Zenon, <1>7, <1>8, <1>9, <1>10, SwitchKept

\* A timer interrupt.
LEMMA YieldStep ==
  ASSUME Inv, NEW c \in CPUs, NEW p \in Slots, yield(c, p)
  PROVE  Inv'
<1>1. /\ Runs(c, p) /\ Held(c) = {} /\ lock' = [lock EXCEPT ![p] = c]
      /\ state' = [state EXCEPT ![p] = "RUNNABLE"] /\ after' = [after EXCEPT ![p] = "yield"]
      /\ UNCHANGED <<chan, parent, wait_lock, cproc, on, next, pc, i, w, arg>>
  BY Zenon DEF yield, cpuVars, localVars
<1>2. wait_lock # c
  BY Zenon, <1>1 DEF Held
<1>3. pc[p] \notin Holding
  BY Zenon, <1>1, <1>2, Runner
<1>4. pc[p] \notin {"s_release", "x_release", "x_wake_init"}
  BY Zenon, <1>3 DEF Holding, Waiting, Exiting
<1>5. on[c] = p /\ cproc[c] = p /\ p # NoProc /\ state[p] \notin Free /\ state[p] = "RUNNING"
  <2>1. pc[p] # "x_release"
    BY Zenon, <1>4
  <2> QED BY Zenon, <1>1, <2>1, Runner, SlotFacts
<1>6. \A d \in CPUs \ {c} : cproc[d] # p /\ on[d] # p
  BY Zenon, <1>1, Runner
<1>7. /\ state' \in [Slots -> States] /\ state'[p] = "RUNNABLE" /\ \A x \in Slots \ {p} : state'[x] = state[x]
      /\ lock' \in [Slots -> CPUs \cup {NoCpu}] /\ lock'[p] = c /\ \A x \in Slots \ {p} : lock'[x] = lock[x]
  BY Zenon, <1>1 DEF Inv, TypeOK, States
<1>8. /\ after' \in [Slots -> {"none", "forkret", "yield", "sleep", "exit"}]
      /\ after'[p] = "yield" /\ \A x \in Slots \ {p} : after'[x] = after[x]
  BY Zenon, <1>1 DEF Inv, TypeOK
<1>9. TypeOK' /\ OnlyTurn(c, p)
  BY Zenon, <1>1, <1>7, <1>8 DEF Inv, TypeOK, OnlyTurn
<1>10. Seat(c, p)
  BY Zenon, <1>1, <1>5, <1>6, <1>7, <1>8 DEF Seat, Owned, Free
<1>11. Turn(p) /\ TurnMove(p) /\ Consistent(p)'
  BY Zenon, <1>1, <1>4, <1>5, <1>7, <1>8 DEF Turn, TurnMove, Consistent, Free
<1>12. HoldsWaitLock(p)' /\ GivesAway(p)' /\ Scans(p)' /\ Indexes(p)'
  BY Zenon, <1>1, <1>3, SamePlace
<1> QED BY Zenon, <1>9, <1>10, <1>11, <1>12, SwitchKept
-----------------------------------------------------------------------------
(***************************************************************************)
(* The theorems                                                            *)
(***************************************************************************)

\* After userinit().
LEMMA InitEstablishes == Init => Inv
<1> SUFFICES ASSUME Init PROVE Inv
  BY Zenon
<1> USE SlotFacts
<1>1. /\ state = [p \in Slots |-> IF p = initproc THEN "RUNNABLE" ELSE "UNUSED"]
      /\ pc = [p \in Slots |-> "user"] /\ parent = [p \in Slots |-> NoProc]
      /\ i = [p \in Slots |-> 0] /\ w = [p \in Slots |-> 0] /\ arg = [p \in Slots |-> 0]
      /\ after = [p \in Slots |-> IF p = initproc THEN "forkret" ELSE "none"]
      /\ lock = [p \in Slots |-> NoCpu] /\ chan = [p \in Slots |-> NoProc]
      /\ cproc = [c \in CPUs |-> NoProc] /\ on = [c \in CPUs |-> NoProc] /\ next = [c \in CPUs |-> 0]
  BY Zenon DEF Init
<1>2. TypeOK
  <2>1. 0 \in 0 .. NPROC /\ 0 \in Slots /\ 0 \in Nat
    BY ProcAssumption DEF Slots
  <2> QED BY Zenon, <1>1, <2>1 DEF TypeOK, States, Places
<1>3. \A p \in Slots : /\ state[p] = IF p = initproc THEN "RUNNABLE" ELSE "UNUSED"
                       /\ pc[p] = "user" /\ parent[p] = NoProc /\ i[p] = 0 /\ w[p] = 0
                       /\ after[p] = IF p = initproc THEN "forkret" ELSE "none"
  BY Zenon, <1>1
<1>4. \A c \in CPUs : cproc[c] = NoProc /\ on[c] = NoProc
  BY Zenon, <1>1
<1>5. InvCpu
  BY Zenon, <1>4 DEF InvCpu
<1>6. InvState
  BY Zenon, <1>3 DEF InvState, Consistent, Free
<1>7. InvWait /\ InvFork /\ InvReparent /\ InvScan /\ InvIndex
  BY Zenon, <1>3 DEF InvWait, HoldsWaitLock, InvFork, Fills, InvReparent, GivesAway, InvScan, Scans,
              InvIndex, Indexes, Holding, Waiting, Exiting, Forking
<1>8. InvParent
  BY Zenon, <1>3 DEF InvParent, Free, Exiting
<1>9. InvChild
  BY Zenon, <1>3 DEF InvChild
<1> QED BY Zenon, <1>2, <1>5, <1>6, <1>7, <1>8, <1>9 DEF Inv

\* Every step of the kernel on behalf of a process.
LEMMA KernelStepKept ==
  ASSUME Inv, NEW c \in CPUs, NEW p \in Slots, KernelStep(c, p)
  PROVE  Inv'
<1>1. CASE reparent(c, p)
  <2>1. CASE FindsChild(p)
    BY Zenon, <1>1, <2>1, ReparentChild
  <2>2. CASE ~FindsChild(p)
    <3>1. UNCHANGED parent
      BY Zenon, <1>1, <2>2 DEF reparent, FindsChild
    <3> QED BY Zenon, <1>1, <3>1, ReparentScan
  <2> QED BY Zenon, <2>1, <2>2
<1>2. CASE WaitScan(c, p)
  BY Zenon, <1>2, WaitScanStep, WaitFreeStep
<1>3. CASE usertrapret(c, p) \/ kill(c, p) \/ WaitLock(c, p) \/ WaitKilled(c, p)
  BY Zenon, <1>3, UsertrapretStep, KillStep, WaitLockStep, WaitKilledStep
<1>4. CASE allocproc(c, p) \/ ForkCopy(c, p) \/ ForkParent(c, p) \/ ForkRunnable(c, p)
  BY Zenon, <1>4, AllocprocStep, ForkCopyStep, ForkParentStep, ForkRunnableStep
<1>5. CASE SleepLock(c, p) \/ Sleep(c, p) \/ ExitLock(c, p) \/ wakeup(c, p)
  BY Zenon, <1>5, SleepLockStep, SleepStep, ExitLockStep, WakeupStep
<1>6. CASE ExitZombie(c, p) \/ ExitRelease(c, p)
  BY Zenon, <1>6, ExitZombieStep, ExitReleaseStep
<1> QED BY Zenon, <1>1, <1>2, <1>3, <1>4, <1>5, <1>6 DEF KernelStep

\* A step that changes nothing.
LEMMA StutterKept ==
  ASSUME Inv, UNCHANGED vars
  PROVE  Inv'
<1>1. UNCHANGED <<state, chan, parent, lock, wait_lock, cproc, on, next, pc, after, i, w, arg>>
  BY Zenon DEF vars, slotVars, lockVars, cpuVars, localVars
<1>2. TypeOK'
  BY Zenon, <1>1 DEF Inv, TypeOK
<1> QED BY Zenon, <1>1, <1>2, SameKept

\* The inductive invariant of the process table, the locks and the CPUs.
THEOREM ProcInv == Spec => []Inv
<1>1. Inv /\ [Next]_vars => Inv'
  <2> SUFFICES ASSUME Inv, Next PROVE Inv'
    BY Zenon, StutterKept
  <2>1. PICK c \in CPUs : \/ Schedule(c) \/ ScheduleDone(c)
                          \/ \E p \in Slots : \/ KernelStep(c, p) \/ SwitchStep(c, p)
                                              \/ Syscall(c, p) \/ yield(c, p)
    BY Zenon DEF Next
  <2>2. CASE Schedule(c) \/ ScheduleDone(c)
    BY Zenon, <2>2, ScheduleStep, ScheduleDoneStep
  <2>3. ASSUME NEW p \in Slots,
               KernelStep(c, p) \/ SwitchStep(c, p) \/ Syscall(c, p) \/ yield(c, p)
        PROVE  Inv'
    BY Zenon, <2>3, KernelStepKept, SchedStep, ResumeStep, SyscallStep, YieldStep DEF SwitchStep
  <2> QED BY Zenon, <2>1, <2>2, <2>3
<1> QED BY <1>1, InitEstablishes, PTL DEF Spec

\* scheduler(), sched() and wait() keep a kernel stack to one CPU at a time: the
\* process a CPU runs is that CPU's c->proc, runs on no other, and its slot is
\* not free, for any number of CPUs and slots.
THEOREM StacksAreExclusive == Spec => []OneStackOneCpu
<1>1. Inv => OneStackOneCpu
  <2> SUFFICES ASSUME Inv, NEW c \in CPUs, on[c] # NoProc
               PROVE  /\ state[on[c]] \notin Free /\ cproc[c] = on[c]
                      /\ \A d \in CPUs \ {c} : on[d] # on[c]
    BY Zenon DEF OneStackOneCpu, Free
  <2>1. cproc[c] = on[c] /\ Owned(c, on[c])
    BY Zenon DEF Inv, InvCpu
  <2>2. \A d \in CPUs \ {c} : on[d] # on[c]
    BY Zenon, <2>1 DEF Inv, InvCpu
  <2> QED BY Zenon, <2>1, <2>2 DEF Owned
<1> QED BY <1>1, ProcInv, PTL

\* exit() and wait() do not miss each other: whenever wait_lock is free, no
\* process sleeps in wait() while a child of its own is a zombie.
THEOREM ExitsAreNotMissed == Spec => []NoMissedExit
<1>1. Inv => NoMissedExit
  <2> SUFFICES ASSUME Inv, wait_lock = NoCpu, NEW p \in Slots, NEW q \in Slots,
                      state[p] = "SLEEPING", parent[q] = p, state[q] = "ZOMBIE"
               PROVE  FALSE
    BY Zenon DEF NoMissedExit
  <2>1. PICK x \in Slots : pc[x] = "x_wake_init"
    BY Zenon DEF Inv, InvChild, InitAbout
  <2> QED BY Zenon, <2>1, NoHolder DEF Holding, Exiting
<1> QED BY <1>1, ProcInv, PTL

\* reparent() leaves no orphan: every process but init has a parent that has
\* neither exited nor been freed.
THEOREM ParentsAreLive == Spec => []ParentsLive
<1>1. Inv => ParentsLive
  BY Zenon DEF Inv, InvParent, ParentsLive, Free
<1> QED BY <1>1, ProcInv, PTL
=============================================================================
