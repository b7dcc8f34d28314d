--------------------------- MODULE Spinlock_proofs ---------------------------
(***************************************************************************)
(* Proofs about Spinlock, for any number of CPUs and locks.  The inductive *)
(* invariant says, CPU by CPU, how noff, intena and the interrupt flag     *)
(* follow the locks the CPU owns, and lock by lock, who has it.            *)
(***************************************************************************)
EXTENDS Spinlock, FiniteSetTheorems, TLAPS

\* Counting the locks a CPU owns.
LEMMA Counting ==
  ASSUME NEW S \in SUBSET Locks
  PROVE  /\ Cardinality(S) \in Nat
         /\ Cardinality(S) = 0 <=> S = {}
         /\ \A l \in Locks \ S : Cardinality(S \cup {l}) = Cardinality(S) + 1
         /\ \A l \in S : Cardinality(S \ {l}) = Cardinality(S) - 1
<1>1. IsFiniteSet(Locks)
  BY FS_Interval, SpinlockAssumption DEF Locks
<1>2. IsFiniteSet(S)
  BY Zenon, <1>1, FS_Subset
<1> QED BY Zenon, <1>2, FS_CardinalityType, FS_EmptySet, FS_AddElement, FS_RemoveElement

\* Updating one frame of one CPU.
LEMMA FrameUpdate ==
  ASSUME NEW T, NEW F \in [CPUs -> [Frames -> T]], NEW c \in CPUs, NEW f \in Frames,
         NEW v \in T
  PROVE  /\ [F EXCEPT ![c][f] = v] \in [CPUs -> [Frames -> T]]
         /\ [F EXCEPT ![c][f] = v][c][f] = v
         /\ \A g \in Frames \ {f} : [F EXCEPT ![c][f] = v][c][g] = F[c][g]
         /\ \A d \in CPUs \ {c} : [F EXCEPT ![c][f] = v][d] = F[d]
BY Zenon
-----------------------------------------------------------------------------
\* Between push_off() and pop_off().
Inside == {"swap", "record", "unlock", "pop_off"}

\* A CPU by itself.
InvCpu(c) ==
  /\ ~irq[c] => pc[c]["handler"] = "rest" /\ lk[c]["handler"] = 0
  /\ irq[c] => /\ pc[c]["thread"] \in {"rest", "push_off"}
               /\ pc[c]["thread"] = "push_off" => old[c]["thread"] /\ lk[c]["thread"] \in Locks
               /\ mode[c] /\ ~intr[c]
               /\ own[c] \subseteq {lk[c]["handler"]}
  /\ pc[c][Frame(c)] # "rest" => lk[c][Frame(c)] \in Locks \ own[c]
  /\ pc[c][Frame(c)] = "push_off" => (old[c][Frame(c)] <=> intr[c])
  /\ noff[c] = Cardinality(own[c]) + (IF pc[c][Frame(c)] \in Inside THEN 1 ELSE 0)
  /\ noff[c] # 0 => ~intr[c] /\ (intena[c] <=> mode[c] /\ ~irq[c])
  /\ noff[c] = 0 => (intr[c] <=> mode[c] /\ ~irq[c])

\* The CPU has the lock, from the swap to the store that frees it.
Has(c, l) ==
  \/ l \in own[c]
  \/ pc[c][Frame(c)] \in {"record", "unlock"} /\ lk[c][Frame(c)] = l

\* A lock by itself.
InvLock(l) ==
  /\ locked[l] = 1 <=> \E c \in CPUs : Has(c, l)
  /\ \A c, d \in CPUs : Has(c, l) /\ Has(d, l) => c = d
  /\ \A c \in CPUs : cpu[l] = c <=> l \in own[c]

Inv ==
  /\ TypeOK /\ ~panic
  /\ \A c \in CPUs : InvCpu(c)
  /\ \A l \in Locks : InvLock(l)
-----------------------------------------------------------------------------
\* The invariant holds when initlock() has run and no lock is held,
LEMMA InitInv == Init => Inv
<1> SUFFICES ASSUME Init PROVE Inv
  BY Zenon
<1>1. TypeOK /\ ~panic
  BY Zenon DEF Init, TypeOK, Frames, Places
<1>2. ASSUME NEW c \in CPUs PROVE InvCpu(c)
  <2>1. Cardinality({}) = 0
    BY Zenon, FS_EmptySet
  <2>2. Frame(c) = "thread" /\ irq[c] = FALSE /\ own[c] = {} /\ noff[c] = 0
    BY Zenon DEF Init, Frame
  <2>3. \A f \in Frames : pc[c][f] = "rest" /\ lk[c][f] = 0
    BY Zenon DEF Init
  <2>4. intr[c] = FALSE /\ mode[c] = FALSE
    BY Zenon DEF Init
  <2> QED BY <2>1, <2>2, <2>3, <2>4 DEF InvCpu, Inside, Frames
<1>3. ASSUME NEW l \in Locks PROVE InvLock(l)
  BY SMTT(30), SpinlockAssumption DEF Init, InvLock, Has, Frame, Frames
<1> QED BY Zenon, <1>1, <1>2, <1>3 DEF Inv

\* What other CPUs see of a step of c: nothing of theirs changes.
Elsewhere(c) ==
  \A d \in CPUs \ {c} :
    /\ noff'[d] = noff[d] /\ intena'[d] = intena[d] /\ intr'[d] = intr[d]
    /\ irq'[d] = irq[d] /\ pc'[d] = pc[d] /\ old'[d] = old[d] /\ lk'[d] = lk[d]
    /\ own'[d] = own[d] /\ mode'[d] = mode[d]

\* A step of a CPU leaves the frames and counters of the others alone.
LEMMA OthersKept ==
  ASSUME Inv, NEW c \in CPUs, CpuStep(c)
  PROVE  Elsewhere(c)
BY DEF CpuStep, push_off, Swap, Record, Unlock, pop_off, IntrSet, Interrupt,
       InterruptReturn, AcquireCall, ReleaseCall, Goto, Elsewhere, Inv, TypeOK,
       lockVars, cpuVars

\* Goto moves the current frame of the CPU and nothing else.
LEMMA GotoFacts ==
  ASSUME TypeOK, NEW c \in CPUs, NEW place \in Places, Goto(c, place)
  PROVE  /\ pc' \in [CPUs -> [Frames -> Places]]
         /\ pc'[c][Frame(c)] = place
         /\ \A g \in Frames \ {Frame(c)} : pc'[c][g] = pc[c][g]
<1>1. Frame(c) \in Frames
  BY Zenon DEF Frame, Frames
<1> QED BY <1>1, FrameUpdate DEF Goto, TypeOK

\* The same for the argument of acquire() and release().
LEMMA ArgFacts ==
  ASSUME TypeOK, NEW c \in CPUs, NEW l \in Locks \cup {0}, NEW f \in Frames,
         lk' = [lk EXCEPT ![c][f] = l]
  PROVE  /\ lk' \in [CPUs -> [Frames -> Locks \cup {0}]]
         /\ lk'[c][f] = l
         /\ \A g \in Frames \ {f} : lk'[c][g] = lk[c][g]
BY FrameUpdate DEF TypeOK

\* Every step of acquire(), release(), push_off() and pop_off() keeps the types.
LEMMA StepType ==
  ASSUME Inv, NEW c \in CPUs, CpuStep(c)
  PROVE  TypeOK'
<1>f. Frame(c) \in Frames /\ "handler" \in Frames
  BY Zenon DEF Frame, Frames
<1>t. TypeOK
  BY Zenon DEF Inv
<1>p. {"push_off", "swap", "record", "rest", "unlock", "pop_off"} \subseteq Places
  BY Zenon DEF Places
<1>a. pc[c][Frame(c)] # "rest" => Arg(c) \in Locks
  BY Zenon DEF Inv, InvCpu, Arg
<1>1. CASE push_off(c)
  <2>1. pc' \in [CPUs -> [Frames -> Places]]
    BY Zenon, <1>1, <1>t, <1>p, GotoFacts DEF push_off
  <2>2. old[c][Frame(c)] \in BOOLEAN
    BY <1>f, <1>t DEF TypeOK
  <2> QED BY <1>1, <1>t, <2>1, <2>2 DEF push_off, holding, TypeOK, lockVars
<1>2. CASE Swap(c)
  <2>1. pc' \in [CPUs -> [Frames -> Places]]
    BY Zenon, <1>2, <1>t, <1>p, GotoFacts DEF Swap
  <2> QED BY Zenon, <1>2, <1>t, <2>1 DEF Swap, TypeOK, cpuVars
<1>3. CASE Record(c)
  <2>1. pc' \in [CPUs -> [Frames -> Places]]
    BY Zenon, <1>3, <1>t, <1>p, GotoFacts DEF Record
  <2>2. Arg(c) \in Locks
    BY Zenon, <1>3, <1>a DEF Record, At
  <2> QED BY <1>3, <1>t, <2>1, <2>2 DEF Record, TypeOK, cpuVars
<1>4. CASE Unlock(c)
  <2>1. pc' \in [CPUs -> [Frames -> Places]]
    BY Zenon, <1>4, <1>t, <1>p, GotoFacts DEF Unlock
  <2> QED BY Zenon, <1>4, <1>t, <2>1 DEF Unlock, TypeOK, cpuVars
<1>5. CASE pop_off(c)
  <2>1. pc' \in [CPUs -> [Frames -> Places]]
    BY Zenon, <1>5, <1>t, <1>p, GotoFacts DEF pop_off
  <2>2. noff[c] \in Nat \ {0}
    <3>1. Cardinality(own[c]) \in Nat
      BY Zenon, <1>t, Counting, <1>5, <1>a DEF TypeOK, pop_off, At
    <3>2. noff[c] = Cardinality(own[c]) + 1
      BY Zenon, <1>5 DEF pop_off, At, Inv, InvCpu, Inside
    <3> QED BY <3>1, <3>2
  <2> QED BY <1>5, <1>t, <2>1, <2>2 DEF pop_off, TypeOK, lockVars
<1>6. CASE IntrSet(c)
  BY Zenon, <1>6, <1>t DEF IntrSet, TypeOK, lockVars, cpuVars
<1>7. CASE Interrupt(c)
  BY Zenon, <1>7, <1>t DEF Interrupt, TypeOK, lockVars, cpuVars
<1>8. CASE InterruptReturn(c)
  <2>1. lk' \in [CPUs -> [Frames -> Locks \cup {0}]]
    BY Zenon, <1>8, <1>f, <1>t, ArgFacts DEF InterruptReturn
  <2> QED BY Zenon, <1>8, <1>t, <2>1 DEF InterruptReturn, TypeOK, lockVars, cpuVars
<1>9. ASSUME NEW l \in Locks, AcquireCall(c, l) PROVE TypeOK'
  <2>1. pc' \in [CPUs -> [Frames -> Places]]
    BY Zenon, <1>9, <1>t, <1>p, GotoFacts DEF AcquireCall
  <2>2. lk' \in [CPUs -> [Frames -> Locks \cup {0}]]
    BY Zenon, <1>9, <1>f, <1>t, ArgFacts DEF AcquireCall
  <2>3. old' \in [CPUs -> [Frames -> BOOLEAN]]
    BY <1>9, <1>f, <1>t, FrameUpdate DEF AcquireCall, TypeOK
  <2> QED BY Zenon, <1>9, <1>t, <2>1, <2>2, <2>3 DEF AcquireCall, TypeOK, lockVars, cpuVars
<1>10. ASSUME NEW l \in Locks, ReleaseCall(c, l) PROVE TypeOK'
  <2>1. pc' \in [CPUs -> [Frames -> Places]]
    BY Zenon, <1>10, <1>t, <1>p, GotoFacts DEF ReleaseCall
  <2>2. lk' \in [CPUs -> [Frames -> Locks \cup {0}]]
    BY Zenon, <1>10, <1>f, <1>t, ArgFacts DEF ReleaseCall
  <2> QED BY Zenon, <1>10, <1>t, <2>1, <2>2 DEF ReleaseCall, TypeOK, holding, cpuVars
<1> QED BY <1>1, <1>2, <1>3, <1>4, <1>5, <1>6, <1>7, <1>8, <1>9, <1>10 DEF CpuStep

\* The other CPUs keep their part of the invariant and what they have.
LEMMA OthersInv ==
  ASSUME Inv, NEW c \in CPUs, CpuStep(c), NEW d \in CPUs \ {c}
  PROVE  InvCpu(d)' /\ \A l \in Locks : Has(d, l)' <=> Has(d, l)
<1>1. /\ noff'[d] = noff[d] /\ intena'[d] = intena[d] /\ intr'[d] = intr[d]
      /\ irq'[d] = irq[d] /\ pc'[d] = pc[d] /\ old'[d] = old[d] /\ lk'[d] = lk[d]
      /\ own'[d] = own[d] /\ mode'[d] = mode[d]
  BY Zenon, OthersKept DEF Elsewhere
<1>2. InvCpu(d)
  BY Zenon DEF Inv
<1>3. Frame(d)' = Frame(d)
  BY SMTT(30), <1>1 DEF Frame
<1>4. InvCpu(d)'
  BY <1>1, <1>2, <1>3 DEF InvCpu
<1> QED BY Zenon, <1>1, <1>3, <1>4 DEF Has

\* The CPU that takes the step keeps its part too, and does not panic.
LEMMA StepCpu ==
  ASSUME Inv, NEW c \in CPUs, CpuStep(c)
  PROVE  InvCpu(c)' /\ ~panic'
<1>f. PICK f \in Frames : f = Frame(c)
  BY Zenon DEF Frame, Frames
<1>t. TypeOK /\ InvCpu(c) /\ \A l \in Locks : InvLock(l)
  BY Zenon DEF Inv
<1>p. {"push_off", "swap", "record", "rest", "unlock", "pop_off"} \subseteq Places
  BY Zenon DEF Places
<1>n. /\ own[c] \in SUBSET Locks /\ noff[c] \in Nat /\ intr[c] \in BOOLEAN
      /\ intena[c] \in BOOLEAN /\ mode[c] \in BOOLEAN /\ irq[c] \in BOOLEAN
      /\ old[c][f] \in BOOLEAN /\ pc[c] \in [Frames -> Places]
  BY Zenon, <1>t DEF TypeOK
<1>h. f = "thread" <=> ~irq[c]
  BY Zenon, <1>f DEF Frame
<1>c. Cardinality(own[c]) \in Nat
  BY Zenon, <1>n, Counting
<1>1. CASE push_off(c)
  <2>1. /\ irq' = irq /\ lk' = lk /\ old' = old /\ own' = own /\ mode' = mode
        /\ intr'[c] = FALSE /\ noff'[c] = noff[c] + 1
        /\ intena'[c] = IF noff[c] = 0 THEN old[c][f] ELSE intena[c]
        /\ panic' = holding(c, lk[c][f]) /\ pc[c][f] = "push_off"
    BY Zenon, <1>1, <1>f, <1>t DEF push_off, TypeOK, At, Arg
  <2>2. pc'[c][f] = "swap" /\ \A g \in Frames \ {f} : pc'[c][g] = pc[c][g]
    BY Zenon, <1>1, <1>f, <1>t, <1>p, GotoFacts DEF push_off
  <2>3. Frame(c)' = f
    BY Zenon, <1>f, <2>1 DEF Frame
  <2>4. lk[c][f] \in Locks \ own[c] /\ (old[c][f] <=> intr[c])
    BY Zenon, <1>f, <1>t, <2>1 DEF InvCpu
  <2>5. ~panic'
    BY Zenon, <1>t, <2>1, <2>4 DEF InvLock, holding
  <2>6. noff[c] = Cardinality(own[c])
    BY <1>f, <1>t, <1>c, <2>1 DEF InvCpu, Inside
  <2>7. noff'[c] = Cardinality(own'[c]) + 1 /\ noff'[c] # 0
    BY <1>n, <2>1, <2>6
  <2>8. intena'[c] <=> mode[c] /\ ~irq[c]
    BY Zenon, <1>t, <2>1, <2>4 DEF InvCpu
  <2>9. InvCpu(c)'
    BY SMTT(30), <1>f, <1>t, <1>h, <2>1, <2>2, <2>3, <2>4, <2>7, <2>8 DEF InvCpu, Inside, Frames
  <2> QED BY Zenon, <2>5, <2>9
<1>2. CASE Swap(c) \/ Unlock(c)
  <2>1. /\ irq' = irq /\ lk' = lk /\ old' = old /\ own' = own /\ mode' = mode
        /\ intr' = intr /\ noff' = noff /\ intena' = intena
        /\ panic' = FALSE /\ pc[c][f] \in {"swap", "unlock"}
    BY SMTT(30), <1>2, <1>f, <1>t DEF Swap, Unlock, cpuVars, At, Inv
  <2>2. pc'[c][f] \in {"record", "pop_off"} /\ \A g \in Frames \ {f} : pc'[c][g] = pc[c][g]
    BY Zenon, <1>2, <1>f, <1>t, <1>p, GotoFacts DEF Swap, Unlock
  <2>3. Frame(c)' = f
    BY SMTT(30), <1>f, <2>1 DEF Frame
  <2> QED BY <1>f, <1>t, <1>h, <2>1, <2>2, <2>3 DEF InvCpu, Inside, Frames
<1>3. CASE Record(c)
  <2>1. /\ irq' = irq /\ lk' = lk /\ old' = old /\ mode' = mode
        /\ own'[c] = own[c] \cup {lk[c][f]}
        /\ intr' = intr /\ noff' = noff /\ intena' = intena
        /\ panic' = panic /\ pc[c][f] = "record"
    BY Zenon, <1>3, <1>f, <1>t DEF Record, cpuVars, At, Arg, TypeOK
  <2>2. pc'[c][f] = "rest" /\ \A g \in Frames \ {f} : pc'[c][g] = pc[c][g]
    BY Zenon, <1>3, <1>f, <1>t, <1>p, GotoFacts DEF Record
  <2>3. Frame(c)' = f
    BY Zenon, <1>f, <2>1 DEF Frame
  <2>4. lk[c][f] \in Locks \ own[c]
    BY Zenon, <1>f, <1>t, <2>1 DEF InvCpu
  <2>5. noff[c] = Cardinality(own'[c]) /\ noff[c] # 0
    <3>1. noff[c] = Cardinality(own[c]) + 1
      BY Zenon, <1>f, <1>t, <2>1 DEF InvCpu, Inside
    <3>2. Cardinality(own[c] \cup {lk[c][f]}) = Cardinality(own[c]) + 1
      BY Zenon, <1>n, <2>4, Counting
    <3> QED BY SMTT(30), <1>c, <2>1, <3>1, <3>2
  <2> QED BY <1>f, <1>t, <1>n, <1>h, <2>1, <2>2, <2>3, <2>4, <2>5 DEF InvCpu, Inside, Frames, Inv
<1>4. CASE pop_off(c)
  <2>1. /\ irq' = irq /\ lk' = lk /\ old' = old /\ own' = own /\ mode' = mode
        /\ noff'[c] = noff[c] - 1 /\ intena' = intena
        /\ intr'[c] = (intr[c] \/ (noff[c] = 1 /\ intena[c]))
        /\ panic' = (intr[c] \/ noff[c] < 1) /\ pc[c][f] = "pop_off"
    BY Zenon, <1>4, <1>f, <1>t DEF pop_off, TypeOK, At
  <2>2. pc'[c][f] = "rest" /\ \A g \in Frames \ {f} : pc'[c][g] = pc[c][g]
    BY Zenon, <1>4, <1>f, <1>t, <1>p, GotoFacts DEF pop_off
  <2>3. Frame(c)' = f
    BY Zenon, <1>f, <2>1 DEF Frame
  <2>4. noff[c] = Cardinality(own[c]) + 1 /\ Cardinality(own[c]) \in Nat
        /\ lk[c][f] \in Locks \ own[c]
    BY Zenon, <1>f, <1>t, <1>c, <2>1 DEF InvCpu, Inside
  <2>a. noff[c] # 0 /\ ~(noff[c] < 1)
    BY <2>4
  <2>b. ~intr[c]
    BY Zenon, <1>t, <2>a DEF InvCpu
  <2>5. ~intr[c] /\ ~panic'
    BY Zenon, <2>1, <2>a, <2>b
  <2>6. noff'[c] = Cardinality(own'[c]) /\ (noff'[c] = 0 <=> noff[c] = 1)
    BY <2>1, <2>4
  <2>7. noff[c] # 0 /\ (intena[c] <=> mode[c] /\ ~irq[c])
    BY <1>t, <2>4 DEF InvCpu
  <2>8. /\ noff'[c] # 0 => ~intr'[c]
        /\ noff'[c] = 0 => (intr'[c] <=> mode[c] /\ ~irq[c])
        /\ irq[c] => ~intr'[c]
    BY ZenonT(40), <2>1, <2>5, <2>6, <2>7
  <2>9. InvCpu(c)'
    BY SMTT(30), <1>f, <1>t, <1>h, <2>1, <2>2, <2>3, <2>4, <2>6, <2>7, <2>8 DEF InvCpu, Inside, Frames
  <2> QED BY Zenon, <2>5, <2>9
<1>5. CASE IntrSet(c)
  <2>1. /\ irq' = irq /\ lk' = lk /\ old' = old /\ own' = own /\ noff' = noff
        /\ intena' = intena /\ pc' = pc /\ panic' = panic /\ own[c] = {} /\ ~irq[c]
        /\ mode'[c] = ~mode[c] /\ intr'[c] = ~mode[c] /\ pc[c][f] = "rest"
    BY Zenon, <1>5, <1>f, <1>t DEF IntrSet, TypeOK, At, cpuVars
  <2>2. noff[c] = 0
    BY <1>c, <1>f, <1>n, <1>t, <2>1, Counting DEF InvCpu, Inside
  <2>3. Frame(c)' = f
    BY SMTT(30), <1>f, <2>1 DEF Frame
  <2>4. InvCpu(c)'
    BY SMTT(30), <1>f, <1>h, <1>t, <2>1, <2>2, <2>3 DEF InvCpu, Inside, Frames
  <2> QED BY Zenon, <2>1, <2>4 DEF Inv
<1>6. CASE Interrupt(c)
  <2>1. /\ lk' = lk /\ old' = old /\ own' = own /\ noff' = noff /\ mode' = mode
        /\ intena' = intena /\ pc' = pc /\ panic' = panic
        /\ irq'[c] = TRUE /\ intr'[c] = FALSE /\ intr[c] /\ ~irq[c]
    BY Zenon, <1>6, <1>t DEF Interrupt, TypeOK, cpuVars
  <2>2. Frame(c)' = "handler" /\ f = "thread"
    BY Zenon, <1>f, <2>1 DEF Frame
  <2>3. noff[c] = 0 /\ mode[c] /\ pc[c]["handler"] = "rest" /\ lk[c]["handler"] = 0
    BY Zenon, <1>t, <2>1 DEF InvCpu
  <2>4. pc[c][f] \notin Inside /\ Cardinality(own[c]) = 0
    BY <1>c, <1>f, <1>t, <2>3 DEF InvCpu
  <2>5. own[c] = {}
    BY Zenon, <1>n, <2>4, Counting
  <2>6. pc[c]["thread"] \in {"rest", "push_off"}
    BY Zenon, <1>n, <2>2, <2>4 DEF Inside, Places, Frames
  <2>7. pc[c]["thread"] = "push_off" => old[c]["thread"] /\ lk[c]["thread"] \in Locks
    BY Zenon, <1>f, <1>t, <2>1, <2>2 DEF InvCpu
  <2>8. InvCpu(c)'
    BY <2>1, <2>2, <2>3, <2>4, <2>5, <2>6, <2>7 DEF InvCpu, Inside
  <2> QED BY Zenon, <2>1, <2>8 DEF Inv
<1>7. CASE InterruptReturn(c)
  <2>1. /\ pc' = pc /\ old' = old /\ own' = own /\ noff' = noff /\ mode' = mode
        /\ intena' = intena /\ panic' = panic /\ pc[c]["handler"] = "rest"
        /\ irq'[c] = FALSE /\ intr'[c] = TRUE /\ irq[c] /\ lk[c]["handler"] \notin own[c]
    BY Zenon, <1>7, <1>t DEF InterruptReturn, TypeOK, cpuVars, At, Frame
  <2>2. lk'[c]["handler"] = 0 /\ lk'[c]["thread"] = lk[c]["thread"]
    BY Zenon, <1>7, <1>t, ArgFacts DEF InterruptReturn, Frames
  <2>3. Frame(c)' = "thread" /\ f = "handler"
    BY Zenon, <1>f, <2>1 DEF Frame
  <2>4. own[c] = {} /\ mode[c] /\ pc[c]["thread"] \in {"rest", "push_off"}
    BY Zenon, <1>t, <2>1 DEF InvCpu
  <2>5. noff[c] = 0 /\ Cardinality(own[c]) = 0
    BY SMTT(30), <1>f, <1>n, <1>t, <2>1, <2>3, <2>4, Counting DEF InvCpu, Inside
  <2>6. pc[c]["thread"] = "push_off" => old[c]["thread"] /\ lk[c]["thread"] \in Locks
    BY Zenon, <1>t, <2>1 DEF InvCpu
  <2>7. InvCpu(c)'
    BY <2>1, <2>2, <2>3, <2>4, <2>5, <2>6 DEF InvCpu, Inside
  <2> QED BY Zenon, <2>1, <2>7 DEF Inv
<1>8. ASSUME NEW l \in Locks, AcquireCall(c, l) PROVE InvCpu(c)' /\ ~panic'
  <2>1. /\ irq' = irq /\ intr' = intr /\ own' = own /\ noff' = noff /\ mode' = mode
        /\ intena' = intena /\ panic' = panic /\ pc[c][f] = "rest"
        /\ IF irq[c] THEN lk[c]["handler"] = 0 ELSE \A m \in own[c] : m < l
        /\ lk' = [lk EXCEPT ![c][f] = l] /\ old' = [old EXCEPT ![c][f] = intr[c]]
    BY Zenon, <1>8, <1>f DEF AcquireCall, cpuVars, At
  <2>2. pc'[c][f] = "push_off" /\ \A g \in Frames \ {f} : pc'[c][g] = pc[c][g]
    BY Zenon, <1>8, <1>f, <1>t, <1>p, GotoFacts DEF AcquireCall
  <2>3. lk'[c][f] = l /\ \A g \in Frames \ {f} : lk'[c][g] = lk[c][g]
    BY ZenonT(40), <1>t, <2>1, ArgFacts
  <2>4. old'[c][f] = intr[c] /\ \A g \in Frames \ {f} : old'[c][g] = old[c][g]
    BY <1>n, <1>t, <2>1, FrameUpdate DEF TypeOK
  <2>5. Frame(c)' = f
    BY Zenon, <1>f, <2>1 DEF Frame
  <2>6. l \notin own[c]
    <3>1. CASE irq[c]
      BY <1>t, <2>1, <3>1, SpinlockAssumption DEF InvCpu, Locks
    <3>2. CASE ~irq[c]
      BY <1>n, <2>1, <3>2, SpinlockAssumption DEF Locks
    <3> QED BY Zenon, <3>1, <3>2
  <2>7. irq[c] => own[c] = {}
    BY SMTT(30), <1>n, <1>t, <2>1, SpinlockAssumption DEF InvCpu, Locks
  <2>8. InvCpu(c)'
    BY <1>f, <1>h, <1>t, <2>1, <2>2, <2>3, <2>4, <2>5, <2>6, <2>7 DEF InvCpu, Inside, Frames
  <2> QED BY Zenon, <2>1, <2>8 DEF Inv
<1>9. ASSUME NEW l \in Locks, ReleaseCall(c, l) PROVE InvCpu(c)' /\ ~panic'
  <2>1. /\ irq' = irq /\ intr' = intr /\ old' = old /\ noff' = noff /\ mode' = mode
        /\ intena' = intena /\ panic' = ~holding(c, l) /\ pc[c][f] = "rest"
        /\ l \in own[c] /\ (irq[c] => l = lk[c]["handler"])
        /\ lk' = [lk EXCEPT ![c][f] = l]
    BY Zenon, <1>9, <1>f DEF ReleaseCall, cpuVars, At
  <2>a. own'[c] = own[c] \ {l}
    BY Zenon, <1>9, <1>t DEF ReleaseCall, TypeOK
  <2>2. pc'[c][f] = "unlock" /\ \A g \in Frames \ {f} : pc'[c][g] = pc[c][g]
    BY Zenon, <1>9, <1>f, <1>t, <1>p, GotoFacts DEF ReleaseCall
  <2>3. lk'[c][f] = l /\ \A g \in Frames \ {f} : lk'[c][g] = lk[c][g]
    BY Zenon, <1>t, <2>1, ArgFacts
  <2>4. Frame(c)' = f
    BY Zenon, <1>f, <2>1 DEF Frame
  <2>5. ~panic'
    BY Zenon, <1>t, <2>1 DEF InvLock, Has, holding
  <2>6. Cardinality(own'[c]) = Cardinality(own[c]) - 1
    <3>1. \A m \in own[c] : Cardinality(own[c] \ {m}) = Cardinality(own[c]) - 1
      BY Zenon, <1>n, Counting
    <3> QED BY Zenon, <2>1, <2>a, <3>1
  <2>7. noff[c] = Cardinality(own'[c]) + 1
    BY SMTT(30), <1>c, <1>f, <1>t, <2>1, <2>6 DEF InvCpu, Inside
  <2>8. InvCpu(c)'
    BY <1>f, <1>h, <1>t, <2>1, <2>a, <2>2, <2>3, <2>4, <2>7 DEF InvCpu, Inside, Frames
  <2> QED BY Zenon, <2>5, <2>8
<1> QED BY <1>1, <1>2, <1>3, <1>4, <1>5, <1>6, <1>7, <1>8, <1>9 DEF CpuStep

\* Every lock keeps its part of the invariant.
LEMMA StepLock ==
  ASSUME Inv, NEW c \in CPUs, CpuStep(c), NEW m \in Locks
  PROVE  InvLock(m)'
<1>f. PICK f \in Frames : f = Frame(c)
  BY Zenon DEF Frame, Frames
<1>t. TypeOK /\ InvCpu(c) /\ InvLock(m)
  BY Zenon DEF Inv
<1>o. \A d \in CPUs \ {c} : (Has(d, m)' <=> Has(d, m)) /\ own'[d] = own[d]
  BY Zenon, OthersInv, OthersKept DEF Elsewhere
<1>n. own[c] \in SUBSET Locks /\ cpu \in [Locks -> CPUs \cup {NoCpu}] /\ locked \in [Locks -> {0, 1}]
  BY Zenon, <1>t DEF TypeOK
<1>p. {"push_off", "swap", "record", "rest", "unlock", "pop_off"} \subseteq Places
  BY Zenon DEF Places
\* A step that neither takes nor gives a lock.
<1>k. ASSUME locked'[m] = locked[m], cpu'[m] = cpu[m], Has(c, m)' <=> Has(c, m),
             m \in own'[c] <=> m \in own[c]
      PROVE  InvLock(m)'
  <2>1. \A d \in CPUs : (Has(d, m)' <=> Has(d, m)) /\ (m \in own'[d] <=> m \in own[d])
    BY Zenon, <1>k, <1>o
  <2> QED BY Zenon, <1>k, <1>t, <2>1 DEF InvLock
<1>1. CASE push_off(c) \/ pop_off(c)
  <2>1. /\ irq' = irq /\ lk' = lk /\ own' = own /\ locked' = locked /\ cpu' = cpu
        /\ pc[c][f] \in {"push_off", "pop_off"}
    BY SMTT(30), <1>1, <1>f DEF push_off, pop_off, lockVars, At
  <2>2. pc'[c][f] \in {"swap", "rest"}
    BY Zenon, <1>1, <1>f, <1>t, <1>p, GotoFacts DEF push_off, pop_off
  <2>3. Frame(c)' = f
    BY Zenon, <1>f, <2>1 DEF Frame
  <2>4. Has(c, m)' <=> Has(c, m)
    BY Zenon, <1>f, <2>1, <2>2, <2>3 DEF Has
  <2> QED BY Zenon, <1>k, <2>1, <2>4
<1>2. CASE Swap(c)
  <2>1. /\ irq' = irq /\ lk' = lk /\ own' = own /\ cpu' = cpu
        /\ pc[c][f] = "swap" /\ locked[lk[c][f]] = 0
        /\ locked' = [locked EXCEPT ![lk[c][f]] = 1]
    BY Zenon, <1>2, <1>f DEF Swap, At, Arg
  <2>2. pc'[c][f] = "record"
    BY Zenon, <1>2, <1>f, <1>t, <1>p, GotoFacts DEF Swap
  <2>3. Frame(c)' = f
    BY Zenon, <1>f, <2>1 DEF Frame
  <2>4. CASE lk[c][f] = m
    <3>1. locked[m] = 0 /\ locked'[m] = 1
      BY Zenon, <1>n, <2>1, <2>4
    <3>2. \A d \in CPUs : ~Has(d, m)
      BY <1>t, <3>1 DEF InvLock
    <3>3. Has(c, m)' /\ \A d \in CPUs \ {c} : ~Has(d, m)'
      BY Zenon, <1>f, <1>o, <2>1, <2>2, <2>3, <2>4, <3>2 DEF Has
    <3>4. \A d \in CPUs : (cpu'[m] = d <=> m \in own'[d])
      BY Zenon, <1>t, <2>1 DEF InvLock
    <3> QED BY Zenon, <3>1, <3>3, <3>4 DEF InvLock
  <2>5. CASE lk[c][f] # m
    <3>1. locked'[m] = locked[m]
      BY Zenon, <1>n, <2>1, <2>5
    <3>2. Has(c, m)' <=> Has(c, m)
      BY Zenon, <1>f, <2>1, <2>2, <2>3, <2>5 DEF Has
    <3> QED BY Zenon, <1>k, <2>1, <3>1, <3>2
  <2> QED BY Zenon, <2>4, <2>5
<1>3. CASE Record(c)
  <2>1. /\ irq' = irq /\ lk' = lk /\ locked' = locked
        /\ pc[c][f] = "record" /\ cpu' = [cpu EXCEPT ![lk[c][f]] = c]
        /\ own'[c] = own[c] \cup {lk[c][f]}
    BY Zenon, <1>3, <1>f, <1>t DEF Record, At, Arg, TypeOK
  <2>2. pc'[c][f] = "rest"
    BY Zenon, <1>3, <1>f, <1>t, <1>p, GotoFacts DEF Record
  <2>3. Frame(c)' = f
    BY Zenon, <1>f, <2>1 DEF Frame
  <2>4. Has(c, m)' <=> Has(c, m)
    BY Zenon, <1>f, <2>1, <2>2, <2>3 DEF Has
  <2>5. CASE lk[c][f] = m
    <3>1. Has(c, m) /\ cpu'[m] = c /\ m \in own'[c]
      BY SMTT(30), <1>f, <1>n, <2>1, <2>5 DEF Has
    <3>2. \A d \in CPUs \ {c} : m \notin own'[d]
      BY Zenon, <1>o, <1>t, <3>1 DEF InvLock, Has
    <3>3. \A d \in CPUs : Has(d, m)' <=> Has(d, m)
      BY Zenon, <1>o, <2>4
    <3>4. /\ locked'[m] = 1 <=> \E d \in CPUs : Has(d, m)'
          /\ \A d, e \in CPUs : Has(d, m)' /\ Has(e, m)' => d = e
      BY Zenon, <1>t, <2>1, <3>3 DEF InvLock
    <3>5. \A d \in CPUs : cpu'[m] = d <=> m \in own'[d]
      BY Zenon, <3>1, <3>2
    <3> QED BY Zenon, <3>4, <3>5 DEF InvLock
  <2>6. CASE lk[c][f] # m
    <3>1. cpu'[m] = cpu[m] /\ (m \in own'[c] <=> m \in own[c])
      BY Zenon, <1>n, <2>1, <2>6
    <3> QED BY Zenon, <1>k, <2>1, <2>4, <3>1
  <2> QED BY Zenon, <2>5, <2>6
<1>4. CASE Unlock(c)
  <2>1. /\ irq' = irq /\ lk' = lk /\ own' = own /\ cpu' = cpu
        /\ pc[c][f] = "unlock" /\ locked' = [locked EXCEPT ![lk[c][f]] = 0]
    BY Zenon, <1>4, <1>f DEF Unlock, At, Arg
  <2>2. pc'[c][f] = "pop_off"
    BY Zenon, <1>4, <1>f, <1>t, <1>p, GotoFacts DEF Unlock
  <2>3. Frame(c)' = f
    BY Zenon, <1>f, <2>1 DEF Frame
  <2>4. CASE lk[c][f] = m
    <3>1. locked'[m] = 0 /\ Has(c, m) /\ m \notin own[c]
      BY Zenon, <1>f, <1>n, <1>t, <2>1, <2>4 DEF Has, InvCpu
    <3>2. \A d \in CPUs : ~Has(d, m)'
      <4>1. \A d \in CPUs \ {c} : ~Has(d, m)
        BY Zenon, <1>t, <3>1 DEF InvLock
      <4>2. ~Has(c, m)'
        BY Zenon, <2>1, <2>2, <2>3, <3>1 DEF Has
      <4> QED BY Zenon, <1>o, <4>1, <4>2
    <3>3. \A d \in CPUs : (cpu'[m] = d <=> m \in own'[d])
      BY Zenon, <1>t, <2>1 DEF InvLock
    <3> QED BY <3>1, <3>2, <3>3 DEF InvLock
  <2>5. CASE lk[c][f] # m
    <3>1. locked'[m] = locked[m]
      BY Zenon, <1>n, <2>1, <2>5
    <3>2. Has(c, m)' <=> Has(c, m)
      BY SMTT(30), <1>f, <2>1, <2>2, <2>3, <2>5 DEF Has
    <3> QED BY Zenon, <1>k, <2>1, <3>1, <3>2
  <2> QED BY Zenon, <2>4, <2>5
<1>5. CASE IntrSet(c)
  <2>1. Has(c, m)' <=> Has(c, m)
    BY Zenon, <1>5 DEF IntrSet, Has, Frame
  <2> QED BY Zenon, <1>5, <1>k, <2>1 DEF IntrSet, lockVars
<1>6. CASE Interrupt(c) \/ InterruptReturn(c)
  <2>1. /\ pc' = pc /\ own' = own /\ locked' = locked /\ cpu' = cpu
    BY Zenon, <1>6 DEF Interrupt, InterruptReturn, lockVars
  <2>2. pc[c]["handler"] = "rest" /\ pc[c]["thread"] \notin {"record", "unlock"}
    <3>1. CASE Interrupt(c)
      <4>1. intr[c] /\ ~irq[c] /\ noff[c] = 0 /\ pc[c]["handler"] = "rest"
        BY Zenon, <1>t, <3>1 DEF Interrupt, InvCpu
      <4>2. Cardinality(own[c]) \in Nat
        BY SMTT(30), <1>n, Counting
      <4> QED BY SMTT(30), <1>t, <4>1, <4>2 DEF InvCpu, Inside, Frame
    <3>2. CASE InterruptReturn(c)
      BY Zenon, <1>t, <3>2 DEF InterruptReturn, At, Frame, InvCpu
    <3> QED BY SMTT(30), <1>6, <3>1, <3>2
  <2>3. Has(c, m)' <=> Has(c, m)
    BY Zenon, <2>1, <2>2 DEF Has, Frame
  <2> QED BY Zenon, <1>k, <2>1, <2>3
<1>7. ASSUME NEW l \in Locks, AcquireCall(c, l) PROVE InvLock(m)'
  <2>1. irq' = irq /\ own' = own /\ locked' = locked /\ cpu' = cpu /\ pc[c][f] = "rest"
    BY Zenon, <1>7, <1>f DEF AcquireCall, lockVars, At
  <2>2. pc'[c][f] = "push_off"
    BY Zenon, <1>7, <1>f, <1>t, <1>p, GotoFacts DEF AcquireCall
  <2>3. Has(c, m)' <=> Has(c, m)
    BY Zenon, <1>f, <2>1, <2>2 DEF Has, Frame
  <2> QED BY Zenon, <1>k, <2>1, <2>3
<1>8. ASSUME NEW l \in Locks, ReleaseCall(c, l) PROVE InvLock(m)'
  <2>1. /\ irq' = irq /\ locked' = locked /\ pc[c][f] = "rest" /\ l \in own[c]
        /\ cpu' = [cpu EXCEPT ![l] = NoCpu] /\ lk' = [lk EXCEPT ![c][f] = l]
    BY Zenon, <1>8, <1>f DEF ReleaseCall, At
  <2>a. own'[c] = own[c] \ {l}
    BY Zenon, <1>8, <1>t DEF ReleaseCall, TypeOK
  <2>2. pc'[c][f] = "unlock" /\ lk'[c][f] = l
    <3>1. pc'[c][f] = "unlock"
      BY Zenon, <1>8, <1>f, <1>t, <1>p, GotoFacts DEF ReleaseCall
    <3>2. lk'[c][f] = l
      BY Zenon, <1>t, <2>1, ArgFacts
    <3> QED BY Zenon, <3>1, <3>2
  <2>3. Frame(c)' = f
    BY Zenon, <1>f, <2>1 DEF Frame
  <2>4. Has(c, m)' <=> Has(c, m)
    BY Zenon, <1>f, <2>1, <2>a, <2>2, <2>3 DEF Has
  <2>5. CASE l = m
    <3>1. cpu'[m] = NoCpu /\ m \notin own'[c] /\ Has(c, m)
      BY SMTT(30), <1>n, <2>1, <2>a, <2>5 DEF Has
    <3>2. \A d \in CPUs : m \notin own'[d]
      BY Zenon, <1>o, <1>t, <3>1 DEF InvLock, Has
    <3>3. \A d \in CPUs : Has(d, m)' <=> Has(d, m)
      BY Zenon, <1>o, <2>4
    <3>4. /\ locked'[m] = 1 <=> \E d \in CPUs : Has(d, m)'
          /\ \A d, e \in CPUs : Has(d, m)' /\ Has(e, m)' => d = e
      BY Zenon, <1>t, <2>1, <3>3 DEF InvLock
    <3>5. \A d \in CPUs : cpu'[m] = d <=> m \in own'[d]
      BY Zenon, <3>1, <3>2, SpinlockAssumption
    <3> QED BY Zenon, <3>4, <3>5 DEF InvLock
  <2>6. CASE l # m
    <3>1. cpu'[m] = cpu[m] /\ (m \in own'[c] <=> m \in own[c])
      BY Zenon, <1>n, <2>1, <2>a, <2>6
    <3> QED BY Zenon, <1>k, <2>1, <2>4, <3>1
  <2> QED BY Zenon, <2>5, <2>6
<1> QED BY <1>1, <1>2, <1>3, <1>4, <1>5, <1>6, <1>7, <1>8 DEF CpuStep
-----------------------------------------------------------------------------
\* and every step of every CPU, thread or handler, keeps it.
LEMMA NextInv == Inv /\ [Next]_vars => Inv'
<1> SUFFICES ASSUME Inv, [Next]_vars PROVE Inv'
  BY Zenon
<1>1. ASSUME NEW c \in CPUs, CpuStep(c) PROVE Inv'
  <2>1. TypeOK'
    BY Zenon, <1>1, StepType
  <2>2. ~panic' /\ \A d \in CPUs : InvCpu(d)'
    BY Zenon, <1>1, StepCpu, OthersInv
  <2>3. \A m \in Locks : InvLock(m)'
    BY Zenon, <1>1, StepLock
  <2> QED BY Zenon, <2>1, <2>2, <2>3 DEF Inv
<1>2. CASE UNCHANGED vars
  <2>1. TypeOK' /\ ~panic'
    BY SMTT(30), <1>2 DEF Inv, TypeOK, vars, lockVars, cpuVars
  <2>2. \A d \in CPUs : InvCpu(d)'
    BY SMTT(30), <1>2 DEF Inv, InvCpu, Frame, vars, lockVars, cpuVars
  <2>3. \A m \in Locks : InvLock(m)'
    <3>1. /\ locked' = locked /\ cpu' = cpu /\ own' = own
          /\ pc' = pc /\ lk' = lk /\ irq' = irq
      BY Zenon, <1>2 DEF vars, lockVars
    <3>2. \A d \in CPUs, m \in Locks : Has(d, m)' <=> Has(d, m)
      BY Zenon, <3>1 DEF Has, Frame
    <3> QED BY Zenon, <3>1, <3>2 DEF Inv, InvLock
  <2> QED BY Zenon, <2>1, <2>2, <2>3 DEF Inv
<1> QED BY Zenon, <1>1, <1>2 DEF Next

\* Every CPU and every lock satisfies its part of the invariant of acquire(),
\* release(), push_off() and pop_off() at every moment, and none of them panics.
THEOREM SpinlockInv == Spec => []Inv
BY InitInv, NextInv, PTL DEF Spec

\* The variables of spinlock.c keep their types: noff in particular never
\* becomes negative in pop_off().
THEOREM SpinlockTypes == Spec => []TypeOK
<1>1. Inv => TypeOK
  BY DEF Inv
<1> QED BY <1>1, SpinlockInv, PTL

\* acquire() excludes every other CPU, and every handler, from the swap that
\* finds the lock free to the store of release(), for any number of CPUs.
THEOREM SpinlockExcludes == Spec => []Exclusive
<1>1. Inv => Exclusive
  <2> SUFFICES ASSUME Inv, NEW x \in CPUs, NEW y \in CPUs, NEW l \in Locks,
                      l \in own[x] \/ \E f \in Frames : pc[x][f] \in {"record", "unlock"} /\ lk[x][f] = l,
                      l \in own[y] \/ \E f \in Frames : pc[y][f] \in {"record", "unlock"} /\ lk[y][f] = l
               PROVE  x = y
    BY Zenon DEF Exclusive
  <2>1. ASSUME NEW d \in CPUs, NEW f \in Frames, pc[d][f] \in {"record", "unlock"}
        PROVE  f = Frame(d)
    BY Zenon, <2>1 DEF Inv, InvCpu, Frame, Frames
  <2>2. Has(x, l) /\ Has(y, l)
    BY <2>1 DEF Has
  <2> QED BY <2>2 DEF Inv, InvLock
<1> QED BY <1>1, SpinlockInv, PTL

\* holding() answers exactly whether the CPU has acquired the lock, whatever
\* the other CPUs do between its two reads.
THEOREM HoldingIsExact == Spec => []HoldingExact
<1>1. Inv => HoldingExact
  BY DEF Inv, InvLock, Has, HoldingExact, holding
<1> QED BY <1>1, SpinlockInv, PTL

\* No check of acquire(), release() or pop_off() ever panics.
THEOREM SpinlockNeverPanics == Spec => []NoPanic
<1>1. Inv => NoPanic
  BY DEF Inv, NoPanic
<1> QED BY <1>1, SpinlockInv, PTL

\* push_off() and pop_off() are matched: noff counts the locks held, interrupts
\* are off while one is, and come back as they were before the first.
THEOREM PushPopMatched == Spec => []InterruptsMatched
<1>1. Inv => InterruptsMatched
  <2> SUFFICES ASSUME Inv, NEW c \in CPUs, pc[c][Frame(c)] = "rest"
               PROVE  /\ noff[c] = Cardinality(own[c])
                      /\ own[c] # {} => ~intr[c]
                      /\ own[c] = {} => (intr[c] <=> mode[c] /\ ~irq[c])
    BY Zenon DEF InterruptsMatched
  <2>1. InvCpu(c) /\ own[c] \in SUBSET Locks
    BY Zenon DEF Inv, TypeOK
  <2>2. Cardinality(own[c]) \in Nat /\ (Cardinality(own[c]) = 0 <=> own[c] = {})
    BY Zenon, <2>1, Counting
  <2>3. noff[c] = Cardinality(own[c])
    BY <2>1, <2>2 DEF InvCpu, Inside
  <2>4. noff[c] = 0 <=> own[c] = {}
    BY Zenon, <2>2, <2>3
  <2> QED BY Zenon, <2>1, <2>3, <2>4 DEF InvCpu
<1> QED BY <1>1, SpinlockInv, PTL
=============================================================================
