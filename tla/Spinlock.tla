------------------------------ MODULE Spinlock ------------------------------
(***************************************************************************)
(* kernel/spinlock.c on several CPUs, with interrupts.  On every CPU a     *)
(* kernel thread acquires locks one inside the other and releases them in  *)
(* any order; whenever the CPU's interrupts are on, a device interrupt may *)
(* come in between two instructions, and its handler acquires and releases *)
(* a lock as well.                                                         *)
(***************************************************************************)
EXTENDS Integers, FiniteSets

CONSTANTS CPUs, NoCpu, NLocks

ASSUME SpinlockAssumption == NoCpu \notin CPUs /\ NLocks \in Nat

VARIABLES
  locked, cpu,          \* struct spinlock
  noff, intena,         \* struct cpu
  intr,                 \* sstatus.SIE of each CPU
  irq,                  \* whether the CPU runs an interrupt handler
  pc, old, lk,          \* per CPU and frame: place, local of push_off, argument
  own,                  \* what each CPU has acquired and not begun to release
  mode,                 \* what intr is outside of push_off/pop_off
  panic

lockVars == <<locked, cpu>>
cpuVars == <<noff, intena>>
vars == <<lockVars, cpuVars, intr, irq, pc, old, lk, own, mode, panic>>

Locks == 1 .. NLocks
Frames == {"thread", "handler"}
Places == {"rest", "push_off", "swap", "record", "unlock", "pop_off"}

TypeOK ==
  /\ locked \in [Locks -> {0, 1}] /\ cpu \in [Locks -> CPUs \cup {NoCpu}]
  /\ noff \in [CPUs -> Nat] /\ intena \in [CPUs -> BOOLEAN]
  /\ intr \in [CPUs -> BOOLEAN] /\ irq \in [CPUs -> BOOLEAN]
  /\ pc \in [CPUs -> [Frames -> Places]]
  /\ old \in [CPUs -> [Frames -> BOOLEAN]]
  /\ lk \in [CPUs -> [Frames -> Locks \cup {0}]]
  /\ own \in [CPUs -> SUBSET Locks]
  /\ mode \in [CPUs -> BOOLEAN]
  /\ panic \in BOOLEAN

Init ==
  /\ locked = [l \in Locks |-> 0] /\ cpu = [l \in Locks |-> NoCpu] \* initlock()
  /\ noff = [c \in CPUs |-> 0] /\ intena = [c \in CPUs |-> FALSE]
  /\ intr = [c \in CPUs |-> FALSE] /\ mode = intr
  /\ irq = [c \in CPUs |-> FALSE]
  /\ pc = [c \in CPUs |-> [f \in Frames |-> "rest"]]
  /\ old = [c \in CPUs |-> [f \in Frames |-> FALSE]]
  /\ lk = [c \in CPUs |-> [f \in Frames |-> 0]]
  /\ own = [c \in CPUs |-> {}]
  /\ panic = FALSE

Frame(c) == IF irq[c] THEN "handler" ELSE "thread"

At(c, place) == ~panic /\ pc[c][Frame(c)] = place

Goto(c, place) == pc' = [pc EXCEPT ![c][Frame(c)] = place]

Arg(c) == lk[c][Frame(c)]

holding(c, l) == locked[l] = 1 /\ cpu[l] = c
-----------------------------------------------------------------------------
\* acquire(l) is called, in the order of the locks; push_off() reads the
\* interrupt flag.  A handler takes one lock.
AcquireCall(c, l) ==
  /\ At(c, "rest")
  /\ IF irq[c] THEN lk[c]["handler"] = 0 ELSE \A m \in own[c] : m < l
  /\ lk' = [lk EXCEPT ![c][Frame(c)] = l]
  /\ old' = [old EXCEPT ![c][Frame(c)] = intr[c]]
  /\ Goto(c, "push_off")
  /\ UNCHANGED <<lockVars, cpuVars, intr, irq, own, mode, panic>>

\* The rest of push_off(), and the check of acquire().
push_off(c) ==
  /\ At(c, "push_off")
  /\ intr' = [intr EXCEPT ![c] = FALSE]
  /\ intena' = [intena EXCEPT ![c] = IF noff[c] = 0 THEN old[c][Frame(c)] ELSE @]
  /\ noff' = [noff EXCEPT ![c] = @ + 1]
  /\ panic' = holding(c, Arg(c))
  /\ Goto(c, "swap")
  /\ UNCHANGED <<lockVars, irq, old, lk, own, mode>>

\* The atomic swap that finds the lock free.
Swap(c) ==
  /\ At(c, "swap")
  /\ locked[Arg(c)] = 0
  /\ locked' = [locked EXCEPT ![Arg(c)] = 1]
  /\ Goto(c, "record")
  /\ UNCHANGED <<cpu, cpuVars, intr, irq, old, lk, own, mode, panic>>

\* lk->cpu = mycpu().
Record(c) ==
  /\ At(c, "record")
  /\ cpu' = [cpu EXCEPT ![Arg(c)] = c]
  /\ own' = [own EXCEPT ![c] = @ \cup {Arg(c)}]
  /\ Goto(c, "rest")
  /\ UNCHANGED <<locked, cpuVars, intr, irq, old, lk, mode, panic>>

\* A mutant: lk->cpu is cleared before the check.
ReleaseChecksLate(c, l) ==
  /\ At(c, "rest") /\ l \in own[c] /\ (irq[c] => l = lk[c]["handler"])
  /\ lk' = [lk EXCEPT ![c][Frame(c)] = l]
  /\ cpu' = [cpu EXCEPT ![l] = NoCpu]
  /\ panic' = ~(locked[l] = 1 /\ cpu'[l] = c)
  /\ own' = [own EXCEPT ![c] = @ \ {l}]
  /\ Goto(c, "unlock")
  /\ UNCHANGED <<locked, cpuVars, intr, irq, old, mode>>

\* release(l) of a lock that the frame has acquired: the check, and
\* lk->cpu = 0.
ReleaseCall(c, l) ==
  /\ At(c, "rest") /\ l \in own[c] /\ (irq[c] => l = lk[c]["handler"])
  /\ lk' = [lk EXCEPT ![c][Frame(c)] = l]
  /\ panic' = ~holding(c, l)
  /\ cpu' = [cpu EXCEPT ![l] = NoCpu]
  /\ own' = [own EXCEPT ![c] = @ \ {l}]
  /\ Goto(c, "unlock")
  /\ UNCHANGED <<locked, cpuVars, intr, irq, old, mode>>

Unlock(c) ==
  /\ At(c, "unlock")
  /\ locked' = [locked EXCEPT ![Arg(c)] = 0]
  /\ Goto(c, "pop_off")
  /\ UNCHANGED <<cpu, cpuVars, intr, irq, old, lk, own, mode, panic>>

pop_off(c) ==
  /\ At(c, "pop_off")
  /\ panic' = (intr[c] \/ noff[c] < 1)
  /\ noff' = [noff EXCEPT ![c] = @ - 1]
  /\ intr' = [intr EXCEPT ![c] = @ \/ (noff[c] = 1 /\ intena[c])]
  /\ Goto(c, "rest")
  /\ UNCHANGED <<lockVars, intena, irq, old, lk, own, mode>>
-----------------------------------------------------------------------------
\* Outside of any lock the thread turns interrupts on or off itself, as
\* scheduler(), usertrap() and usertrapret() do.
IntrSet(c) ==
  /\ At(c, "rest") /\ ~irq[c] /\ own[c] = {}
  /\ mode' = [mode EXCEPT ![c] = ~@]
  /\ intr' = [intr EXCEPT ![c] = mode'[c]]
  /\ UNCHANGED <<lockVars, cpuVars, irq, pc, old, lk, own, panic>>

\* The hardware takes an interrupt and turns further ones off.
Interrupt(c) ==
  /\ ~panic /\ intr[c] /\ ~irq[c]
  /\ irq' = [irq EXCEPT ![c] = TRUE]
  /\ intr' = [intr EXCEPT ![c] = FALSE]
  /\ UNCHANGED <<lockVars, cpuVars, pc, old, lk, own, mode, panic>>

\* kerneltrap() returns; sret turns interrupts on again.
InterruptReturn(c) ==
  /\ At(c, "rest") /\ irq[c] /\ lk[c]["handler"] \notin own[c]
  /\ irq' = [irq EXCEPT ![c] = FALSE]
  /\ intr' = [intr EXCEPT ![c] = TRUE]
  /\ lk' = [lk EXCEPT ![c]["handler"] = 0]
  /\ UNCHANGED <<lockVars, cpuVars, pc, old, own, mode, panic>>

CpuStep(c) ==
  \/ push_off(c) \/ Swap(c) \/ Record(c) \/ Unlock(c) \/ pop_off(c)
  \/ IntrSet(c) \/ Interrupt(c) \/ InterruptReturn(c)
  \/ \E l \in Locks : AcquireCall(c, l) \/ ReleaseCall(c, l)

Next == \E c \in CPUs : CpuStep(c)

Spec == Init /\ [][Next]_vars

-----------------------------------------------------------------------------
(***************************************************************************)
(* Properties                                                              *)
(***************************************************************************)

\* A lock is held by one CPU, and by one only from the swap in acquire() to
\* the store in release().
Exclusive ==
  \A c, d \in CPUs : \A l \in Locks :
    LET has(x) == \/ l \in own[x]
                  \/ \E f \in Frames : pc[x][f] \in {"record", "unlock"} /\ lk[x][f] = l
    IN  has(c) /\ has(d) => c = d

\* holding() is exact although it reads lk->locked and lk->cpu one after the
\* other while other CPUs acquire and release: at every moment lk->cpu alone
\* tells whether this CPU has the lock, and while it has, lk->locked is set.
HoldingExact ==
  \A c \in CPUs : \A l \in Locks :
    /\ cpu[l] = c <=> l \in own[c]
    /\ l \in own[c] => holding(c, l)

\* The code around: acquire() of a lock the CPU holds, release() of one that
\* it does not hold and an unmatched pop_off() would panic; none happens, also
\* when a handler acquires what the thread it interrupts uses.
NoPanic == ~panic

\* push_off() and pop_off() are matched: interrupts stay off as long as a lock
\* is held, noff counts the locks, and when the last one is released
\* interrupts are what they were before the first.
InterruptsMatched ==
  \A c \in CPUs : pc[c][Frame(c)] = "rest" =>
    /\ noff[c] = Cardinality(own[c])
    /\ own[c] # {} => ~intr[c]
    /\ own[c] = {} => (intr[c] <=> mode[c] /\ ~irq[c])

=============================================================================
