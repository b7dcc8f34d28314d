----------------------------- MODULE Log_proofs -----------------------------
(***************************************************************************)
(* The redo log, for any operations, blocks, sizes and number of crashes:  *)
(* a crash at any moment leaves each operation's updates on the disk in    *)
(* full or not at all, the cache is current, and the log implements        *)
(* AtomicDisk.                                                             *)
(***************************************************************************)
EXTENDS Log, FiniteSetTheorems, TLAPS

OpPC == {"idle", "begin", "asleep", "run", "log_write", "done", "lost"} \cup InCommit
BootPC == {"read_head", "install", "erase", "up"}
Content == SUBSET (Ops \cup {Torn})

TypeOK ==
  /\ disk \in [Blocks -> Content] /\ cache \in [Blocks -> Content]
  /\ dlog \in [1 .. LOGSIZE -> Content]
  /\ dhead \in Seq(Blocks) /\ lh \in Seq(Blocks)
  /\ pinned \in [Blocks -> Int]
  /\ outstanding \in Int /\ committing \in BOOLEAN
  /\ pc \in [Threads -> OpPC \cup BootPC]
  /\ pc[Boot] \in BootPC /\ \A o \in Ops : pc[o] \in OpPC
  /\ buf \in [Ops -> Blocks \cup {NoBlock}]
  /\ tail \in [Threads -> Nat]
  /\ wrote \in [Ops -> SUBSET Blocks]

(***************************************************************************)
(* The inductive invariant                                                 *)
(***************************************************************************)

\* The operations between begin_op() and end_op().
Running == {o \in Ops : pc[o] \in {"run", "log_write"}}

\* log.outstanding counts them; a commit is the work of one operation, after
\* all of them have ended; nothing runs before the recovery is over.
InvControl ==
  /\ IsFiniteSet(Running) /\ outstanding = Cardinality(Running)
  /\ committing => Running = {}
  /\ \A o \in Ops : pc[o] \in InCommit => committing
  /\ \A o, q \in Ops : pc[o] \in InCommit /\ pc[q] \in InCommit => o = q
  /\ pc[Boot] # "up" => ~committing /\ \A o \in Ops : pc[o] \in {"idle", "lost"}

\* A locked buffer is one that its operation has changed and not yet logged.
InvBuf ==
  /\ \A o \in Ops : pc[o] = "log_write" <=> buf[o] # NoBlock
  /\ \A o \in Ops : buf[o] # NoBlock => buf[o] \in wrote[o]
  /\ \A o, q \in Ops : buf[o] = buf[q] /\ buf[o] # NoBlock => o = q

NoRepeats(s) == \A j, k \in 1 .. Len(s) : s[j] = s[k] => j = k

\* log.lh and the header on the disk name blocks that fit in the log, once;
\* what is in log.lh and not yet home is pinned.
InvLog ==
  /\ NoRepeats(lh) /\ NoRepeats(dhead)
  /\ Len(lh) <= LOGSIZE /\ Len(dhead) <= LOGSIZE
  /\ \A b \in Blocks : pinned[b] >= 0
  /\ \A t \in Threads : /\ tail[t] >= 1 /\ tail[t] <= Len(lh) + 1
                        /\ pc[t] \notin {"write_log", "install"} => tail[t] = 1
  /\ pc[Boot] = "up" =>
       \A k \in 1 .. Len(lh) :
         (\A o \in Ops : pc[o] = "install" => k >= tail[o]) => pinned[lh[k]] >= 1

\* The header on the disk is empty, unless blocks are being installed; where
\* the installation is; what write_log() has copied.
InvStage ==
  /\ pc[Boot] = "up" /\ (\A o \in Ops : pc[o] \notin {"install", "erase"}) => dhead = <<>>
  /\ pc[Boot] = "read_head" => lh = <<>>
  /\ \A t \in Threads :
       /\ pc[t] = "install" => dhead = lh
       /\ pc[t] = "install" => \A k \in 1 .. Len(lh) : k < tail[t] => disk[lh[k]] = dlog[k]
       /\ pc[t] \in {"erase", "finish"} => lh = <<>>
       /\ pc[t] = "erase" => \A k \in 1 .. Len(dhead) : disk[dhead[k]] = dlog[k]
  /\ \A o \in Ops :
       /\ pc[o] = "write_log" => \A k \in 1 .. Len(lh) : k < tail[o] => dlog[k] = cache[lh[k]]
       /\ pc[o] = "write_head" => \A k \in 1 .. Len(lh) : dlog[k] = cache[lh[k]]

\* What has been written but not made durable is in log.lh or about to be, and
\* there is none of it while blocks are being installed.
InvLogged ==
  /\ \A o \in Ops : pc[o] \in {"idle", "begin", "asleep"} => wrote[o] = {}
  /\ \A o \in Running : o \notin Durable
  /\ \A o \in Ops \ Durable : pc[o] # "lost" => \A b \in wrote[o] :
       /\ InLog(b) \/ buf[o] = b
       /\ \A c \in Ops : pc[c] \notin {"install", "erase"}

\* Until the recovery is over, the cache holds what is on the disk.
InvBoot == pc[Boot] # "up" => cache = disk

Inv ==
  /\ TypeOK /\ InvControl /\ InvBuf /\ InvLog /\ InvStage
  /\ InvLogged /\ InvBoot /\ CrashConsistent /\ CacheCurrent
-----------------------------------------------------------------------------
(***************************************************************************)
(* What a recovery would find                                              *)
(***************************************************************************)

\* A header that names no block twice has one copy of each block it names.
LEMMA OneCopy ==
  ASSUME NEW h \in Seq(Blocks), NoRepeats(h), NEW k \in 1 .. Len(h)
  PROVE  /\ {j \in 1 .. Len(h) : h[j] = h[k]} = {k}
         /\ Max({k}) = k
<1>1. {j \in 1 .. Len(h) : h[j] = h[k]} = {k}
  BY Zenon DEF NoRepeats
<1>2. Max({k}) = k
  BY DEF Max
<1> QED BY Zenon, <1>1, <1>2

\* recover_from_log() takes a block from the log if the header names it and
\* leaves it alone otherwise.
LEMMA RecoveredAt ==
  ASSUME dhead \in Seq(Blocks), NoRepeats(dhead)
  PROVE  /\ \A k \in 1 .. Len(dhead) : dhead[k] \in Blocks /\ Recovered[dhead[k]] = dlog[k]
         /\ \A b \in Blocks : (\A k \in 1 .. Len(dhead) : dhead[k] # b) => Recovered[b] = disk[b]
         /\ Recovered = [b \in Blocks |-> Recovered[b]]
<1>1. ASSUME NEW k \in 1 .. Len(dhead) PROVE dhead[k] \in Blocks /\ Recovered[dhead[k]] = dlog[k]
  <2>1. dhead[k] \in Blocks
    OBVIOUS
  <2>2. {j \in 1 .. Len(dhead) : dhead[j] = dhead[k]} = {k} /\ Max({k}) = k
    BY Zenon, OneCopy
  <2> QED BY Zenon, <2>1, <2>2 DEF Recovered
<1>2. \A b \in Blocks : (\A k \in 1 .. Len(dhead) : dhead[k] # b) => Recovered[b] = disk[b]
  BY Zenon DEF Recovered
<1>3. Recovered = [b \in Blocks |-> Recovered[b]]
  BY Zenon DEF Recovered
<1> QED BY Zenon, <1>1, <1>2, <1>3

\* The same after a step.
LEMMA RecoveredAtNext ==
  ASSUME dhead' \in Seq(Blocks), NoRepeats(dhead)'
  PROVE  /\ \A k \in 1 .. Len(dhead') : dhead'[k] \in Blocks /\ Recovered'[dhead'[k]] = dlog'[k]
         /\ \A b \in Blocks : (\A k \in 1 .. Len(dhead') : dhead'[k] # b) => Recovered'[b] = disk'[b]
         /\ Recovered' = [b \in Blocks |-> Recovered'[b]]
<1>1. ASSUME NEW k \in 1 .. Len(dhead') PROVE dhead'[k] \in Blocks /\ Recovered'[dhead'[k]] = dlog'[k]
  <2>1. dhead'[k] \in Blocks
    OBVIOUS
  <2>2. {j \in 1 .. Len(dhead') : dhead'[j] = dhead'[k]} = {k} /\ Max({k}) = k
    BY Zenon, OneCopy DEF NoRepeats
  <2> QED BY Zenon, <2>1, <2>2 DEF Recovered
<1>2. \A b \in Blocks : (\A k \in 1 .. Len(dhead') : dhead'[k] # b) => Recovered'[b] = disk'[b]
  BY Zenon DEF Recovered
<1>3. Recovered' = [b \in Blocks |-> Recovered'[b]]
  BY Zenon DEF Recovered
<1> QED BY Zenon, <1>1, <1>2, <1>3

\* A step that changes neither what a recovery would find nor the cache, and
\* loses nobody, keeps what the two are to hold.
LEMMA DataKept ==
  ASSUME Inv, Recovered' = Recovered, wrote' = wrote, cache' = cache,
         \A o \in Ops : pc'[o] = "lost" <=> pc[o] = "lost",
         pc'[Boot] = "up" <=> pc[Boot] = "up"
  PROVE  Durable' = Durable /\ CrashConsistent' /\ CacheCurrent'
<1>1. Durable' = Durable
  BY Zenon DEF Durable
<1> QED BY Zenon, <1>1 DEF Inv, CrashConsistent, CacheCurrent

\* The disk is as it was.
LEMMA SameDisk ==
  ASSUME UNCHANGED diskVars
  PROVE  Recovered' = Recovered
BY Zenon DEF Recovered, diskVars

\* An operation that has begun runs on a kernel that is up.
LEMMA Up ==
  ASSUME Inv, NEW o \in Ops, pc[o] \notin {"idle", "lost"}
  PROVE  pc[Boot] = "up"
BY Zenon DEF Inv, InvControl

\* Whoever commits is alone: nobody runs and no buffer is locked.
LEMMA Committer ==
  ASSUME Inv, NEW o \in Ops, pc[o] \in InCommit
  PROVE  /\ committing /\ Running = {} /\ pc[Boot] = "up"
         /\ \A q \in Ops \ {o} : pc[q] \notin InCommit \cup {"run", "log_write"}
         /\ \A q \in Ops : buf[q] = NoBlock
<1>1. committing /\ Running = {} /\ \A q \in Ops \ {o} : pc[q] \notin InCommit
  BY Zenon DEF Inv, InvControl
<1>2. pc[Boot] = "up"
  BY Zenon, Up DEF InCommit
<1>3. \A q \in Ops : pc[q] \notin {"run", "log_write"}
  BY Zenon, <1>1 DEF Running
<1> QED BY Zenon, <1>1, <1>2, <1>3 DEF Inv, InvBuf

\* While operations run, nobody commits.
LEMMA Runner ==
  ASSUME Inv, NEW o \in Ops, pc[o] \in {"run", "log_write"}
  PROVE  /\ ~committing /\ pc[Boot] = "up" /\ dhead = <<>> /\ o \notin Durable
         /\ \A q \in Ops : pc[q] \notin InCommit
<1>1. ~committing /\ o \in Running
  BY Zenon DEF Inv, InvControl, Running
<1>2. pc[Boot] = "up" /\ \A q \in Ops : pc[q] \notin InCommit
  BY Zenon, <1>1, Up DEF Inv, InvControl
<1>3. dhead = <<>>
  BY Zenon, <1>2 DEF Inv, InvStage, InCommit
<1> QED BY Zenon, <1>1, <1>2, <1>3 DEF Inv, InvLogged

\* Boot is not an operation.
LEMMA ThreadFacts == Boot \in Threads /\ Boot \notin Ops /\ \A o \in Ops : o \in Threads /\ o # Boot
BY Zenon, LogAssumption DEF Threads

-----------------------------------------------------------------------------
(***************************************************************************)
(* The steps of an operation                                               *)
(***************************************************************************)

\* A step in which one operation moves between places outside a commit and
\* others are at most woken, with the disk, the cache and the log as they are.
LEMMA MoveKept ==
  ASSUME Inv, NEW o \in Ops, UNCHANGED <<diskVars, cacheVars, lh, buf, tail, wrote>>,
         pc' \in [Threads -> OpPC \cup BootPC],
         pc'[Boot] = "up" /\ pc[Boot] = "up",
         pc[o] \in {"idle", "begin", "run", "finish"},
         pc'[o] \in {"begin", "asleep", "run", "write_log", "finish", "done"},
         pc'[o] = "finish" => lh = <<>>,
         pc'[o] \in {"begin", "asleep", "run"} => pc[o] \in {"idle", "begin"},
         \A q \in Ops \ {o} : pc'[q] = pc[q] \/ (pc[q] = "asleep" /\ pc'[q] = "begin"),
         outstanding' \in Int, committing' \in BOOLEAN
  PROVE  /\ TypeOK' /\ InvBuf' /\ InvLog' /\ InvStage' /\ InvLogged' /\ InvBoot'
         /\ CrashConsistent' /\ CacheCurrent' /\ Durable' = Durable
<1> USE ThreadFacts
<1>1. \A q \in Ops : /\ pc'[q] \in OpPC
                     /\ pc'[q] \in {"lost", "log_write", "write_head", "install", "erase"}
                          \/ pc[q] \in {"lost", "log_write", "write_head", "install", "erase"}
                        => pc'[q] = pc[q]
                     /\ pc'[q] = "write_log" => pc[q] = "write_log" \/ q = o
                     /\ pc'[q] = "finish" => lh = <<>>
                     /\ pc'[q] \in {"idle", "begin", "asleep"} => pc[q] \in {"idle", "begin", "asleep"}
  BY DEF Inv, TypeOK, OpPC, InCommit, InvStage
<1>2. TypeOK'
  BY Zenon, <1>1 DEF Inv, TypeOK, diskVars, cacheVars, BootPC
<1>3. InvBuf'
  BY Zenon, <1>1 DEF Inv, InvBuf
<1>4. tail[o] = 1
  BY Zenon DEF Inv, InvLog
<1>5. \A t \in Threads : pc'[t] \notin {"write_log", "install"} => tail[t] = 1
  BY Zenon, <1>1, <1>4 DEF Inv, InvLog, Threads
<1>6. InvLog'
  <2>1. \A q \in Ops : pc[q] = "install" => pc'[q] = "install"
    BY Zenon, <1>1
  <2>2. \A k \in 1 .. Len(lh) :
          (\A q \in Ops : pc'[q] = "install" => k >= tail[q]) => pinned[lh[k]] >= 1
    BY Zenon, <2>1 DEF Inv, InvLog
  <2>3. lh' = lh /\ dhead' = dhead /\ pinned' = pinned /\ tail' = tail
    BY Zenon DEF diskVars, cacheVars
  <2>4. NoRepeats(lh)' /\ NoRepeats(dhead)'
    BY <2>3 DEF Inv, InvLog, NoRepeats
  <2> QED BY Zenon, <1>5, <2>2, <2>3, <2>4 DEF Inv, InvLog
<1>7. InvStage'
  <2>1. \A t \in Threads : /\ pc'[t] \in {"install", "erase"} => pc'[t] = pc[t]
                           /\ pc'[t] = "finish" => lh = <<>>
    BY Zenon, <1>1 DEF Threads
  <2>2. \A k \in 1 .. Len(lh) : ~(k < tail[o])
    BY <1>4
  <2>3. (\A q \in Ops : pc'[q] \notin {"install", "erase"}) => \A q \in Ops : pc[q] \notin {"install", "erase"}
    BY Zenon, <1>1
  <2>4. \A t \in Threads : pc'[t] \in {"erase", "finish"} => lh = <<>>
    BY Zenon, <2>1 DEF Inv, InvStage
  <2>5. \A q \in Ops :
          /\ pc'[q] = "write_log" => \A k \in 1 .. Len(lh) : k < tail[q] => dlog[k] = cache[lh[k]]
          /\ pc'[q] = "write_head" => \A k \in 1 .. Len(lh) : dlog[k] = cache[lh[k]]
    <3>1. \A q \in Ops \ {o} : pc'[q] \in {"write_log", "write_head"} => pc'[q] = pc[q]
      BY Zenon, <1>1
    <3>2. \A q \in Ops \ {o} :
            /\ pc[q] = "write_log" => \A k \in 1 .. Len(lh) : k < tail[q] => dlog[k] = cache[lh[k]]
            /\ pc[q] = "write_head" => \A k \in 1 .. Len(lh) : dlog[k] = cache[lh[k]]
      BY Zenon DEF Inv, InvStage
    <3>3. pc'[o] # "write_head"
      BY Zenon
    <3> QED BY <2>2, <3>1, <3>2, <3>3
  <2>6. \A t \in Threads :
          /\ pc'[t] = "install" => dhead = lh
          /\ pc'[t] = "install" => \A k \in 1 .. Len(lh) : k < tail[t] => disk[lh[k]] = dlog[k]
          /\ pc'[t] = "erase" => \A k \in 1 .. Len(dhead) : disk[dhead[k]] = dlog[k]
    BY <2>1 DEF Inv, InvStage
  <2>7. (\A q \in Ops : pc'[q] \notin {"install", "erase"}) => dhead = <<>>
    BY Zenon, <2>3 DEF Inv, InvStage
  <2>8. pc'[Boot] # "read_head"
    BY Zenon
  <2>9. UNCHANGED <<disk, dlog, dhead, cache, lh, tail>>
    BY Zenon DEF diskVars, cacheVars
  <2> QED BY <2>4, <2>5, <2>6, <2>7, <2>8, <2>9 DEF InvStage
<1>8. Recovered' = Recovered
  BY Zenon, SameDisk
<1>9. Durable' = Durable /\ CrashConsistent' /\ CacheCurrent'
  BY Zenon, <1>1, <1>8, DataKept DEF cacheVars
<1>10. InvLogged'
  <2>1. \A b : InLog(b)' <=> InLog(b)
    BY Zenon DEF InLog
  <2>2. \A q \in Ops : pc'[q] \in {"idle", "begin", "asleep"} => wrote[q] = {}
    BY Zenon, <1>1 DEF Inv, InvLogged
  <2>3. \A q \in Running' : q \notin Durable
    <3>1. CASE pc'[o] = "run"
      <4>1. wrote[o] = {}
        BY Zenon, <3>1 DEF Inv, InvLogged
      <4>2. o \notin Durable
        BY Zenon, <4>1 DEF Inv, CrashConsistent, Durable
      <4> QED BY Zenon, <1>1, <4>2 DEF Inv, InvLogged, Running
    <3>2. CASE pc'[o] # "run"
      BY Zenon, <1>1, <3>2 DEF Inv, InvLogged, Running
    <3> QED BY Zenon, <3>1, <3>2
  <2> QED BY Zenon, <1>1, <1>9, <2>1, <2>2, <2>3 DEF Inv, InvLogged
<1>11. InvBoot'
  BY Zenon DEF InvBoot
<1> QED BY Zenon, <1>2, <1>3, <1>6, <1>7, <1>9, <1>10, <1>11

\* A system call starts.
LEMMA CallStep ==
  ASSUME Inv, NEW o \in Ops, Call(o)
  PROVE  Inv' /\ Durable' = Durable
<1> USE ThreadFacts
<1>1. /\ pc[o] = "idle" /\ pc'[o] = "begin" /\ pc[Boot] = "up" /\ pc'[Boot] = "up"
      /\ \A q \in Ops \ {o} : pc'[q] = pc[q]
      /\ pc' \in [Threads -> OpPC \cup BootPC]
      /\ UNCHANGED <<diskVars, cacheVars, logVars, lh, buf, tail, wrote, outstanding, committing>>
  BY Zenon DEF Inv, TypeOK, Call, At, Goto, OpPC, logVars
<1>2. Running' = Running
  BY Zenon, <1>1 DEF Running
<1>3. InvControl'
  BY Zenon, <1>1, <1>2 DEF Inv, InvControl, InCommit
<1>4. outstanding' \in Int /\ committing' \in BOOLEAN
  BY Zenon, <1>1 DEF Inv, TypeOK
<1> QED BY Zenon, <1>1, <1>3, <1>4, MoveKept DEF Inv

\* begin_op() lets the operation run, or has it wait.
LEMMA BeginStep ==
  ASSUME Inv, NEW o \in Ops, begin_op(o)
  PROVE  Inv' /\ Durable' = Durable
<1> USE ThreadFacts
<1>1. /\ pc[o] = "begin" /\ pc'[Boot] = pc[Boot]
      /\ \/ pc'[o] = "asleep" /\ outstanding' = outstanding
         \/ pc'[o] = "run" /\ outstanding' = outstanding + 1 /\ ~committing
      /\ \A q \in Ops \ {o} : pc'[q] = pc[q]
      /\ pc' \in [Threads -> OpPC \cup BootPC]
      /\ UNCHANGED <<diskVars, cacheVars, lh, committing, buf, tail, wrote>>
  BY Zenon DEF Inv, TypeOK, begin_op, At, Goto, OpPC
<1>2. pc[Boot] = "up"
  BY Zenon, <1>1, Up
<1>3. IsFiniteSet(Running') /\ outstanding' = Cardinality(Running') /\ (committing => Running' = {})
  <2>1. CASE pc'[o] = "asleep" /\ outstanding' = outstanding
    <3>1. Running' = Running
      BY Zenon, <1>1, <2>1 DEF Running
    <3> QED BY Zenon, <2>1, <3>1 DEF Inv, InvControl
  <2>2. CASE pc'[o] = "run" /\ outstanding' = outstanding + 1 /\ ~committing
    <3>1. Running' = Running \cup {o} /\ o \notin Running
      BY Zenon, <1>1, <2>2 DEF Running
    <3>2. IsFiniteSet(Running) /\ outstanding = Cardinality(Running)
      BY Zenon DEF Inv, InvControl
    <3> QED BY Zenon, <2>2, <3>1, <3>2, FS_AddElement
  <2> QED BY Zenon, <1>1, <2>1, <2>2
<1>4. InvControl'
  <2>1. \A q \in Ops : pc'[q] \in InCommit => pc[q] \in InCommit
    BY Zenon, <1>1 DEF InCommit
  <2> QED BY Zenon, <1>1, <1>2, <1>3, <2>1 DEF Inv, InvControl
<1>5. outstanding' \in Int /\ committing' \in BOOLEAN
  BY <1>1 DEF Inv, TypeOK
<1> QED BY Zenon, <1>1, <1>2, <1>4, <1>5, MoveKept DEF Inv

\* The committer has finished and wakes those who wait.
LEMMA FinishStep ==
  ASSUME Inv, NEW o \in Ops, finish(o)
  PROVE  Inv' /\ Durable' = Durable
<1> USE ThreadFacts
<1>1. /\ pc[o] = "finish" /\ pc'[o] = "done" /\ pc'[Boot] = pc[Boot]
      /\ \A q \in Ops \ {o} : pc'[q] = pc[q] \/ (pc[q] = "asleep" /\ pc'[q] = "begin")
      /\ pc' \in [Threads -> OpPC \cup BootPC] /\ committing' = FALSE
      /\ UNCHANGED <<diskVars, cacheVars, lh, outstanding, buf, tail, wrote>>
  <2>1. pc[Boot] # "asleep"
    BY Zenon DEF Inv, TypeOK, BootPC
  <2>2. pc' \in [Threads -> OpPC \cup BootPC]
    BY Zenon DEF Inv, TypeOK, finish, GotoAndWakeup, OpPC
  <2> QED BY Zenon, <2>1, <2>2 DEF finish, At, GotoAndWakeup
<1>2. /\ committing /\ Running = {} /\ pc[Boot] = "up"
      /\ \A q \in Ops \ {o} : pc[q] \notin InCommit \cup {"run", "log_write"}
  BY Zenon, <1>1, Committer DEF InCommit
<1>3. InvControl'
  <2>1. \A q \in Ops : pc'[q] \notin InCommit /\ pc'[q] \notin {"run", "log_write"}
    BY Zenon, <1>1, <1>2 DEF InCommit
  <2>2. Running' = Running
    BY Zenon, <1>2, <2>1 DEF Running
  <2> QED BY Zenon, <1>1, <1>2, <2>1, <2>2 DEF Inv, InvControl
<1>4. outstanding' \in Int /\ committing' \in BOOLEAN
  BY Zenon, <1>1 DEF Inv, TypeOK
<1> QED BY Zenon, <1>1, <1>2, <1>3, <1>4, MoveKept DEF Inv

\* end_op(): the last operation goes on to commit.
LEMMA EndOpStep ==
  ASSUME Inv, NEW o \in Ops, end_op(o)
  PROVE  Inv' /\ Durable' = Durable
<1> USE ThreadFacts
<1>1. pc[o] = "run"
  BY Zenon DEF end_op, At
<1>2. /\ ~committing /\ pc[Boot] = "up"
      /\ \A q \in Ops : pc[q] \notin InCommit
  BY Zenon, <1>1, Runner
<1>3. /\ UNCHANGED <<diskVars, cacheVars, lh, buf, tail, wrote>>
      /\ outstanding' = outstanding - 1 /\ pc'[Boot] = "up"
      /\ \A q \in Ops \ {o} : pc'[q] = pc[q] \/ (pc[q] = "asleep" /\ pc'[q] = "begin")
      /\ pc' \in [Threads -> OpPC \cup BootPC]
      /\ \/ /\ outstanding' = 0 /\ committing' = TRUE
            /\ pc'[o] \in {"write_log", "finish"} /\ (pc'[o] = "finish" => lh = <<>>)
            /\ \A q \in Ops \ {o} : pc'[q] = pc[q]
         \/ pc'[o] = "done" /\ committing' = committing
  <2>1. pc' \in [Threads -> OpPC \cup BootPC]
    <3>1. {"write_log", "finish", "done", "begin"} \subseteq OpPC
      BY Zenon DEF OpPC, InCommit
    <3> QED BY <3>1 DEF Inv, TypeOK, end_op, Goto, GotoAndWakeup
  <2>2. CASE outstanding' = 0
    BY Zenon, <1>2, <2>1, <2>2 DEF end_op, Goto, Inv, TypeOK
  <2>3. CASE outstanding' # 0
    BY Zenon, <1>2, <2>1, <2>3 DEF end_op, GotoAndWakeup
  <2> QED BY Zenon, <2>2, <2>3
<1>4. Running' = Running \ {o} /\ o \in Running
  BY Zenon, <1>1, <1>3 DEF Running, InCommit
<1>5. IsFiniteSet(Running') /\ outstanding' = Cardinality(Running')
  <2>1. IsFiniteSet(Running) /\ outstanding = Cardinality(Running)
    BY Zenon DEF Inv, InvControl
  <2> QED BY Zenon, <1>3, <1>4, <2>1, FS_RemoveElement
<1>6. outstanding' = 0 => Running' = {}
  BY Zenon, <1>5, FS_EmptySet
<1>7. InvControl'
  <2>1. \A q \in Ops : pc'[q] \in InCommit => q = o /\ committing'
    BY Zenon, <1>2, <1>3 DEF InCommit
  <2>2. committing' => outstanding' = 0
    BY Zenon, <1>2, <1>3
  <2>3. pc'[Boot] = "up"
    BY Zenon, <1>3
  <2> QED BY Zenon, <1>5, <1>6, <2>1, <2>2, <2>3 DEF InvControl
<1>8. outstanding' \in Int /\ committing' \in BOOLEAN
  <2>1. outstanding' \in Int
    BY <1>3 DEF Inv, TypeOK
  <2>2. committing' \in BOOLEAN
    BY Zenon, <1>3 DEF Inv, TypeOK
  <2> QED BY Zenon, <2>1, <2>2
<1> QED BY Zenon, <1>1, <1>2, <1>3, <1>7, <1>8, MoveKept DEF Inv

\* The operation changes a block in the cache.
LEMMA ModifyStep ==
  ASSUME Inv, NEW o \in Ops, NEW b \in Blocks, Modify(o, b)
  PROVE  Inv' /\ Durable' = Durable
<1> USE ThreadFacts
<1>1. /\ pc[o] = "run" /\ pc'[o] = "log_write" /\ (\A t \in Threads \ {o} : pc'[t] = pc[t])
      /\ \A q \in Ops : buf[q] # b
      /\ cache'[b] = cache[b] \cup {o} /\ \A a \in Blocks \ {b} : cache'[a] = cache[a]
      /\ wrote'[o] = wrote[o] \cup {b} /\ \A q \in Ops \ {o} : wrote'[q] = wrote[q]
      /\ buf'[o] = b /\ \A q \in Ops \ {o} : buf'[q] = buf[q]
      /\ UNCHANGED <<disk, dlog, dhead, pinned, lh, outstanding, committing, tail>>
  BY Zenon DEF Inv, TypeOK, Modify, At, Goto, diskVars, logVars
<1>2. /\ ~committing /\ pc[Boot] = "up" /\ dhead = <<>> /\ o \notin Durable
      /\ \A q \in Ops : pc[q] \notin InCommit
  BY Zenon, <1>1, Runner
<1>3. TypeOK'
  <2>1. pc' \in [Threads -> OpPC \cup BootPC] /\ \A q \in Ops : pc'[q] \in OpPC
    BY Zenon, <1>1 DEF Inv, TypeOK, Modify, Goto, OpPC
  <2>2. cache' \in [Blocks -> Content]
    BY Zenon DEF Inv, TypeOK, Modify, Content
  <2>3. wrote' \in [Ops -> SUBSET Blocks] /\ buf' \in [Ops -> Blocks \cup {NoBlock}]
    BY Zenon DEF Inv, TypeOK, Modify
  <2> QED BY Zenon, <1>1, <2>1, <2>2, <2>3 DEF Inv, TypeOK
<1>4. Running' = Running /\ \A q \in Ops : pc'[q] \notin InCommit
  BY <1>1, <1>2 DEF Running, InCommit
<1>5. InvControl'
  BY Zenon, <1>1, <1>2, <1>4 DEF Inv, InvControl
<1>6. InvBuf'
  BY <1>1, LogAssumption DEF Inv, InvBuf
<1>7. InvLog'
  BY <1>1 DEF Inv, InvLog
<1>8. InvStage'
  <2>1. \A t \in Threads : pc'[t] \notin InCommit
    BY <1>1, <1>2, <1>4 DEF Threads, InCommit
  <2> QED BY Zenon, <1>1, <1>2, <2>1 DEF InvStage, InCommit
<1>9. Recovered' = Recovered /\ Durable' = Durable
  BY Zenon, <1>1, SameDisk DEF diskVars, Durable
<1>10. InvLogged'
  <2>1. \A a : InLog(a)' <=> InLog(a)
    BY Zenon, <1>1 DEF InLog
  <2>2. \A q \in Ops \ {o} : pc'[q] \in {"idle", "begin", "asleep"} => wrote'[q] = {}
    BY Zenon, <1>1 DEF Inv, InvLogged
  <2>3. \A a \in wrote'[o] : InLog(a) \/ buf'[o] = a
    <3>1. buf[o] = NoBlock
      BY Zenon, <1>1 DEF Inv, InvBuf
    <3>2. \A a \in wrote[o] : InLog(a)
      <4>1. \A a \in wrote[o] : a # NoBlock
        BY Zenon, LogAssumption DEF Inv, TypeOK
      <4>2. pc[o] # "lost"
        BY Zenon, <1>1
      <4> QED BY Zenon, <1>2, <3>1, <4>1, <4>2 DEF Inv, InvLogged
    <3> QED BY Zenon, <1>1, <3>2
  <2>4. \A q \in Ops \ {o} : q \notin Durable /\ pc'[q] # "lost" => \A a \in wrote'[q] : InLog(a) \/ buf'[q] = a
    BY <1>1 DEF Inv, InvLogged
  <2>5. \A q \in Ops : pc'[q] \notin {"install", "erase"}
    BY Zenon, <1>4 DEF InCommit
  <2>6. pc'[o] \notin {"idle", "begin", "asleep"}
    BY Zenon, <1>1
  <2>7. \A q \in Running : q \notin Durable
    BY Zenon DEF Inv, InvLogged
  <2> QED BY Zenon, <1>4, <1>9, <2>1, <2>2, <2>3, <2>4, <2>5, <2>6, <2>7 DEF InvLogged
<1>11. InvBoot'
  BY Zenon, <1>1, <1>2 DEF InvBoot
<1>12. CrashConsistent'
  <2>1. \A q \in Durable : q \in Ops \ {o}
    BY Zenon, <1>2 DEF Durable
  <2>2. \A q \in Durable : wrote'[q] = wrote[q]
    BY Zenon, <1>1, <2>1
  <2> QED BY Zenon, <1>9, <2>2 DEF Inv, CrashConsistent
<1>13. CacheCurrent'
  BY <1>1, <1>2, <1>9 DEF Inv, CacheCurrent
<1> QED BY Zenon, <1>3, <1>5, <1>6, <1>7, <1>8, <1>9, <1>10, <1>11, <1>12, <1>13 DEF Inv

\* A step that changes nothing the invariant speaks of.
LEMMA StutterKept ==
  ASSUME Inv, UNCHANGED <<diskVars, cacheVars, logVars, pc, buf, tail, wrote>>
  PROVE  Inv' /\ Durable' = Durable
<1> USE DEF diskVars, cacheVars, logVars
<1>1. Recovered' = Recovered
  BY Zenon, SameDisk
<1>2. Durable' = Durable /\ CrashConsistent' /\ CacheCurrent'
  BY Zenon, <1>1, DataKept
<1>3. TypeOK' /\ InvBuf' /\ InvLog' /\ InvBoot'
  BY Zenon DEF Inv, TypeOK, InvBuf, InvLog, NoRepeats, InvBoot
<1>4. InvStage'
  BY Zenon DEF Inv, InvStage
<1>5. Running' = Running /\ \A b : InLog(b)' <=> InLog(b)
  BY Zenon DEF Running, InLog
<1>6. InvControl' /\ InvLogged'
  BY Zenon, <1>2, <1>5 DEF Inv, InvControl, InvLogged
<1> QED BY Zenon, <1>2, <1>3, <1>4, <1>6 DEF Inv

\* log_write(): the block is in the log from now on, pinned.
LEMMA LogWriteStep ==
  ASSUME Inv, NEW o \in Ops, log_write(o)
  PROVE  Inv' /\ Durable' = Durable
<1> USE ThreadFacts
<1>0. PICK b : b = buf[o]
  BY Zenon
<1>1. CASE Len(lh) >= LOGSIZE \/ Len(lh) >= nlog - 1 \/ outstanding < 1
  <2>1. UNCHANGED <<lh, pinned, pc, buf>>
    BY Zenon, <1>1 DEF log_write
  <2> QED BY Zenon, <2>1, StutterKept DEF log_write, cacheVars, logVars
<1>2. CASE ~(Len(lh) >= LOGSIZE \/ Len(lh) >= nlog - 1 \/ outstanding < 1)
  <2>1. pc[o] = "log_write"
    BY Zenon DEF log_write, At
  <2>2. /\ ~committing /\ pc[Boot] = "up" /\ dhead = <<>>
        /\ \A q \in Ops : pc[q] \notin InCommit
    BY Zenon, <2>1, Runner
  <2>3. b \in wrote[o] /\ b # NoBlock /\ b \in Blocks
    BY Zenon, <1>0, <2>1 DEF Inv, InvBuf, TypeOK
  <2>4. /\ pc'[o] = "run" /\ (\A t \in Threads \ {o} : pc'[t] = pc[t])
        /\ buf'[o] = NoBlock /\ (\A q \in Ops \ {o} : buf'[q] = buf[q])
        /\ UNCHANGED <<disk, dlog, dhead, cache, outstanding, committing, tail, wrote>>
    BY Zenon, <1>2 DEF Inv, TypeOK, log_write, Goto, diskVars
  <2>5. /\ lh' \in Seq(Blocks) /\ NoRepeats(lh)' /\ Len(lh) <= Len(lh') /\ Len(lh') <= LOGSIZE
        /\ \A k \in 1 .. Len(lh) : lh'[k] = lh[k]
        /\ \E k \in 1 .. Len(lh') : lh'[k] = b
        /\ \A k \in 1 .. Len(lh') : k \in 1 .. Len(lh) \/ (lh'[k] = b /\ pinned'[b] >= 1)
        /\ pinned' \in [Blocks -> Int] /\ \A a \in Blocks : pinned'[a] >= pinned[a]
    <3>1. CASE InLog(b)
      <4>1. lh' = lh /\ pinned' = pinned
        BY Zenon, <1>0, <1>2, <3>1 DEF log_write
      <4> QED BY <3>1, <4>1 DEF Inv, TypeOK, InvLog, InLog, NoRepeats
    <3>2. CASE ~InLog(b)
      <4>1. lh' = Append(lh, b) /\ pinned' = [pinned EXCEPT ![b] = @ + 1]
        BY Zenon, <1>0, <1>2, <3>2 DEF log_write
      <4>2. pinned[b] >= 0
        BY Zenon, <2>3 DEF Inv, InvLog
      <4>3. Len(lh') = Len(lh) + 1 /\ lh'[Len(lh) + 1] = b /\ lh' \in Seq(Blocks)
            /\ \A k \in 1 .. Len(lh) : lh'[k] = lh[k]
        BY <2>3, <4>1 DEF Inv, TypeOK
      <4>4. NoRepeats(lh)'
        <5>1. \A k \in 1 .. Len(lh) : lh[k] # b
          BY Zenon, <3>2 DEF InLog
        <5>2. \A k \in 1 .. Len(lh') : k \in 1 .. Len(lh) \/ k = Len(lh) + 1
          BY <4>3 DEF Inv, TypeOK
        <5> QED BY <4>3, <5>1, <5>2 DEF Inv, InvLog, NoRepeats
      <4>5. pinned' \in [Blocks -> Int] /\ pinned'[b] = pinned[b] + 1 /\ \A a \in Blocks \ {b} : pinned'[a] = pinned[a]
        BY <2>3, <4>1 DEF Inv, TypeOK
      <4>6. \A a \in Blocks : pinned'[a] >= pinned[a]
        <5>1. \A a \in Blocks : pinned[a] \in Int
          BY Zenon DEF Inv, TypeOK
        <5> QED BY <4>5, <5>1
      <4>7. Len(lh) \in Nat /\ ~(Len(lh) >= LOGSIZE) /\ LOGSIZE \in Nat /\ pinned[b] \in Int
        BY <1>2, <2>3, LogAssumption DEF Inv, TypeOK
      <4> QED BY <4>2, <4>3, <4>4, <4>5, <4>6, <4>7
    <3> QED BY Zenon, <3>1, <3>2
  <2>6. TypeOK'
    <3>1. pc' \in [Threads -> OpPC \cup BootPC] /\ \A q \in Ops : pc'[q] \in OpPC
      BY <1>2, <2>4 DEF Inv, TypeOK, log_write, Goto, OpPC
    <3>2. buf' \in [Ops -> Blocks \cup {NoBlock}]
      BY Zenon, <1>2 DEF Inv, TypeOK, log_write
    <3> QED BY Zenon, <2>4, <2>5, <3>1, <3>2 DEF Inv, TypeOK
  <2>7. Running' = Running /\ \A q \in Ops : pc'[q] \notin InCommit
    BY Zenon, <2>1, <2>2, <2>4 DEF Running, InCommit
  <2>8. InvControl'
    BY Zenon, <2>2, <2>4, <2>7 DEF Inv, InvControl
  <2>9. InvBuf'
    BY <2>4 DEF Inv, InvBuf
  <2>10. \A t \in Threads : pc[t] \notin InCommit /\ pc'[t] \notin InCommit
    BY Zenon, <2>2, <2>4, <2>7 DEF Threads, InCommit
  <2>11. InvLog'
    <3>1. \A t \in Threads : tail[t] = 1
      BY Zenon, <2>10 DEF Inv, InvLog, InCommit
    <3>2. \A k \in 1 .. Len(lh) : pinned[lh[k]] >= 1
      BY Zenon, <2>2 DEF Inv, InvLog, InCommit
    <3>3. \A k \in 1 .. Len(lh') : pinned'[lh'[k]] >= 1
      <4>1. \A k \in 1 .. Len(lh) : pinned'[lh'[k]] >= 1
        <5>1. \A a \in Blocks : pinned[a] \in Int /\ pinned'[a] \in Int
          BY Zenon, <2>5 DEF Inv, TypeOK
        <5>2. \A k \in 1 .. Len(lh) : lh[k] \in Blocks
          BY DEF Inv, TypeOK
        <5>3. ASSUME NEW k \in 1 .. Len(lh) PROVE pinned'[lh'[k]] >= 1
          <6>1. lh[k] \in Blocks /\ lh'[k] = lh[k] /\ pinned[lh[k]] >= 1
            BY Zenon, <2>5, <3>2, <5>2
          <6>2. /\ pinned[lh[k]] \in Int /\ pinned'[lh[k]] \in Int
                /\ pinned'[lh[k]] >= pinned[lh[k]]
            BY Zenon, <2>5, <5>1, <6>1
          <6> QED BY <6>1, <6>2
        <5> QED BY Zenon, <5>3
      <4> QED BY Zenon, <2>5, <4>1
    <3>4. \A a \in Blocks : pinned'[a] >= 0
      BY <2>5 DEF Inv, TypeOK, InvLog
    <3>5. 1 <= Len(lh') + 1 /\ 1 >= 1
      BY <2>5
    <3>6. NoRepeats(dhead)' /\ Len(dhead') <= LOGSIZE
      BY <2>4 DEF Inv, InvLog, NoRepeats
    <3>7. \A t \in Threads : tail'[t] = 1
      BY Zenon, <2>4, <3>1
    <3> QED BY Zenon, <2>5, <3>3, <3>4, <3>5, <3>6, <3>7 DEF InvLog
  <2>12. InvStage'
    BY Zenon, <2>2, <2>4, <2>10 DEF InvStage, InCommit
  <2>13. Durable' = Durable /\ CrashConsistent' /\ CacheCurrent'
    <3>1. Recovered' = Recovered
      BY Zenon, <2>4, SameDisk DEF diskVars
    <3>2. \A q \in Ops : pc'[q] = "lost" <=> pc[q] = "lost"
      BY Zenon, <2>1, <2>4
    <3> QED BY Zenon, <2>4, <3>1, <3>2, DataKept, ThreadFacts
  <2>14. InvLogged'
    <3>1. InLog(b)' /\ \A a : InLog(a) => InLog(a)'
      <4>1. InLog(b)'
        BY Zenon, <2>5 DEF InLog
      <4>2. ASSUME NEW a, InLog(a) PROVE InLog(a)'
        <5>1. PICK k \in 1 .. Len(lh) : lh[k] = a
          BY Zenon, <4>2 DEF InLog
        <5>2. k \in 1 .. Len(lh') /\ lh'[k] = a
          <6>1. Len(lh) \in Nat /\ Len(lh') \in Nat
            <7>1. lh \in Seq(Blocks) /\ lh' \in Seq(Blocks)
              BY Zenon, <2>5 DEF Inv, TypeOK
            <7> QED BY <7>1
          <6>2. Len(lh) <= Len(lh') /\ lh'[k] = lh[k]
            BY Zenon, <2>5
          <6> QED BY <5>1, <6>1, <6>2
        <5> QED BY Zenon, <5>2 DEF InLog
      <4> QED BY Zenon, <4>1, <4>2
    <3>2. \A q \in Ops : pc'[q] \in {"idle", "begin", "asleep"} => wrote'[q] = {}
      BY Zenon, <2>4 DEF Inv, InvLogged
    <3>3. \A q \in Running : q \notin Durable
      BY Zenon DEF Inv, InvLogged
    <3>4. \A q \in Ops \ Durable : pc'[q] # "lost" => \A a \in wrote[q] : InLog(a) \/ buf[q] = a
      BY Zenon, <2>1, <2>4 DEF Inv, InvLogged
    <3>5. \A q \in Ops \ Durable : pc'[q] # "lost" => \A a \in wrote[q] : InLog(a)' \/ buf'[q] = a
      BY Zenon, <1>0, <2>4, <3>1, <3>4
    <3>6. \A q \in Ops : pc'[q] \notin {"install", "erase"}
      BY Zenon, <2>7 DEF InCommit
    <3> QED BY Zenon, <2>4, <2>7, <2>13, <3>2, <3>3, <3>5, <3>6 DEF InvLogged
  <2>15. InvBoot'
    BY Zenon, <2>2, <2>4 DEF InvBoot
  <2> QED BY Zenon, <2>6, <2>8, <2>9, <2>11, <2>12, <2>13, <2>14, <2>15 DEF Inv
<1> QED BY Zenon, <1>1, <1>2
-----------------------------------------------------------------------------
(***************************************************************************)
(* The commit                                                              *)
(***************************************************************************)

\* A step of the committer leaves control, buffers and counters in order.
LEMMA CommitKept ==
  ASSUME Inv, NEW o \in Ops, pc[o] \in InCommit, pc'[o] \in InCommit,
         \A t \in Threads \ {o} : pc'[t] = pc[t],
         UNCHANGED <<outstanding, committing, buf, wrote>>
  PROVE  /\ InvControl' /\ InvBuf' /\ InvBoot' /\ Running = {} /\ Running' = {}
         /\ pc[Boot] = "up" /\ pc'[Boot] = "up" /\ (\A q \in Ops : buf[q] = NoBlock)
         /\ \A t \in Threads \ {o} : pc[t] \notin InCommit /\ pc'[t] \notin InCommit
         /\ \A q \in Ops : pc'[q] = "lost" <=> pc[q] = "lost"
<1> USE ThreadFacts
<1>1. /\ committing /\ Running = {} /\ pc[Boot] = "up"
      /\ \A q \in Ops \ {o} : pc[q] \notin InCommit \cup {"run", "log_write"}
      /\ \A q \in Ops : buf[q] = NoBlock
  BY Zenon, Committer
<1>2. /\ pc'[Boot] = "up"
      /\ \A t \in Threads \ {o} : pc[t] \notin InCommit /\ pc'[t] \notin InCommit
  BY Zenon, <1>1 DEF Threads, InCommit
<1>3. \A q \in Ops : pc'[q] \notin {"run", "log_write"} /\ (pc'[q] = "lost" <=> pc[q] = "lost")
  BY Zenon, <1>1 DEF InCommit
<1>4. Running' = {}
  BY Zenon, <1>3 DEF Running
<1>5. InvControl'
  BY Zenon, <1>1, <1>2, <1>4 DEF Inv, InvControl, Threads
<1>6. InvBuf'
  BY Zenon, <1>1, <1>3 DEF InvBuf
<1>7. InvBoot'
  BY Zenon, <1>2 DEF InvBoot
<1> QED BY Zenon, <1>1, <1>2, <1>3, <1>4, <1>5, <1>6, <1>7

\* With no header on the disk a recovery finds the home blocks as they are.
LEMMA NoHeader ==
  ASSUME dhead = <<>>, UNCHANGED <<disk, dhead>>
  PROVE  /\ \A b \in Blocks : Recovered[b] = disk[b]
         /\ Recovered' = Recovered
<1>1. {k \in 1 .. Len(dhead) : FALSE} = {} /\ 1 .. Len(dhead) = {}
  OBVIOUS
<1>2. \A b \in Blocks : {k \in 1 .. Len(dhead) : dhead[k] = b} = {}
  BY Zenon, <1>1
<1>3. \A b \in Blocks : {k \in 1 .. Len(dhead') : dhead'[k] = b} = {}
  BY Zenon, <1>2
<1>4. Recovered = [b \in Blocks |-> disk[b]]
  BY Zenon, <1>2 DEF Recovered
<1>5. Recovered' = [b \in Blocks |-> disk[b]]
  BY Zenon, <1>3 DEF Recovered
<1> QED BY Zenon, <1>4, <1>5

\* write_log() copies a block from the cache to the log.
LEMMA WriteLogStep ==
  ASSUME Inv, NEW o \in Ops, write_log(o)
  PROVE  Inv' /\ Durable' = Durable
<1> USE ThreadFacts
<1>1. /\ pc[o] = "write_log" /\ pc'[o] \in {"write_log", "write_head"}
      /\ \A t \in Threads \ {o} : pc'[t] = pc[t]
      /\ UNCHANGED <<disk, dhead, cache, pinned, lh, outstanding, committing, buf, wrote>>
      /\ \A t \in Threads \ {o} : tail'[t] = tail[t]
  BY Zenon DEF Inv, TypeOK, write_log, At, Goto, cacheVars, logVars
<1>2. /\ InvControl' /\ InvBuf' /\ InvBoot' /\ Running = {} /\ Running' = {}
      /\ pc[Boot] = "up" /\ pc'[Boot] = "up"
      /\ \A t \in Threads \ {o} : pc[t] \notin InCommit /\ pc'[t] \notin InCommit
      /\ \A q \in Ops : pc'[q] = "lost" <=> pc[q] = "lost"
  BY Zenon, <1>1, CommitKept DEF InCommit
<1>3. \A q \in Ops : pc[q] \notin {"install", "erase"} /\ pc'[q] \notin {"install", "erase"}
  BY Zenon, <1>1, <1>2 DEF InCommit
<1>4. dhead = <<>>
  BY Zenon, <1>2, <1>3 DEF Inv, InvStage
<1>5. Recovered' = Recovered
  BY Zenon, <1>1, <1>4, NoHeader
<1>6. Durable' = Durable /\ CrashConsistent' /\ CacheCurrent'
  BY Zenon, <1>1, <1>2, <1>5, DataKept
<1>7. /\ tail[o] \in Nat /\ tail[o] >= 1 /\ tail[o] <= Len(lh) + 1
      /\ Len(lh) \in Nat /\ Len(lh) <= LOGSIZE
  BY DEF Inv, TypeOK, InvLog
<1>8. /\ tail'[o] \in Nat /\ tail'[o] >= 1 /\ tail'[o] <= Len(lh) + 1
      /\ pc'[o] = "write_head" => tail'[o] = 1
      /\ tail' \in [Threads -> Nat]
  <2>1. CASE tail[o] <= Len(lh)
    <3>1. tail' = [tail EXCEPT ![o] = @ + 1] /\ pc' = pc
      BY Zenon, <2>1 DEF write_log
    <3> QED BY <1>1, <1>7, <2>1, <3>1 DEF Inv, TypeOK
  <2>2. CASE ~(tail[o] <= Len(lh))
    <3>1. tail' = [tail EXCEPT ![o] = 1]
      BY Zenon, <2>2 DEF write_log
    <3> QED BY <1>7, <3>1 DEF Inv, TypeOK
  <2> QED BY Zenon, <2>1, <2>2
<1>9. TypeOK'
  <2>1. pc' \in [Threads -> OpPC \cup BootPC] /\ \A q \in Ops : pc'[q] \in OpPC
    <3>1. pc' \in [Threads -> OpPC \cup BootPC]
      BY Zenon DEF Inv, TypeOK, write_log, Goto, OpPC, InCommit
    <3> QED BY Zenon, <1>1, <3>1 DEF Inv, TypeOK, OpPC, InCommit
  <2>2. dlog' \in [1 .. LOGSIZE -> Content]
    <3>1. CASE tail[o] <= Len(lh)
      <4>1. lh[tail[o]] \in Blocks
        BY <1>7, <3>1 DEF Inv, TypeOK
      <4>2. cache[lh[tail[o]]] \in Content
        BY Zenon, <4>1 DEF Inv, TypeOK
      <4>3. dlog' = [dlog EXCEPT ![tail[o]] = cache[lh[tail[o]]]]
        BY Zenon, <3>1 DEF write_log
      <4> QED BY Zenon, <4>2, <4>3 DEF Inv, TypeOK
    <3>2. CASE ~(tail[o] <= Len(lh))
      BY Zenon, <3>2 DEF Inv, TypeOK, write_log
    <3> QED BY Zenon, <3>1, <3>2
  <2> QED BY Zenon, <1>1, <1>2, <1>8, <2>1, <2>2 DEF Inv, TypeOK
<1>10. InvLog'
  <2>1. \A t \in Threads : /\ tail'[t] >= 1 /\ tail'[t] <= Len(lh) + 1
                           /\ pc'[t] \notin {"write_log", "install"} => tail'[t] = 1
    BY Zenon, <1>1, <1>8 DEF Inv, InvLog
  <2>2. \A k \in 1 .. Len(lh) : pinned[lh[k]] >= 1
    BY Zenon, <1>2, <1>3 DEF Inv, InvLog
  <2> QED BY Zenon, <1>1, <2>1, <2>2 DEF Inv, InvLog, NoRepeats
<1>11. /\ pc'[o] = "write_log" => \A k \in 1 .. Len(lh) : k < tail'[o] => dlog'[k] = cache[lh[k]]
       /\ pc'[o] = "write_head" => \A k \in 1 .. Len(lh) : dlog'[k] = cache[lh[k]]
  <2>1. \A k \in 1 .. Len(lh) : k < tail[o] => dlog[k] = cache[lh[k]]
    BY Zenon, <1>1 DEF Inv, InvStage
  <2>2. CASE tail[o] <= Len(lh)
    <3>1. /\ tail'[o] = tail[o] + 1 /\ pc'[o] = "write_log"
          /\ dlog' = [dlog EXCEPT ![tail[o]] = cache[lh[tail[o]]]]
      BY Zenon, <1>1, <2>2 DEF write_log, Inv, TypeOK
    <3>2. /\ dlog'[tail[o]] = cache[lh[tail[o]]]
          /\ \A k \in 1 .. Len(lh) : k # tail[o] => dlog'[k] = dlog[k]
      BY <1>7, <2>2, <3>1, LogAssumption DEF Inv, TypeOK
    <3> QED BY <1>7, <2>1, <3>1, <3>2
  <2>3. CASE ~(tail[o] <= Len(lh))
    <3>1. pc'[o] = "write_head" /\ dlog' = dlog
      BY Zenon, <2>3 DEF write_log, Goto, Inv, TypeOK
    <3> QED BY <1>7, <2>1, <2>3, <3>1
  <2> QED BY Zenon, <2>2, <2>3
<1>12. InvStage'
  <2>1. \A t \in Threads : pc'[t] \notin {"install", "erase", "finish"}
    BY Zenon, <1>1, <1>2 DEF InCommit
  <2>2. \A q \in Ops \ {o} : pc'[q] \notin {"write_log", "write_head"}
    BY Zenon, <1>2 DEF InCommit
  <2>3. pc'[Boot] # "read_head"
    BY Zenon, <1>2
  <2> QED BY Zenon, <1>1, <1>4, <1>11, <2>1, <2>2, <2>3 DEF InvStage
<1>13. InvLogged'
  <2>1. \A a : InLog(a)' <=> InLog(a)
    BY Zenon, <1>1 DEF InLog
  <2>2. \A q \in Ops : pc'[q] \in {"idle", "begin", "asleep"} => wrote[q] = {}
    BY Zenon, <1>1 DEF Inv, InvLogged
  <2>3. \A q \in Ops \ Durable : pc'[q] # "lost" => \A a \in wrote[q] : InLog(a) \/ buf[q] = a
    BY Zenon, <1>2 DEF Inv, InvLogged
  <2> QED BY Zenon, <1>1, <1>2, <1>3, <1>6, <2>1, <2>2, <2>3 DEF InvLogged
<1> QED BY Zenon, <1>2, <1>6, <1>9, <1>10, <1>12, <1>13 DEF Inv

\* write_head() is the commit: a recovery would now find what is in the cache,
\* so every operation that has ended is durable.
LEMMA WriteHeadStep ==
  ASSUME Inv, NEW o \in Ops, write_head(o)
  PROVE  Inv' /\ Durable' = Durable \cup Pending
<1> USE ThreadFacts
<1>1. /\ pc[o] = "write_head" /\ pc'[o] = "install"
      /\ \A t \in Threads \ {o} : pc'[t] = pc[t]
      /\ dhead' = lh
      /\ UNCHANGED <<disk, dlog, cache, pinned, lh, outstanding, committing, buf, tail, wrote>>
  BY Zenon DEF Inv, TypeOK, write_head, At, Goto, cacheVars, logVars
<1>2. /\ InvControl' /\ InvBuf' /\ InvBoot' /\ Running = {} /\ Running' = {}
      /\ pc[Boot] = "up" /\ pc'[Boot] = "up" /\ \A q \in Ops : buf[q] = NoBlock
      /\ \A t \in Threads \ {o} : pc[t] \notin InCommit /\ pc'[t] \notin InCommit
      /\ \A q \in Ops : pc'[q] = "lost" <=> pc[q] = "lost"
  BY Zenon, <1>1, CommitKept DEF InCommit
<1>3. \A q \in Ops : pc[q] \notin {"install", "erase"}
  BY Zenon, <1>1, <1>2 DEF InCommit
<1>4. dhead = <<>>
  BY Zenon, <1>2, <1>3 DEF Inv, InvStage
<1>5. lh \in Seq(Blocks) /\ NoRepeats(lh) /\ dhead' \in Seq(Blocks) /\ NoRepeats(dhead)'
  BY Zenon, <1>1 DEF Inv, TypeOK, InvLog, NoRepeats
<1>6. \A b \in Blocks :
        cache[b] = {q \in Ops : b \in wrote[q] /\ (pc[q] # "lost" \/ q \in Durable)}
  BY Zenon, <1>2 DEF Inv, CacheCurrent
<1>7. ASSUME NEW b \in Blocks PROVE Recovered'[b] = cache[b]
  <2>1. CASE InLog(b)
    <3>1. PICK k \in 1 .. Len(lh) : lh[k] = b
      BY Zenon, <2>1 DEF InLog
    <3>2. dlog[k] = cache[b]
      BY Zenon, <1>1, <3>1 DEF Inv, InvStage
    <3>3. Recovered'[b] = dlog[k]
      BY Zenon, <1>1, <1>5, <3>1, RecoveredAtNext
    <3> QED BY Zenon, <3>2, <3>3
  <2>2. CASE ~InLog(b)
    <3>1. Recovered'[b] = disk[b]
      BY Zenon, <1>1, <1>5, <2>2, RecoveredAtNext DEF InLog
    <3>2. Recovered[b] = disk[b]
      <4>1. dhead \in Seq(Blocks) /\ NoRepeats(dhead)
        BY Zenon DEF Inv, TypeOK, InvLog
      <4>2. \A k \in 1 .. Len(dhead) : dhead[k] # b
        BY <1>4
      <4> QED BY Zenon, <4>1, <4>2, RecoveredAt
    <3>3. Recovered[b] = {q \in Durable : b \in wrote[q]}
      BY Zenon DEF Inv, CrashConsistent
    <3>4. ASSUME NEW q \in Ops, b \in wrote[q], pc[q] # "lost" PROVE q \in Durable
      <4>1. buf[q] # b
        BY Zenon, <1>2, LogAssumption
      <4> QED BY Zenon, <2>2, <3>4, <4>1 DEF Inv, InvLogged
    <3>5. \A q \in Durable : q \in Ops
      BY Zenon DEF Durable
    <3> QED BY Zenon, <1>6, <3>1, <3>2, <3>3, <3>4, <3>5
  <2> QED BY Zenon, <2>1, <2>2
<1>8. \A q \in Ops : q \in Durable' <=> \E b \in wrote[q] : pc[q] # "lost" \/ q \in Durable
  <2>1. \A q \in Ops : \A b \in wrote[q] : b \in Blocks
    BY Zenon DEF Inv, TypeOK
  <2>2. \A q \in Ops : q \in Durable' <=> \E b \in Blocks : q \in cache[b]
    BY Zenon, <1>7 DEF Durable
  <2> QED BY Zenon, <1>6, <2>1, <2>2
<1>9. \A q \in Durable : q \in Ops /\ wrote[q] # {}
  BY Zenon DEF Inv, CrashConsistent, Durable
<1>10. \A q \in Ops : q \in Durable' <=> wrote[q] # {} /\ (pc[q] # "lost" \/ q \in Durable)
  BY Zenon, <1>8
<1>11. Durable' = Durable \cup Pending
  <2>1. \A q \in Ops : pc[q] # "lost" /\ wrote[q] # {} => pc[q] \in Ended
    <3>1. \A q \in Ops : pc[q] \in OpPC /\ pc[q] \notin {"run", "log_write"}
      BY Zenon, <1>2 DEF Inv, TypeOK, Running
    <3>2. \A q \in Ops : wrote[q] # {} => pc[q] \notin {"idle", "begin", "asleep"}
      BY Zenon DEF Inv, InvLogged
    <3> QED BY Zenon, <3>1, <3>2 DEF OpPC, Ended
  <2>2. "lost" \notin Ended
    BY Zenon DEF Ended, InCommit
  <2>3. \A q \in Durable' : q \in Ops
    BY Zenon DEF Durable
  <2> QED BY Zenon, <1>9, <1>10, <2>1, <2>2, <2>3 DEF Pending
<1>12. CrashConsistent'
  <2>1. \A b \in Blocks : cache[b] = {q \in Durable' : b \in wrote[q]}
    <3>1. \A q \in Durable' : q \in Ops
      BY Zenon DEF Durable
    <3> QED BY Zenon, <1>6, <1>10, <3>1
  <2> QED BY Zenon, <1>1, <1>7, <2>1 DEF CrashConsistent
<1>13. CacheCurrent'
  <2>1. \A b \in Blocks, q \in Ops :
          b \in wrote[q] => (pc[q] # "lost" \/ q \in Durable <=> pc'[q] # "lost" \/ q \in Durable')
    BY Zenon, <1>2, <1>10
  <2> QED BY Zenon, <1>1, <1>6, <2>1 DEF CacheCurrent
<1>14. TypeOK'
  <2>1. pc' \in [Threads -> OpPC \cup BootPC] /\ \A q \in Ops : pc'[q] \in OpPC
    <3>1. pc' \in [Threads -> OpPC \cup BootPC]
      BY Zenon DEF Inv, TypeOK, write_head, Goto, OpPC, InCommit
    <3> QED BY Zenon, <1>1, <3>1 DEF Inv, TypeOK, OpPC, InCommit
  <2> QED BY Zenon, <1>1, <1>2, <2>1 DEF Inv, TypeOK
<1>15. tail[o] = 1 /\ Len(lh) \in Nat
  BY <1>1, <1>5 DEF Inv, InvLog
<1>16. InvLog'
  <2>1. \A t \in Threads : /\ tail[t] >= 1 /\ tail[t] <= Len(lh) + 1
                           /\ pc'[t] \notin {"write_log", "install"} => tail[t] = 1
    BY Zenon, <1>1 DEF Inv, InvLog
  <2>2. \A k \in 1 .. Len(lh) : pinned[lh[k]] >= 1
    BY Zenon, <1>2, <1>3 DEF Inv, InvLog
  <2> QED BY Zenon, <1>1, <2>1, <2>2 DEF Inv, InvLog, NoRepeats
<1>17. InvStage'
  <2>1. \A t \in Threads : /\ pc'[t] \notin {"write_log", "write_head", "erase", "finish"}
                           /\ pc'[t] = "install" => t = o
    BY Zenon, <1>1, <1>2 DEF InCommit
  <2>2. \A k \in 1 .. Len(lh) : ~(k < tail[o])
    BY <1>15
  <2>3. pc'[Boot] # "read_head" /\ pc'[o] \in {"install", "erase"}
    BY Zenon, <1>1, <1>2
  <2> QED BY Zenon, <1>1, <2>1, <2>2, <2>3 DEF InvStage
<1>18. InvLogged'
  <2>1. \A q \in Ops : pc'[q] \in {"idle", "begin", "asleep"} => wrote[q] = {}
    BY Zenon, <1>1 DEF Inv, InvLogged
  <2>2. \A q \in Ops \ Durable' : pc'[q] # "lost" => wrote[q] = {}
    BY Zenon, <1>2, <1>10
  <2> QED BY Zenon, <1>1, <1>2, <2>1, <2>2 DEF InvLogged
<1> QED BY Zenon, <1>2, <1>11, <1>12, <1>13, <1>14, <1>16, <1>17, <1>18 DEF Inv

\* Whoever installs or erases is alone, and what was written and not lost is
\* durable.
LEMMA Installer ==
  ASSUME Inv, NEW t \in Threads, pc[t] \in {"install", "erase"}
  PROVE  /\ \A u \in Threads \ {t} : pc[u] \notin InCommit
         /\ \A q \in Ops : /\ pc[q] \notin {"run", "log_write"} /\ buf[q] = NoBlock
                           /\ q \notin Durable /\ pc[q] # "lost" => wrote[q] = {}
         /\ t # Boot => pc[Boot] = "up"
<1> USE ThreadFacts
<1>1. CASE t \in Ops
  <2>1. /\ Running = {} /\ pc[Boot] = "up"
        /\ \A q \in Ops \ {t} : pc[q] \notin InCommit \cup {"run", "log_write"}
        /\ \A q \in Ops : buf[q] = NoBlock
    BY Zenon, <1>1, Committer DEF InCommit
  <2>2. \A q \in Ops \ Durable : pc[q] # "lost" => wrote[q] = {}
    BY Zenon, <1>1 DEF Inv, InvLogged
  <2> QED BY Zenon, <1>1, <2>1, <2>2 DEF Threads, InCommit
<1>2. CASE t = Boot
  <2>1. \A q \in Ops : pc[q] \in {"idle", "lost"}
    BY Zenon, <1>2 DEF Inv, InvControl
  <2>2. \A q \in Ops : pc[q] = "idle" => wrote[q] = {}
    BY Zenon DEF Inv, InvLogged
  <2>3. \A q \in Ops : buf[q] = NoBlock
    BY Zenon, <2>1 DEF Inv, InvBuf
  <2> QED BY Zenon, <1>2, <2>1, <2>2, <2>3 DEF Threads, InCommit
<1> QED BY Zenon, <1>1, <1>2 DEF Threads

\* A step of whoever installs or erases leaves control and buffers in order.
LEMMA InstallerKept ==
  ASSUME Inv, NEW t \in Threads, pc[t] \in {"install", "erase"},
         pc'[t] \in {"install", "erase"} \cup IF t = Boot THEN {"up"} ELSE {"finish"},
         \A u \in Threads \ {t} : pc'[u] = pc[u],
         UNCHANGED <<outstanding, committing, buf, wrote>>
  PROVE  /\ InvControl' /\ InvBuf' /\ Running' = {}
         /\ \A u \in Threads \ {t} : pc'[u] \notin InCommit
         /\ \A q \in Ops : pc'[q] = "lost" <=> pc[q] = "lost"
         /\ pc'[Boot] \in BootPC /\ \A q \in Ops : pc'[q] \in OpPC
         /\ t # Boot => pc'[Boot] = "up"
         /\ \A q \in Ops : pc'[q] \in {"idle", "begin", "asleep"} => wrote'[q] = {}
<1> USE ThreadFacts
<1>1. /\ \A u \in Threads \ {t} : pc[u] \notin InCommit
      /\ \A q \in Ops : pc[q] \notin {"run", "log_write"} /\ buf[q] = NoBlock
      /\ t # Boot => pc[Boot] = "up"
  BY Zenon, Installer
<1>2. \A u \in Threads \ {t} : pc'[u] \notin InCommit
  BY Zenon, <1>1
<1>3. \A q \in Ops : /\ pc'[q] \notin {"run", "log_write"} /\ (pc'[q] = "lost" <=> pc[q] = "lost")
                     /\ pc'[q] \in {"idle", "begin", "asleep"} => wrote'[q] = {}
  BY Zenon, <1>1 DEF Inv, InvLogged
<1>4. Running' = {} /\ Running = {}
  BY Zenon, <1>1, <1>3 DEF Running
<1>5. InvBuf'
  BY Zenon, <1>1, <1>3 DEF InvBuf
<1>6. pc'[Boot] \in BootPC /\ (\A q \in Ops : pc'[q] \in OpPC) /\ (t # Boot => pc'[Boot] = "up")
  BY Zenon, <1>1 DEF Inv, TypeOK, BootPC, OpPC, InCommit
<1>7. InvControl'
  <2>1. CASE t \in Ops
    BY Zenon, <2>1, CommitKept DEF InCommit
  <2>2. CASE t = Boot
    <3>1. \A q \in Ops : pc'[q] = pc[q] /\ pc'[q] \notin InCommit
      BY Zenon, <1>2, <2>2
    <3>2. pc[Boot] # "up"
      BY Zenon, <2>2
    <3> QED BY Zenon, <1>4, <3>1, <3>2 DEF Inv, InvControl
  <2> QED BY Zenon, <2>1, <2>2 DEF Threads
<1> QED BY Zenon, <1>2, <1>3, <1>4, <1>5, <1>6, <1>7

\* A block that the header names may be overwritten at home: a recovery takes
\* it from the log.
LEMMA HomeWrite ==
  ASSUME dhead \in Seq(Blocks), NoRepeats(dhead), NEW k0 \in 1 .. Len(dhead),
         UNCHANGED <<dlog, dhead>>, \A b \in Blocks \ {dhead[k0]} : disk'[b] = disk[b]
  PROVE  Recovered' = Recovered
<1>1. dhead' \in Seq(Blocks) /\ NoRepeats(dhead)'
  BY Zenon DEF NoRepeats
<1>2. ASSUME NEW b \in Blocks PROVE Recovered'[b] = Recovered[b]
  <2>1. CASE \E k \in 1 .. Len(dhead) : dhead[k] = b
    <3>1. PICK k \in 1 .. Len(dhead) : dhead[k] = b
      BY Zenon, <2>1
    <3>2. Recovered[b] = dlog[k]
      BY Zenon, <3>1, RecoveredAt
    <3>3. Recovered'[b] = dlog[k]
      BY Zenon, <1>1, <3>1, RecoveredAtNext
    <3> QED BY Zenon, <3>2, <3>3
  <2>2. CASE ~\E k \in 1 .. Len(dhead) : dhead[k] = b
    <3>1. Recovered[b] = disk[b]
      BY Zenon, <2>2, RecoveredAt
    <3>2. Recovered'[b] = disk'[b]
      BY Zenon, <1>1, <2>2, RecoveredAtNext
    <3> QED BY Zenon, <2>2, <3>1, <3>2
  <2> QED BY Zenon, <2>1, <2>2
<1>3. /\ Recovered = [b \in Blocks |-> Recovered[b]]
      /\ Recovered' = [b \in Blocks |-> Recovered'[b]]
  BY Zenon, <1>1, RecoveredAt, RecoveredAtNext
<1> QED BY Zenon, <1>2, <1>3

\* A round of install_trans(): what a recovery would find stays the same, and
\* so does the cache of a running kernel.
LEMMA InstallRound ==
  ASSUME Inv, NEW t \in Threads, install_trans(t), tail[t] <= Len(lh)
  PROVE  Inv' /\ Durable' = Durable
<1> USE ThreadFacts
<1>k. PICK k0 \in Nat : k0 = tail[t]
  BY Zenon DEF Inv, TypeOK
<1>b. PICK b0 : b0 = lh[k0]
  BY Zenon
<1>1. k0 = tail[t] /\ b0 = lh[k0]
  BY Zenon, <1>k, <1>b
<1>2. /\ k0 \in 1 .. Len(lh) /\ k0 \in 1 .. LOGSIZE /\ b0 \in Blocks
      /\ lh \in Seq(Blocks) /\ NoRepeats(lh) /\ Len(lh) \in Nat
  <2>1. lh \in Seq(Blocks) /\ NoRepeats(lh) /\ tail[t] >= 1 /\ Len(lh) <= LOGSIZE
    BY Zenon DEF Inv, TypeOK, InvLog
  <2>2. Len(lh) \in Nat /\ k0 \in 1 .. Len(lh)
    BY <1>1, <2>1
  <2> QED BY <1>1, <2>1, <2>2, LogAssumption
<1>3. /\ pc[t] = "install" /\ pc' = pc
      /\ disk' = [disk EXCEPT ![b0] = dlog[k0]] /\ cache' = [cache EXCEPT ![b0] = dlog[k0]]
      /\ pinned' = IF t = Boot THEN pinned ELSE [pinned EXCEPT ![b0] = @ - 1]
      /\ tail' = [tail EXCEPT ![t] = @ + 1]
      /\ UNCHANGED <<lh, dlog, dhead, outstanding, committing, buf, wrote>>
  BY Zenon, <1>1 DEF install_trans, At
<1>4. /\ InvControl' /\ InvBuf' /\ Running' = {}
      /\ \A q \in Ops : pc'[q] = "lost" <=> pc[q] = "lost"
  BY Zenon, <1>3, InstallerKept
<1>5. /\ \A u \in Threads \ {t} : pc[u] \notin InCommit
      /\ \A q \in Ops : q \notin Durable /\ pc[q] # "lost" => wrote[q] = {}
      /\ t # Boot => pc[Boot] = "up"
  BY Zenon, <1>3, Installer
<1>6. dhead = lh
  BY Zenon, <1>3 DEF Inv, InvStage
<1>7. /\ disk'[b0] = dlog[k0] /\ (\A b \in Blocks \ {b0} : disk'[b] = disk[b])
      /\ cache'[b0] = dlog[k0] /\ (\A b \in Blocks \ {b0} : cache'[b] = cache[b])
      /\ dlog[k0] \in Content
  BY Zenon, <1>2, <1>3 DEF Inv, TypeOK
<1>8. Recovered' = Recovered /\ Recovered[b0] = dlog[k0]
  <2>1. dhead \in Seq(Blocks) /\ NoRepeats(dhead) /\ dhead' \in Seq(Blocks) /\ NoRepeats(dhead)'
    BY <1>2, <1>3, <1>6 DEF NoRepeats
  <2>2. Recovered[b0] = dlog[k0]
    BY Zenon, <1>1, <1>2, <1>6, <2>1, RecoveredAt
  <2> QED BY Zenon, <1>1, <1>2, <1>3, <1>6, <1>7, <2>1, <2>2, HomeWrite
<1>9. Durable' = Durable /\ CrashConsistent'
  <2>1. Durable' = Durable
    BY Zenon, <1>8 DEF Durable
  <2> QED BY Zenon, <1>3, <1>8, <2>1 DEF Inv, CrashConsistent
<1>10. CacheCurrent'
  <2>1. CASE t = Boot
    BY Zenon, <1>3, <2>1 DEF CacheCurrent
  <2>2. CASE t # Boot
    <3>1. \A b \in Blocks :
            cache[b] = {q \in Ops : b \in wrote[q] /\ (pc[q] # "lost" \/ q \in Durable)}
      BY Zenon, <1>5, <2>2 DEF Inv, CacheCurrent
    <3>2. dlog[k0] = {q \in Durable : b0 \in wrote[q]}
      BY Zenon, <1>2, <1>8 DEF Inv, CrashConsistent
    <3>3. \A q \in Durable : q \in Ops
      BY Zenon DEF Durable
    <3>4. cache[b0] = dlog[k0]
      BY Zenon, <1>2, <1>5, <3>1, <3>2, <3>3
    <3>5. \A b \in Blocks : cache'[b] = cache[b]
      BY Zenon, <1>7, <3>4
    <3> QED BY Zenon, <1>3, <1>9, <3>1, <3>5 DEF CacheCurrent
  <2> QED BY Zenon, <2>1, <2>2
<1>11. InvBoot'
  BY Zenon, <1>3, <1>5 DEF Inv, InvBoot
<1>12. TypeOK'
  <2>1. disk' \in [Blocks -> Content] /\ cache' \in [Blocks -> Content]
    BY Zenon, <1>3, <1>7 DEF Inv, TypeOK
  <2>2. pinned' \in [Blocks -> Int] /\ tail' \in [Threads -> Nat]
    <3>1. \A b \in Blocks : pinned[b] \in Int
      BY Zenon DEF Inv, TypeOK
    <3>2. pinned' \in [Blocks -> Int]
      <4>1. CASE t = Boot
        BY Zenon, <1>3, <4>1 DEF Inv, TypeOK
      <4>2. CASE t # Boot
        <5>1. pinned' = [pinned EXCEPT ![b0] = pinned[b0] - 1]
          BY Zenon, <1>3, <4>2
        <5>2. pinned[b0] - 1 \in Int
          BY <1>2, <3>1
        <5> QED BY Zenon, <5>1, <5>2 DEF Inv, TypeOK
      <4> QED BY Zenon, <4>1, <4>2
    <3>3. tail' \in [Threads -> Nat]
      BY <1>3 DEF Inv, TypeOK
    <3> QED BY Zenon, <3>2, <3>3
  <2> QED BY Zenon, <1>3, <2>1, <2>2 DEF Inv, TypeOK
<1>13. /\ tail'[t] = k0 + 1 /\ \A u \in Threads \ {t} : tail'[u] = tail[u]
  BY Zenon, <1>1, <1>3 DEF Inv, TypeOK
<1>14. \A k \in 1 .. Len(lh) : k # k0 => lh[k] \in Blocks \ {b0}
  BY <1>1, <1>2 DEF NoRepeats
<1>15. InvLog'
  <2>1. \A u \in Threads : /\ tail'[u] >= 1 /\ tail'[u] <= Len(lh) + 1
                           /\ pc[u] \notin {"write_log", "install"} => tail'[u] = 1
    BY <1>2, <1>3, <1>13 DEF Inv, InvLog
  <2>2. CASE t = Boot
    BY <1>3, <2>1, <2>2 DEF Inv, InvLog, NoRepeats
  <2>3. CASE t # Boot
    <3>1. t \in Ops /\ pc[Boot] = "up" /\ \A q \in Ops : pc[q] = "install" => q = t
      BY Zenon, <1>5, <2>3 DEF Threads, InCommit
    <3>2. \A k \in 1 .. Len(lh) : k >= k0 => pinned[lh[k]] >= 1
      BY Zenon, <1>1, <3>1 DEF Inv, InvLog
    <3>3. /\ pinned'[b0] = pinned[b0] - 1 /\ pinned[b0] \in Int
          /\ \A b \in Blocks \ {b0} : pinned'[b] = pinned[b]
      BY Zenon, <1>2, <1>3, <2>3 DEF Inv, TypeOK
    <3>4. pinned[b0] >= 1
      BY <1>1, <1>2, <3>2
    <3>5. \A b \in Blocks : pinned'[b] >= 0
      BY <3>3, <3>4 DEF Inv, InvLog
    <3>6. \A k \in 1 .. Len(lh) : k >= k0 + 1 => pinned'[lh[k]] >= 1
      BY <1>2, <1>14, <3>2, <3>3
    <3>7. \A k \in 1 .. Len(lh) :
            (\A q \in Ops : pc[q] = "install" => k >= tail'[q]) => pinned'[lh[k]] >= 1
      BY Zenon, <1>3, <1>13, <3>1, <3>6
    <3> QED BY Zenon, <1>3, <2>1, <3>5, <3>7 DEF Inv, InvLog, NoRepeats
  <2> QED BY Zenon, <2>2, <2>3
<1>16. InvStage'
  <2>1. \A u \in Threads : /\ pc[u] \notin {"write_log", "write_head", "erase", "finish"}
                           /\ pc[u] = "install" => u = t
    BY Zenon, <1>3, <1>5 DEF InCommit
  <2>2. \A k \in 1 .. Len(lh) : k < k0 + 1 => disk'[lh[k]] = dlog[k]
    <3>1. \A k \in 1 .. Len(lh) : k < k0 => disk[lh[k]] = dlog[k]
      BY <1>1, <1>3 DEF Inv, InvStage
    <3> QED BY <1>1, <1>2, <1>7, <1>14, <3>1
  <2>3. pc[Boot] # "read_head"
    BY Zenon, <1>3, <1>5
  <2>4. ~(pc[Boot] = "up" /\ \A q \in Ops : pc[q] \notin {"install", "erase"})
    BY Zenon, <1>3 DEF Threads
  <2> QED BY <1>3, <1>6, <1>13, <2>1, <2>2, <2>3, <2>4 DEF InvStage
<1>17. InvLogged'
  BY Zenon, <1>3, <1>4, <1>5, <1>9 DEF Inv, InvLogged
<1> QED BY Zenon, <1>4, <1>9, <1>10, <1>11, <1>12, <1>15, <1>16, <1>17 DEF Inv

\* After the last round nothing is left in log.lh.
LEMMA InstallEnd ==
  ASSUME Inv, NEW t \in Threads, install_trans(t), ~(tail[t] <= Len(lh))
  PROVE  Inv' /\ Durable' = Durable
<1> USE ThreadFacts
<1>1. /\ pc[t] = "install" /\ pc'[t] = "erase" /\ (\A u \in Threads \ {t} : pc'[u] = pc[u])
      /\ tail'[t] = 1 /\ (\A u \in Threads \ {t} : tail'[u] = tail[u])
      /\ pc' \in [Threads -> OpPC \cup BootPC] /\ tail' \in [Threads -> Nat] /\ lh' = <<>>
      /\ UNCHANGED <<disk, cache, pinned, dlog, dhead, outstanding, committing, buf, wrote>>
  <2>1. /\ pc[t] = "install" /\ pc' = [pc EXCEPT ![t] = "erase"] /\ tail' = [tail EXCEPT ![t] = 1]
        /\ lh' = <<>>
        /\ UNCHANGED <<disk, cache, pinned, dlog, dhead, outstanding, committing, buf, wrote>>
    BY Zenon DEF install_trans, At, Goto, cacheVars
  <2>2. "erase" \in OpPC \cup BootPC
    BY Zenon DEF BootPC
  <2> QED BY Zenon, <2>1, <2>2 DEF Inv, TypeOK
<1>2. /\ InvControl' /\ InvBuf' /\ Running' = {}
      /\ \A u \in Threads \ {t} : pc'[u] \notin InCommit
      /\ \A q \in Ops : pc'[q] = "lost" <=> pc[q] = "lost"
      /\ pc'[Boot] \in BootPC /\ \A q \in Ops : pc'[q] \in OpPC
      /\ t # Boot => pc'[Boot] = "up"
      /\ \A q \in Ops : pc'[q] \in {"idle", "begin", "asleep"} => wrote'[q] = {}
  BY Zenon, <1>1, InstallerKept
<1>3. /\ \A q \in Ops : q \notin Durable /\ pc[q] # "lost" => wrote[q] = {}
      /\ \A u \in Threads \ {t} : pc[u] \notin InCommit
      /\ t # Boot => pc[Boot] = "up"
  BY Zenon, <1>1, Installer
<1>4. Durable' = Durable /\ CrashConsistent' /\ CacheCurrent'
  <2>1. Recovered' = Recovered
    BY Zenon, <1>1, SameDisk DEF diskVars
  <2>2. pc'[Boot] = "up" <=> pc[Boot] = "up"
    BY Zenon, <1>1
  <2> QED BY Zenon, <1>1, <1>2, <2>1, <2>2, DataKept
<1>5. TypeOK'
  <2>1. lh' \in Seq(Blocks)
    BY <1>1
  <2> QED BY Zenon, <1>1, <1>2, <2>1 DEF Inv, TypeOK
<1>6. Len(lh') = 0 /\ 1 .. Len(lh') = {}
  BY <1>1
<1>7. InvLog'
  <2>1. \A u \in Threads : tail'[u] = 1
    <3>1. \A u \in Threads \ {t} : pc[u] \notin {"write_log", "install"}
      BY Zenon, <1>3 DEF InCommit
    <3> QED BY Zenon, <1>1, <3>1 DEF Inv, InvLog
  <2>2. Len(lh') <= LOGSIZE /\ 1 >= 1 /\ 1 <= Len(lh') + 1
    BY <1>6, LogAssumption
  <2>3. NoRepeats(lh)' /\ NoRepeats(dhead)'
    <3>1. NoRepeats(lh)'
      BY Zenon, <1>6 DEF NoRepeats
    <3>2. NoRepeats(dhead)'
      BY <1>1 DEF Inv, InvLog, NoRepeats
    <3> QED BY Zenon, <3>1, <3>2
  <2> QED BY Zenon, <1>1, <1>6, <2>1, <2>2, <2>3 DEF Inv, InvLog
<1>8. InvStage'
  <2>1. \A u \in Threads : /\ pc'[u] \notin {"write_log", "write_head", "install", "finish"}
                           /\ pc'[u] = "erase" => u = t
    BY Zenon, <1>1, <1>2 DEF InCommit
  <2>2. \A k \in 1 .. Len(dhead) : disk[dhead[k]] = dlog[k]
    <3>1. dhead = lh /\ \A k \in 1 .. Len(lh) : k < tail[t] => disk[lh[k]] = dlog[k]
      BY Zenon, <1>1 DEF Inv, InvStage
    <3>2. \A k \in 1 .. Len(lh) : k < tail[t]
      BY DEF Inv, TypeOK
    <3> QED BY Zenon, <3>1, <3>2
  <2>3. ~(pc'[Boot] = "up" /\ \A q \in Ops : pc'[q] \notin {"install", "erase"})
    BY Zenon, <1>1 DEF Threads
  <2>4. pc'[Boot] # "read_head"
    BY Zenon, <1>1, <1>2
  <2> QED BY Zenon, <1>1, <2>1, <2>2, <2>3, <2>4 DEF InvStage
<1>9. InvLogged'
  BY Zenon, <1>1, <1>2, <1>3, <1>4 DEF InvLogged
<1>10. InvBoot'
  BY Zenon, <1>1, <1>3 DEF Inv, InvBoot
<1> QED BY Zenon, <1>2, <1>4, <1>5, <1>7, <1>8, <1>9, <1>10 DEF Inv

\* The erased header: every block it named is at home.
LEMMA EraseStep ==
  ASSUME Inv, NEW t \in Threads, erase(t)
  PROVE  Inv' /\ Durable' = Durable
<1> USE ThreadFacts
<1>1. /\ pc[t] = "erase" /\ pc'[t] = (IF t = Boot THEN "up" ELSE "finish")
      /\ (\A u \in Threads \ {t} : pc'[u] = pc[u])
      /\ pc' \in [Threads -> OpPC \cup BootPC] /\ dhead' = lh
      /\ UNCHANGED <<disk, dlog, cache, pinned, lh, outstanding, committing, buf, tail, wrote>>
  BY Zenon DEF Inv, TypeOK, erase, At, Goto, cacheVars, logVars, OpPC, BootPC, InCommit
<1>2. /\ InvControl' /\ InvBuf' /\ Running' = {}
      /\ \A u \in Threads \ {t} : pc'[u] \notin InCommit
      /\ \A q \in Ops : pc'[q] = "lost" <=> pc[q] = "lost"
      /\ pc'[Boot] \in BootPC /\ \A q \in Ops : pc'[q] \in OpPC
      /\ t # Boot => pc'[Boot] = "up"
      /\ \A q \in Ops : pc'[q] \in {"idle", "begin", "asleep"} => wrote'[q] = {}
  BY Zenon, <1>1, InstallerKept
<1>3. /\ \A q \in Ops : q \notin Durable /\ pc[q] # "lost" => wrote[q] = {}
      /\ \A u \in Threads \ {t} : pc[u] \notin InCommit
      /\ t # Boot => pc[Boot] = "up"
  BY Zenon, <1>1, Installer
<1>4. lh = <<>> /\ dhead' = <<>> /\ lh' = <<>>
  BY Zenon, <1>1 DEF Inv, InvStage
<1>5. pc'[Boot] = "up"
  BY Zenon, <1>1, <1>2
<1>6. Recovered' = Recovered /\ \A b \in Blocks : Recovered[b] = disk[b]
  <2>1. /\ dhead \in Seq(Blocks) /\ NoRepeats(dhead)
        /\ \A k \in 1 .. Len(dhead) : disk[dhead[k]] = dlog[k]
    BY Zenon, <1>1 DEF Inv, TypeOK, InvLog, InvStage
  <2>2. \A b \in Blocks : Recovered[b] = disk[b]
    BY <2>1, RecoveredAt
  <2>3. dhead' \in Seq(Blocks) /\ NoRepeats(dhead)' /\ \A b : \A k \in 1 .. Len(dhead') : dhead'[k] # b
    BY <1>4 DEF NoRepeats
  <2>4. \A b \in Blocks : Recovered'[b] = disk[b]
    BY Zenon, <1>1, <2>3, RecoveredAtNext
  <2>5. /\ Recovered = [b \in Blocks |-> Recovered[b]]
        /\ Recovered' = [b \in Blocks |-> Recovered'[b]]
    BY Zenon, <2>1, <2>3, RecoveredAt, RecoveredAtNext
  <2> QED BY Zenon, <2>2, <2>4, <2>5
<1>7. Durable' = Durable /\ CrashConsistent'
  <2>1. Durable' = Durable
    BY Zenon, <1>6 DEF Durable
  <2> QED BY Zenon, <1>1, <1>6, <2>1 DEF Inv, CrashConsistent
<1>8. CacheCurrent'
  <2>1. CASE t # Boot
    BY Zenon, <1>1, <1>2, <1>3, <1>5, <1>6, <2>1, DataKept
  <2>2. CASE t = Boot
    <3>1. cache = disk
      BY Zenon, <1>1, <2>2 DEF Inv, InvBoot
    <3>2. \A b \in Blocks : cache[b] = {q \in Durable : b \in wrote[q]}
      BY Zenon, <1>6, <3>1 DEF Inv, CrashConsistent
    <3>3. \A q \in Durable : q \in Ops
      BY Zenon DEF Durable
    <3>4. \A b \in Blocks :
            cache[b] = {q \in Ops : b \in wrote[q] /\ (pc'[q] # "lost" \/ q \in Durable)}
      BY <1>2, <1>3, <3>2, <3>3
    <3> QED BY Zenon, <1>1, <1>7, <3>4 DEF CacheCurrent
  <2> QED BY Zenon, <2>1, <2>2
<1>9. TypeOK'
  <2>1. dhead' \in Seq(Blocks)
    BY <1>4
  <2> QED BY Zenon, <1>1, <1>2, <2>1 DEF Inv, TypeOK
<1>10. Len(lh') = 0 /\ 1 .. Len(lh') = {} /\ Len(dhead') = 0 /\ 1 .. Len(dhead') = {}
  BY <1>4
<1>11. InvLog'
  <2>1. \A u \in Threads : tail[u] = 1
    <3>1. \A u \in Threads : pc[u] \notin {"write_log", "install"}
      BY Zenon, <1>1, <1>3 DEF InCommit
    <3> QED BY Zenon, <1>1, <3>1 DEF Inv, InvLog
  <2>2. Len(lh') <= LOGSIZE /\ Len(dhead') <= LOGSIZE /\ 1 >= 1 /\ 1 <= Len(lh') + 1
    BY <1>10, LogAssumption
  <2>3. NoRepeats(lh)' /\ NoRepeats(dhead)'
    BY Zenon, <1>10 DEF NoRepeats
  <2> QED BY Zenon, <1>1, <1>10, <2>1, <2>2, <2>3 DEF Inv, InvLog
<1>12. InvStage'
  <2>1. \A u \in Threads : pc'[u] \notin {"write_log", "write_head", "install", "erase"}
    BY Zenon, <1>1, <1>2 DEF InCommit
  <2> QED BY Zenon, <1>4, <1>5, <2>1 DEF InvStage
<1>13. InvLogged'
  BY Zenon, <1>1, <1>2, <1>3, <1>7 DEF InvLogged
<1>14. InvBoot'
  BY Zenon, <1>5 DEF InvBoot
<1> QED BY Zenon, <1>2, <1>7, <1>8, <1>9, <1>11, <1>12, <1>13, <1>14 DEF Inv
-----------------------------------------------------------------------------
(***************************************************************************)
(* The cache, crashes and recovery                                         *)
(***************************************************************************)

\* A block that is neither pinned nor locked is the same in the cache and on
\* the disk, so bget() may take its buffer.
LEMMA RecycleStep ==
  ASSUME Inv, NEW b \in Blocks, Recycle(b)
  PROVE  Inv' /\ Durable' = Durable
<1> USE ThreadFacts
<1>1. pinned[b] = 0 /\ \A q \in Ops : buf[q] # b
  BY Zenon DEF Recycle
<1>2. dhead \in Seq(Blocks) /\ NoRepeats(dhead)
  BY Zenon DEF Inv, TypeOK, InvLog
<1>3. Recovered[b] = {q \in Durable : b \in wrote[q]} /\ \A q \in Durable : q \in Ops
  BY Zenon DEF Inv, CrashConsistent, Durable
<1>4. cache[b] = disk[b]
  <2>1. CASE pc[Boot] # "up"
    BY Zenon, <2>1 DEF Inv, InvBoot
  <2>2. CASE pc[Boot] = "up" /\ \E o \in Ops : pc[o] \in {"install", "erase"}
    <3>1. PICK o \in Ops : pc[o] \in {"install", "erase"}
      BY Zenon, <2>2
    <3>2. /\ \A q \in Ops : q \notin Durable /\ pc[q] # "lost" => wrote[q] = {}
          /\ \A u \in Threads \ {o} : pc[u] \notin InCommit
      BY Zenon, <3>1, Installer
    <3>3. cache[b] = {q \in Ops : b \in wrote[q] /\ (pc[q] # "lost" \/ q \in Durable)}
      BY Zenon, <2>2 DEF Inv, CacheCurrent
    <3>4. cache[b] = Recovered[b]
      BY Zenon, <1>3, <3>2, <3>3
    <3>5. CASE \E k \in 1 .. Len(dhead) : dhead[k] = b
      <4>1. PICK k \in 1 .. Len(dhead) : dhead[k] = b
        BY Zenon, <3>5
      <4>2. Recovered[b] = dlog[k]
        BY Zenon, <1>2, <4>1, RecoveredAt
      <4>3. disk[b] = dlog[k]
        <5>1. CASE pc[o] = "erase"
          BY Zenon, <4>1, <5>1 DEF Inv, InvStage
        <5>2. CASE pc[o] = "install"
          <6>1. dhead = lh /\ \A j \in 1 .. Len(lh) : j < tail[o] => disk[lh[j]] = dlog[j]
            BY Zenon, <5>2 DEF Inv, InvStage
          <6>2. \A q \in Ops : pc[q] = "install" => q = o
            BY Zenon, <3>2 DEF InCommit
          <6>3. k >= tail[o] => pinned[lh[k]] >= 1
            BY Zenon, <2>2, <4>1, <6>1, <6>2 DEF Inv, InvLog
          <6>4. k < tail[o]
            <7>1. tail[o] \in Nat /\ k \in Int
              BY DEF Inv, TypeOK
            <7> QED BY <1>1, <4>1, <6>1, <6>3, <7>1
          <6> QED BY Zenon, <4>1, <6>1, <6>4
        <5> QED BY Zenon, <3>1, <5>1, <5>2
      <4> QED BY Zenon, <3>4, <4>2, <4>3
    <3>6. CASE ~\E k \in 1 .. Len(dhead) : dhead[k] = b
      BY Zenon, <1>2, <3>4, <3>6, RecoveredAt
    <3> QED BY Zenon, <3>5, <3>6
  <2>3. CASE pc[Boot] = "up" /\ \A o \in Ops : pc[o] \notin {"install", "erase"}
    <3>1. dhead = <<>>
      BY Zenon, <2>3 DEF Inv, InvStage
    <3>2. Recovered[b] = disk[b]
      <4>1. \A k \in 1 .. Len(dhead) : dhead[k] # b
        BY <3>1
      <4> QED BY Zenon, <1>2, <4>1, RecoveredAt
    <3>3. ~InLog(b)
      <4>1. \A k \in 1 .. Len(lh) : pinned[lh[k]] >= 1
        BY Zenon, <2>3 DEF Inv, InvLog
      <4> QED BY <1>1, <4>1 DEF InLog
    <3>4. \A q \in Ops : b \in wrote[q] /\ pc[q] # "lost" => q \in Durable
      BY Zenon, <1>1, <3>3 DEF Inv, InvLogged
    <3>5. cache[b] = {q \in Ops : b \in wrote[q] /\ (pc[q] # "lost" \/ q \in Durable)}
      BY Zenon, <2>3 DEF Inv, CacheCurrent
    <3> QED BY Zenon, <1>3, <3>2, <3>4, <3>5
  <2> QED BY Zenon, <2>1, <2>2, <2>3
<1>5. cache' = cache
  BY Zenon, <1>4 DEF Recycle, Inv, TypeOK
<1> QED BY Zenon, <1>5, StutterKept DEF Recycle, cacheVars

\* A crash tears a log block that no header names, or a home block that a
\* recovery takes from the log.
LEMMA TornKept ==
  ASSUME Inv, TornBlock, dhead' = dhead
  PROVE  /\ Recovered' = Recovered
         /\ disk' \in [Blocks -> Content] /\ dlog' \in [1 .. LOGSIZE -> Content]
<1> USE ThreadFacts
<1>1. {Torn} \in Content
  BY Zenon DEF Content
<1>2. CASE UNCHANGED <<disk, dlog>>
  BY Zenon, <1>2, SameDisk DEF diskVars, Inv, TypeOK
<1>3. ASSUME NEW o \in Ops, pc[o] = "write_log", tail[o] <= Len(lh),
             dlog' = [dlog EXCEPT ![tail[o]] = {Torn}], disk' = disk
      PROVE  /\ Recovered' = Recovered
             /\ disk' \in [Blocks -> Content] /\ dlog' \in [1 .. LOGSIZE -> Content]
  <2>1. pc[Boot] = "up" /\ \A q \in Ops \ {o} : pc[q] \notin InCommit
    BY Zenon, <1>3, Committer DEF InCommit
  <2>2. \A q \in Ops : pc[q] \notin {"install", "erase"}
    BY Zenon, <1>3, <2>1 DEF InCommit
  <2>3. dhead = <<>>
    BY Zenon, <2>1, <2>2 DEF Inv, InvStage
  <2> QED BY Zenon, <1>1, <1>3, <2>3, NoHeader DEF Inv, TypeOK
<1>4. ASSUME NEW t \in Threads, pc[t] = "install", tail[t] <= Len(lh),
             disk' = [disk EXCEPT ![lh[tail[t]]] = {Torn}], dlog' = dlog
      PROVE  /\ Recovered' = Recovered
             /\ disk' \in [Blocks -> Content] /\ dlog' \in [1 .. LOGSIZE -> Content]
  <2>1. /\ dhead = lh /\ dhead \in Seq(Blocks) /\ NoRepeats(dhead)
        /\ tail[t] \in Nat /\ tail[t] >= 1
    BY Zenon, <1>4 DEF Inv, TypeOK, InvLog, InvStage
  <2>2. tail[t] \in 1 .. Len(dhead)
    BY <1>4, <2>1
  <2>3. \A b \in Blocks \ {dhead[tail[t]]} : disk'[b] = disk[b]
    BY Zenon, <1>4, <2>1 DEF Inv, TypeOK
  <2>4. Recovered' = Recovered
    BY Zenon, <1>4, <2>1, <2>2, <2>3, HomeWrite
  <2> QED BY Zenon, <1>1, <1>4, <2>4 DEF Inv, TypeOK
<1> QED BY Zenon, <1>2, <1>3, <1>4 DEF TornBlock

\* A crash forgets everything but the disk, and changes nothing that a
\* recovery would find.
LEMMA CrashStep ==
  ASSUME Inv, Crash
  PROVE  Inv' /\ Durable' = Durable /\ Pending' = {}
<1> USE ThreadFacts
<1>1. /\ TornBlock /\ cache' = disk' /\ pinned' = [b \in Blocks |-> 0]
      /\ lh' = <<>> /\ outstanding' = 0 /\ committing' = FALSE
      /\ pc' = [t \in Threads |-> IF t = Boot THEN "read_head"
                                  ELSE IF pc[t] = "idle" THEN "idle" ELSE "lost"]
      /\ buf' = [q \in Ops |-> NoBlock] /\ tail' = [t \in Threads |-> 1]
      /\ dhead' = dhead /\ wrote' = wrote
  BY Zenon DEF Crash
<1>2. /\ pc'[Boot] = "read_head"
      /\ \A q \in Ops : pc'[q] \in {"idle", "lost"} /\ (pc'[q] = "idle" => pc[q] = "idle")
      /\ \A t \in Threads : tail'[t] = 1 /\ pc'[t] \notin InCommit
      /\ \A q \in Ops : buf'[q] = NoBlock
  BY Zenon, <1>1 DEF InCommit
<1>3. /\ Recovered' = Recovered
      /\ disk' \in [Blocks -> Content] /\ dlog' \in [1 .. LOGSIZE -> Content]
  BY Zenon, <1>1, TornKept
<1>4. Durable' = Durable /\ CrashConsistent'
  <2>1. Durable' = Durable
    BY Zenon, <1>3 DEF Durable
  <2> QED BY Zenon, <1>1, <1>3, <2>1 DEF Inv, CrashConsistent
<1>5. TypeOK'
  <2>1. lh' \in Seq(Blocks) /\ pinned' \in [Blocks -> Int] /\ outstanding' \in Int
        /\ tail' \in [Threads -> Nat] /\ buf' \in [Ops -> Blocks \cup {NoBlock}]
    BY <1>1
  <2>2. committing' \in BOOLEAN
    BY Zenon, <1>1
  <2>3. /\ pc' \in [Threads -> OpPC \cup BootPC]
        /\ pc'[Boot] \in BootPC /\ \A q \in Ops : pc'[q] \in OpPC
    BY Zenon, <1>1, <1>2 DEF OpPC, BootPC
  <2> QED BY Zenon, <1>1, <1>3, <2>1, <2>2, <2>3 DEF Inv, TypeOK
<1>6. Running' = {} /\ Pending' = {}
  BY Zenon, <1>2 DEF Running, Pending, Ended, InCommit
<1>7. InvControl'
  <2>1. IsFiniteSet({}) /\ Cardinality({}) = 0
    BY Zenon, FS_EmptySet
  <2>2. committing' = FALSE
    BY Zenon, <1>1
  <2> QED BY Zenon, <1>1, <1>2, <1>6, <2>1, <2>2 DEF InvControl
<1>8. InvBuf'
  BY Zenon, <1>2 DEF InvBuf
<1>9. InvLog'
  <2>1. Len(lh') = 0 /\ 1 .. Len(lh') = {} /\ Len(lh') <= LOGSIZE /\ 1 <= Len(lh') + 1 /\ 1 >= 1
    BY <1>1, LogAssumption
  <2>2. NoRepeats(lh)'
    BY Zenon, <2>1 DEF NoRepeats
  <2>3. NoRepeats(dhead)' /\ Len(dhead') <= LOGSIZE
    BY Zenon, <1>1 DEF Inv, InvLog, NoRepeats
  <2>4. \A b \in Blocks : pinned'[b] >= 0
    BY <1>1
  <2> QED BY Zenon, <1>2, <2>1, <2>2, <2>3, <2>4 DEF InvLog
<1>10. InvStage'
  BY Zenon, <1>1, <1>2 DEF InvStage, InCommit
<1>11. InvLogged'
  <2>1. \A q \in Ops : pc'[q] # "lost" => wrote[q] = {}
    BY Zenon, <1>2 DEF Inv, InvLogged
  <2> QED BY Zenon, <1>1, <1>2, <1>6, <2>1 DEF InvLogged
<1>12. InvBoot' /\ CacheCurrent'
  BY Zenon, <1>1, <1>2 DEF InvBoot, CacheCurrent
<1> QED BY Zenon, <1>4, <1>5, <1>6, <1>7, <1>8, <1>9, <1>10, <1>11, <1>12 DEF Inv

\* The recovery reads the header.
LEMMA ReadHeadStep ==
  ASSUME Inv, read_head
  PROVE  Inv' /\ Durable' = Durable
<1> USE ThreadFacts
<1>1. /\ pc[Boot] = "read_head" /\ pc'[Boot] = "install" /\ (\A q \in Ops : pc'[q] = pc[q])
      /\ pc' \in [Threads -> OpPC \cup BootPC] /\ lh' = dhead
      /\ UNCHANGED <<disk, dlog, dhead, cache, pinned, outstanding, committing, buf, tail, wrote>>
  BY Zenon DEF Inv, TypeOK, read_head, At, Goto, diskVars, cacheVars, BootPC
<1>2. ~committing /\ \A q \in Ops : pc[q] \in {"idle", "lost"}
  BY Zenon, <1>1 DEF Inv, InvControl
<1>3. Durable' = Durable /\ CrashConsistent' /\ CacheCurrent'
  <2>1. Recovered' = Recovered
    BY Zenon, <1>1, SameDisk DEF diskVars
  <2>2. pc'[Boot] # "up" /\ pc[Boot] # "up"
    BY Zenon, <1>1
  <2> QED BY Zenon, <1>1, <2>1, <2>2, DataKept
<1>4. TypeOK'
  <2>1. pc'[Boot] \in BootPC
    BY Zenon, <1>1 DEF BootPC
  <2> QED BY Zenon, <1>1, <2>1 DEF Inv, TypeOK
<1>5. Running' = Running
  BY Zenon, <1>1 DEF Running
<1>6. InvControl'
  <2>1. pc[Boot] # "up"
    BY Zenon, <1>1
  <2> QED BY Zenon, <1>1, <1>2, <1>5, <2>1 DEF Inv, InvControl
<1>7. InvBuf'
  BY Zenon, <1>1 DEF Inv, InvBuf
<1>8. \A t \in Threads : tail'[t] = 1
  <2>1. \A t \in Threads : pc[t] \notin {"write_log", "install"}
    BY Zenon, <1>1, <1>2 DEF Threads
  <2> QED BY Zenon, <1>1, <2>1 DEF Inv, InvLog
<1>9. InvLog'
  <2>1. NoRepeats(dhead) /\ Len(dhead) <= LOGSIZE /\ \A b \in Blocks : pinned[b] >= 0
    BY Zenon DEF Inv, InvLog
  <2>2. 1 >= 1 /\ 1 <= Len(dhead) + 1
    BY DEF Inv, TypeOK
  <2>3. NoRepeats(lh)' /\ NoRepeats(dhead)'
    BY Zenon, <1>1, <2>1 DEF NoRepeats
  <2>4. pc'[Boot] # "up"
    BY Zenon, <1>1
  <2> QED BY Zenon, <1>1, <1>8, <2>1, <2>2, <2>3, <2>4 DEF InvLog
<1>10. InvStage'
  <2>1. \A q \in Ops : pc'[q] \in {"idle", "lost"}
    BY Zenon, <1>1, <1>2
  <2>2. \A t \in Threads : pc'[t] \notin {"erase", "finish"}
    BY Zenon, <1>1, <2>1 DEF Threads
  <2>3. \A k \in 1 .. Len(lh') : ~(k < 1)
    BY <1>1 DEF Inv, TypeOK
  <2> QED BY Zenon, <1>1, <1>8, <2>1, <2>2, <2>3 DEF InvStage
<1>11. InvLogged'
  <2>1. \A q \in Ops : pc'[q] # "lost" => wrote[q] = {}
    BY Zenon, <1>1, <1>2 DEF Inv, InvLogged
  <2>2. Running' = {}
    BY Zenon, <1>1, <1>2 DEF Running
  <2>3. \A q \in Ops : pc'[q] \in {"idle", "begin", "asleep"} => pc'[q] # "lost"
    BY Zenon
  <2> QED BY Zenon, <1>1, <1>3, <2>1, <2>2, <2>3 DEF InvLogged
<1>12. InvBoot'
  BY Zenon, <1>1 DEF Inv, InvBoot
<1> QED BY Zenon, <1>3, <1>4, <1>6, <1>7, <1>9, <1>10, <1>11, <1>12 DEF Inv
-----------------------------------------------------------------------------
(***************************************************************************)
(* The theorems                                                            *)
(***************************************************************************)

\* A disk fresh from mkfs: nothing is logged, written or durable.
LEMMA InitInv == Init => Inv /\ Durable = {} /\ Pending = {}
<1> USE ThreadFacts
<1> SUFFICES ASSUME Init PROVE Inv /\ Durable = {} /\ Pending = {}
  BY Zenon
<1>1. /\ pc[Boot] = "read_head" /\ \A q \in Ops : pc[q] = "idle" /\ buf[q] = NoBlock /\ wrote[q] = {}
      /\ \A t \in Threads : pc[t] \notin InCommit /\ tail[t] = 1
  BY Zenon DEF Init, InCommit
<1>2. TypeOK
  <2>1. committing \in BOOLEAN
    BY Zenon DEF Init
  <2>2. pc \in [Threads -> OpPC \cup BootPC] /\ pc[Boot] \in BootPC /\ \A q \in Ops : pc[q] \in OpPC
    BY Zenon, <1>1 DEF Init, OpPC, BootPC
  <2>3. /\ disk \in [Blocks -> Content] /\ cache \in [Blocks -> Content]
        /\ dlog \in [1 .. LOGSIZE -> Content] /\ wrote \in [Ops -> SUBSET Blocks]
        /\ buf \in [Ops -> Blocks \cup {NoBlock}]
    BY Zenon DEF Init, Content
  <2>4. /\ dhead \in Seq(Blocks) /\ lh \in Seq(Blocks) /\ pinned \in [Blocks -> Int]
        /\ outstanding \in Int /\ tail \in [Threads -> Nat]
    BY DEF Init
  <2> QED BY Zenon, <2>1, <2>2, <2>3, <2>4 DEF TypeOK
<1>3. Running = {}
  BY Zenon, <1>1 DEF Running
<1>4. InvControl
  BY Zenon, <1>1, <1>3, FS_EmptySet DEF Init, InvControl
<1>5. InvBuf /\ InvBoot /\ CacheCurrent
  BY Zenon, <1>1 DEF Init, InvBuf, InvBoot, CacheCurrent
<1>6. InvLog
  <2>1. lh = <<>> /\ dhead = <<>> /\ pinned = [b \in Blocks |-> 0] /\ Len(<<>>) = 0 /\ 1 .. 0 = {}
    BY DEF Init
  <2> QED BY <1>1, <2>1, LogAssumption DEF InvLog, NoRepeats
<1>7. InvStage
  BY Zenon, <1>1 DEF Init, InvStage, InCommit
<1>8. \A b \in Blocks : Recovered[b] = {}
  <2>1. dhead \in Seq(Blocks) /\ NoRepeats(dhead) /\ \A k \in 1 .. Len(dhead) : FALSE
    BY DEF Init, NoRepeats
  <2> QED BY Zenon, <2>1, RecoveredAt DEF Init
<1>9. Durable = {} /\ Pending = {}
  BY Zenon, <1>1, <1>8 DEF Durable, Pending
<1>10. InvLogged
  BY Zenon, <1>1, <1>3 DEF InvLogged
<1>11. CrashConsistent
  BY Zenon, <1>8, <1>9 DEF CrashConsistent
<1> QED BY Zenon, <1>2, <1>4, <1>5, <1>6, <1>7, <1>9, <1>10, <1>11 DEF Inv

\* What every step other than a write of the header does.
LEMMA StepKept ==
  ASSUME Inv, Next
  PROVE  /\ Inv'
         /\ Durable' = Durable \/ \E o \in Ops : write_head(o)
<1> USE ThreadFacts
<1>1. ASSUME NEW t \in Threads, install_trans(t) PROVE Inv' /\ Durable' = Durable
  BY Zenon, <1>1, InstallRound, InstallEnd
<1>2. ASSUME NEW o \in Ops, OpStep(o) PROVE Inv' /\ (Durable' = Durable \/ write_head(o))
  BY Zenon, <1>1, <1>2, CallStep, BeginStep, LogWriteStep, EndOpStep, WriteLogStep,
     WriteHeadStep, EraseStep, FinishStep, ModifyStep DEF OpStep
<1>3. CASE BootStep
  BY Zenon, <1>1, <1>3, ReadHeadStep, EraseStep DEF BootStep
<1>4. CASE Idle
  BY Zenon, <1>4, StutterKept DEF Idle, vars
<1> QED BY Zenon, <1>2, <1>3, <1>4, RecycleStep, CrashStep DEF Next

\* Every step keeps the invariant.
LEMMA NextInv == Inv /\ [Next]_vars => Inv'
<1>1. Inv /\ UNCHANGED vars => Inv'
  BY Zenon, StutterKept DEF vars
<1> QED BY Zenon, <1>1, StepKept

\* The invariant holds in every state of the log, for any operations, blocks,
\* log size and number of crashes.
THEOREM LogInv == Spec => []Inv
BY InitInv, NextInv, PTL DEF Spec

\* A crash at any moment, in the middle of write_log(), write_head(),
\* install_trans() or the recovery itself, and a recover_from_log() leave each
\* operation's updates on the disk in full or not at all.
THEOREM LogCrashConsistent == Spec => []CrashConsistent
<1>1. Inv => CrashConsistent
  BY Zenon DEF Inv
<1> QED BY <1>1, LogInv, PTL

\* bread() returns every update that was not lost in a crash, although bget()
\* recycles the buffers of blocks that are not pinned.
THEOREM LogCacheCurrent == Spec => []CacheCurrent
<1>1. Inv => CacheCurrent
  BY Zenon DEF Inv
<1> QED BY <1>1, LogInv, PTL
-----------------------------------------------------------------------------
(***************************************************************************)
(* The log implements the atomic disk                                      *)
(***************************************************************************)

\* Who has ended and what it wrote are the same: so is what is pending.
LEMMA PendingKept ==
  ASSUME Durable' = Durable, \A q \in Ops : pc'[q] \in Ended <=> pc[q] \in Ended,
         \A q \in Ops : pc[q] \in Ended => wrote'[q] = wrote[q]
  PROVE  Pending' = Pending
BY Zenon DEF Pending

\* A step of an operation other than the end of its updates and the commit
\* moves nobody into or out of the operations that have ended.
LEMMA QuietStep ==
  ASSUME Inv, NEW o \in Ops, OpStep(o), ~end_op(o), ~write_head(o)
  PROVE  Pending' = Pending /\ Durable' = Durable
<1> USE ThreadFacts
<1>1. Durable' = Durable
  BY Zenon, CallStep, BeginStep, LogWriteStep, WriteLogStep, InstallRound, InstallEnd, EraseStep,
     FinishStep, ModifyStep DEF OpStep
<1>2. /\ \A q \in Ops : pc'[q] \in Ended <=> pc[q] \in Ended
      /\ \A q \in Ops : pc[q] \in Ended => wrote'[q] = wrote[q]
  <2>1. CASE \E b \in Blocks : Modify(o, b)
    BY <2>1 DEF Modify, At, Goto, Ended, InCommit, Inv, TypeOK
  <2>2. CASE Call(o) \/ begin_op(o)
    BY <2>2 DEF Call, begin_op, At, Goto, Ended, InCommit, Inv, TypeOK
  <2>3. CASE log_write(o)
    BY Zenon, <2>3 DEF log_write, At, Goto, Ended, InCommit, Inv, TypeOK
  <2>4. CASE write_log(o) \/ erase(o)
    BY Zenon, <2>4 DEF write_log, erase, At, Goto, Ended, InCommit, Inv, TypeOK
  <2>5. CASE install_trans(o)
    BY Zenon, <2>5 DEF install_trans, At, Goto, Ended, InCommit, Inv, TypeOK
  <2>6. CASE finish(o)
    BY Zenon, <2>6 DEF finish, At, GotoAndWakeup, Ended, InCommit, Inv, TypeOK
  <2> QED BY Zenon, <2>1, <2>2, <2>3, <2>4, <2>5, <2>6 DEF OpStep
<1> QED BY Zenon, <1>1, <1>2, PendingKept

\* end_op() makes the operation pending, if it wrote anything.
LEMMA EndOpPends ==
  ASSUME Inv, NEW o \in Ops, end_op(o)
  PROVE  /\ Durable' = Durable /\ o \notin Pending \cup Durable
         /\ Pending' = Pending \/ Pending' = Pending \cup {o}
<1> USE ThreadFacts
<1>1. pc[o] = "run" /\ wrote' = wrote
  BY Zenon DEF end_op, At
<1>2. Durable' = Durable /\ o \notin Durable
  BY Zenon, <1>1, EndOpStep, Runner
<1>3. pc[o] \notin Ended
  BY Zenon, <1>1 DEF Ended, InCommit
<1>4. \A q \in Ops \ {o} : pc'[q] \in Ended <=> pc[q] \in Ended
  BY DEF end_op, Goto, GotoAndWakeup, Ended, InCommit, Inv, TypeOK
<1>5. pc'[o] \in Ended
  BY Zenon DEF end_op, Goto, GotoAndWakeup, Ended, InCommit, Inv, TypeOK
<1> QED BY Zenon, <1>1, <1>2, <1>3, <1>4, <1>5 DEF Pending

\* write_head() in a commit leaves nothing pending.
LEMMA WriteHeadCommits ==
  ASSUME Inv, NEW o \in Ops, write_head(o)
  PROVE  Durable' = Durable \cup Pending /\ Pending' = {}
<1> USE ThreadFacts
<1>1. Durable' = Durable \cup Pending
  BY Zenon, WriteHeadStep
<1>2. wrote' = wrote /\ \A q \in Ops : pc'[q] \in Ended <=> pc[q] \in Ended
  BY Zenon DEF write_head, At, Goto, Ended, InCommit, Inv, TypeOK
<1> QED BY Zenon, <1>1, <1>2 DEF Pending

\* Every step of the log is a step of the atomic disk or leaves it unchanged.
LEMMA AtomicStep ==
  ASSUME Inv, [Next]_vars
  PROVE  [AtomicGroups!Next]_<<Pending, Durable>>
<1> USE ThreadFacts
<1>1. ASSUME NEW o \in Ops, OpStep(o) PROVE [AtomicGroups!Next]_<<Pending, Durable>>
  <2>1. CASE end_op(o)
    BY Zenon, <2>1, EndOpPends DEF AtomicGroups!Next, AtomicGroups!EndOp
  <2>2. CASE write_head(o)
    BY Zenon, <2>2, WriteHeadCommits DEF AtomicGroups!Next, AtomicGroups!Commit
  <2> QED BY Zenon, <1>1, <2>1, <2>2, QuietStep
<1>2. CASE BootStep
  <2>1. Durable' = Durable
    BY Zenon, <1>2, ReadHeadStep, InstallRound, InstallEnd, EraseStep DEF BootStep
  <2>2. wrote' = wrote /\ \A q \in Ops : pc'[q] = pc[q]
    BY Zenon, <1>2 DEF BootStep, read_head, install_trans, erase, Goto, Inv, TypeOK
  <2> QED BY Zenon, <2>1, <2>2, PendingKept
<1>3. CASE Crash
  BY Zenon, <1>3, CrashStep DEF AtomicGroups!Next, AtomicGroups!Crash
<1>4. CASE \E b \in Blocks : Recycle(b)
  <2>1. Durable' = Durable /\ wrote' = wrote /\ pc' = pc
    BY Zenon, <1>4, RecycleStep DEF Recycle
  <2> QED BY Zenon, <2>1, PendingKept
<1>5. CASE UNCHANGED vars
  <2>1. Durable' = Durable /\ wrote' = wrote /\ pc' = pc
    BY Zenon, <1>5, StutterKept DEF vars
  <2> QED BY Zenon, <2>1, PendingKept
<1> QED BY Zenon, <1>1, <1>2, <1>3, <1>4, <1>5 DEF Next, Idle

\* The redo log implements the atomic disk of module AtomicDisk: write_head()
\* makes all ended operations durable in one step, a crash forgets only what
\* is pending, and no other step of log.c, bio.c or the recovery shows.
THEOREM LogImplementsAtomicDisk == Spec => LogIsAtomic
<1>1. Init => Inv /\ AtomicGroups!Init
  BY Zenon, InitInv DEF AtomicGroups!Init
<1>2. Inv /\ [Next]_vars => Inv' /\ [AtomicGroups!Next]_<<Pending, Durable>>
  BY Zenon, NextInv, AtomicStep
<1> QED BY <1>1, <1>2, PTL DEF Spec, LogIsAtomic, AtomicGroups!Spec, AtomicGroups!vars
=============================================================================
