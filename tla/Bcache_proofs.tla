---------------------------- MODULE Bcache_proofs ----------------------------
(***************************************************************************)
(* The buffer cache over the disk driver, for any number of processes,     *)
(* blocks, buffers and descriptors: whoever has a buffer locked sees the   *)
(* latest contents, no sleeper is forgotten, no descriptor is lost, and    *)
(* no check of bio.c and virtio_disk.c fails.                              *)
(***************************************************************************)
EXTENDS Bcache, TLAPS

Places == {"idle", "acquiresleep", "asleep", "brelse", "bread", "use",
           "rw", "rw_sleep", "rw_wait", "rw_done", "rw_ret"}
Transfer == {"rw", "rw_sleep", "rw_wait", "rw_done", "rw_ret"}
Holding == Transfer \cup {"bread", "use"}
Content == {"old", "new"}

TypeOK ==
  /\ blockno \in [Bufs -> Blocks \cup {NoBlock}] /\ data \in [Bufs -> Content]
  /\ onDisk \in [Bufs -> BOOLEAN] /\ valid \in [Bufs -> BOOLEAN]
  /\ refcnt \in [Bufs -> Int] /\ holder \in [Bufs -> Procs \cup {NoProc}]
  /\ lru \in Seq(Bufs) /\ logged \in SUBSET Blocks /\ store \in [Blocks -> Content]
  /\ free \in SUBSET Desc /\ next \in [Desc -> Desc \cup {NoDesc}] /\ DOMAIN info = Desc
  /\ avail \in Seq(Desc) /\ used \in Seq(Desc) /\ inflight \in SUBSET Desc
  /\ handler \in BOOLEAN /\ irq \in BOOLEAN
  /\ pc \in [Procs -> Places] /\ buf \in [Procs -> Bufs \cup {NoBuf}]
  /\ writing \in [Procs -> BOOLEAN] /\ idx \in [Procs -> Desc \cup {NoDesc}]

(***************************************************************************)
(* The inductive invariant                                                 *)
(***************************************************************************)

\* What the place of a process says about its buffer: who is between the two
\* steps of acquiresleep() and releasesleep() is the holder; a buffer that is
\* written is valid, and one that is read is not.
Uses(p) ==
  /\ pc[p] = "idle" <=> buf[p] = NoBuf
  /\ pc[p] # "idle" => blockno[buf[p]] # NoBlock
  /\ pc[p] \in Transfer => valid[buf[p]] = writing[p]
  /\ pc[p] = "use" => valid[buf[p]]
  /\ pc[p] = "asleep" => holder[buf[p]] # NoProc
  /\ pc[p] \in {"rw_wait", "rw_done"} <=> idx[p] # NoDesc

InvUse == \A p \in Procs : Uses(p)

InvHolder ==
  \A p \in Procs, b \in Bufs : holder[b] = p <=> buf[p] = b /\ pc[p] \in Holding

\* A block has one buffer.
InvUnique ==
  \A b, c \in Bufs : blockno[b] = blockno[c] /\ blockno[b] # NoBlock => b = c

Users(b) == {p \in Procs : buf[p] = b}

\* refcnt counts the processes that use a buffer, and its pin.
InvCount ==
  \A b \in Bufs :
    /\ IsFiniteSet(Users(b))
    /\ refcnt[b] = Cardinality(Users(b)) + (IF blockno[b] \in logged THEN 1 ELSE 0)

\* The request of p is done.
Done(p) == pc[p] = "rw_ret" \/ (idx[p] # NoDesc /\ info[idx[p]].status = 0)

\* Where the current contents of a block are: in its buffer if that is valid,
\* and on the disk unless the block is in the log.
InvData ==
  /\ \A b \in Bufs : valid[b] => data[b] = "new"
  /\ \A n \in Blocks \ logged : store[n] = "new"
  /\ \A n \in logged : \E b \in Bufs : blockno[b] = n /\ valid[b]
  /\ \A p \in Procs : Done(p) => data[buf[p]] = "new" /\ store[blockno[buf[p]]] = "new"

NoRepeats(s) == \A j, k \in 1 .. Len(s) : s[j] = s[k] => j = k
Pending == Range(avail) \cup inflight \cup Range(used)

\* A request is in one of the rings or with the device, once, and belongs to a
\* process that waits for it;
InvRing ==
  /\ NoRepeats(avail) /\ NoRepeats(used)
  /\ Range(avail) \cap inflight = {} /\ Range(avail) \cap Range(used) = {}
  /\ inflight \cap Range(used) = {}
  /\ \A i \in Pending : \E p \in Procs : idx[p] = i
  /\ used # <<>> => irq \/ handler

\* b->disk says whether the interrupt has still to report it.
Asks(p) ==
  idx[p] # NoDesc =>
    /\ onDisk[buf[p]] <=> idx[p] \in Pending
    /\ pc[p] = "rw_wait" => onDisk[buf[p]]
    /\ info[idx[p]] = [b |-> buf[p], write |-> writing[p], sector |-> blockno[buf[p]],
                       status |-> IF idx[p] \in Range(avail) \cup inflight THEN 255 ELSE 0]

InvRequest == \A p \in Procs : Asks(p)

\* The chain of a request has three descriptors.
Chained(i) ==
  /\ i \in Desc \ free /\ next[i] \in Desc \ free /\ next[next[i]] \in Desc \ free
  /\ next[next[next[i]]] = NoDesc

InvDesc ==
  /\ \A p \in Procs : idx[p] # NoDesc => Chained(idx[p])
  /\ DescriptorsExact
  /\ \A p \in Procs : pc[p] = "rw_sleep" => Cardinality(free) < 3

Core ==
  /\ TypeOK /\ ~panic
  /\ InvUse /\ InvHolder /\ InvUnique /\ InvData
  /\ InvRing /\ InvRequest /\ InvDesc

Inv == Core /\ InvCount
-----------------------------------------------------------------------------
(***************************************************************************)
(* Sequences                                                               *)
(***************************************************************************)

\* The reader of a ring takes its first entry,
LEMMA TakeFirst ==
  ASSUME NEW S, NEW s \in Seq(S), s # <<>>, NoRepeats(s)
  PROVE  /\ Head(s) \in Range(s) /\ Head(s) \in S /\ Tail(s) \in Seq(S)
         /\ NoRepeats(Tail(s)) /\ Range(Tail(s)) = Range(s) \ {Head(s)}
<1>1. Len(s) \in Nat \ {0} /\ Head(s) = s[1] /\ DOMAIN s = 1 .. Len(s) /\ Head(s) \in S
  OBVIOUS
<1>2. Tail(s) \in Seq(S) /\ Len(Tail(s)) = Len(s) - 1
      /\ DOMAIN Tail(s) = 1 .. Len(s) - 1
      /\ \A k \in 1 .. Len(s) - 1 : Tail(s)[k] = s[k + 1]
  BY <1>1
<1>3. Head(s) \in Range(s)
  BY <1>1 DEF Range
<1>4. NoRepeats(Tail(s))
  BY <1>1, <1>2 DEF NoRepeats
<1>5. ASSUME NEW x \in Range(Tail(s)) PROVE x \in Range(s) \ {Head(s)}
  <2>1. PICK k \in 1 .. Len(s) - 1 : x = s[k + 1]
    BY <1>2, <1>5 DEF Range
  <2>2. k + 1 \in 1 .. Len(s) /\ 1 \in 1 .. Len(s) /\ k + 1 # 1
    BY <1>1
  <2> QED BY Zenon, <1>1, <2>1, <2>2 DEF Range, NoRepeats
<1>6. ASSUME NEW x \in Range(s) \ {Head(s)} PROVE x \in Range(Tail(s))
  <2>1. PICK k \in 1 .. Len(s) : x = s[k]
    BY Zenon, <1>1 DEF Range
  <2>2. k # 1
    BY Zenon, <1>1, <2>1
  <2>3. k - 1 \in 1 .. Len(s) - 1 /\ (k - 1) + 1 = k
    BY <1>1, <2>2
  <2>4. Tail(s)[k - 1] = x
    BY <1>2, <2>1, <2>3
  <2> QED BY Zenon, <1>2, <2>3, <2>4 DEF Range
<1> QED BY Zenon, <1>1, <1>2, <1>3, <1>4, <1>5, <1>6

\* and its writer adds one at the end.
LEMMA AddLast ==
  ASSUME NEW S, NEW s \in Seq(S), NEW e \in S, e \notin Range(s), NoRepeats(s)
  PROVE  /\ Append(s, e) \in Seq(S) /\ Append(s, e) # <<>>
         /\ NoRepeats(Append(s, e)) /\ Range(Append(s, e)) = Range(s) \cup {e}
<1>1. Len(s) \in Nat /\ DOMAIN s = 1 .. Len(s)
  OBVIOUS
<1> DEFINE t == Append(s, e)
<1>2. /\ t \in Seq(S) /\ Len(t) = Len(s) + 1 /\ DOMAIN t = 1 .. Len(s) + 1
      /\ \A k \in 1 .. Len(s) : t[k] = s[k]
      /\ t[Len(s) + 1] = e
  BY <1>1
<1>3. t # <<>>
  BY <1>1, <1>2
<1> HIDE DEF t
<1>4. \A k \in 1 .. Len(s) : s[k] \in Range(s) /\ s[k] # e
  BY Zenon, <1>1 DEF Range
<1>5. \A k \in 1 .. Len(s) + 1 : k \in 1 .. Len(s) \/ k = Len(s) + 1
  BY <1>1
<1>6. \A k \in 1 .. Len(s) : k \in 1 .. Len(s) + 1
  BY <1>1
<1>7. Len(s) + 1 \in 1 .. Len(s) + 1
  BY <1>1
<1>8. NoRepeats(t)
  BY Zenon, <1>2, <1>4, <1>5 DEF NoRepeats
<1>9. Range(t) = Range(s) \cup {e}
  BY Zenon, <1>1, <1>2, <1>5, <1>6, <1>7 DEF Range
<1> QED BY Zenon, <1>2, <1>3, <1>8, <1>9 DEF t

\* brelse() moves a buffer to the front of the list of buffers.
LEMMA ToFront ==
  ASSUME NEW S, NEW s \in Seq(S), NEW e \in S, NEW k \in 1 .. Len(s)
  PROVE  <<e>> \o SubSeq(s, 1, k - 1) \o SubSeq(s, k + 1, Len(s)) \in Seq(S)
<1>1. SubSeq(s, 1, k - 1) \in Seq(S) /\ SubSeq(s, k + 1, Len(s)) \in Seq(S)
  OBVIOUS
<1>2. <<e>> \in Seq(S)
  OBVIOUS
<1> QED BY <1>1, <1>2

-----------------------------------------------------------------------------
(***************************************************************************)
(* Facts                                                                   *)
(***************************************************************************)

\* The special values differ from the others.
LEMMA Constants ==
  /\ NoBuf \notin Bufs /\ NoBlock \notin Blocks /\ NoProc \notin Procs
  /\ NoDesc \notin Desc /\ Desc \subseteq Nat
BY VirtioAssumption, BcacheAssumption DEF NoDesc, Desc

\* A process that is not idle has a buffer, which belongs to a block.
LEMMA HasBuf ==
  ASSUME TypeOK, InvUse, NEW p \in Procs, pc[p] # "idle"
  PROVE  buf[p] \in Bufs /\ blockno[buf[p]] \in Blocks
<1>1. buf[p] # NoBuf /\ blockno[buf[p]] # NoBlock
  BY Zenon DEF InvUse, Uses
<1>2. buf[p] \in Bufs
  BY Zenon, <1>1 DEF TypeOK
<1>3. blockno[buf[p]] \in Blocks \cup {NoBlock}
  BY Zenon, <1>2 DEF TypeOK
<1> QED BY Zenon, <1>1, <1>2, <1>3

\* A buffer is locked by one process,
LEMMA OneHolder ==
  ASSUME TypeOK, InvUse, InvHolder, NEW p \in Procs, NEW q \in Procs,
         pc[p] \in Holding, pc[q] \in Holding, buf[p] = buf[q]
  PROVE  p = q
<1>1. pc[p] # "idle"
  BY Zenon DEF Holding, Transfer
<1>2. buf[p] \in Bufs
  BY Zenon, <1>1, HasBuf
<1> QED BY Zenon, <1>2 DEF InvHolder

\* and so is a block.
LEMMA OneOwner ==
  ASSUME TypeOK, InvUse, InvHolder, InvUnique, NEW p \in Procs, NEW q \in Procs,
         pc[p] \in Holding, pc[q] \in Holding, blockno[buf[p]] = blockno[buf[q]]
  PROVE  p = q
<1>1. pc[p] # "idle" /\ pc[q] # "idle"
  BY Zenon DEF Holding, Transfer
<1>2. buf[p] \in Bufs /\ buf[q] \in Bufs /\ blockno[buf[p]] \in Blocks
  BY Zenon, <1>1, HasBuf
<1>3. buf[p] = buf[q]
  BY Zenon, <1>2, Constants DEF InvUnique
<1> QED BY Zenon, <1>3, OneHolder

\* A descriptor is the first of one request.
LEMMA OneRequest ==
  ASSUME DescriptorsExact, NEW p \in Procs, NEW q \in Procs, idx[p] = idx[q], idx[p] # NoDesc
  PROVE  p = q
<1>1. idx[p] \in Chain(idx[p])
  BY Zenon DEF Chain
<1> QED BY Zenon, <1>1 DEF DescriptorsExact

\* A process with a request under way has its buffer locked.
LEMMA BusyHolds ==
  ASSUME InvUse, NEW p \in Procs, idx[p] # NoDesc
  PROVE  pc[p] \in {"rw_wait", "rw_done"} /\ pc[p] \in Transfer /\ pc[p] \in Holding /\ pc[p] # "idle"
BY Zenon DEF InvUse, Uses, Transfer, Holding
-----------------------------------------------------------------------------
(***************************************************************************)
(* What a step has to leave alone for a part of the invariant to be kept   *)
(***************************************************************************)

\* What is said of a process stays true when its buffer is left alone.
LEMMA UsesKept ==
  ASSUME NEW q \in Procs, Uses(q),
         buf'[q] = buf[q], pc'[q] = pc[q], idx'[q] = idx[q], writing'[q] = writing[q],
         pc[q] # "idle" => blockno'[buf[q]] = blockno[buf[q]],
         pc[q] \in Holding => valid'[buf[q]] = valid[buf[q]],
         pc[q] = "asleep" => holder'[buf[q]] # NoProc
  PROVE  Uses(q)'
BY Zenon DEF Uses, Transfer, Holding

\* Who holds a buffer does not change.
LEMMA HolderKept ==
  ASSUME InvHolder, UNCHANGED <<holder, buf>>,
         \A q \in Procs : pc'[q] \in Holding <=> pc[q] \in Holding
  PROVE  InvHolder'
BY Zenon DEF InvHolder

\* A block still has one buffer.
LEMMA UniqueKept ==
  ASSUME InvUnique, UNCHANGED blockno
  PROVE  InvUnique'
BY Zenon DEF InvUnique

\* The contents do not change, and no further request is done.
LEMMA DataKept ==
  ASSUME InvData, UNCHANGED <<valid, data, store, logged, blockno>>,
         \A q \in Procs : Done(q)' => Done(q) /\ buf'[q] = buf[q]
  PROVE  InvData'
<1>1. ASSUME NEW q \in Procs, Done(q)'
      PROVE  data'[buf'[q]] = "new" /\ store'[blockno'[buf'[q]]] = "new"
  <2>1. Done(q) /\ buf'[q] = buf[q]
    BY Zenon, <1>1
  <2>2. data[buf[q]] = "new" /\ store[blockno[buf[q]]] = "new"
    BY Zenon, <2>1 DEF InvData
  <2> QED BY <2>1, <2>2
<1> QED BY Zenon, <1>1 DEF InvData

\* The rings and the device are left alone.
LEMMA RingKept ==
  ASSUME InvRing, UNCHANGED <<avail, used, inflight, idx, irq, handler>>
  PROVE  InvRing'
BY Zenon DEF InvRing, Pending

\* So are the requests.
LEMMA RequestKept ==
  ASSUME InvRequest, UNCHANGED <<avail, used, inflight, idx, info, onDisk>>,
         \A q \in Procs : idx[q] # NoDesc =>
           /\ buf'[q] = buf[q] /\ writing'[q] = writing[q]
           /\ blockno'[buf[q]] = blockno[buf[q]]
           /\ pc'[q] = "rw_wait" => pc[q] = "rw_wait"
  PROVE  InvRequest'
<1>1. Pending' = Pending
  BY Zenon DEF Pending
<1>2. ASSUME NEW q \in Procs, idx[q] # NoDesc  PROVE  Asks(q)'
  <2>1. Asks(q)
    BY Zenon DEF InvRequest
  <2>2. /\ buf'[q] = buf[q] /\ writing'[q] = writing[q]
        /\ blockno'[buf'[q]] = blockno[buf[q]] /\ pc'[q] = "rw_wait" => pc[q] = "rw_wait"
    BY Zenon, <1>2
  <2> QED BY <1>1, <1>2, <2>1, <2>2 DEF Asks
<1> QED BY Zenon, <1>2 DEF InvRequest, Asks

\* So are the descriptors.
LEMMA DescKept ==
  ASSUME InvDesc, UNCHANGED <<free, next, idx>>,
         \A q \in Procs : pc'[q] = "rw_sleep" => pc[q] = "rw_sleep"
  PROVE  InvDesc'
<1>1. \A i : Chain(i)' = Chain(i)
  BY Zenon DEF Chain
<1>2. DescriptorsExact'
  BY Zenon, <1>1 DEF InvDesc, DescriptorsExact
<1> QED BY Zenon, <1>2 DEF InvDesc, Chained

\* A step that only moves processes, and takes none of them to a sleep of the
\* driver or to its return, keeps all but what is said of the processes.
LEMMA Quiet ==
  ASSUME Core,
         UNCHANGED <<blockno, data, onDisk, descVars, avail, used, handler, deviceVars, buf, idx,
                     valid, logged>>,
         \A q \in Procs :
           /\ \A place \in {"rw_ret", "rw_wait", "rw_sleep"} : pc'[q] = place => pc[q] = place
           /\ idx[q] # NoDesc => writing'[q] = writing[q]
  PROVE  InvUnique' /\ InvData' /\ InvRing' /\ InvRequest' /\ InvDesc'
<1> USE DEF descVars, deviceVars
<1>1. InvUnique'
  BY Zenon, UniqueKept DEF Core
<1>2. \A q \in Procs : Done(q)' => Done(q) /\ buf'[q] = buf[q]
  BY Zenon DEF Done
<1>3. InvData'
  BY Zenon, <1>2, DataKept DEF Core
<1>4. InvRing'
  BY Zenon, RingKept DEF Core
<1>5. InvRequest'
  BY Zenon, RequestKept DEF Core
<1>6. InvDesc'
  BY Zenon, DescKept DEF Core
<1> QED BY Zenon, <1>1, <1>3, <1>4, <1>5, <1>6

\* A process is moved, and no other.
LEMMA Moves ==
  ASSUME TypeOK, NEW p \in Procs, NEW place, Goto(p, place)
  PROVE  pc'[p] = place /\ \A q \in Procs \ {p} : pc'[q] = pc[q]
BY Zenon DEF TypeOK, Goto

\* wakeup() moves processes from place to place.
LEMMA Wakes ==
  ASSUME TypeOK, NEW who, NEW from, NEW to \in Places
  PROVE  /\ Wakeup(who, from, to) \in [Procs -> Places]
         /\ \A p \in Procs, place \in Places :
              [Wakeup(who, from, to) EXCEPT ![p] = place] \in [Procs -> Places]
<1>1. pc \in [Procs -> Places]
  BY Zenon DEF TypeOK
<1>2. Wakeup(who, from, to) \in [Procs -> Places]
  BY Zenon, <1>1 DEF Wakeup
<1> HIDE DEF Wakeup
<1> QED BY Zenon, <1>2

\* A field of a process is set, and no other.
LEMMA Sets ==
  ASSUME NEW S, NEW T, NEW f \in [S -> T], NEW g, NEW x \in S, NEW v, g = [f EXCEPT ![x] = v]
  PROVE  g[x] = v /\ (\A y \in S \ {x} : g[y] = f[y]) /\ (v \in T => g \in [S -> T])
BY Zenon
-----------------------------------------------------------------------------
(***************************************************************************)
(* The cache                                                               *)
(***************************************************************************)

\* binit() and virtio_disk_init() leave an empty cache and a free ring.
LEMMA InitInv == Init => Core
<1> SUFFICES ASSUME Init PROVE Core
  OBVIOUS
<1> USE DEF Init, virtio_disk_init
<1>1. TypeOK
  <2>1. lru \in Seq(Bufs)
    BY Zenon, BcacheAssumption
  <2>2. avail \in Seq(Desc) /\ used \in Seq(Desc)
    OBVIOUS
  <2>3. refcnt \in [Bufs -> Int]
    OBVIOUS
  <2>4. DOMAIN info = Desc /\ next \in [Desc -> Desc \cup {NoDesc}] /\ free \in SUBSET Desc
    BY Zenon
  <2> QED BY Zenon, <2>1, <2>2, <2>3, <2>4 DEF TypeOK, Content, Places
<1>2. \A p \in Procs : pc[p] = "idle" /\ buf[p] = NoBuf /\ idx[p] = NoDesc
  BY Zenon
<1>3. InvUse
  BY Zenon, <1>2 DEF InvUse, Uses, Transfer
<1>4. InvHolder
  <2>1. \A p \in Procs, b \in Bufs : holder[b] = NoProc /\ p # NoProc
    BY Zenon, Constants
  <2> QED BY Zenon, <1>2, <2>1, Constants DEF InvHolder
<1>5. InvUnique
  BY Zenon DEF InvUnique
<1>7. InvData
  BY Zenon, <1>2 DEF InvData, Done
<1>8. Range(avail) = {} /\ Range(used) = {} /\ Pending = {}
  BY DEF Range, Pending
<1>9. InvRing
  <2>1. NoRepeats(avail) /\ NoRepeats(used)
    BY DEF NoRepeats
  <2> QED BY Zenon, <1>8, <2>1 DEF InvRing
<1>10. InvRequest
  BY Zenon, <1>2 DEF InvRequest, Asks
<1>11. InvDesc
  <2>1. UNION {Chain(idx[p]) : p \in {q \in Procs : idx[q] # NoDesc}} = {}
    BY Zenon, <1>2
  <2>2. DescriptorsExact
    BY Zenon, <1>2, <2>1 DEF DescriptorsExact
  <2> QED BY Zenon, <1>2, <2>2 DEF InvDesc
<1> QED BY Zenon, <1>1, <1>3, <1>4, <1>5, <1>7, <1>9, <1>10, <1>11 DEF Core

\* A killed process tries again to lock its buffer.
LEMMA KilledStep ==
  ASSUME Core, NEW p \in Procs, Killed(p)
  PROVE  Core'
<1> USE DEF Killed, cacheVars, descVars, deviceVars
<1>1. TypeOK /\ InvUse /\ InvHolder
  BY Zenon DEF Core
<1>2. pc[p] = "asleep" /\ pc'[p] = "acquiresleep" /\ \A q \in Procs \ {p} : pc'[q] = pc[q]
  BY Zenon, <1>1, Moves
<1>3. TypeOK'
  BY Zenon, <1>1 DEF TypeOK, Goto, Places
<1>4. InvUse'
  <2>1. Uses(p)'
    BY Zenon, <1>1, <1>2 DEF InvUse, Uses, Transfer
  <2>2. \A q \in Procs \ {p} : Uses(q)'
    BY Zenon, <1>1, <1>2, UsesKept DEF InvUse, Uses
  <2> QED BY Zenon, <2>1, <2>2 DEF InvUse
<1>5. InvHolder'
  BY Zenon, <1>1, <1>2, HolderKept DEF Holding, Transfer
<1>6. \A q \in Procs, place \in {"rw_ret", "rw_wait", "rw_sleep"} : pc'[q] = place => pc[q] = place
  BY Zenon, <1>2
<1>7. InvUnique' /\ InvData' /\ InvRing' /\ InvRequest' /\ InvDesc'
  BY Zenon, <1>6, Quiet
<1> QED BY Zenon, <1>3, <1>4, <1>5, <1>7 DEF Core

\* acquiresleep() locks a buffer that nobody has, or goes to sleep.
LEMMA AcquiresleepStep ==
  ASSUME Core, NEW p \in Procs, acquiresleep(p)
  PROVE  Core'
<1> USE DEF acquiresleep, descVars, deviceVars
<1>1. TypeOK /\ InvUse /\ InvHolder
  BY Zenon DEF Core
<1>2. pc[p] = "acquiresleep" /\ \A q \in Procs \ {p} : pc'[q] = pc[q]
  BY Zenon, <1>1, Moves
<1>3. buf[p] \in Bufs /\ blockno[buf[p]] \in Blocks
  BY Zenon, <1>1, <1>2, HasBuf
<1>4. \/ holder[buf[p]] # NoProc /\ pc'[p] = "asleep" /\ holder' = holder
      \/ /\ holder[buf[p]] = NoProc /\ pc'[p] = "bread" /\ holder'[buf[p]] = p
         /\ \A b \in Bufs \ {buf[p]} : holder'[b] = holder[b]
  <2>1. CASE holder[buf[p]] # NoProc
    BY Zenon, <1>1, <2>1, Moves
  <2>2. CASE holder[buf[p]] = NoProc
    <3>1. Goto(p, "bread") /\ holder' = [holder EXCEPT ![buf[p]] = p]
      BY Zenon, <2>2
    <3>2. holder'[buf[p]] = p /\ \A b \in Bufs \ {buf[p]} : holder'[b] = holder[b]
      BY <1>1, <1>3, <3>1 DEF TypeOK
    <3> QED BY Zenon, <1>1, <2>2, <3>1, <3>2, Moves
  <2> QED BY Zenon, <2>1, <2>2
<1>5. TypeOK'
  BY Zenon, <1>1 DEF TypeOK, Goto, Places
<1>6. InvUse'
  <2>1. Uses(p)'
    BY Zenon, <1>1, <1>2, <1>4 DEF InvUse, Uses, Transfer
  <2>2. ASSUME NEW q \in Procs \ {p} PROVE Uses(q)'
    <3>1. ASSUME pc[q] = "asleep" PROVE holder'[buf[q]] # NoProc
      <4>1. holder[buf[q]] # NoProc /\ buf[q] \in Bufs
        BY Zenon, <1>1, <3>1, HasBuf DEF InvUse, Uses
      <4> QED BY Zenon, <1>4, <4>1, Constants
    <3> QED BY Zenon, <1>1, <1>2, <3>1, UsesKept DEF InvUse
  <2> QED BY Zenon, <2>1, <2>2 DEF InvUse
<1>7. InvHolder'
  <2>1. ASSUME NEW q \in Procs, NEW b \in Bufs
        PROVE  holder'[b] = q <=> buf'[q] = b /\ pc'[q] \in Holding
    <3>1. holder[b] = q <=> buf[q] = b /\ pc[q] \in Holding
      BY Zenon, <1>1 DEF InvHolder
    <3>2. pc[p] \notin Holding /\ "asleep" \notin Holding /\ "bread" \in Holding
      BY Zenon, <1>2 DEF Holding, Transfer
    <3>3. CASE pc'[p] = "asleep"
      BY Zenon, <1>2, <1>4, <3>1, <3>2, <3>3
    <3>4. CASE pc'[p] = "bread"
      BY Zenon, <1>2, <1>4, <3>1, <3>2, <3>4, Constants
    <3> QED BY Zenon, <1>4, <3>3, <3>4
  <2> QED BY Zenon, <2>1 DEF InvHolder
<1>8. \A q \in Procs, place \in {"rw_ret", "rw_wait", "rw_sleep"} : pc'[q] = place => pc[q] = place
  BY Zenon, <1>2, <1>4
<1>9. InvUnique' /\ InvData' /\ InvRing' /\ InvRequest' /\ InvDesc'
  BY Zenon, <1>8, Quiet
<1> QED BY Zenon, <1>5, <1>6, <1>7, <1>9 DEF Core

\* bread() returns a buffer that is valid, and asks the driver for the others.
LEMMA BreadStep ==
  ASSUME Core, NEW p \in Procs, bread(p)
  PROVE  Core'
<1> USE DEF bread, cacheVars, descVars, deviceVars
<1>1. TypeOK /\ InvUse /\ InvHolder
  BY Zenon DEF Core
<1>2. /\ pc[p] = "bread" /\ pc'[p] = (IF valid[buf[p]] THEN "use" ELSE "rw")
      /\ \A q \in Procs \ {p} : pc'[q] = pc[q]
  BY Zenon, <1>1, Moves
<1>3. writing'[p] = FALSE /\ \A q \in Procs \ {p} : writing'[q] = writing[q]
  BY Zenon, <1>1 DEF TypeOK
<1>4. buf[p] \in Bufs
  BY Zenon, <1>1, <1>2, HasBuf
<1>5. valid[buf[p]] \in BOOLEAN
  BY Zenon, <1>1, <1>4 DEF TypeOK
<1>6. TypeOK'
  BY Zenon, <1>1 DEF TypeOK, Goto, Places
<1>7. InvUse'
  <2>1. Uses(p)'
    <3>1. CASE valid[buf[p]]
      BY Zenon, <1>1, <1>2, <3>1 DEF InvUse, Uses, Transfer
    <3>2. CASE ~valid[buf[p]]
      <4>1. pc'[p] = "rw" /\ valid[buf[p]] = FALSE
        BY Zenon, <1>2, <1>5, <3>2
      <4> QED BY Zenon, <1>1, <1>2, <1>3, <4>1 DEF InvUse, Uses
    <3> QED BY Zenon, <3>1, <3>2
  <2>2. \A q \in Procs \ {p} : Uses(q)'
    BY Zenon, <1>1, <1>2, <1>3, UsesKept DEF InvUse, Uses
  <2> QED BY Zenon, <2>1, <2>2 DEF InvUse
<1>8. pc[p] \in Holding /\ pc'[p] \in Holding
  BY Zenon, <1>2 DEF Holding, Transfer
<1>9. InvHolder'
  BY Zenon, <1>1, <1>2, <1>8, HolderKept
<1>10. \A q \in Procs, place \in {"rw_ret", "rw_wait", "rw_sleep"} : pc'[q] = place => pc[q] = place
  BY Zenon, <1>2
<1>11. \A q \in Procs : idx[q] # NoDesc => writing'[q] = writing[q]
  BY Zenon, <1>1, <1>2, <1>3, BusyHolds
<1>12. InvUnique' /\ InvData' /\ InvRing' /\ InvRequest' /\ InvDesc'
  BY Zenon, <1>10, <1>11, Quiet
<1> QED BY Zenon, <1>6, <1>7, <1>9, <1>12 DEF Core

\* bwrite() finds the caller's lock held.
LEMMA BwriteStep ==
  ASSUME Core, NEW p \in Procs, bwrite(p)
  PROVE  Core'
<1> USE DEF bwrite, cacheVars, descVars, deviceVars
<1>1. TypeOK /\ InvUse /\ InvHolder /\ ~panic
  BY Zenon DEF Core
<1>2. pc[p] = "use" /\ pc'[p] = "rw" /\ \A q \in Procs \ {p} : pc'[q] = pc[q]
  BY Zenon, <1>1, Moves
<1>3. writing'[p] = TRUE /\ \A q \in Procs \ {p} : writing'[q] = writing[q]
  BY Zenon, <1>1 DEF TypeOK
<1>4. buf[p] \in Bufs
  BY Zenon, <1>1, <1>2, HasBuf
<1>5. pc[p] \in Holding /\ pc'[p] \in Holding
  BY Zenon, <1>2 DEF Holding, Transfer
<1>6. ~panic'
  <2>1. holder[buf[p]] = p
    BY Zenon, <1>1, <1>4, <1>5 DEF InvHolder
  <2> QED BY Zenon, <1>1, <2>1
<1>7. TypeOK'
  BY Zenon, <1>1 DEF TypeOK, Goto, Places
<1>8. InvUse'
  <2>1. Uses(p)'
    <3>1. valid[buf[p]] = TRUE
      <4>1. valid[buf[p]] /\ valid[buf[p]] \in BOOLEAN
        BY Zenon, <1>1, <1>2, <1>4 DEF TypeOK, InvUse, Uses
      <4> QED BY Zenon, <4>1
    <3> QED BY Zenon, <1>1, <1>2, <1>3, <3>1 DEF InvUse, Uses
  <2>2. \A q \in Procs \ {p} : Uses(q)'
    BY Zenon, <1>1, <1>2, <1>3, UsesKept DEF InvUse, Uses
  <2> QED BY Zenon, <2>1, <2>2 DEF InvUse
<1>9. InvHolder'
  BY Zenon, <1>1, <1>2, <1>5, HolderKept
<1>10. \A q \in Procs, place \in {"rw_ret", "rw_wait", "rw_sleep"} : pc'[q] = place => pc[q] = place
  BY Zenon, <1>2
<1>11. \A q \in Procs : idx[q] # NoDesc => writing'[q] = writing[q]
  BY Zenon, <1>1, <1>2, <1>3, BusyHolds
<1>12. InvUnique' /\ InvData' /\ InvRing' /\ InvRequest' /\ InvDesc'
  BY Zenon, <1>10, <1>11, Quiet
<1> QED BY Zenon, <1>6, <1>7, <1>8, <1>9, <1>12 DEF Core

\* releasesleep() gives the buffer up and wakes whoever waits for it.
LEMMA BrelseUnlockStep ==
  ASSUME Core, NEW p \in Procs, BrelseUnlock(p)
  PROVE  Core'
<1> USE DEF BrelseUnlock, descVars, deviceVars
<1>1. TypeOK /\ InvUse /\ InvHolder /\ ~panic
  BY Zenon DEF Core
<1>2. pc[p] = "use"
  BY Zenon
<1>3. buf[p] \in Bufs
  BY Zenon, <1>1, <1>2, HasBuf
<1>4. pc[p] \in Holding /\ holder[buf[p]] = p
  BY Zenon, <1>1, <1>2, <1>3 DEF InvHolder, Holding
<1>5. ~panic'
  BY Zenon, <1>1, <1>4
<1>6. /\ pc'[p] = "brelse"
      /\ \A q \in Procs \ {p} :
           \/ buf[q] = buf[p] /\ pc[q] = "asleep" /\ pc'[q] = "acquiresleep"
           \/ ~(buf[q] = buf[p] /\ pc[q] = "asleep") /\ pc'[q] = pc[q]
  BY Zenon DEF Wakeup
<1>7. writing'[p] = FALSE /\ \A q \in Procs \ {p} : writing'[q] = writing[q]
  BY Zenon, <1>1 DEF TypeOK
<1>8. holder'[buf[p]] = NoProc /\ \A b \in Bufs \ {buf[p]} : holder'[b] = holder[b]
  BY <1>1, <1>3 DEF TypeOK
<1>9. TypeOK'
  <2>1. pc' \in [Procs -> Places]
    BY Zenon, <1>1, Wakes DEF Places
  <2>2. holder' \in [Bufs -> Procs \cup {NoProc}]
    BY Zenon, <1>1 DEF TypeOK
  <2> QED BY Zenon, <1>1, <2>1, <2>2 DEF TypeOK
<1>10. InvUse'
  <2>1. Uses(p)'
    BY Zenon, <1>1, <1>2, <1>6 DEF InvUse, Uses, Transfer
  <2>2. ASSUME NEW q \in Procs \ {p}, pc'[q] = pc[q] PROVE Uses(q)'
    <3>1. ASSUME pc[q] = "asleep" PROVE holder'[buf[q]] # NoProc
      <4>1. holder[buf[q]] # NoProc /\ buf[q] \in Bufs
        BY Zenon, <1>1, <3>1, HasBuf DEF InvUse, Uses
      <4>2. buf[q] # buf[p]
        BY Zenon, <1>6, <2>2, <3>1
      <4> QED BY Zenon, <1>8, <4>1, <4>2
    <3> QED BY Zenon, <1>1, <1>7, <2>2, <3>1, UsesKept DEF InvUse
  <2>3. ASSUME NEW q \in Procs \ {p}, pc'[q] # pc[q] PROVE Uses(q)'
    <3>1. pc[q] = "asleep" /\ pc'[q] = "acquiresleep"
      BY Zenon, <1>6, <2>3
    <3> QED BY Zenon, <1>1, <3>1 DEF InvUse, Uses, Transfer
  <2> QED BY Zenon, <2>1, <2>2, <2>3 DEF InvUse
<1>11. InvHolder'
  <2>1. ASSUME NEW q \in Procs, NEW b \in Bufs
        PROVE  holder'[b] = q <=> buf'[q] = b /\ pc'[q] \in Holding
    <3>1. holder[b] = q <=> buf[q] = b /\ pc[q] \in Holding
      BY Zenon, <1>1 DEF InvHolder
    <3>2. pc'[p] \notin Holding /\ \A r \in Procs \ {p} : pc'[r] \in Holding <=> pc[r] \in Holding
      BY Zenon, <1>6 DEF Holding, Transfer
    <3>3. CASE b = buf[p]
      <4>1. holder'[b] # q
        BY Zenon, <1>8, <3>3, Constants
      <4>2. ~(buf'[q] = b /\ pc'[q] \in Holding)
        BY Zenon, <1>4, <3>1, <3>2, <3>3
      <4> QED BY Zenon, <4>1, <4>2
    <3>4. CASE b # buf[p]
      BY Zenon, <1>8, <3>1, <3>2, <3>4
    <3> QED BY Zenon, <3>3, <3>4
  <2> QED BY Zenon, <2>1 DEF InvHolder
<1>12. \A q \in Procs, place \in {"rw_ret", "rw_wait", "rw_sleep"} : pc'[q] = place => pc[q] = place
  BY Zenon, <1>6
<1>13. \A q \in Procs : idx[q] # NoDesc => writing'[q] = writing[q]
  BY Zenon, <1>1, <1>2, <1>7, BusyHolds
<1>14. InvUnique' /\ InvData' /\ InvRing' /\ InvRequest' /\ InvDesc'
  BY Zenon, <1>12, <1>13, Quiet
<1> QED BY Zenon, <1>5, <1>9, <1>10, <1>11, <1>14 DEF Core

\* b->refcnt is a number.
LEMMA CountType ==
  ASSUME NEW f \in [Bufs -> Int], NEW b \in Bufs
  PROVE  [f EXCEPT ![b] = @ + 1] \in [Bufs -> Int] /\ [f EXCEPT ![b] = @ - 1] \in [Bufs -> Int]
<1>1. f[b] \in Int
  BY Zenon
<1>2. f[b] + 1 \in Int /\ f[b] - 1 \in Int
  BY <1>1
<1> QED BY Zenon, <1>2

\* bread() finds the buffer valid when its read has returned.
LEMMA ReadReturned ==
  ASSUME Core, NEW p \in Procs, RwReturned(p), ~writing[p]
  PROVE  Core'
<1> USE DEF RwReturned, descVars, deviceVars
<1>1. TypeOK /\ InvUse /\ InvHolder /\ InvUnique /\ InvData
  BY Zenon DEF Core
<1>2. pc[p] = "rw_ret" /\ pc'[p] = "use" /\ \A q \in Procs \ {p} : pc'[q] = pc[q]
  BY Zenon, <1>1, Moves
<1>3. buf[p] \in Bufs /\ pc[p] \in Holding /\ pc'[p] \in Holding
  BY Zenon, <1>1, <1>2, HasBuf DEF Holding, Transfer
<1>4. /\ valid' = [valid EXCEPT ![buf[p]] = TRUE] /\ UNCHANGED <<refcnt, logged>>
      /\ valid'[buf[p]] = TRUE /\ \A b \in Bufs \ {buf[p]} : valid'[b] = valid[b]
  BY Zenon, <1>1, <1>3 DEF TypeOK
<1>5. TypeOK'
  BY Zenon, <1>1, <1>4 DEF TypeOK, Goto, Places
<1>6. InvUse'
  <2>1. Uses(p)'
    BY Zenon, <1>1, <1>2, <1>4 DEF InvUse, Uses, Transfer
  <2>2. ASSUME NEW q \in Procs \ {p} PROVE Uses(q)'
    <3>1. ASSUME pc[q] \in Holding PROVE valid'[buf[q]] = valid[buf[q]]
      <4>1. buf[q] # buf[p]
        BY Zenon, <1>1, <1>3, <3>1, OneHolder
      <4>2. buf[q] \in Bufs
        BY Zenon, <1>1, <3>1, HasBuf DEF Holding, Transfer
      <4> QED BY Zenon, <1>4, <4>1, <4>2
    <3> QED BY Zenon, <1>1, <1>2, <3>1, UsesKept DEF InvUse, Uses
  <2> QED BY Zenon, <2>1, <2>2 DEF InvUse
<1>7. InvHolder'
  BY Zenon, <1>1, <1>2, <1>3, HolderKept
<1>8. InvUnique'
  BY Zenon, <1>1, <1>4, UniqueKept
<1>9. InvData'
  <2>1. data[buf[p]] = "new"
    BY Zenon, <1>1, <1>2 DEF InvData, Done
  <2>2. \A b \in Bufs : valid'[b] => data'[b] = "new"
    BY Zenon, <1>1, <1>4, <2>1 DEF InvData
  <2>3. \A n \in logged : \E b \in Bufs : blockno[b] = n /\ valid'[b]
    <3>1. \A b \in Bufs : valid[b] => valid'[b]
      BY Zenon, <1>4
    <3> QED BY Zenon, <1>1, <3>1 DEF InvData
  <2>4. ASSUME NEW q \in Procs, Done(q)'
        PROVE  data'[buf'[q]] = "new" /\ store'[blockno'[buf'[q]]] = "new"
    <3>1. Done(q)
      BY Zenon, <1>2, <2>4 DEF Done
    <3> QED BY Zenon, <1>1, <3>1 DEF InvData
  <2> QED BY Zenon, <1>1, <1>4, <2>2, <2>3, <2>4 DEF InvData
<1>10. \A q \in Procs : \A place \in {"rw_wait", "rw_sleep"} : pc'[q] = place => pc[q] = place
  BY Zenon, <1>2
<1>11. InvRing' /\ InvRequest' /\ InvDesc'
  BY Zenon, <1>10, RingKept, RequestKept, DescKept DEF Core
<1> QED BY Zenon, <1>5, <1>6, <1>7, <1>8, <1>9, <1>11 DEF Core

\* A block that has been written where it belongs leaves the log.
LEMMA WriteReturned ==
  ASSUME Core, NEW p \in Procs, RwReturned(p), writing[p]
  PROVE  Core'
<1> USE DEF RwReturned, descVars, deviceVars
<1> DEFINE b == buf[p]
           n == blockno[buf[p]]
<1>1. TypeOK /\ InvUse /\ InvHolder /\ InvUnique /\ InvData
  BY Zenon DEF Core
<1>2. pc[p] = "rw_ret" /\ pc'[p] = "use" /\ \A q \in Procs \ {p} : pc'[q] = pc[q]
  BY Zenon, <1>1, Moves
<1>3. b \in Bufs /\ n \in Blocks /\ pc[p] \in Holding /\ pc'[p] \in Holding
  BY Zenon, <1>1, <1>2, HasBuf DEF Holding, Transfer
<1>4. /\ refcnt' = IF n \in logged THEN [refcnt EXCEPT ![b] = @ - 1] ELSE refcnt
      /\ logged' = logged \ {n} /\ UNCHANGED valid
  BY Zenon
<1>5. TypeOK'
  <2>1. refcnt' \in [Bufs -> Int]
    BY Zenon, <1>1, <1>3, <1>4, CountType DEF TypeOK
  <2>2. pc' \in [Procs -> Places]
    BY Zenon, <1>1 DEF TypeOK, Goto, Places
  <2> QED BY Zenon, <1>1, <1>4, <2>1, <2>2 DEF TypeOK
<1>6. InvUse'
  <2>1. Uses(p)'
    BY Zenon, <1>1, <1>2, <1>4 DEF InvUse, Uses, Transfer
  <2>2. \A q \in Procs \ {p} : Uses(q)'
    BY Zenon, <1>1, <1>2, <1>4, UsesKept DEF InvUse, Uses
  <2> QED BY Zenon, <2>1, <2>2 DEF InvUse
<1>7. InvHolder'
  BY Zenon, <1>1, <1>2, <1>3, HolderKept
<1>8. InvUnique'
  BY Zenon, <1>1 DEF InvUnique
<1>10. InvData'
  <2>1. store[n] = "new"
    BY Zenon, <1>1, <1>2 DEF InvData, Done
  <2>2. ASSUME NEW q \in Procs, Done(q)'
        PROVE  data'[buf'[q]] = "new" /\ store'[blockno'[buf'[q]]] = "new"
    <3>1. Done(q)
      BY Zenon, <1>2, <2>2 DEF Done
    <3> QED BY Zenon, <1>1, <3>1 DEF InvData
  <2>3. \A m \in Blocks \ logged' : store'[m] = "new"
    BY Zenon, <1>1, <1>4, <2>1 DEF InvData
  <2>4. \A m \in logged' : \E c \in Bufs : blockno'[c] = m /\ valid'[c]
    BY Zenon, <1>1, <1>4 DEF InvData
  <2> QED BY Zenon, <1>1, <1>4, <2>2, <2>3, <2>4 DEF InvData
<1>11. \A q \in Procs : \A place \in {"rw_wait", "rw_sleep"} : pc'[q] = place => pc[q] = place
  BY Zenon, <1>2
<1>12. InvRing' /\ InvRequest' /\ InvDesc'
  BY Zenon, <1>11, RingKept, RequestKept, DescKept DEF Core
<1> QED BY Zenon, <1>5, <1>6, <1>7, <1>8, <1>10, <1>12 DEF Core

\* log_write() changes the one buffer of the block, and pins it.
LEMMA LogWriteStep ==
  ASSUME Core, NEW p \in Procs, log_write(p)
  PROVE  Core'
<1> USE DEF log_write, descVars
<1> DEFINE b == buf[p]
           n == blockno[buf[p]]
<1>1. TypeOK /\ InvUse /\ InvHolder /\ InvUnique /\ InvData
  BY Zenon DEF Core
<1>2. pc[p] = "use" /\ pc' = pc /\ pc[p] \in Holding
  BY Zenon DEF Holding
<1>3. b \in Bufs /\ n \in Blocks
  BY Zenon, <1>1, <1>2, HasBuf
<1>4. /\ refcnt' = IF n \in logged THEN refcnt ELSE [refcnt EXCEPT ![b] = @ + 1]
      /\ logged' = logged \cup {n}
      /\ store'[n] = "old" /\ \A m \in Blocks \ {n} : store'[m] = store[m]
  BY Zenon, <1>1, <1>3 DEF TypeOK
<1>5. data'[b] = "new" /\ \A c \in Bufs \ {b} : blockno[c] # n /\ data'[c] = data[c]
  <2>1. \A c \in Bufs \ {b} : blockno[c] # n
    BY Zenon, <1>1, <1>3, Constants DEF InvUnique
  <2> QED BY Zenon, <1>3, <2>1
<1>6. TypeOK'
  <2>1. refcnt' \in [Bufs -> Int]
    <3>1. refcnt \in [Bufs -> Int]
      BY Zenon, <1>1 DEF TypeOK
    <3>2. [refcnt EXCEPT ![b] = @ + 1] \in [Bufs -> Int]
      BY Zenon, <1>3, <3>1, CountType
    <3> QED BY Zenon, <1>4, <3>1, <3>2
  <2>2. data' \in [Bufs -> Content] /\ store' \in [Blocks -> Content]
    BY Zenon, <1>1 DEF TypeOK, Content
  <2>3. logged' \in SUBSET Blocks
    BY Zenon, <1>1, <1>3, <1>4 DEF TypeOK
  <2> QED BY Zenon, <1>1, <2>1, <2>2, <2>3 DEF TypeOK
<1>7. InvUse'
  BY Zenon, <1>1, UsesKept DEF InvUse, Uses
<1>8. InvHolder'
  BY Zenon, <1>1, HolderKept
<1>9. InvUnique'
  BY Zenon, <1>1 DEF InvUnique
<1>11. InvData'
  <2>1. valid[b]
    BY Zenon, <1>1, <1>2 DEF InvUse, Uses
  <2>2. ASSUME NEW q \in Procs, Done(q)'
        PROVE  data'[buf'[q]] = "new" /\ store'[blockno'[buf'[q]]] = "new"
    <3>1. Done(q) /\ q # p
      BY Zenon, <1>1, <1>2, <2>2, BusyHolds DEF Done
    <3>2. pc[q] \in Holding
      BY Zenon, <1>1, <3>1, BusyHolds DEF Done, Holding, Transfer
    <3>3. pc[q] # "idle"
      BY Zenon, <3>2 DEF Holding, Transfer
    <3>4. buf[q] \in Bufs /\ blockno[buf[q]] \in Blocks
      BY Zenon, <1>1, <3>3, HasBuf
    <3>5. blockno[buf[q]] # n
      BY Zenon, <1>1, <1>2, <3>1, <3>2, OneOwner
    <3>6. data'[buf[q]] = data[buf[q]] /\ store'[blockno[buf[q]]] = store[blockno[buf[q]]]
      BY Zenon, <1>4, <1>5, <3>4, <3>5
    <3>7. data[buf[q]] = "new" /\ store[blockno[buf[q]]] = "new"
      BY Zenon, <1>1, <3>1 DEF InvData
    <3> QED BY Zenon, <3>6, <3>7
  <2>3. \A m \in Blocks \ logged' : store'[m] = "new"
    <3>1. \A m \in Blocks \ logged' : m # n /\ m \notin logged
      BY Zenon, <1>4
    <3> QED BY Zenon, <1>1, <1>4, <3>1 DEF InvData
  <2>4. \A m \in logged' : \E c \in Bufs : blockno'[c] = m /\ valid'[c]
    BY Zenon, <1>1, <1>3, <1>4, <2>1 DEF InvData
  <2>5. \A c \in Bufs : valid'[c] => data'[c] = "new"
    BY Zenon, <1>1, <1>5 DEF InvData
  <2> QED BY Zenon, <2>2, <2>3, <2>4, <2>5 DEF InvData
<1>12. InvRing' /\ InvRequest' /\ InvDesc'
  BY Zenon, <1>2, RingKept, RequestKept, DescKept DEF Core
<1> QED BY Zenon, <1>6, <1>7, <1>8, <1>9, <1>11, <1>12 DEF Core

\* brelse() drops the reference.
LEMMA BrelseStep ==
  ASSUME Core, NEW p \in Procs, brelse(p)
  PROVE  Core'
<1> USE DEF brelse, descVars, deviceVars
<1>1. TypeOK /\ InvUse /\ InvHolder /\ InvUnique /\ InvData
  BY Zenon DEF Core
<1>2. pc[p] = "brelse" /\ pc'[p] = "idle" /\ \A q \in Procs \ {p} : pc'[q] = pc[q]
  BY Zenon, <1>1, Moves
<1>3. PICK b \in Bufs : buf[p] = b /\ idx[p] = NoDesc
  BY Zenon, <1>1, <1>2, HasBuf DEF InvUse, Uses
<1>4. buf'[p] = NoBuf /\ \A q \in Procs \ {p} : buf'[q] = buf[q]
  BY Zenon, <1>1 DEF TypeOK
<1>5. TypeOK'
  <2>1. lru' \in Seq(Bufs)
    <3>1. CASE refcnt[b] = 1
      <4>1. PICK k \in 1 .. Len(lru) :
              lru' = <<b>> \o SubSeq(lru, 1, k - 1) \o SubSeq(lru, k + 1, Len(lru))
        BY Zenon, <1>3, <3>1
      <4> QED BY Zenon, <1>1, <1>3, <4>1, ToFront DEF TypeOK
    <3>2. CASE refcnt[b] # 1
      BY Zenon, <1>1, <1>3, <3>2 DEF TypeOK
    <3> QED BY Zenon, <3>1, <3>2
  <2>2. refcnt' \in [Bufs -> Int]
    BY Zenon, <1>1, <1>3, CountType DEF TypeOK
  <2>3. pc' \in [Procs -> Places] /\ buf' \in [Procs -> Bufs \cup {NoBuf}]
    BY Zenon, <1>1 DEF TypeOK, Goto, Places
  <2> QED BY Zenon, <1>1, <2>1, <2>2, <2>3 DEF TypeOK
<1>6. InvUse'
  <2>1. Uses(p)'
    BY Zenon, <1>2, <1>3, <1>4 DEF Uses, Transfer
  <2>2. \A q \in Procs \ {p} : Uses(q)'
    BY Zenon, <1>1, <1>2, <1>4, UsesKept DEF InvUse, Uses
  <2> QED BY Zenon, <2>1, <2>2 DEF InvUse
<1>7. InvHolder'
  <2>1. pc[p] \notin Holding /\ pc'[p] \notin Holding
    BY Zenon, <1>2 DEF Holding, Transfer
  <2>2. \A c \in Bufs : holder'[c] = holder[c]
    BY Zenon
  <2>3. \A c \in Bufs : holder[c] # p
    BY Zenon, <1>1, <2>1 DEF InvHolder
  <2>4. ASSUME NEW q \in Procs \ {p}, NEW c \in Bufs
        PROVE  holder'[c] = q <=> buf'[q] = c /\ pc'[q] \in Holding
    <3>1. holder[c] = q <=> buf[q] = c /\ pc[q] \in Holding
      BY Zenon, <1>1 DEF InvHolder
    <3>2. buf'[q] = buf[q] /\ pc'[q] = pc[q] /\ holder'[c] = holder[c]
      BY Zenon, <1>2, <1>4, <2>2
    <3> QED BY Zenon, <3>1, <3>2
  <2> QED BY Zenon, <2>1, <2>2, <2>3, <2>4 DEF InvHolder
<1>8. InvUnique'
  BY Zenon, <1>1 DEF InvUnique
<1>10. InvData'
  <2>1. \A q \in Procs : Done(q)' => Done(q) /\ buf'[q] = buf[q]
    BY Zenon, <1>2, <1>3, <1>4 DEF Done
  <2> QED BY Zenon, <1>1, <2>1, DataKept
<1>11. \A q \in Procs : \A place \in {"rw_wait", "rw_sleep"} : pc'[q] = place => pc[q] = place
  BY Zenon, <1>2
<1>12. InvRing' /\ InvDesc'
  BY Zenon, <1>11, RingKept, DescKept DEF Core
<1>13. InvRequest'
  <2>1. \A q \in Procs : idx[q] # NoDesc => buf'[q] = buf[q]
    BY Zenon, <1>3, <1>4
  <2> QED BY Zenon, <1>11, <2>1, RequestKept DEF Core
<1> QED BY Zenon, <1>5, <1>6, <1>7, <1>8, <1>10, <1>12, <1>13 DEF Core

\* A process that starts to use a buffer does not hold it yet.
LEMMA NewUser ==
  ASSUME InvHolder, NEW p \in Procs, pc[p] = "idle", pc'[p] = "acquiresleep", UNCHANGED holder,
         \A q \in Procs \ {p} : pc'[q] = pc[q],
         \A q \in Procs \ {p} : buf'[q] = buf[q]
  PROVE  InvHolder'
<1>1. pc[p] \notin Holding /\ pc'[p] \notin Holding
  BY Zenon DEF Holding, Transfer
<1>2. \A c \in Bufs : holder'[c] = holder[c] /\ holder[c] # p
  BY Zenon, <1>1 DEF InvHolder
<1>3. ASSUME NEW q \in Procs \ {p}, NEW c \in Bufs
      PROVE  holder'[c] = q <=> buf'[q] = c /\ pc'[q] \in Holding
  <2>1. holder[c] = q <=> buf[q] = c /\ pc[q] \in Holding
    BY Zenon DEF InvHolder
  <2> QED BY Zenon, <2>1
<1> QED BY Zenon, <1>1, <1>2, <1>3 DEF InvHolder

\* bget() finds the block in the cache.
LEMMA BgetCached ==
  ASSUME Core, NEW p \in Procs, NEW n \in Blocks, bget(p, n), NEW b \in Cached(n),
         refcnt' = [refcnt EXCEPT ![b] = @ + 1], buf' = [buf EXCEPT ![p] = b],
         UNCHANGED <<blockno, valid, data>>
  PROVE  Core'
<1> USE DEF bget, descVars, deviceVars
<1>1. TypeOK /\ InvUse /\ InvHolder /\ InvUnique /\ InvData
  BY Zenon DEF Core
<1>2. pc[p] = "idle" /\ pc'[p] = "acquiresleep" /\ \A q \in Procs \ {p} : pc'[q] = pc[q]
  BY Zenon, <1>1, Moves
<1>3. b \in Bufs /\ blockno[b] = n /\ buf[p] = NoBuf /\ idx[p] = NoDesc
  BY Zenon, <1>1, <1>2 DEF InvUse, Uses, Cached
<1>4. buf'[p] = b /\ \A q \in Procs \ {p} : buf'[q] = buf[q]
  BY Zenon, <1>1 DEF TypeOK
<1>5. TypeOK'
  <2>1. refcnt' \in [Bufs -> Int]
    BY Zenon, <1>1, <1>3, CountType DEF TypeOK
  <2>2. pc' \in [Procs -> Places] /\ buf' \in [Procs -> Bufs \cup {NoBuf}]
    BY Zenon, <1>1, <1>3 DEF TypeOK, Goto, Places
  <2> QED BY Zenon, <1>1, <2>1, <2>2 DEF TypeOK
<1>6. InvUse'
  <2>1. Uses(p)'
    BY Zenon, <1>2, <1>3, <1>4, Constants DEF Uses, Transfer
  <2>2. \A q \in Procs \ {p} : Uses(q)'
    BY Zenon, <1>1, <1>2, <1>4, UsesKept DEF InvUse, Uses
  <2> QED BY Zenon, <2>1, <2>2 DEF InvUse
<1>7. InvHolder'
  BY Zenon, <1>1, <1>2, <1>4, NewUser
<1>8. InvUnique'
  BY Zenon, <1>1 DEF InvUnique
<1>10. InvData'
  <2>1. \A q \in Procs : Done(q)' => Done(q) /\ buf'[q] = buf[q]
    BY Zenon, <1>2, <1>3, <1>4 DEF Done
  <2> QED BY Zenon, <1>1, <2>1, DataKept
<1>11. InvRing' /\ InvDesc' /\ InvRequest'
  <2>1. \A q \in Procs : \A place \in {"rw_wait", "rw_sleep"} : pc'[q] = place => pc[q] = place
    BY Zenon, <1>2
  <2>2. \A q \in Procs : idx[q] # NoDesc => buf'[q] = buf[q]
    BY Zenon, <1>3, <1>4
  <2> QED BY Zenon, <2>1, <2>2, RingKept, DescKept, RequestKept DEF Core
<1> QED BY Zenon, <1>5, <1>6, <1>7, <1>8, <1>10, <1>11 DEF Core

\* bget() gives the least recently used buffer that nobody uses to the block.
LEMMA BgetRecycle ==
  ASSUME Core, NEW p \in Procs, NEW n \in Blocks, bget(p, n), Cached(n) = {},
         NEW b \in Bufs, blockno[b] \notin logged, \A q \in Procs : buf[q] # b,
         blockno' = [blockno EXCEPT ![b] = n], valid' = [valid EXCEPT ![b] = FALSE],
         refcnt' = [refcnt EXCEPT ![b] = 1], data' = [data EXCEPT ![b] = "old"],
         buf' = [buf EXCEPT ![p] = b]
  PROVE  Core'
<1> USE DEF bget, descVars, deviceVars
<1>1. TypeOK /\ InvUse /\ InvHolder /\ InvUnique /\ InvData
  BY Zenon DEF Core
<1>2. pc[p] = "idle" /\ pc'[p] = "acquiresleep" /\ \A q \in Procs \ {p} : pc'[q] = pc[q]
  BY Zenon, <1>1, Moves
<1>3. buf[p] = NoBuf /\ idx[p] = NoDesc
  BY Zenon, <1>1, <1>2 DEF InvUse, Uses
<1>4. buf'[p] = b /\ \A q \in Procs \ {p} : buf'[q] = buf[q]
  BY Zenon, <1>1 DEF TypeOK
<1>7. n \notin logged /\ \A c \in Bufs : blockno[c] # n
  BY Zenon, <1>1 DEF Cached, InvData
<1>8. /\ blockno'[b] = n /\ valid'[b] = FALSE /\ refcnt'[b] = 1
      /\ \A c \in Bufs \ {b} : /\ blockno'[c] = blockno[c] /\ valid'[c] = valid[c]
                               /\ refcnt'[c] = refcnt[c] /\ data'[c] = data[c]
  BY Zenon, <1>1 DEF TypeOK
<1>9. TypeOK'
  <2>1. refcnt' \in [Bufs -> Int]
    BY <1>1 DEF TypeOK
  <2>2. pc' \in [Procs -> Places] /\ buf' \in [Procs -> Bufs \cup {NoBuf}]
    BY Zenon, <1>1 DEF TypeOK, Goto, Places
  <2>3. /\ blockno' \in [Bufs -> Blocks \cup {NoBlock}] /\ data' \in [Bufs -> Content]
        /\ valid' \in [Bufs -> BOOLEAN]
    BY Zenon, <1>1 DEF TypeOK, Content
  <2> QED BY Zenon, <1>1, <2>1, <2>2, <2>3 DEF TypeOK
<1>10. ASSUME NEW q \in Procs, pc[q] # "idle"
       PROVE  /\ buf[q] \in Bufs \ {b} /\ blockno'[buf[q]] = blockno[buf[q]]
              /\ valid'[buf[q]] = valid[buf[q]] /\ data'[buf[q]] = data[buf[q]]
  <2>1. buf[q] \in Bufs \ {b}
    BY Zenon, <1>1, <1>10, HasBuf
  <2> QED BY Zenon, <1>8, <2>1
<1>11. InvUse'
  <2>1. Uses(p)'
    <3>1. blockno'[buf'[p]] = n /\ n # NoBlock /\ buf'[p] # NoBuf /\ idx'[p] = NoDesc
      BY Zenon, <1>3, <1>4, <1>8, Constants
    <3> QED BY Zenon, <1>2, <3>1 DEF Uses, Transfer
  <2>2. ASSUME NEW q \in Procs \ {p} PROVE Uses(q)'
    <3>1. pc[q] \in Holding => pc[q] # "idle"
      BY Zenon DEF Holding, Transfer
    <3>2. pc[q] = "asleep" => holder'[buf[q]] # NoProc
      BY Zenon, <1>1 DEF InvUse, Uses
    <3> QED BY Zenon, <1>1, <1>2, <1>4, <1>10, <3>1, <3>2, UsesKept DEF InvUse
  <2> QED BY Zenon, <2>1, <2>2 DEF InvUse
<1>12. InvHolder'
  BY Zenon, <1>1, <1>2, <1>4, NewUser
<1>13. InvUnique'
  <2>1. ASSUME NEW c \in Bufs, NEW d \in Bufs, blockno'[c] = blockno'[d], blockno'[c] # NoBlock
        PROVE  c = d
    <3>1. ASSUME NEW e \in Bufs \ {b} PROVE blockno'[e] # blockno'[b]
      BY Zenon, <1>7, <1>8
    <3>2. CASE c # b /\ d # b
      <4>1. blockno'[c] = blockno[c] /\ blockno'[d] = blockno[d]
        BY Zenon, <1>8, <3>2
      <4> QED BY Zenon, <1>1, <2>1, <4>1 DEF InvUnique
    <3> QED BY Zenon, <2>1, <3>1, <3>2
  <2> QED BY Zenon, <2>1 DEF InvUnique
<1>15. InvData'
  <2>1. \A c \in Bufs : valid'[c] => data'[c] = "new"
    <3>1. \A c \in Bufs : valid'[c] => c # b
      BY Zenon, <1>8
    <3>2. \A c \in Bufs : c # b => valid'[c] = valid[c] /\ data'[c] = data[c]
      BY Zenon, <1>8
    <3> QED BY Zenon, <1>1, <3>1, <3>2 DEF InvData
  <2>2. ASSUME NEW m \in logged PROVE \E c \in Bufs : blockno'[c] = m /\ valid'[c]
    <3>1. PICK c \in Bufs : blockno[c] = m /\ valid[c]
      BY Zenon, <1>1 DEF InvData
    <3>2. c # b
      BY Zenon, <3>1
    <3>3. blockno'[c] = m /\ valid'[c]
      BY Zenon, <1>8, <3>1, <3>2
    <3> QED BY ONLY <3>3, c \in Bufs, Zenon
  <2>3. ASSUME NEW q \in Procs, Done(q)'
        PROVE  data'[buf'[q]] = "new" /\ store'[blockno'[buf'[q]]] = "new"
    <3>1. Done(q) /\ q # p
      BY Zenon, <1>2, <1>3, <2>3 DEF Done
    <3>2. pc[q] # "idle" /\ buf'[q] = buf[q]
      BY Zenon, <1>1, <1>4, <3>1, BusyHolds DEF Done
    <3>3. data[buf[q]] = "new" /\ store[blockno[buf[q]]] = "new"
      BY Zenon, <1>1, <3>1 DEF InvData
    <3> QED BY Zenon, <1>10, <3>2, <3>3
  <2> QED BY Zenon, <1>1, <2>1, <2>2, <2>3 DEF InvData
<1>16. InvRing' /\ InvDesc' /\ InvRequest'
  <2>1. \A q \in Procs : \A place \in {"rw_wait", "rw_sleep"} : pc'[q] = place => pc[q] = place
    BY Zenon, <1>2
  <2>2. \A q \in Procs : idx[q] # NoDesc => buf'[q] = buf[q] /\ blockno'[buf[q]] = blockno[buf[q]]
    BY Zenon, <1>1, <1>3, <1>4, <1>10, BusyHolds
  <2> QED BY Zenon, <2>1, <2>2, RingKept, DescKept, RequestKept DEF Core
<1> QED BY Zenon, <1>9, <1>11, <1>12, <1>13, <1>15, <1>16 DEF Core

-----------------------------------------------------------------------------
(***************************************************************************)
(* The driver                                                              *)
(***************************************************************************)

\* virtio_disk_rw() waits for descriptors.
LEMMA RwFull ==
  ASSUME Core, NEW p \in Procs, Driver(p), ~(Cardinality(free) >= 3), Cardinality(free) \in Nat
  PROVE  Core'
<1> USE DEF Driver, virtio_disk_rw, cacheVars, descVars, deviceVars
<1>1. TypeOK /\ InvUse /\ InvHolder
  BY Zenon DEF Core
<1>2. pc[p] = "rw" /\ UNCHANGED <<onDisk, descVars, avail, idx>>
  BY Zenon
<1>3. /\ pc'[p] = "rw_sleep"
      /\ \A q \in Procs \ {p} : pc'[q] = pc[q] \/ (pc[q] = "rw_sleep" /\ pc'[q] = "rw")
  BY Zenon DEF Wakeup
<1>4. TypeOK'
  <2>1. pc' \in [Procs -> Places]
    <3>1. "rw" \in Places /\ "rw_sleep" \in Places
      BY Zenon DEF Places
    <3>2. PICK who : pc' = [Wakeup(who, "rw_sleep", "rw") EXCEPT ![p] = "rw_sleep"]
      BY Zenon
    <3>3. [Wakeup(who, "rw_sleep", "rw") EXCEPT ![p] = "rw_sleep"] \in [Procs -> Places]
      BY ONLY <1>1, <3>1, p \in Procs, Wakes, Zenon
    <3> QED BY ONLY <3>2, <3>3, Zenon
  <2> QED BY Zenon, <1>1, <1>2, <2>1 DEF TypeOK
<1>5. InvUse'
  <2>1. Uses(p)'
    BY Zenon, <1>1, <1>2, <1>3 DEF InvUse, Uses, Transfer
  <2>2. ASSUME NEW q \in Procs \ {p} PROVE Uses(q)'
    <3>1. CASE pc'[q] = pc[q]
      BY Zenon, <1>1, <1>2, <3>1, UsesKept DEF InvUse, Uses
    <3>2. CASE pc[q] = "rw_sleep" /\ pc'[q] = "rw"
      BY Zenon, <1>1, <1>2, <3>2 DEF InvUse, Uses, Transfer
    <3> QED BY Zenon, <1>3, <3>1, <3>2
  <2> QED BY Zenon, <2>1, <2>2 DEF InvUse
<1>6. InvHolder'
  <2>1. \A q \in Procs : pc'[q] \in Holding <=> pc[q] \in Holding
    BY Zenon, <1>2, <1>3 DEF Holding, Transfer
  <2> QED BY Zenon, <1>1, <2>1, HolderKept
<1>7. \A q \in Procs : \A place \in {"rw_ret", "rw_wait"} : pc'[q] = place => pc[q] = place
  BY Zenon, <1>3
<1>8. InvUnique'
  BY Zenon, UniqueKept DEF Core
<1>9. InvData'
  <2>1. \A q \in Procs : Done(q)' => Done(q) /\ buf'[q] = buf[q]
    BY Zenon, <1>2, <1>7 DEF Done
  <2> QED BY Zenon, <2>1, DataKept DEF Core
<1>10. InvRing' /\ InvRequest'
  BY Zenon, <1>2, <1>7, RingKept, RequestKept DEF Core
<1>11. InvDesc'
  <2>1. \A i : Chain(i)' = Chain(i)
    BY Zenon, <1>2 DEF Chain
  <2>2. DescriptorsExact'
    BY Zenon, <1>2, <2>1 DEF Core, InvDesc, DescriptorsExact
  <2>3. Cardinality(free) < 3
    OBVIOUS
  <2>4. \A q \in Procs : idx[q] # NoDesc => Chained(idx[q])
    BY Zenon DEF Core, InvDesc
  <2>5. \A q \in Procs : idx'[q] # NoDesc => Chained(idx[q])'
    BY Zenon, <1>2, <2>4 DEF Chained
  <2>6. Cardinality(free') < 3
    BY Zenon, <1>2, <2>3
  <2> QED BY Zenon, <2>2, <2>5, <2>6 DEF InvDesc
<1> QED BY Zenon, <1>4, <1>5, <1>6, <1>8, <1>9, <1>10, <1>11 DEF Core

\* A killed process tries again.
LEMMA RwKilledStep ==
  ASSUME Core, NEW p \in Procs, DriverKilled(p)
  PROVE  Core'
<1> USE DEF DriverKilled, RwKilled, cacheVars, descVars, deviceVars
<1>1. TypeOK /\ InvUse /\ InvHolder
  BY Zenon DEF Core
<1>2. /\ \/ pc[p] = "rw_sleep" /\ pc'[p] = "rw"
         \/ pc[p] = "rw_wait" /\ pc'[p] = "rw_done"
      /\ \A q \in Procs \ {p} : pc'[q] = pc[q]
  <2>1. CASE pc[p] = "rw_sleep" /\ Goto(p, "rw")
    BY Zenon, <1>1, <2>1, Moves
  <2>2. CASE pc[p] = "rw_wait" /\ Goto(p, "rw_done")
    BY Zenon, <1>1, <2>2, Moves
  <2> QED BY Zenon, <2>1, <2>2
<1>3. TypeOK'
  BY Zenon, <1>1 DEF TypeOK, Goto, Places
<1>4. InvUse'
  <2>1. Uses(p)'
    BY Zenon, <1>1, <1>2 DEF InvUse, Uses, Transfer
  <2>2. \A q \in Procs \ {p} : Uses(q)'
    BY Zenon, <1>1, <1>2, UsesKept DEF InvUse, Uses
  <2> QED BY Zenon, <2>1, <2>2 DEF InvUse
<1>5. InvHolder'
  <2>1. \A q \in Procs : pc'[q] \in Holding <=> pc[q] \in Holding
    BY Zenon, <1>2 DEF Holding, Transfer
  <2> QED BY Zenon, <1>1, <2>1, HolderKept
<1>6. \A q \in Procs, place \in {"rw_ret", "rw_wait", "rw_sleep"} : pc'[q] = place => pc[q] = place
  BY Zenon, <1>2
<1>7. InvUnique' /\ InvData' /\ InvRing' /\ InvRequest' /\ InvDesc'
  BY Zenon, <1>6, Quiet
<1> QED BY Zenon, <1>3, <1>4, <1>5, <1>7 DEF Core

\* A process that was woken finds its request still under way.
LEMMA RwAgain ==
  ASSUME Core, NEW p \in Procs, DriverDone(p), onDisk[buf[p]]
  PROVE  Core'
<1> USE DEF DriverDone, RwDone, cacheVars, descVars, deviceVars
<1>1. TypeOK /\ InvUse /\ InvHolder
  BY Zenon DEF Core
<1>2. UNCHANGED <<info, free, next, panic, idx>>
  BY Zenon
<1>3. pc[p] = "rw_done" /\ pc'[p] = "rw_wait" /\ \A q \in Procs \ {p} : pc'[q] = pc[q]
  BY Zenon, <1>1, Moves
<1>4. TypeOK'
  BY Zenon, <1>1, <1>2 DEF TypeOK, Goto, Places
<1>5. InvUse'
  <2>1. Uses(p)'
    BY Zenon, <1>1, <1>2, <1>3 DEF InvUse, Uses, Transfer
  <2>2. \A q \in Procs \ {p} : Uses(q)'
    BY Zenon, <1>1, <1>2, <1>3, UsesKept DEF InvUse, Uses
  <2> QED BY Zenon, <2>1, <2>2 DEF InvUse
<1>6. InvHolder'
  <2>1. \A q \in Procs : pc'[q] \in Holding <=> pc[q] \in Holding
    BY Zenon, <1>3 DEF Holding, Transfer
  <2> QED BY Zenon, <1>1, <2>1, HolderKept
<1>7. InvUnique'
  BY Zenon, UniqueKept DEF Core
<1>8. InvData'
  <2>1. \A q \in Procs : Done(q)' => Done(q) /\ buf'[q] = buf[q]
    BY Zenon, <1>2, <1>3 DEF Done
  <2> QED BY Zenon, <2>1, DataKept DEF Core
<1>9. InvRing' /\ InvDesc'
  <2>1. \A q \in Procs : pc'[q] = "rw_sleep" => pc[q] = "rw_sleep"
    BY Zenon, <1>3
  <2> QED BY Zenon, <1>2, <2>1, RingKept, DescKept DEF Core
<1>10. InvRequest'
  <2>1. Pending' = Pending
    BY Zenon DEF Pending
  <2>2. ASSUME NEW q \in Procs PROVE Asks(q)'
    <3>1. Asks(q)
      BY Zenon DEF Core, InvRequest
    <3>2. pc'[q] = "rw_wait" => pc[q] = "rw_wait" \/ onDisk[buf[q]]
      BY Zenon, <1>3
    <3> QED BY Zenon, <1>2, <2>1, <3>1, <3>2 DEF Asks
  <2> QED BY Zenon, <2>2 DEF InvRequest
<1> QED BY Zenon, <1>2, <1>4, <1>5, <1>6, <1>7, <1>8, <1>9, <1>10 DEF Core

\* What is in the rings is a descriptor.
LEMMA PendingDesc ==
  ASSUME TypeOK
  PROVE  Pending \in SUBSET Desc
<1>1. Range(avail) \in SUBSET Desc /\ Range(used) \in SUBSET Desc
  BY DEF TypeOK, Range
<1> QED BY Zenon, <1>1 DEF TypeOK, Pending

\* The descriptors of a request.
LEMMA ChainIs ==
  ASSUME NEW i, Chained(i)
  PROVE  /\ Chain(i) = {i, next[i], next[next[i]]}
         /\ Chain(i) \in SUBSET Desc /\ Chain(i) \cap free = {}
<1>1. i # NoDesc /\ next[i] # NoDesc /\ next[next[i]] # NoDesc
  BY Zenon, Constants DEF Chained
<1>2. Chain(i) = {i, next[i], next[next[i]]}
  BY <1>1 DEF Chain
<1> QED BY Zenon, <1>2 DEF Chained

\* A chain whose descriptors keep their `next' stays what it is.
LEMMA ChainKept ==
  ASSUME NEW i, Chained(i), \A x \in Chain(i) : next'[x] = next[x], Chain(i) \cap free' = {}
  PROVE  Chain(i)' = Chain(i) /\ Chained(i)'
<1>1. Chain(i) = {i, next[i], next[next[i]]}
  BY Zenon, ChainIs
<1>2. next'[i] = next[i] /\ next'[next[i]] = next[next[i]]
      /\ next'[next[next[i]]] = next[next[next[i]]]
  BY Zenon, <1>1
<1>3. Chained(i)'
  <2>1. i \notin free' /\ next[i] \notin free' /\ next[next[i]] \notin free'
    BY Zenon, <1>1
  <2>2. /\ i \in Desc /\ next[i] \in Desc /\ next[next[i]] \in Desc
        /\ next[next[next[i]]] = NoDesc
    BY Zenon DEF Chained
  <2>3. Desc' = Desc /\ NoDesc' = NoDesc
    BY Zenon
  <2>4. /\ next'[i] \in Desc \ free' /\ next'[next'[i]] \in Desc \ free'
        /\ next'[next'[next'[i]]] = NoDesc
    BY Zenon, <1>2, <2>1, <2>2
  <2> QED BY Zenon, <2>1, <2>2, <2>4 DEF Chained
<1>4. Chain(i)' = {i, next'[i], next'[next'[i]]}
  <2>1. i # NoDesc /\ next'[i] # NoDesc /\ next'[next'[i]] # NoDesc
    BY Zenon, <1>3, Constants DEF Chained
  <2> QED BY <2>1 DEF Chain
<1> QED BY Zenon, <1>1, <1>2, <1>3, <1>4

\* Every request that is pending is one of a process, so its descriptor is not
\* free.
LEMMA PendingBusy ==
  ASSUME InvRing, InvDesc, TypeOK, NEW i \in Pending
  PROVE  i \in Desc \ free
<1>1. PICK p \in Procs : idx[p] = i
  BY Zenon DEF InvRing
<1>2. i \in Desc
  BY Zenon, PendingDesc
<1>3. Chained(i)
  BY Zenon, <1>1, <1>2, Constants DEF InvDesc
<1> QED BY Zenon, <1>3 DEF Chained

\* The driver's part of the invariant when alloc3_desc() has taken three
\* descriptors.
LEMMA AllocDesc ==
  ASSUME Core, NEW p \in Procs, NEW i \in free, NEW j \in free, NEW k \in free,
         i # j, i # k, j # k, idx[p] = NoDesc, ~(Cardinality(free) < 3), pc'[p] = "rw_wait",
         \A q \in Procs \ {p} : pc'[q] = pc[q],
         free' = free \ {i, j, k},
         next' = [next EXCEPT ![i] = j, ![j] = k, ![k] = NoDesc],
         idx' = [idx EXCEPT ![p] = i]
  PROVE  InvDesc'
<1>1. TypeOK /\ InvUse /\ InvDesc /\ DescriptorsExact
  BY Zenon DEF Core, InvDesc
<1>2. i \in Desc /\ j \in Desc /\ k \in Desc
  BY Zenon, <1>1 DEF TypeOK
<1>3. /\ next'[i] = j /\ next'[j] = k /\ next'[k] = NoDesc
      /\ \A x \in Desc \ {i, j, k} : next'[x] = next[x]
  BY Zenon, <1>1, <1>2 DEF TypeOK
<1>4. idx'[p] = i /\ \A q \in Procs \ {p} : idx'[q] = idx[q]
  BY Zenon, <1>1 DEF TypeOK
<1>5. Chained(i)'
  <2>1. i \in Desc \ free' /\ j \in Desc \ free' /\ k \in Desc \ free'
    BY Zenon, <1>2
  <2>2. next'[i] = j /\ next'[next'[i]] = k /\ next'[next'[next'[i]]] = NoDesc
    BY Zenon, <1>3
  <2> QED BY Zenon, <2>1, <2>2 DEF Chained
<1>6. Chain(i)' = {i, j, k}
  <2>1. j # NoDesc /\ k # NoDesc
    BY Zenon, <1>2, Constants
  <2> QED BY <1>3, <2>1 DEF Chain
<1>7. ASSUME NEW q \in Procs \ {p}, idx[q] # NoDesc
      PROVE  /\ Chain(idx[q])' = Chain(idx[q]) /\ Chained(idx[q])'
             /\ Chain(idx[q]) \cap {i, j, k} = {}
  <2> DEFINE x == idx[q]
  <2>1. PICK y : y = x
    BY Zenon
  <2>2. Chained(y)
    BY Zenon, <1>1, <1>7, <2>1 DEF InvDesc
  <2>3. Chain(y) \in SUBSET Desc /\ Chain(y) \cap free = {}
    BY Zenon, <2>2, ChainIs
  <2>4. Chain(y) \cap {i, j, k} = {} /\ Chain(y) \cap free' = {}
    BY Zenon, <2>3
  <2>5. \A z \in Chain(y) : next'[z] = next[z]
    BY Zenon, <1>3, <2>3, <2>4
  <2>6. Chain(y)' = Chain(y) /\ Chained(y)'
    BY Zenon, <2>2, <2>4, <2>5, ChainKept
  <2>7. idx'[q] = y
    BY Zenon, <1>4, <2>1
  <2> QED BY Zenon, <2>1, <2>4, <2>6, <2>7
<1>8. DescriptorsExact'
  <2>1. ASSUME NEW q \in Procs, NEW r \in Procs, idx'[q] # NoDesc, idx'[r] # NoDesc, q # r
        PROVE  Chain(idx[q])' \cap Chain(idx[r])' = {}
    <3>0. Chain(idx[p])' = {i, j, k}
      BY Zenon, <1>4, <1>6
    <3>1. CASE q = p
      <4>1. Chain(idx[r])' \cap {i, j, k} = {}
        BY Zenon, <1>4, <1>7, <2>1, <3>1
      <4> QED BY Zenon, <3>0, <3>1, <4>1
    <3>2. CASE r = p
      <4>1. Chain(idx[q])' \cap {i, j, k} = {}
        BY Zenon, <1>4, <1>7, <2>1, <3>2
      <4> QED BY Zenon, <3>0, <3>2, <4>1
    <3>3. CASE q # p /\ r # p
      <4>1. Chain(idx[q])' = Chain(idx[q]) /\ Chain(idx[r])' = Chain(idx[r])
        BY Zenon, <1>4, <1>7, <2>1, <3>3
      <4> QED BY Zenon, <1>1, <1>4, <2>1, <3>3, <4>1 DEF DescriptorsExact
    <3> QED BY Zenon, <3>1, <3>2, <3>3
  <2>2. ASSUME NEW x
        PROVE  (\E q \in Procs : idx'[q] # NoDesc /\ x \in Chain(idx[q])') <=> x \in Desc \ free'
    <3>1. (\E q \in Procs : idx[q] # NoDesc /\ x \in Chain(idx[q])) <=> x \in Desc \ free
      BY Zenon, <1>1 DEF DescriptorsExact
    <3>2. (\E q \in Procs \ {p} : idx'[q] # NoDesc /\ x \in Chain(idx[q])') <=> x \in Desc \ free
      <4>1. \A q \in Procs \ {p} :
              idx'[q] = idx[q] /\ (idx[q] # NoDesc => Chain(idx[q])' = Chain(idx[q]))
        BY Zenon, <1>4, <1>7
      <4>2. \A q \in Procs : idx[q] # NoDesc => q # p
        BY Zenon
      <4> QED BY Zenon, <3>1, <4>1, <4>2
    <3>3. idx'[p] # NoDesc /\ Chain(idx[p])' = {i, j, k}
      BY Zenon, <1>2, <1>4, <1>6, Constants
    <3>4. x \in Desc \ free' <=> x \in Desc \ free \/ x \in {i, j, k}
      BY Zenon, <1>2
    <3> QED BY Zenon, <3>2, <3>3, <3>4
  <2>3. UNION {Chain(idx[q])' : q \in {r \in Procs : idx'[r] # NoDesc}} = Desc \ free'
    BY ONLY <2>2, Zenon
  <2> QED BY Zenon, <2>1, <2>3 DEF DescriptorsExact
<1>9. \A q \in Procs : pc'[q] # "rw_sleep"
  BY Zenon, <1>1 DEF InvDesc
<1>10. \A q \in Procs : idx'[q] # NoDesc => Chained(idx[q])'
  BY Zenon, <1>4, <1>5, <1>7
<1> QED BY Zenon, <1>8, <1>9, <1>10 DEF InvDesc

\* virtio_disk_rw() hands a request to the device.
LEMMA RwAlloc ==
  ASSUME Core, NEW p \in Procs, Driver(p), Cardinality(free) >= 3, ~(Cardinality(free) < 3),
         Lowest \in free, Second \in free, Third \in free,
         Lowest # Second, Lowest # Third, Second # Third
  PROVE  Core'
<1> USE DEF Driver, virtio_disk_rw, cacheVars, deviceVars
<1>1. /\ TypeOK /\ InvUse /\ InvHolder /\ InvUnique /\ InvData /\ InvRing /\ InvRequest
      /\ InvDesc /\ DescriptorsExact
  BY Zenon DEF Core, InvDesc
<1>0. /\ free' = free \ {Lowest, Second, Third}
      /\ next' = [next EXCEPT ![Lowest] = Second, ![Second] = Third, ![Third] = NoDesc]
      /\ info' = [info EXCEPT ![Lowest] = [b |-> buf[p], write |-> writing[p],
                                           sector |-> blockno[buf[p]], status |-> 255]]
      /\ onDisk' = [onDisk EXCEPT ![buf[p]] = TRUE]
      /\ avail' = Append(avail, Lowest)
      /\ idx' = [idx EXCEPT ![p] = Lowest]
      /\ Goto(p, "rw_wait")
  BY Zenon
<1>p. PICK b, i, j, k : b = buf[p] /\ i = Lowest /\ j = Second /\ k = Third
  BY Zenon
<1>2. /\ b = buf[p] /\ i = Lowest /\ j = Second /\ k = Third
      /\ free' = free \ {i, j, k}
      /\ next' = [next EXCEPT ![i] = j, ![j] = k, ![k] = NoDesc]
      /\ info' = [info EXCEPT ![i] =
                    [b |-> b, write |-> writing[p], sector |-> blockno[b], status |-> 255]]
      /\ onDisk' = [onDisk EXCEPT ![b] = TRUE]
      /\ avail' = Append(avail, i)
      /\ idx' = [idx EXCEPT ![p] = i]
      /\ Goto(p, "rw_wait")
  <2> HIDE DEF Driver, virtio_disk_rw
  <2> QED BY <1>0, <1>p
<1>3. i \in free /\ j \in free /\ k \in free /\ i # j /\ i # k /\ j # k
  BY Zenon, <1>p
<1>4. i \in Desc /\ j \in Desc /\ k \in Desc /\ i # NoDesc
  BY Zenon, <1>1, <1>3, Constants DEF TypeOK
<1>5. pc[p] = "rw" /\ pc'[p] = "rw_wait" /\ \A q \in Procs \ {p} : pc'[q] = pc[q]
  BY Zenon, <1>1, <1>2, Moves
<1>6. b \in Bufs /\ buf[p] = b /\ idx[p] = NoDesc /\ pc[p] \in Holding
  BY Zenon, <1>1, <1>2, <1>5, HasBuf DEF InvUse, Uses, Holding, Transfer
<1>7. idx'[p] = i /\ \A q \in Procs \ {p} : idx'[q] = idx[q]
  BY Zenon, <1>1, <1>2 DEF TypeOK
<1>8. /\ info'[i] = [b |-> b, write |-> writing[p], sector |-> blockno[b], status |-> 255]
      /\ \A x \in Desc \ {i} : info'[x] = info[x]
  BY Zenon, <1>1, <1>2, <1>4 DEF TypeOK
<1>9. i \notin Pending
  BY Zenon, <1>1, <1>3, PendingBusy
<1>10. ASSUME NEW q \in Procs \ {p}, idx[q] # NoDesc
       PROVE  /\ idx[q] \in Desc /\ idx[q] # i /\ buf[q] # b /\ buf[q] \in Bufs
              /\ onDisk'[buf[q]] = onDisk[buf[q]] /\ info'[idx[q]] = info[idx[q]]
  <2>1. Chained(idx[q])
    BY Zenon, <1>1, <1>10 DEF InvDesc
  <2>2. idx[q] \in Desc /\ idx[q] # i
    BY Zenon, <1>3, <2>1 DEF Chained
  <2>3. pc[q] \in Holding /\ pc[q] # "idle"
    BY Zenon, <1>1, <1>10, BusyHolds
  <2>4. buf[q] # b /\ buf[q] \in Bufs
    BY Zenon, <1>1, <1>6, <2>3, OneHolder, HasBuf
  <2>5. onDisk'[buf[q]] = onDisk[buf[q]]
    BY Zenon, <1>1, <1>2, <2>4 DEF TypeOK
  <2>6. info'[idx[q]] = info[idx[q]]
    BY Zenon, <1>8, <2>2
  <2> QED BY Zenon, <2>2, <2>4, <2>5, <2>6
<1>11. /\ avail' \in Seq(Desc) /\ NoRepeats(avail') /\ Range(avail') = Range(avail) \cup {i}
       /\ avail' # <<>>
  <2>1. avail \in Seq(Desc) /\ NoRepeats(avail) /\ i \notin Range(avail)
    BY Zenon, <1>1, <1>9 DEF TypeOK, InvRing, Pending
  <2>2. /\ Append(avail, i) \in Seq(Desc) /\ NoRepeats(Append(avail, i))
        /\ Range(Append(avail, i)) = Range(avail) \cup {i} /\ Append(avail, i) # <<>>
    BY <1>4, <2>1, AddLast
  <2>3. avail' = Append(avail, i)
    BY Zenon, <1>2
  <2> QED BY Zenon, <2>2, <2>3
<1>12. TypeOK'
  <2>1. free' \in SUBSET Desc /\ DOMAIN info' = Desc
    BY Zenon, <1>1, <1>2 DEF TypeOK
  <2>2. next' \in [Desc -> Desc \cup {NoDesc}]
    BY Zenon, <1>1, <1>2, <1>4 DEF TypeOK
  <2>3. /\ onDisk' \in [Bufs -> BOOLEAN] /\ idx' \in [Procs -> Desc \cup {NoDesc}]
        /\ pc' \in [Procs -> Places]
    BY Zenon, <1>1, <1>2, <1>4 DEF TypeOK, Goto, Places
  <2> QED BY Zenon, <1>1, <1>11, <2>1, <2>2, <2>3 DEF TypeOK
<1>13. InvUse'
  <2>1. Uses(p)'
    BY Zenon, <1>1, <1>4, <1>5, <1>7 DEF InvUse, Uses, Transfer
  <2>2. \A q \in Procs \ {p} : Uses(q)'
    BY Zenon, <1>1, <1>5, <1>7, UsesKept DEF InvUse, Uses
  <2> QED BY Zenon, <2>1, <2>2 DEF InvUse
<1>14. InvHolder'
  <2>1. \A q \in Procs : pc'[q] \in Holding <=> pc[q] \in Holding
    BY Zenon, <1>5 DEF Holding, Transfer
  <2> QED BY Zenon, <1>1, <2>1, HolderKept
<1>15. InvUnique'
  BY Zenon, UniqueKept DEF Core
<1>16. InvData'
  <2>1. ~Done(p)'
    <3>1. info'[idx'[p]].status = 255
      BY <1>7, <1>8
    <3>2. info'[idx'[p]].status # 0
      BY <3>1
    <3> QED BY Zenon, <1>5, <3>2 DEF Done
  <2>2. \A q \in Procs \ {p} : Done(q)' => Done(q)
    BY Zenon, <1>5, <1>7, <1>10 DEF Done
  <2> QED BY Zenon, <1>1, <2>1, <2>2, DataKept
<1>17. InvRing'
  <2>1. Pending' = Pending \cup {i}
    BY Zenon, <1>11 DEF Pending
  <2>2. \A x \in Pending' : \E q \in Procs : idx'[q] = x
    <3>1. \A x \in Pending : x # NoDesc
      BY Zenon, <1>1, PendingDesc, Constants
    <3> QED BY Zenon, <1>1, <1>6, <1>7, <2>1, <3>1 DEF InvRing
  <2>3. i \notin inflight /\ i \notin Range(used)
    BY Zenon, <1>9 DEF Pending
  <2>4. Range(avail') \cap inflight = {} /\ Range(avail') \cap Range(used) = {}
    BY Zenon, <1>1, <1>11, <2>3 DEF InvRing
  <2> QED BY Zenon, <1>1, <1>11, <2>2, <2>4 DEF InvRing
<1>18. InvRequest'
  <2>0. Pending' = Pending \cup {i}
    BY Zenon, <1>11 DEF Pending
  <2>1. Asks(p)'
    <3>1. onDisk'[buf'[p]] = TRUE
      <4>1. onDisk'[b] = TRUE
        BY Zenon, <1>1, <1>2, <1>6 DEF TypeOK
      <4> QED BY Zenon, <1>6, <4>1
    <3>2. idx'[p] \in Pending' /\ idx'[p] \in Range(avail') \cup inflight'
      BY Zenon, <1>7, <1>11, <2>0
    <3>3. info'[idx'[p]] = [b |-> buf'[p], write |-> writing'[p], sector |-> blockno'[buf'[p]],
             status |-> IF idx'[p] \in Range(avail') \cup inflight' THEN 255 ELSE 0]
      BY SMTT(20), <1>6, <1>7, <1>8, <3>2
    <3> QED BY Zenon, <3>1, <3>2, <3>3 DEF Asks
  <2>2. ASSUME NEW q \in Procs \ {p}, idx[q] # NoDesc PROVE Asks(q)'
    <3>1. Asks(q)
      BY Zenon, <1>1 DEF InvRequest
    <3>2. /\ idx'[q] = idx[q] /\ pc'[q] = pc[q] /\ info'[idx[q]] = info[idx[q]]
          /\ onDisk'[buf[q]] = onDisk[buf[q]] /\ buf'[q] = buf[q]
          /\ writing'[q] = writing[q] /\ blockno'[buf[q]] = blockno[buf[q]]
      BY Zenon, <1>5, <1>7, <1>10, <2>2
    <3>3. /\ idx[q] \in Pending' <=> idx[q] \in Pending
          /\ idx[q] \in Range(avail') \cup inflight' <=> idx[q] \in Range(avail) \cup inflight
      BY Zenon, <1>10, <1>11, <2>0, <2>2
    <3> QED BY <2>2, <3>1, <3>2, <3>3 DEF Asks
  <2>3. \A q \in Procs \ {p} : idx[q] = NoDesc => Asks(q)'
    BY Zenon, <1>7 DEF Asks
  <2> QED BY Zenon, <2>1, <2>2, <2>3 DEF InvRequest
<1>19. InvDesc'
  BY Zenon, <1>2, <1>3, <1>5, <1>6, AllocDesc
<1> QED BY Zenon, <1>12, <1>13, <1>14, <1>15, <1>16, <1>17, <1>18, <1>19 DEF Core

\* The driver's part of the invariant when free_chain() has given the
\* descriptors of a request back.
LEMMA FreeDesc ==
  ASSUME Core, NEW p \in Procs, NEW i, idx[p] = i, i # NoDesc,
         \A q \in Procs : pc'[q] # "rw_sleep",
         free' = free \cup Chain(i),
         next' = [x \in Desc |-> IF x \in Chain(i) THEN NoDesc ELSE next[x]],
         idx' = [idx EXCEPT ![p] = NoDesc]
  PROVE  InvDesc'
<1>1. TypeOK /\ InvUse /\ InvDesc /\ DescriptorsExact
  BY Zenon DEF Core, InvDesc
<1>2. PICK c : c = Chain(i)
  BY Zenon
<1>3. c \in SUBSET Desc /\ c \cap free = {}
  BY Zenon, <1>1, <1>2, ChainIs DEF InvDesc
<1>4. idx'[p] = NoDesc /\ \A q \in Procs \ {p} : idx'[q] = idx[q]
  BY Zenon, <1>1 DEF TypeOK
<1>5. ASSUME NEW q \in Procs \ {p}, idx[q] # NoDesc
      PROVE  Chain(idx[q])' = Chain(idx[q]) /\ Chained(idx[q])' /\ Chain(idx[q]) \cap c = {}
  <2>1. PICK y : y = idx[q]
    BY Zenon
  <2>2. Chained(y)
    BY Zenon, <1>1, <1>5, <2>1 DEF InvDesc
  <2>3. Chain(y) \in SUBSET Desc /\ Chain(y) \cap free = {}
    BY Zenon, <2>2, ChainIs
  <2>4. Chain(y) \cap c = {}
    BY Zenon, <1>1, <1>2, <1>5, <2>1 DEF DescriptorsExact
  <2>5. Chain(y) \cap free' = {} /\ \A z \in Chain(y) : next'[z] = next[z]
    BY Zenon, <1>2, <2>3, <2>4
  <2>6. Chain(y)' = Chain(y) /\ Chained(y)'
    BY Zenon, <2>2, <2>5, ChainKept
  <2>7. idx'[q] = y
    BY Zenon, <1>4, <2>1
  <2> QED BY Zenon, <2>1, <2>4, <2>6, <2>7
<1>6. DescriptorsExact'
  <2>1. ASSUME NEW q \in Procs, NEW r \in Procs, idx'[q] # NoDesc, idx'[r] # NoDesc, q # r
        PROVE  Chain(idx[q])' \cap Chain(idx[r])' = {}
    <3>1. q # p /\ r # p /\ idx[q] # NoDesc /\ idx[r] # NoDesc
      BY Zenon, <1>4, <2>1
    <3>2. Chain(idx[q])' = Chain(idx[q]) /\ Chain(idx[r])' = Chain(idx[r])
      BY Zenon, <1>5, <3>1
    <3> QED BY Zenon, <1>1, <2>1, <3>1, <3>2 DEF DescriptorsExact
  <2>2. ASSUME NEW x
        PROVE  (\E q \in Procs : idx'[q] # NoDesc /\ x \in Chain(idx[q])') <=> x \in Desc \ free'
    <3>1. (\E q \in Procs : idx[q] # NoDesc /\ x \in Chain(idx[q])) <=> x \in Desc \ free
      BY Zenon, <1>1 DEF DescriptorsExact
    <3>2. x \in Desc \ free' <=> x \in Desc \ free /\ x \notin c
      BY Zenon, <1>2
    <3>3. ASSUME NEW q \in Procs, idx'[q] # NoDesc, x \in Chain(idx[q])' PROVE x \in Desc \ free'
      <4>1. q # p /\ idx[q] # NoDesc
        BY Zenon, <1>4, <3>3
      <4>2. x \in Chain(idx[q]) /\ x \notin c
        BY Zenon, <1>5, <3>3, <4>1
      <4> QED BY Zenon, <3>1, <3>2, <4>1, <4>2
    <3>4. ASSUME x \in Desc \ free'
          PROVE  \E q \in Procs : idx'[q] # NoDesc /\ x \in Chain(idx[q])'
      <4>1. PICK q \in Procs : idx[q] # NoDesc /\ x \in Chain(idx[q])
        BY Zenon, <3>1, <3>2, <3>4
      <4>2. q # p
        BY Zenon, <1>2, <3>2, <3>4, <4>1
      <4> QED BY Zenon, <1>4, <1>5, <4>1, <4>2
    <3> QED BY Zenon, <3>3, <3>4
  <2>3. UNION {Chain(idx[q])' : q \in {r \in Procs : idx'[r] # NoDesc}} = Desc \ free'
    BY ONLY <2>2, Zenon
  <2> QED BY Zenon, <2>1, <2>3 DEF DescriptorsExact
<1>7. \A q \in Procs : idx'[q] # NoDesc => Chained(idx[q])'
  BY Zenon, <1>4, <1>5
<1> QED BY Zenon, <1>6, <1>7 DEF InvDesc

\* virtio_disk_rw() finds its request done and returns.
LEMMA RwFinish ==
  ASSUME Core, NEW p \in Procs, DriverDone(p), ~onDisk[buf[p]]
  PROVE  Core'
<1> USE DEF DriverDone, RwDone, cacheVars, deviceVars
<1>1. /\ TypeOK /\ InvUse /\ InvHolder /\ InvUnique /\ InvData /\ InvRing /\ InvRequest
      /\ InvDesc /\ DescriptorsExact /\ ~panic
  BY Zenon DEF Core, InvDesc
<1>2. PICK i : /\ i = idx[p] /\ info' = [info EXCEPT ![i] = NoRequest]
               /\ free' = free \cup Chain(i)
               /\ next' = [x \in Desc |-> IF x \in Chain(i) THEN NoDesc ELSE next[x]]
               /\ panic' = (panic \/ free \cap Chain(i) # {})
               /\ pc' = [Wakeup(Procs, "rw_sleep", "rw") EXCEPT ![p] = "rw_ret"]
               /\ idx' = [idx EXCEPT ![p] = NoDesc]
  BY Zenon
<1>3. /\ pc[p] = "rw_done" /\ pc'[p] = "rw_ret"
      /\ \A q \in Procs \ {p} : \/ pc[q] = "rw_sleep" /\ pc'[q] = "rw"
                                \/ pc[q] # "rw_sleep" /\ pc'[q] = pc[q]
  BY Zenon, <1>2 DEF Wakeup
<1>4. i # NoDesc /\ idx[p] = i
  BY Zenon, <1>1, <1>2, <1>3 DEF InvUse, Uses
<1>5. idx'[p] = NoDesc /\ \A q \in Procs \ {p} : idx'[q] = idx[q]
  BY Zenon, <1>1, <1>2 DEF TypeOK
<1>6. Chain(i) \in SUBSET Desc /\ Chain(i) \cap free = {} /\ i \in Desc
  BY Zenon, <1>1, <1>4, ChainIs DEF InvDesc, Chained
<1>7. ~panic'
  BY Zenon, <1>1, <1>2, <1>6
<1>8. i \notin Pending /\ info[i].status = 0
  <2>1. Asks(p)
    BY Zenon, <1>1 DEF InvRequest
  <2>2. i \notin Pending
    BY Zenon, <1>4, <2>1 DEF Asks
  <2>3. i \notin Range(avail) \cup inflight
    BY Zenon, <2>2 DEF Pending
  <2> QED BY <1>4, <2>1, <2>2, <2>3 DEF Asks
<1>9. ASSUME NEW q \in Procs \ {p}, idx[q] # NoDesc
      PROVE  idx[q] \in Desc /\ idx[q] # i /\ info'[idx[q]] = info[idx[q]]
  <2>1. idx[q] \in Desc
    BY Zenon, <1>1, <1>9 DEF TypeOK
  <2>2. idx[q] # i
    BY Zenon, <1>1, <1>4, <1>9, OneRequest
  <2> QED BY Zenon, <1>1, <1>2, <2>1, <2>2 DEF TypeOK
<1>10. TypeOK'
  <2>1. free' \in SUBSET Desc /\ DOMAIN info' = Desc
    BY Zenon, <1>1, <1>2, <1>6 DEF TypeOK
  <2>2. next' \in [Desc -> Desc \cup {NoDesc}]
    BY Zenon, <1>1, <1>2 DEF TypeOK
  <2>3. idx' \in [Procs -> Desc \cup {NoDesc}]
    BY Zenon, <1>1, <1>2 DEF TypeOK
  <2>4. pc' \in [Procs -> Places]
    BY Zenon, <1>1, <1>2, Wakes DEF Places
  <2> QED BY Zenon, <1>1, <2>1, <2>2, <2>3, <2>4 DEF TypeOK
<1>11. InvUse'
  <2>1. Uses(p)'
    BY Zenon, <1>1, <1>3, <1>5 DEF InvUse, Uses, Transfer
  <2>2. ASSUME NEW q \in Procs \ {p} PROVE Uses(q)'
    <3>1. CASE pc'[q] = pc[q]
      BY Zenon, <1>1, <1>5, <3>1, UsesKept DEF InvUse, Uses
    <3>2. CASE pc[q] = "rw_sleep" /\ pc'[q] = "rw"
      BY Zenon, <1>1, <1>5, <3>2 DEF InvUse, Uses, Transfer
    <3> QED BY Zenon, <1>3, <3>1, <3>2
  <2> QED BY Zenon, <2>1, <2>2 DEF InvUse
<1>12. InvHolder'
  <2>1. \A q \in Procs : pc'[q] \in Holding <=> pc[q] \in Holding
    BY Zenon, <1>3 DEF Holding, Transfer
  <2> QED BY Zenon, <1>1, <2>1, HolderKept
<1>13. InvUnique'
  BY Zenon, UniqueKept DEF Core
<1>14. InvData'
  <2>1. Done(p)
    BY Zenon, <1>4, <1>8 DEF Done
  <2>2. \A q \in Procs \ {p} : Done(q)' => Done(q)
    BY Zenon, <1>3, <1>5, <1>9 DEF Done
  <2> QED BY Zenon, <1>1, <2>1, <2>2, DataKept
<1>15. InvRing'
  <2>1. Pending' = Pending
    BY Zenon DEF Pending
  <2>2. \A x \in Pending' : \E q \in Procs : idx'[q] = x
    <3>1. ASSUME NEW x \in Pending PROVE \E q \in Procs : idx'[q] = x
      <4>1. PICK q \in Procs : idx[q] = x
        BY Zenon, <1>1 DEF InvRing
      <4>2. q # p
        BY Zenon, <1>4, <1>8, <4>1
      <4> QED BY Zenon, <1>5, <4>1, <4>2
    <3> QED BY Zenon, <2>1, <3>1
  <2> QED BY Zenon, <1>1, <2>2 DEF InvRing
<1>16. InvRequest'
  <2>1. ASSUME NEW q \in Procs \ {p}, idx[q] # NoDesc PROVE Asks(q)'
    <3>1. Asks(q) /\ Pending' = Pending
      BY Zenon, <1>1 DEF InvRequest, Pending
    <3>2. /\ idx'[q] = idx[q] /\ info'[idx[q]] = info[idx[q]]
          /\ pc'[q] = "rw_wait" => pc[q] = "rw_wait"
      BY Zenon, <1>3, <1>5, <1>9, <2>1
    <3> QED BY <2>1, <3>1, <3>2 DEF Asks
  <2> QED BY Zenon, <1>5, <2>1 DEF InvRequest, Asks
<1>17. InvDesc'
  <2>1. \A q \in Procs : pc'[q] # "rw_sleep"
    BY Zenon, <1>3
  <2> QED BY Zenon, <1>2, <1>4, <2>1, FreeDesc
<1> QED BY Zenon, <1>7, <1>10, <1>11, <1>12, <1>13, <1>14, <1>15, <1>16, <1>17 DEF Core

-----------------------------------------------------------------------------
(***************************************************************************)
(* The interrupt and the device                                            *)
(***************************************************************************)

\* virtio_disk_intr() starts, which acknowledges the interrupt, or ends, when
\* it has read all of the ring.
LEMMA IntrStartEnd ==
  ASSUME Core, IntrStart \/ IntrEnd, UNCHANGED cacheVars
  PROVE  Core'
<1> USE DEF IntrStart, IntrEnd, cacheVars, descVars, deviceVars
<1>1. /\ UNCHANGED <<blockno, data, onDisk, free, next, info, avail, used, inflight, store, pc,
                     buf, writing, idx, panic, valid, refcnt, holder, lru, logged>>
      /\ handler' \in BOOLEAN /\ irq' \in BOOLEAN
      /\ used # <<>> => irq' \/ handler'
  BY Zenon DEF Core, TypeOK
<1> HIDE DEF IntrStart, IntrEnd
<1>2. TypeOK'
  BY Zenon, <1>1 DEF Core, TypeOK
<1>3. InvUse' /\ InvHolder'
  <2>1. InvUse'
    <3>1. ASSUME NEW q \in Procs, Uses(q) PROVE Uses(q)'
      BY Zenon, <1>1, <3>1 DEF Uses
    <3> QED BY Zenon, <3>1 DEF Core, InvUse
  <2>2. InvHolder'
    BY Zenon, <1>1, HolderKept DEF Core
  <2> QED BY Zenon, <2>1, <2>2
<1>4. InvUnique'
  BY Zenon, <1>1, UniqueKept DEF Core
<1>5. InvData'
  BY Zenon, <1>1, DataKept DEF Core, Done
<1>6. InvRing'
  <2>1. Pending' = Pending
    BY Zenon, <1>1 DEF Pending
  <2> QED BY Zenon, <1>1, <2>1 DEF Core, InvRing
<1>7. InvRequest' /\ InvDesc'
  BY Zenon, <1>1, RequestKept, DescKept DEF Core
<1> QED BY Zenon, <1>1, <1>2, <1>3, <1>4, <1>5, <1>6, <1>7 DEF Core

\* virtio_disk_intr() reports a request to the process that waits for it.
LEMMA IntrNextStep ==
  ASSUME Core, IntrNext, UNCHANGED cacheVars
  PROVE  Core'
<1> USE DEF IntrNext, cacheVars, descVars, deviceVars
<1>1. /\ TypeOK /\ InvUse /\ InvHolder /\ InvUnique /\ InvData /\ InvRing /\ InvRequest
      /\ InvDesc /\ DescriptorsExact /\ ~panic /\ handler /\ used # <<>>
  BY Zenon DEF Core, InvDesc
<1>2. PICK i : i = Head(used)
  BY Zenon
<1>3. /\ i \in Range(used) /\ i \in Desc /\ used' \in Seq(Desc)
      /\ NoRepeats(used') /\ Range(used') = Range(used) \ {i}
  <2>1. used \in Seq(Desc) /\ NoRepeats(used) /\ used' = Tail(used)
    BY Zenon, <1>1 DEF TypeOK, InvRing
  <2>2. /\ Head(used) \in Range(used) /\ Head(used) \in Desc /\ Tail(used) \in Seq(Desc)
        /\ NoRepeats(Tail(used)) /\ Range(Tail(used)) = Range(used) \ {Head(used)}
    BY <1>1, <2>1, TakeFirst
  <2> QED BY Zenon, <1>2, <2>1, <2>2
<1>4. i \in Pending /\ i \notin Range(avail) \cup inflight /\ Pending' = Pending \ {i}
  BY Zenon, <1>1, <1>3 DEF InvRing, Pending
<1>5. PICK p \in Procs : idx[p] = i
  BY Zenon, <1>1, <1>4 DEF InvRing
<1>6. i # NoDesc
  BY Zenon, <1>3, Constants
<1>7. info[i].b = buf[p] /\ info[i].status = 0
  <2>1. Asks(p)
    BY Zenon, <1>1 DEF InvRequest
  <2> QED BY <1>4, <1>5, <1>6, <2>1 DEF Asks
<1>8. pc[p] \in {"rw_wait", "rw_done"} /\ pc[p] \in Holding /\ buf[p] \in Bufs
  BY Zenon, <1>1, <1>5, <1>6, BusyHolds, HasBuf
<1>9. ~panic'
  BY Zenon, <1>1, <1>2, <1>7, <1>8, Constants
<1>10. /\ onDisk' = [c \in Bufs |-> c # buf[p] /\ onDisk[c]]
       /\ pc' = Wakeup({q \in Procs : buf[q] = buf[p]}, "rw_wait", "rw_done")
  BY Zenon, <1>2, <1>7
<1>11. \A q \in Procs : \/ buf[q] = buf[p] /\ pc[q] = "rw_wait" /\ pc'[q] = "rw_done"
                        \/ ~(buf[q] = buf[p] /\ pc[q] = "rw_wait") /\ pc'[q] = pc[q]
  BY Zenon, <1>10 DEF Wakeup
<1>12. TypeOK'
  <2>1. onDisk' \in [Bufs -> BOOLEAN]
    BY Zenon, <1>1, <1>10 DEF TypeOK
  <2>2. pc' \in [Procs -> Places]
    <3>1. "rw_done" \in Places
      BY Zenon DEF Places
    <3>2. Wakeup({q \in Procs : buf[q] = buf[p]}, "rw_wait", "rw_done") \in [Procs -> Places]
      BY ONLY <1>1, <3>1, Wakes, Zenon
    <3> QED BY ONLY <1>10, <3>2, Zenon
  <2> QED BY Zenon, <1>1, <1>3, <2>1, <2>2 DEF TypeOK
<1>13. InvUse'
  <2>1. ASSUME NEW q \in Procs PROVE Uses(q)'
    <3>1. CASE pc'[q] = pc[q]
      BY Zenon, <1>1, <3>1, UsesKept DEF InvUse, Uses
    <3>2. CASE pc[q] = "rw_wait" /\ pc'[q] = "rw_done"
      BY Zenon, <1>1, <3>2 DEF InvUse, Uses, Transfer
    <3> QED BY Zenon, <1>11, <3>1, <3>2
  <2> QED BY Zenon, <2>1 DEF InvUse
<1>14. InvHolder'
  <2>1. \A q \in Procs : pc'[q] \in Holding <=> pc[q] \in Holding
    BY Zenon, <1>11 DEF Holding, Transfer
  <2> QED BY Zenon, <1>1, <2>1, HolderKept
<1>15. InvUnique'
  BY Zenon, UniqueKept DEF Core
<1>16. InvData'
  <2>1. \A q \in Procs : Done(q)' => Done(q)
    BY Zenon, <1>11 DEF Done
  <2> QED BY Zenon, <1>1, <2>1, DataKept
<1>17. InvRing'
  <2>1. \A x \in Pending' : \E q \in Procs : idx'[q] = x
    BY Zenon, <1>1, <1>4 DEF InvRing
  <2>2. Range(avail) \cap Range(used') = {} /\ inflight \cap Range(used') = {}
    BY Zenon, <1>1, <1>3 DEF InvRing
  <2> QED BY Zenon, <1>1, <1>3, <2>1, <2>2 DEF InvRing
<1>18. InvRequest'
  <2>1. Asks(p)'
    <3>1. Asks(p)
      BY Zenon, <1>1 DEF InvRequest
    <3>2. ~onDisk'[buf[p]] /\ i \notin Pending' /\ pc'[p] # "rw_wait"
      BY Zenon, <1>4, <1>8, <1>10, <1>11
    <3> QED BY <1>5, <1>6, <3>1, <3>2 DEF Asks
  <2>2. ASSUME NEW q \in Procs \ {p}, idx[q] # NoDesc PROVE Asks(q)'
    <3>1. Asks(q)
      BY Zenon, <1>1 DEF InvRequest
    <3>2. idx[q] # i
      BY Zenon, <1>1, <1>5, <1>6, <2>2, OneRequest
    <3>3. pc[q] \in Holding /\ pc[q] # "idle"
      BY Zenon, <1>1, <2>2, BusyHolds
    <3>4. buf[q] # buf[p] /\ buf[q] \in Bufs
      BY Zenon, <1>1, <1>8, <3>3, OneHolder, HasBuf
    <3>5. (onDisk'[buf[q]] <=> onDisk[buf[q]]) /\ pc'[q] = pc[q]
      BY Zenon, <1>10, <1>11, <3>4
    <3>6. idx[q] \in Pending' <=> idx[q] \in Pending
      BY Zenon, <1>4, <3>2
    <3> QED BY <3>1, <3>5, <3>6 DEF Asks
  <2>3. \A q \in Procs : idx[q] = NoDesc => Asks(q)'
    BY Zenon DEF Asks
  <2> QED BY Zenon, <2>1, <2>2, <2>3 DEF InvRequest
<1>19. InvDesc'
  <2>1. \A q \in Procs : pc'[q] = "rw_sleep" => pc[q] = "rw_sleep"
    BY Zenon, <1>11
  <2> QED BY Zenon, <1>1, <2>1, DescKept
<1> QED BY Zenon, <1>9, <1>12, <1>13, <1>14, <1>15, <1>16, <1>17, <1>18, <1>19 DEF Core

\* The device takes a request.
LEMMA DeviceTakeStep ==
  ASSUME Core, DeviceTake, UNCHANGED cacheVars
  PROVE  Core'
<1> USE DEF DeviceTake, cacheVars, descVars
<1>1. TypeOK /\ InvRing /\ InvRequest /\ avail # <<>>
  BY Zenon DEF Core
<1>2. PICK i : i = Head(avail)
  BY Zenon
<1>3. /\ i \in Range(avail) /\ i \in Desc /\ avail' \in Seq(Desc)
      /\ NoRepeats(avail') /\ Range(avail') = Range(avail) \ {i}
  <2>1. avail \in Seq(Desc) /\ NoRepeats(avail) /\ avail' = Tail(avail)
    BY Zenon, <1>1 DEF TypeOK, InvRing
  <2>2. /\ Head(avail) \in Range(avail) /\ Head(avail) \in Desc /\ Tail(avail) \in Seq(Desc)
        /\ NoRepeats(Tail(avail)) /\ Range(Tail(avail)) = Range(avail) \ {Head(avail)}
    BY <1>1, <2>1, TakeFirst
  <2> QED BY Zenon, <1>2, <2>1, <2>2
<1>4. /\ inflight' = inflight \cup {i} /\ Pending' = Pending
      /\ Range(avail') \cup inflight' = Range(avail) \cup inflight
  <2>1. inflight' = inflight \cup {i}
    BY Zenon, <1>2
  <2> QED BY Zenon, <1>3, <2>1 DEF Pending
<1>5. TypeOK'
  BY Zenon, <1>1, <1>3, <1>4 DEF TypeOK
<1>6. InvUse' /\ InvHolder'
  BY Zenon, UsesKept, HolderKept DEF Core, InvUse, Uses
<1>7. InvUnique'
  BY Zenon, UniqueKept DEF Core
<1>8. InvData'
  BY Zenon, DataKept DEF Core, Done
<1>9. InvRing'
  <2>1. Range(avail') \cap inflight' = {} /\ Range(avail') \cap Range(used) = {}
    BY Zenon, <1>1, <1>3, <1>4 DEF InvRing
  <2>2. inflight' \cap Range(used) = {}
    BY Zenon, <1>1, <1>3, <1>4 DEF InvRing
  <2> QED BY Zenon, <1>1, <1>3, <1>4, <2>1, <2>2 DEF InvRing
<1>10. InvRequest'
  <2>1. ASSUME NEW q \in Procs PROVE Asks(q)'
    <3>1. Asks(q)
      BY Zenon, <1>1 DEF InvRequest
    <3> QED BY Zenon, <1>4, <3>1 DEF Asks
  <2> QED BY Zenon, <2>1 DEF InvRequest
<1>11. InvDesc'
  BY Zenon, DescKept DEF Core
<1> QED BY Zenon, <1>5, <1>6, <1>7, <1>8, <1>9, <1>10, <1>11 DEF Core

\* What a request of the device leaves, whether it is a read or a write: the
\* buffer and the block have the current contents, and no other is touched.
LEMMA DeviceCopies ==
  ASSUME Core, NEW i, DeviceDone(i), NEW p \in Procs, idx[p] = i, i # NoDesc
  PROVE  /\ data'[buf[p]] = "new" /\ \A c \in Bufs \ {buf[p]} : data'[c] = data[c]
         /\ store'[blockno[buf[p]]] = "new"
         /\ \A m \in Blocks \ {blockno[buf[p]]} : store'[m] = store[m]
         /\ data' \in [Bufs -> Content] /\ store' \in [Blocks -> Content]
<1> DEFINE b == buf[p]
           n == blockno[buf[p]]
<1>1. TypeOK /\ InvUse /\ InvUnique /\ InvData /\ InvRequest
  BY Zenon DEF Core
<1>2. pc[p] \in Transfer /\ b \in Bufs /\ n \in Blocks
  BY Zenon, <1>1, BusyHolds, HasBuf
<1>3. valid[b] = writing[p] /\ writing[p] \in BOOLEAN
  BY Zenon, <1>1, <1>2 DEF InvUse, Uses, TypeOK
<1>4. info[i].b = b /\ info[i].write = writing[p] /\ info[i].sector = n
  <2>1. Asks(p)
    BY Zenon, <1>1 DEF InvRequest
  <2> QED BY <2>1 DEF Asks
<1>5. data \in [Bufs -> Content] /\ store \in [Blocks -> Content]
  BY Zenon, <1>1 DEF TypeOK
<1>6. CASE writing[p]
  <2>1. store' = [store EXCEPT ![n] = data[b]] /\ data' = data
    BY Zenon, <1>4, <1>6 DEF DeviceDone
  <2>2. data[b] = "new"
    BY Zenon, <1>1, <1>2, <1>3, <1>6 DEF InvData
  <2> QED BY Zenon, <1>2, <1>5, <2>1, <2>2 DEF Content
<1>7. CASE ~writing[p]
  <2>1. data' = [data EXCEPT ![b] = store[n]] /\ store' = store
    BY Zenon, <1>4, <1>7 DEF DeviceDone
  <2>2. n \notin logged
    <3>1. ASSUME n \in logged PROVE FALSE
      <4>1. PICK c \in Bufs : blockno[c] = n /\ valid[c]
        BY Zenon, <1>1, <3>1 DEF InvData
      <4>2. c = b
        BY Zenon, <1>1, <1>2, <4>1, Constants DEF InvUnique
      <4> QED BY Zenon, <1>3, <1>7, <4>1, <4>2
    <3> QED BY Zenon, <3>1
  <2>3. store[n] = "new"
    BY Zenon, <1>1, <1>2, <2>2 DEF InvData
  <2> QED BY Zenon, <1>2, <1>5, <2>1, <2>3 DEF Content
<1> QED BY Zenon, <1>6, <1>7

\* The device finishes a request.
LEMMA DeviceDoneStep ==
  ASSUME Core, NEW i, DeviceDone(i), UNCHANGED cacheVars
  PROVE  Core'
<1> USE DEF DeviceDone, cacheVars
<1>1. /\ TypeOK /\ InvUse /\ InvHolder /\ InvUnique /\ InvData /\ InvRing /\ InvRequest
      /\ InvDesc /\ DescriptorsExact /\ i \in inflight
  BY Zenon DEF Core, InvDesc
<1>2. i \in Pending /\ i \in Desc /\ i # NoDesc
  BY Zenon, <1>1, Constants DEF Pending, TypeOK
<1>3. PICK p \in Procs : idx[p] = i
  BY Zenon, <1>1, <1>2 DEF InvRing
<1>4. /\ data'[buf[p]] = "new" /\ \A c \in Bufs \ {buf[p]} : data'[c] = data[c]
      /\ store'[blockno[buf[p]]] = "new"
      /\ \A m \in Blocks \ {blockno[buf[p]]} : store'[m] = store[m]
      /\ data' \in [Bufs -> Content] /\ store' \in [Blocks -> Content]
  BY Zenon, <1>2, <1>3, DeviceCopies
<1>5. pc[p] \in Holding /\ buf[p] \in Bufs /\ blockno[buf[p]] \in Blocks
  BY Zenon, <1>1, <1>2, <1>3, BusyHolds, HasBuf
<1>6. /\ info'[i] = [b |-> buf[p], write |-> writing[p], sector |-> blockno[buf[p]], status |-> 0]
      /\ \A x \in Desc \ {i} : info'[x] = info[x]
      /\ DOMAIN info' = Desc
  <2>1. /\ DOMAIN info = Desc
        /\ info' = [info EXCEPT ![i].status = 0]
    BY Zenon, <1>1 DEF TypeOK
  <2>2. info[i] = [b |-> buf[p], write |-> writing[p], sector |-> blockno[buf[p]],
                   status |-> IF i \in Range(avail) \cup inflight THEN 255 ELSE 0]
    BY Zenon, <1>1, <1>2, <1>3 DEF InvRequest, Asks
  <2>3. (\A x \in Desc \ {i} : info'[x] = info[x]) /\ DOMAIN info' = Desc
    BY Zenon, <2>1
  <2>4. info'[i] = [info[i] EXCEPT !.status = 0]
    BY Zenon, <1>2, <2>1
  <2>5. info'[i] = [b |-> buf[p], write |-> writing[p], sector |-> blockno[buf[p]], status |-> 0]
    BY <2>2, <2>4
  <2> QED BY Zenon, <2>3, <2>5
<1>7. i \notin Range(avail) /\ i \notin Range(used)
  BY Zenon, <1>1 DEF InvRing
<1>8. /\ used' \in Seq(Desc) /\ NoRepeats(used') /\ Range(used') = Range(used) \cup {i}
  <2>1. used \in Seq(Desc) /\ NoRepeats(used) /\ used' = Append(used, i)
    BY Zenon, <1>1 DEF TypeOK, InvRing
  <2>2. /\ Append(used, i) \in Seq(Desc) /\ NoRepeats(Append(used, i))
        /\ Range(Append(used, i)) = Range(used) \cup {i}
    BY <1>2, <1>7, <2>1, AddLast
  <2> QED BY Zenon, <2>1, <2>2
<1>9. inflight' = inflight \ {i} /\ Pending' = Pending
  <2>1. inflight' = inflight \ {i}
    BY Zenon
  <2> QED BY Zenon, <1>1, <1>8, <2>1 DEF Pending
<1>10. ASSUME NEW q \in Procs \ {p}, idx[q] # NoDesc \/ pc[q] = "rw_ret"
       PROVE  /\ idx[q] # NoDesc => idx[q] # i /\ info'[idx[q]] = info[idx[q]]
              /\ data'[buf[q]] = data[buf[q]]
              /\ store'[blockno[buf[q]]] = store[blockno[buf[q]]]
  <2>1. pc[q] \in Holding /\ pc[q] # "idle"
    BY Zenon, <1>1, <1>10, BusyHolds DEF Holding, Transfer
  <2>2. buf[q] \in Bufs /\ blockno[buf[q]] \in Blocks
    BY Zenon, <1>1, <2>1, HasBuf
  <2>3. buf[q] # buf[p] /\ blockno[buf[q]] # blockno[buf[p]]
    BY Zenon, <1>1, <1>5, <2>1, OneOwner
  <2>4. ASSUME idx[q] # NoDesc PROVE idx[q] # i /\ idx[q] \in Desc
    BY Zenon, <1>1, <1>2, <1>3, <2>4, OneRequest DEF TypeOK
  <2>5. idx[q] # NoDesc => idx[q] # i /\ info'[idx[q]] = info[idx[q]]
    BY Zenon, <1>6, <2>4
  <2>6. data'[buf[q]] = data[buf[q]] /\ store'[blockno[buf[q]]] = store[blockno[buf[q]]]
    BY Zenon, <1>4, <2>2, <2>3
  <2> QED BY Zenon, <2>5, <2>6
<1>11. TypeOK'
  <2>1. inflight' \in SUBSET Desc
    BY Zenon, <1>1, <1>9 DEF TypeOK
  <2> QED BY Zenon, <1>1, <1>4, <1>6, <1>8, <2>1 DEF TypeOK
<1>12. InvUse' /\ InvHolder'
  BY Zenon, UsesKept, HolderKept DEF Core, InvUse, Uses
<1>13. InvUnique'
  BY Zenon, UniqueKept DEF Core
<1>14. InvData'
  <2>1. \A c \in Bufs : valid'[c] => data'[c] = "new"
    BY Zenon, <1>1, <1>4 DEF InvData
  <2>2. \A m \in Blocks \ logged' : store'[m] = "new"
    BY Zenon, <1>1, <1>4 DEF InvData
  <2>3. \A m \in logged' : \E c \in Bufs : blockno'[c] = m /\ valid'[c]
    BY Zenon, <1>1 DEF InvData
  <2>4. ASSUME NEW q \in Procs, Done(q)'
        PROVE  data'[buf'[q]] = "new" /\ store'[blockno'[buf'[q]]] = "new"
    <3>1. CASE q = p
      BY Zenon, <1>4, <3>1
    <3>2. CASE q # p
      <4>1. idx[q] # NoDesc \/ pc[q] = "rw_ret"
        BY Zenon, <2>4 DEF Done
      <4>2. Done(q)
        <5>1. CASE pc[q] = "rw_ret"
          BY Zenon, <5>1 DEF Done
        <5>2. CASE pc[q] # "rw_ret"
          <6>1. idx[q] # NoDesc /\ info'[idx[q]].status = 0
            BY Zenon, <2>4, <5>2 DEF Done
          <6>2. info'[idx[q]] = info[idx[q]]
            BY Zenon, <1>10, <3>2, <6>1
          <6> QED BY Zenon, <6>1, <6>2 DEF Done
        <5> QED BY Zenon, <5>1, <5>2
      <4>3. data[buf[q]] = "new" /\ store[blockno[buf[q]]] = "new"
        BY Zenon, <1>1, <4>2 DEF InvData
      <4> QED BY Zenon, <1>10, <3>2, <4>1, <4>3
    <3> QED BY Zenon, <3>1, <3>2
  <2> QED BY Zenon, <2>1, <2>2, <2>3, <2>4 DEF InvData
<1>15. InvRing'
  <2>1. Range(avail) \cap Range(used') = {} /\ inflight' \cap Range(used') = {}
    BY Zenon, <1>1, <1>7, <1>8, <1>9 DEF InvRing
  <2>2. Range(avail) \cap inflight' = {}
    BY Zenon, <1>1, <1>9 DEF InvRing
  <2>3. \A x \in Pending' : \E q \in Procs : idx'[q] = x
    BY Zenon, <1>1, <1>9 DEF InvRing
  <2>4. irq' /\ UNCHANGED <<avail, idx>>
    BY Zenon
  <2>5. Range(avail') = Range(avail) /\ NoRepeats(avail')
    BY Zenon, <1>1, <2>4 DEF InvRing
  <2> QED BY Zenon, <1>8, <2>1, <2>2, <2>3, <2>4, <2>5 DEF InvRing
<1>16. InvRequest'
  <2>1. Asks(p)'
    <3>1. Asks(p)
      BY Zenon, <1>1 DEF InvRequest
    <3>2. i \notin Range(avail') \cup inflight'
      BY Zenon, <1>7, <1>9
    <3> QED BY <1>2, <1>3, <1>6, <1>9, <3>1, <3>2 DEF Asks
  <2>2. ASSUME NEW q \in Procs \ {p}, idx[q] # NoDesc PROVE Asks(q)'
    <3>1. Asks(q)
      BY Zenon, <1>1 DEF InvRequest
    <3>2. idx[q] # i /\ info'[idx[q]] = info[idx[q]]
      BY Zenon, <1>10, <2>2
    <3>3. idx[q] \in Range(avail') \cup inflight' <=> idx[q] \in Range(avail) \cup inflight
      BY Zenon, <1>9, <3>2
    <3> QED BY <1>9, <3>1, <3>2, <3>3 DEF Asks
  <2>3. \A q \in Procs : idx[q] = NoDesc => Asks(q)'
    BY Zenon DEF Asks
  <2> QED BY Zenon, <2>1, <2>2, <2>3 DEF InvRequest
<1>17. InvDesc'
  BY Zenon, <1>1, DescKept
<1> QED BY Zenon, <1>11, <1>12, <1>13, <1>14, <1>15, <1>16, <1>17 DEF Core

-----------------------------------------------------------------------------
(***************************************************************************)
(* Counting: descriptors, buffers and references                           *)
(***************************************************************************)

INSTANCE FiniteSetTheorems

\* A set of numbers has a least one.
LEMMA LeastNumber ==
  ASSUME NEW T \in SUBSET Nat, T # {}
  PROVE  \E x \in T : \A y \in T : x <= y
<1> DEFINE R == {ss \in Nat \X Nat : ss[1] < ss[2]}
<1>1. IsWellFoundedOn(R, Nat)
  BY Zenon, NatLessThanWellFounded DEF OpToRel
<1> HIDE DEF R
<1>2. PICK x \in T : \A y \in T : ~(<<y, x>> \in R)
  BY <1>1, WFMin, Zenon
<1>3. ASSUME NEW y \in T PROVE x <= y
  <2>1. <<y, x>> \in Nat \X Nat /\ <<y, x>>[1] = y /\ <<y, x>>[2] = x
    BY Zenon
  <2>2. ~(y < x)
    BY <1>2, <2>1 DEF R
  <2> QED BY <2>2
<1> QED BY Zenon, <1>3

\* Min and Max choose members.
LEMMA MinIn ==
  ASSUME NEW T \in SUBSET Nat, T # {}
  PROVE  Min(T) \in T
<1>1. \E x \in T : \A y \in T : x <= y
  BY Zenon, LeastNumber
<1> QED BY Zenon, <1>1 DEF Min

LEMMA MaxIn ==
  ASSUME NEW n \in Nat, NEW T \in SUBSET (1 .. n), T # {}
  PROVE  Max(T) \in T
<1> DEFINE U == {n - k : k \in T}
<1>0. \A k \in T : k \in Int /\ n - k \in Nat
  OBVIOUS
<1>1. U \in SUBSET Nat /\ U # {}
  BY Zenon, <1>0
<1> HIDE DEF U
<1>2. PICK x \in U : \A y \in U : x <= y
  BY Zenon, <1>1, LeastNumber
<1>3. PICK k \in T : x = n - k
  BY Zenon, <1>2 DEF U
<1>4. ASSUME NEW j \in T PROVE k >= j
  <2>1. n - k <= n - j
    BY Zenon, <1>2, <1>3 DEF U
  <2> QED BY <1>0, <2>1
<1> QED BY Zenon, <1>4 DEF Max

\* alloc3_desc() finds three different descriptors when there are three.
LEMMA ThreeFree ==
  ASSUME free \in SUBSET Desc, Cardinality(free) >= 3
  PROVE  /\ Lowest \in free /\ Second \in free /\ Third \in free
         /\ Lowest # Second /\ Lowest # Third /\ Second # Third
<1>0. IsFiniteSet(Desc)
  <2>1. 0 \in Int /\ NUM - 1 \in Int
    BY VirtioAssumption
  <2> QED BY Zenon, <2>1, FS_Interval DEF Desc
<1>1. IsFiniteSet(free)
  BY Zenon, <1>0, FS_Subset
<1>2. Cardinality(free) \in Nat /\ free \in SUBSET Nat
  BY <1>1, FS_CardinalityType, VirtioAssumption DEF Desc
<1>3. free # {}
  BY <1>2, FS_EmptySet
<1>4. Lowest \in free
  BY Zenon, <1>2, <1>3, MinIn DEF Lowest
<1>5. /\ IsFiniteSet(free \ {Lowest})
      /\ Cardinality(free \ {Lowest}) = Cardinality(free) - 1
  BY Zenon, <1>1, <1>4, FS_RemoveElement
<1>6. free \ {Lowest} # {}
  BY <1>2, <1>5, FS_EmptySet
<1>7. Second \in free \ {Lowest}
  BY <1>2, <1>6, MinIn DEF Second
<1>8. /\ IsFiniteSet((free \ {Lowest}) \ {Second})
      /\ Cardinality((free \ {Lowest}) \ {Second}) = Cardinality(free \ {Lowest}) - 1
  BY Zenon, <1>5, <1>7, FS_RemoveElement
<1>9. (free \ {Lowest}) \ {Second} # {}
  BY <1>2, <1>5, <1>8, FS_EmptySet
<1>10. (free \ {Lowest}) \ {Second} = free \ {Lowest, Second}
  BY Zenon
<1>11. Third \in free \ {Lowest, Second}
  BY <1>2, <1>9, <1>10, MinIn DEF Third
<1> QED BY Zenon, <1>4, <1>7, <1>11

\* There are finitely many free descriptors.
LEMMA FreeFinite ==
  ASSUME TypeOK
  PROVE  IsFiniteSet(free)
<1>1. IsFiniteSet(Desc)
  BY FS_Interval, VirtioAssumption DEF Desc
<1> QED BY Zenon, <1>1, FS_Subset DEF TypeOK

\* A process that takes a buffer is one more of its users,
LEMMA Joined ==
  ASSUME TypeOK, InvCount, NEW p \in Procs, buf[p] = NoBuf, NEW b \in Bufs,
         buf' = [buf EXCEPT ![p] = b]
  PROVE  /\ IsFiniteSet(Users(b)') /\ Cardinality(Users(b)') = Cardinality(Users(b)) + 1
         /\ \A c \in Bufs \ {b} : Users(c)' = Users(c)
<1>1. buf'[p] = b /\ \A q \in Procs \ {p} : buf'[q] = buf[q]
  BY Zenon DEF TypeOK
<1>2. Users(b)' = Users(b) \cup {p} /\ p \notin Users(b)
  BY Zenon, <1>1, Constants DEF Users
<1>3. \A c \in Bufs \ {b} : Users(c)' = Users(c)
  BY Zenon, <1>1, Constants DEF Users
<1>4. IsFiniteSet(Users(b))
  BY Zenon DEF InvCount
<1> QED BY Zenon, <1>2, <1>3, <1>4, FS_AddElement

\* and one that drops it is one less.
LEMMA Left ==
  ASSUME TypeOK, InvCount, NEW p \in Procs, NEW b \in Bufs, buf[p] = b,
         buf' = [buf EXCEPT ![p] = NoBuf]
  PROVE  /\ IsFiniteSet(Users(b)') /\ Cardinality(Users(b)') = Cardinality(Users(b)) - 1
         /\ \A c \in Bufs \ {b} : Users(c)' = Users(c)
<1>1. buf'[p] = NoBuf /\ \A q \in Procs \ {p} : buf'[q] = buf[q]
  BY Zenon DEF TypeOK
<1>2. Users(b)' = Users(b) \ {p} /\ p \in Users(b)
  BY Zenon, <1>1, Constants DEF Users
<1>3. \A c \in Bufs \ {b} : Users(c)' = Users(c)
  BY Zenon, <1>1, Constants DEF Users
<1>4. IsFiniteSet(Users(b))
  BY Zenon DEF InvCount
<1> QED BY Zenon, <1>2, <1>3, <1>4, FS_RemoveElement

\* The users of a buffer stay the same when no process changes its buffer.
LEMMA UsersKept ==
  ASSUME UNCHANGED buf
  PROVE  \A c : Users(c)' = Users(c)
BY Zenon DEF Users

\* A buffer that nobody uses is not pinned, so its block is not in the log.
LEMMA UnusedBuf ==
  ASSUME TypeOK, InvCount, NEW b \in Bufs, refcnt[b] = 0
  PROVE  Users(b) = {} /\ blockno[b] \notin logged
<1>1. IsFiniteSet(Users(b)) /\ Cardinality(Users(b)) \in Nat
  BY Zenon, FS_CardinalityType DEF InvCount
<1>2. 0 = Cardinality(Users(b)) + (IF blockno[b] \in logged THEN 1 ELSE 0)
  BY Zenon DEF InvCount
<1>3. Cardinality(Users(b)) = 0 /\ blockno[b] \notin logged
  BY <1>1, <1>2
<1> QED BY Zenon, <1>1, <1>3, FS_EmptySet

\* Nobody has a buffer to begin with.
LEMMA CountInit == Init => InvCount
<1> SUFFICES ASSUME Init PROVE InvCount
  OBVIOUS
<1>1. ASSUME NEW b \in Bufs
      PROVE  /\ IsFiniteSet(Users(b))
             /\ refcnt[b] = Cardinality(Users(b)) + (IF blockno[b] \in logged THEN 1 ELSE 0)
  <2>1. Users(b) = {}
    BY Zenon, Constants DEF Init, Users
  <2>2. IsFiniteSet(Users(b)) /\ Cardinality(Users(b)) = 0
    BY Zenon, <2>1, FS_EmptySet
  <2>3. refcnt[b] = 0 /\ blockno[b] \notin logged
    BY Zenon DEF Init
  <2> QED BY <2>2, <2>3
<1> QED BY Zenon, <1>1 DEF InvCount

\* Steps that leave the references alone.
LEMMA CountKept ==
  ASSUME InvCount, UNCHANGED <<blockno, refcnt, buf, logged>>
  PROVE  InvCount'
BY Zenon, UsersKept DEF InvCount

\* bunpin() is called for a block that is in the log.
LEMMA CountUnpinned ==
  ASSUME Core, InvCount, NEW p \in Procs, RwReturned(p), writing[p]
  PROVE  InvCount'
<1> DEFINE b == buf[p]
           n == blockno[buf[p]]
<1>1. TypeOK /\ InvUse /\ InvUnique /\ InvCount /\ UNCHANGED <<buf, blockno>>
  BY Zenon DEF Core, RwReturned
<1>2. b \in Bufs /\ n \in Blocks
  BY Zenon, <1>1, HasBuf DEF RwReturned
<1>3. /\ refcnt' = IF n \in logged THEN [refcnt EXCEPT ![b] = @ - 1] ELSE refcnt
      /\ logged' = logged \ {n}
  BY Zenon DEF RwReturned
<1>4. ASSUME NEW c \in Bufs
      PROVE  refcnt'[c] = Cardinality(Users(c)) + (IF blockno[c] \in logged' THEN 1 ELSE 0)
  <2>1. refcnt[c] = Cardinality(Users(c)) + (IF blockno[c] \in logged THEN 1 ELSE 0)
    BY Zenon, <1>1 DEF InvCount
  <2>2. Cardinality(Users(c)) \in Nat
    BY Zenon, <1>1, FS_CardinalityType DEF InvCount
  <2>3. CASE c = b
    BY SMTT(20), <1>1, <1>2, <1>3, <2>1, <2>2, <2>3 DEF TypeOK
  <2>4. CASE c # b
    <3>1. blockno[c] # n
      BY Zenon, <1>1, <1>2, <2>4, Constants DEF InvUnique
    <3>2. refcnt'[c] = refcnt[c] /\ (blockno[c] \in logged' <=> blockno[c] \in logged)
      BY Zenon, <1>1, <1>3, <2>4, <3>1 DEF TypeOK
    <3> QED BY Zenon, <2>1, <3>2
  <2> QED BY Zenon, <2>3, <2>4
<1> QED BY Zenon, <1>1, <1>4, UsersKept DEF InvCount

\* bpin() is called for a block that is not in the log yet.
LEMMA CountPinned ==
  ASSUME Core, InvCount, NEW p \in Procs, log_write(p)
  PROVE  InvCount'
<1> DEFINE b == buf[p]
           n == blockno[buf[p]]
<1>1. TypeOK /\ InvUse /\ InvUnique /\ InvCount /\ UNCHANGED <<buf, blockno>>
  BY Zenon DEF Core, log_write
<1>2. b \in Bufs /\ n \in Blocks
  BY Zenon, <1>1, HasBuf DEF log_write
<1>3. /\ refcnt' = IF n \in logged THEN refcnt ELSE [refcnt EXCEPT ![b] = @ + 1]
      /\ logged' = logged \cup {n}
  BY Zenon DEF log_write
<1>4. \A c \in Bufs \ {b} : blockno[c] # n
  BY Zenon, <1>1, <1>2, Constants DEF InvUnique
<1>5. ASSUME NEW c \in Bufs
      PROVE  refcnt'[c] = Cardinality(Users(c)) + (IF blockno[c] \in logged' THEN 1 ELSE 0)
  <2>1. refcnt[c] = Cardinality(Users(c)) + (IF blockno[c] \in logged THEN 1 ELSE 0)
    BY Zenon, <1>1 DEF InvCount
  <2>2. Cardinality(Users(c)) \in Nat
    BY Zenon, <1>1, FS_CardinalityType DEF InvCount
  <2>3. CASE c = b
    BY SMTT(20), <1>1, <1>2, <1>3, <2>1, <2>2, <2>3 DEF TypeOK
  <2>4. CASE c # b
    <3>1. refcnt'[c] = refcnt[c] /\ (blockno[c] \in logged' <=> blockno[c] \in logged)
      BY Zenon, <1>1, <1>3, <1>4, <2>4 DEF TypeOK
    <3> QED BY Zenon, <2>1, <3>1
  <2> QED BY Zenon, <2>3, <2>4
<1> QED BY Zenon, <1>1, <1>5, UsersKept DEF InvCount

\* brelse() drops the reference of its caller.
LEMMA CountReleased ==
  ASSUME Core, InvCount, NEW p \in Procs, brelse(p)
  PROVE  InvCount'
<1>1. TypeOK /\ InvUse /\ InvCount /\ UNCHANGED <<blockno, logged>>
  BY Zenon DEF Core, brelse
<1>2. PICK b \in Bufs : buf[p] = b
  BY Zenon, <1>1, HasBuf DEF brelse
<1>3. refcnt' = [refcnt EXCEPT ![b] = @ - 1] /\ buf' = [buf EXCEPT ![p] = NoBuf]
  BY Zenon, <1>2 DEF brelse
<1>4. /\ IsFiniteSet(Users(b)') /\ Cardinality(Users(b)') = Cardinality(Users(b)) - 1
      /\ \A c \in Bufs \ {b} : Users(c)' = Users(c)
  BY Zenon, <1>1, <1>2, <1>3, Left
<1>5. refcnt'[b] = Cardinality(Users(b)') + (IF blockno[b] \in logged THEN 1 ELSE 0)
  <2>1. refcnt[b] = Cardinality(Users(b)) + (IF blockno[b] \in logged THEN 1 ELSE 0)
    BY Zenon, <1>1, <1>2 DEF InvCount
  <2>2. Cardinality(Users(b)) \in Nat
    BY Zenon, <1>1, <1>2, FS_CardinalityType DEF InvCount
  <2>3. refcnt'[b] = refcnt[b] - 1
    BY Zenon, <1>1, <1>3 DEF TypeOK
  <2> QED BY <1>4, <2>1, <2>2, <2>3
<1>6. ASSUME NEW c \in Bufs \ {b}
      PROVE  /\ IsFiniteSet(Users(c)')
             /\ refcnt'[c] = Cardinality(Users(c)') + (IF blockno[c] \in logged THEN 1 ELSE 0)
  <2>1. refcnt'[c] = refcnt[c]
    BY Zenon, <1>1, <1>3 DEF TypeOK
  <2> QED BY Zenon, <1>1, <1>4, <2>1 DEF InvCount
<1> QED BY Zenon, <1>1, <1>4, <1>5, <1>6 DEF InvCount

\* bget() counts the process that takes a buffer,
LEMMA CountTaken ==
  ASSUME Core, InvCount, NEW p \in Procs, NEW n \in Blocks, bget(p, n), NEW b \in Cached(n),
         refcnt' = [refcnt EXCEPT ![b] = @ + 1], buf' = [buf EXCEPT ![p] = b],
         UNCHANGED blockno
  PROVE  InvCount'
<1>1. TypeOK /\ InvUse /\ InvCount /\ UNCHANGED <<blockno, logged>>
  BY Zenon DEF Core, bget
<1>2. b \in Bufs /\ buf[p] = NoBuf
  BY Zenon, <1>1 DEF InvUse, Uses, Cached, bget
<1>3. /\ IsFiniteSet(Users(b)') /\ Cardinality(Users(b)') = Cardinality(Users(b)) + 1
      /\ \A c \in Bufs \ {b} : Users(c)' = Users(c)
  BY Zenon, <1>1, <1>2, Joined
<1>4. refcnt'[b] = Cardinality(Users(b)') + (IF blockno[b] \in logged THEN 1 ELSE 0)
  <2>1. refcnt[b] = Cardinality(Users(b)) + (IF blockno[b] \in logged THEN 1 ELSE 0)
    BY Zenon, <1>1, <1>2 DEF InvCount
  <2>2. Cardinality(Users(b)) \in Nat
    BY Zenon, <1>1, <1>2, FS_CardinalityType DEF InvCount
  <2>3. refcnt'[b] = refcnt[b] + 1
    BY Zenon, <1>1, <1>2 DEF TypeOK
  <2> QED BY <1>3, <2>1, <2>2, <2>3
<1>5. ASSUME NEW c \in Bufs \ {b}
      PROVE  /\ IsFiniteSet(Users(c)')
             /\ refcnt'[c] = Cardinality(Users(c)') + (IF blockno[c] \in logged THEN 1 ELSE 0)
  <2>1. refcnt'[c] = refcnt[c]
    BY Zenon, <1>1 DEF TypeOK
  <2> QED BY Zenon, <1>1, <1>3, <2>1 DEF InvCount
<1> QED BY Zenon, <1>1, <1>3, <1>4, <1>5 DEF InvCount

\* which is the first one of a buffer that is recycled.
LEMMA CountRecycled ==
  ASSUME Core, InvCount, NEW p \in Procs, NEW n \in Blocks, bget(p, n), Cached(n) = {},
         NEW b \in Bufs, Users(b) = {}, blockno' = [blockno EXCEPT ![b] = n],
         refcnt' = [refcnt EXCEPT ![b] = 1], buf' = [buf EXCEPT ![p] = b]
  PROVE  InvCount'
<1>1. TypeOK /\ InvUse /\ InvCount /\ InvData /\ UNCHANGED logged
  BY Zenon DEF Core, bget
<1>2. buf[p] = NoBuf
  BY Zenon, <1>1 DEF InvUse, Uses, bget
<1>3. n \notin logged
  BY Zenon, <1>1 DEF Cached, InvData
<1>4. /\ blockno'[b] = n /\ refcnt'[b] = 1
      /\ \A c \in Bufs \ {b} : blockno'[c] = blockno[c] /\ refcnt'[c] = refcnt[c]
  BY Zenon, <1>1 DEF TypeOK
<1>5. /\ IsFiniteSet(Users(b)') /\ Cardinality(Users(b)') = Cardinality(Users(b)) + 1
      /\ \A c \in Bufs \ {b} : Users(c)' = Users(c)
  BY Zenon, <1>1, <1>2, Joined
<1>6. refcnt'[b] = Cardinality(Users(b)') + (IF blockno'[b] \in logged' THEN 1 ELSE 0)
  <2>1. Cardinality(Users(b)) = 0
    BY Zenon, FS_EmptySet
  <2>2. blockno'[b] \notin logged'
    BY SMTT(20), <1>1, <1>3, <1>4
  <2> QED BY SMTT(20), <1>4, <1>5, <2>1, <2>2
<1>7. ASSUME NEW c \in Bufs \ {b}
      PROVE  /\ IsFiniteSet(Users(c)')
             /\ refcnt'[c] = Cardinality(Users(c)') + (IF blockno'[c] \in logged' THEN 1 ELSE 0)
  <2>1. refcnt'[c] = refcnt[c] /\ (blockno'[c] \in logged' <=> blockno[c] \in logged)
    BY <1>1, <1>4
  <2>2. /\ IsFiniteSet(Users(c)')
        /\ refcnt[c] = Cardinality(Users(c)') + (IF blockno[c] \in logged THEN 1 ELSE 0)
    BY Zenon, <1>1, <1>5 DEF InvCount
  <2> QED BY <2>1, <2>2
<1> QED BY Zenon, <1>5, <1>6, <1>7 DEF InvCount

-----------------------------------------------------------------------------
(***************************************************************************)
(* The theorems                                                            *)
(***************************************************************************)

\* bget() finds the block in the cache, or recycles a buffer.
LEMMA BgetStep ==
  ASSUME Inv, NEW p \in Procs, NEW n \in Blocks, bget(p, n)
  PROVE  Inv'
<1>0. Core /\ InvCount
  BY Zenon DEF Inv
<1>1. CASE \E b \in Cached(n) :
             /\ refcnt' = [refcnt EXCEPT ![b] = @ + 1]
             /\ buf' = [buf EXCEPT ![p] = b]
             /\ UNCHANGED <<blockno, valid, data>>
  BY Zenon, <1>0, <1>1, BgetCached, CountTaken DEF Inv
<1>2. CASE ~ \E b \in Cached(n) :
             /\ refcnt' = [refcnt EXCEPT ![b] = @ + 1]
             /\ buf' = [buf EXCEPT ![p] = b]
             /\ UNCHANGED <<blockno, valid, data>>
  <2>1. PICK b : /\ b = lru[Max(Unused)] /\ Cached(n) = {} /\ Unused # {}
                 /\ blockno' = [blockno EXCEPT ![b] = n]
                 /\ valid' = [valid EXCEPT ![b] = FALSE]
                 /\ refcnt' = [refcnt EXCEPT ![b] = 1]
                 /\ data' = [data EXCEPT ![b] = "old"]
                 /\ buf' = [buf EXCEPT ![p] = b]
    BY Zenon, <1>2 DEF bget
  <2>2. TypeOK
    BY Zenon, <1>0 DEF Core
  <2>3. Len(lru) \in Nat /\ \A k \in 1 .. Len(lru) : lru[k] \in Bufs
    BY <2>2 DEF TypeOK
  <2>4. Unused \in SUBSET (1 .. Len(lru))
    BY Zenon DEF Unused
  <2>5. Max(Unused) \in Unused
    BY Zenon, <2>1, <2>3, <2>4, MaxIn
  <2>6. b \in Bufs /\ refcnt[b] = 0
    BY Zenon, <2>1, <2>3, <2>5 DEF Unused
  <2>7. Users(b) = {} /\ blockno[b] \notin logged
    BY Zenon, <1>0, <2>2, <2>6, UnusedBuf
  <2>8. \A q \in Procs : buf[q] # b
    BY Zenon, <2>7 DEF Users
  <2>9. Core'
    BY Zenon, <1>0, <2>1, <2>6, <2>7, <2>8, BgetRecycle
  <2>10. InvCount'
    BY Zenon, <1>0, <2>1, <2>6, <2>7, CountRecycled
  <2> QED BY Zenon, <2>9, <2>10 DEF Inv
<1> QED BY Zenon, <1>1, <1>2

\* virtio_disk_rw() finds enough descriptors or waits for them.
LEMMA DriverStep ==
  ASSUME Core, NEW p \in Procs, Driver(p)
  PROVE  Core'
<1>1. TypeOK
  BY Zenon DEF Core
<1>2. Cardinality(free) \in Nat
  BY Zenon, <1>1, FreeFinite, FS_CardinalityType
<1>3. CASE Cardinality(free) >= 3
  <2>1. ~(Cardinality(free) < 3)
    BY <1>2, <1>3
  <2>2. /\ Lowest \in free /\ Second \in free /\ Third \in free
        /\ Lowest # Second /\ Lowest # Third /\ Second # Third
    BY Zenon, <1>1, <1>3, ThreeFree DEF TypeOK
  <2> QED BY Zenon, <1>3, <2>1, <2>2, RwAlloc
<1>4. CASE ~(Cardinality(free) >= 3)
  BY Zenon, <1>2, <1>4, RwFull
<1> QED BY Zenon, <1>3, <1>4

\* Every step of a process keeps the invariant,
LEMMA ProcessStep ==
  ASSUME Inv, NEW p \in Procs,
         \/ CacheStep(p) \/ Killed(p) \/ log_write(p) \/ bwrite(p) \/ BrelseUnlock(p)
         \/ \E n \in Blocks : bget(p, n)
         \/ Driver(p) \/ DriverDone(p) \/ DriverKilled(p)
  PROVE  Inv'
<1>0. Core /\ InvCount
  BY Zenon DEF Inv
<1>1. CASE acquiresleep(p) \/ bread(p)
  <2>1. Core'
    BY Zenon, <1>0, <1>1, AcquiresleepStep, BreadStep
  <2>2. UNCHANGED <<blockno, refcnt, buf, logged>>
    BY Zenon, <1>1 DEF acquiresleep, bread, cacheVars
  <2> QED BY Zenon, <1>0, <2>1, <2>2, CountKept DEF Inv
<1>2. CASE Killed(p) \/ bwrite(p) \/ BrelseUnlock(p)
  <2>1. Core'
    BY Zenon, <1>0, <1>2, KilledStep, BwriteStep, BrelseUnlockStep
  <2>2. UNCHANGED <<blockno, refcnt, buf, logged>>
    BY Zenon, <1>2 DEF Killed, bwrite, BrelseUnlock, cacheVars
  <2> QED BY Zenon, <1>0, <2>1, <2>2, CountKept DEF Inv
<1>3. CASE RwReturned(p)
  <2>1. CASE writing[p]
    BY Zenon, <1>0, <1>3, <2>1, WriteReturned, CountUnpinned DEF Inv
  <2>2. CASE ~writing[p]
    <3>1. UNCHANGED <<blockno, refcnt, buf, logged>>
      BY Zenon, <1>3, <2>2 DEF RwReturned
    <3> QED BY Zenon, <1>0, <1>3, <2>2, <3>1, ReadReturned, CountKept DEF Inv
  <2> QED BY Zenon, <2>1, <2>2
<1>4. CASE brelse(p) \/ log_write(p)
  BY Zenon, <1>0, <1>4, BrelseStep, CountReleased, LogWriteStep, CountPinned DEF Inv
<1>5. CASE \E n \in Blocks : bget(p, n)
  BY Zenon, <1>5, BgetStep
<1>6. CASE Driver(p) \/ DriverDone(p) \/ DriverKilled(p)
  <2>1. Core'
    BY Zenon, <1>0, <1>6, DriverStep, RwAgain, RwFinish, RwKilledStep
  <2>2. UNCHANGED <<blockno, refcnt, buf, logged>>
    BY Zenon, <1>6 DEF Driver, DriverDone, DriverKilled, virtio_disk_rw, RwDone, RwKilled, cacheVars
  <2> QED BY Zenon, <1>0, <2>1, <2>2, CountKept DEF Inv
<1> QED BY Zenon, <1>1, <1>2, <1>3, <1>4, <1>5, <1>6 DEF CacheStep

\* and so does every step of the interrupt handler and of the device.
LEMMA NextInv == Inv /\ [Next]_vars => Inv'
<1> SUFFICES ASSUME Inv, [Next]_vars PROVE Inv'
  OBVIOUS
<1>0. Core /\ InvCount
  BY Zenon DEF Inv
<1>1. CASE \E p \in Procs :
             \/ CacheStep(p) \/ Killed(p) \/ log_write(p) \/ bwrite(p) \/ BrelseUnlock(p)
             \/ \E n \in Blocks : bget(p, n)
             \/ Driver(p) \/ DriverDone(p) \/ DriverKilled(p)
  BY Zenon, <1>1, ProcessStep
<1>2. CASE Interrupt \/ Device
  <2>1. Core'
    BY Zenon, <1>0, <1>2, IntrStartEnd, IntrNextStep, DeviceTakeStep, DeviceDoneStep
       DEF Interrupt, Device
  <2>2. UNCHANGED <<blockno, refcnt, buf, logged>>
    BY Zenon, <1>2 DEF Interrupt, Device, IntrStart, IntrNext, IntrEnd, DeviceTake, DeviceDone, cacheVars
  <2> QED BY Zenon, <1>0, <2>1, <2>2, CountKept DEF Inv
<1>3. CASE UNCHANGED vars
  <2>1. UNCHANGED <<blockno, data, onDisk, free, next, info, avail, used, handler, inflight, irq,
                    store, pc, buf, writing, idx, panic, valid, refcnt, holder, lru, logged>>
    BY Zenon, <1>3 DEF vars, diskVars, cacheVars, descVars, deviceVars
  <2>2. TypeOK' /\ InvUse' /\ InvHolder'
    BY Zenon, <1>0, <2>1, UsesKept, HolderKept DEF Core, TypeOK, InvUse, Uses
  <2>3. InvUnique' /\ InvData' /\ InvRing' /\ InvRequest' /\ InvDesc'
    BY Zenon, <1>0, <2>1, Quiet DEF descVars, deviceVars
  <2>4. Core'
    BY Zenon, <1>0, <2>1, <2>2, <2>3 DEF Core
  <2> QED BY Zenon, <1>0, <2>1, <2>4, CountKept DEF Inv
<1> QED BY Zenon, <1>1, <1>2, <1>3 DEF Next

\* The inductive invariant holds.
THEOREM BcacheInv == Spec => []Inv
<1>1. Init => Inv
  BY Zenon, InitInv, CountInit DEF Inv
<1>2. Inv /\ [Next]_vars => Inv'
  BY Zenon, NextInv
<1> QED BY <1>1, <1>2, PTL DEF Spec

\* bread() returns the current contents, to one process at a time: for any
\* number of processes, buffers, blocks and descriptors.
THEOREM ReadsAreCurrent == Spec => []HolderSeesLatest
<1>1. ASSUME Inv PROVE HolderSeesLatest
  <2> SUFFICES ASSUME NEW p \in Procs, pc[p] = "use"
               PROVE  /\ valid[buf[p]] /\ data[buf[p]] = "new"
                      /\ \A q \in Procs \ {p} : pc[q] = "use" => blockno[buf[q]] # blockno[buf[p]]
    BY Zenon DEF HolderSeesLatest
  <2>1. TypeOK /\ InvUse /\ InvHolder /\ InvUnique /\ InvData
    BY Zenon, <1>1 DEF Inv, Core
  <2>2. buf[p] \in Bufs /\ pc[p] \in Holding
    BY Zenon, <2>1, HasBuf DEF Holding
  <2>3. valid[buf[p]]
    BY Zenon, <2>1 DEF InvUse, Uses
  <2>4. data[buf[p]] = "new"
    BY Zenon, <2>1, <2>2, <2>3 DEF InvData
  <2>5. ASSUME NEW q \in Procs \ {p}, pc[q] = "use" PROVE blockno[buf[q]] # blockno[buf[p]]
    <3>1. pc[q] \in Holding
      BY Zenon, <2>5 DEF Holding
    <3> QED BY Zenon, <2>1, <2>2, <3>1, OneOwner
  <2> QED BY Zenon, <2>3, <2>4, <2>5
<1> QED BY <1>1, BcacheInv, PTL

\* acquiresleep(), alloc3_desc()'s caller and virtio_disk_rw() never sleep for
\* something that nobody is going to wake them up for.
THEOREM SleepersHaveWaker == Spec => []NoForgottenSleeper
<1>1. ASSUME Inv PROVE NoForgottenSleeper
  <2>1. TypeOK /\ InvUse /\ InvHolder /\ InvRing /\ InvRequest /\ InvDesc /\ DescriptorsExact
    BY Zenon, <1>1 DEF Inv, Core, InvDesc
  <2>2. ASSUME NEW p \in Procs, pc[p] = "asleep"
        PROVE  holder[buf[p]] \in {q \in Procs \ {p} : buf[q] = buf[p]}
    <3>1. buf[p] \in Bufs /\ holder[buf[p]] # NoProc
      BY Zenon, <2>1, <2>2, HasBuf DEF InvUse, Uses
    <3>2. holder[buf[p]] \in Procs
      BY Zenon, <2>1, <3>1 DEF TypeOK
    <3>3. buf[holder[buf[p]]] = buf[p] /\ pc[holder[buf[p]]] \in Holding
      BY Zenon, <2>1, <3>1, <3>2 DEF InvHolder
    <3>4. pc[p] \notin Holding
      BY Zenon, <2>2 DEF Holding, Transfer
    <3> QED BY Zenon, <3>2, <3>3, <3>4
  <2>3. ASSUME NEW p \in Procs, pc[p] = "rw_sleep"
        PROVE  Cardinality(free) < 3 /\ \E q \in Procs : idx[q] # NoDesc
    <3>1. Cardinality(free) < 3
      BY Zenon, <2>1, <2>3 DEF InvDesc
    <3>2. ASSUME \A q \in Procs : idx[q] = NoDesc PROVE FALSE
      <4>1. free = Desc
        <5>1. UNION {Chain(idx[q]) : q \in {r \in Procs : idx[r] # NoDesc}} = Desc \ free
          BY Zenon, <2>1 DEF DescriptorsExact
        <5>2. \A x \in Desc : x \in free
          BY Zenon, <3>2, <5>1
        <5> QED BY Zenon, <2>1, <5>2 DEF TypeOK
      <4>2. Cardinality(Desc) = NUM /\ NUM >= 3 /\ NUM \in Nat
        <5>1. NUM \in Nat /\ NUM >= 3
          BY Zenon, VirtioAssumption
        <5>2. 0 \in Int /\ NUM - 1 \in Int /\ (NUM - 1) - 0 + 1 = NUM /\ ~(0 > NUM - 1)
          BY <5>1
        <5>3. Cardinality(0 .. NUM - 1) = IF 0 > NUM - 1 THEN 0 ELSE (NUM - 1) - 0 + 1
          BY Zenon, <5>2, FS_Interval
        <5> QED BY Zenon, <5>1, <5>2, <5>3 DEF Desc
      <4> QED BY <3>1, <4>1, <4>2
    <3> QED BY Zenon, <3>1, <3>2
  <2>4. ASSUME NEW p \in Procs, pc[p] = "rw_wait"
        PROVE  /\ onDisk[buf[p]]
               /\ idx[p] \in Range(avail) \cup inflight \cup Range(used)
               /\ used # <<>> => irq \/ handler
    <3>1. idx[p] # NoDesc
      BY Zenon, <2>1, <2>4 DEF InvUse, Uses
    <3>2. onDisk[buf[p]] /\ idx[p] \in Pending
      BY Zenon, <2>1, <2>4, <3>1 DEF InvRequest, Asks
    <3> QED BY Zenon, <2>1, <3>2 DEF InvRing, Pending
  <2> QED BY Zenon, <2>2, <2>3, <2>4 DEF NoForgottenSleeper
<1> QED BY <1>1, BcacheInv, PTL

\* free_chain() gives every descriptor back that alloc3_desc() took, and none
\* is in two requests.
THEOREM NoDescriptorLost == Spec => []DescriptorsExact
<1>1. Inv => DescriptorsExact
  BY Zenon DEF Inv, Core, InvDesc
<1> QED BY <1>1, BcacheInv, PTL

\* None of the checks of bwrite(), brelse(), free_desc() and
\* virtio_disk_intr() fails.
THEOREM DiskNeverPanics == Spec => []~panic
<1>1. Inv => ~panic
  BY Zenon DEF Inv, Core
<1> QED BY <1>1, BcacheInv, PTL
=============================================================================
