------------------------------- MODULE Bcache -------------------------------
(***************************************************************************)
(* The buffer cache, kernel/bio.c, with its sleep locks,                   *)
(* kernel/sleeplock.c, over the disk driver (Virtio).                      *)
(*                                                                         *)
(* Processes use it as the file system does: bread() a block, perhaps      *)
(* change it and log it, which pins it (log_write()), perhaps bwrite() it  *)
(* and unpin it (install_trans()), brelse() it.  A step is what is done    *)
(* under bcache.lock or under the spinlock of a sleep lock.                *)
(***************************************************************************)
EXTENDS Virtio, Functions

CONSTANTS NoProc,
          Caches,     \* the lists of buffers that binit() may make (NBUF of them)
          MaxLogged   \* bound: blocks in the log at a time

ASSUME BcacheAssumption ==
  NoProc \notin Procs /\ Caches \subseteq Seq(Bufs) /\ MaxLogged \in Nat

VARIABLES
  valid, refcnt, holder,  \* struct buf; holder is lock.pid, NoProc if unlocked
  lru,                    \* bcache.head.next, ... , bcache.head.prev
  logged                  \* the blocks that the log has pinned

cacheVars == <<valid, refcnt, holder, lru, logged>>
vars == <<diskVars, cacheVars>>

\* binit().
Init ==
  /\ virtio_disk_init
  /\ blockno = [b \in Bufs |-> NoBlock] /\ valid = [b \in Bufs |-> FALSE]
  /\ refcnt = [b \in Bufs |-> 0] /\ holder = [b \in Bufs |-> NoProc]
  /\ data = [b \in Bufs |-> "old"] /\ onDisk = [b \in Bufs |-> FALSE]
  /\ lru \in Caches
  /\ store = [n \in Blocks |-> "new"] /\ logged = {}
  /\ pc = [p \in Procs |-> "idle"] /\ buf = [p \in Procs |-> NoBuf]
  /\ writing = [p \in Procs |-> FALSE] /\ idx = [p \in Procs |-> NoDesc]
  /\ panic = FALSE
-----------------------------------------------------------------------------
Cached(n) == {b \in Bufs : blockno[b] = n}
Unused == {k \in 1 .. Len(lru) : refcnt[lru[k]] = 0}

\* bget(), under bcache.lock: the buffer that has block n, or the least
\* recently used one that nobody uses.  It panics if there is none, which the
\* size of the cache (NBUF, param.h) is to prevent: bound.
bget(p, n) ==
  /\ pc[p] = "idle"
  /\ \/ \E b \in Cached(n) :
          /\ refcnt' = [refcnt EXCEPT ![b] = @ + 1]
          /\ buf' = [buf EXCEPT ![p] = b]
          /\ UNCHANGED <<blockno, valid, data>>
     \/ /\ Cached(n) = {} /\ Unused # {}
        /\ LET b == lru[Max(Unused)] IN
           /\ blockno' = [blockno EXCEPT ![b] = n]
           /\ valid' = [valid EXCEPT ![b] = FALSE]
           /\ refcnt' = [refcnt EXCEPT ![b] = 1]
           /\ data' = [data EXCEPT ![b] = "old"]
           /\ buf' = [buf EXCEPT ![p] = b]
  /\ Goto(p, "acquiresleep")
  /\ UNCHANGED <<onDisk, descVars, avail, used, handler, deviceVars, writing, idx,
                 panic, holder, lru, logged>>

\* acquiresleep(&b->lock), again after every wakeup.
acquiresleep(p) ==
  LET b == buf[p] IN
  /\ pc[p] = "acquiresleep"
  /\ IF holder[b] # NoProc
       THEN Goto(p, "asleep") /\ UNCHANGED holder
       ELSE Goto(p, "bread") /\ holder' = [holder EXCEPT ![b] = p]
  /\ UNCHANGED <<blockno, data, onDisk, descVars, avail, used, handler, deviceVars, buf,
                 writing, idx, panic, valid, refcnt, lru, logged>>

\* kill() wakes a process that waits for a sleep lock; it tries again.
Killed(p) ==
  /\ pc[p] = "asleep"
  /\ Goto(p, "acquiresleep")
  /\ UNCHANGED <<blockno, data, onDisk, descVars, avail, used, handler, deviceVars, buf,
                 writing, idx, panic, cacheVars>>

\* bread(): a buffer that is not valid is read from the disk.
bread(p) ==
  /\ pc[p] = "bread"
  /\ Goto(p, IF valid[buf[p]] THEN "use" ELSE "rw")
  /\ writing' = [writing EXCEPT ![p] = FALSE]
  /\ UNCHANGED <<blockno, data, onDisk, descVars, avail, used, handler, deviceVars, buf, idx,
                 panic, cacheVars>>

\* virtio_disk_rw() has returned, to bread() or to bwrite(); after bwrite()
\* the log unpins the block (bunpin()).
RwReturned(p) ==
  LET b == buf[p] IN
  /\ pc[p] = "rw_ret"
  /\ IF writing[p]
       THEN /\ refcnt' = IF blockno[b] \in logged THEN [refcnt EXCEPT ![b] = @ - 1] ELSE refcnt
            /\ logged' = logged \ {blockno[b]} /\ UNCHANGED valid
       ELSE valid' = [valid EXCEPT ![b] = TRUE] /\ UNCHANGED <<refcnt, logged>>
  /\ Goto(p, "use")
  /\ UNCHANGED <<blockno, data, onDisk, descVars, avail, used, handler, deviceVars, buf,
                 writing, idx, panic, holder, lru>>

\* A mutant: log_write() does not pin the buffer.
LogWriteUnpinned(p) ==
  LET b == buf[p] IN
  /\ pc[p] = "use"
  /\ blockno[b] \notin logged => Cardinality(logged) < MaxLogged
  /\ data' = [c \in Bufs |-> IF c = b THEN "new" ELSE IF blockno[c] = blockno[b] THEN "old"
                            ELSE data[c]]
  /\ store' = [store EXCEPT ![blockno[b]] = "old"]
  /\ logged' = logged \cup {blockno[b]}
  /\ UNCHANGED <<blockno, onDisk, descVars, avail, used, handler, inflight, irq, pc,
                 buf, writing, idx, panic, valid, refcnt, holder, lru>>

\* The owner changes the buffer and logs it; log_write() pins a block that is
\* not in the log yet (bpin()).
log_write(p) ==
  LET b == buf[p] IN
  /\ pc[p] = "use"
  /\ blockno[b] \notin logged => Cardinality(logged) < MaxLogged
  /\ data' = [c \in Bufs |-> IF c = b THEN "new" ELSE IF blockno[c] = blockno[b] THEN "old"
                            ELSE data[c]]
  /\ store' = [store EXCEPT ![blockno[b]] = "old"]
  /\ refcnt' = IF blockno[b] \in logged THEN refcnt ELSE [refcnt EXCEPT ![b] = @ + 1]
  /\ logged' = logged \cup {blockno[b]}
  /\ UNCHANGED <<blockno, onDisk, descVars, avail, used, handler, inflight, irq, pc,
                 buf, writing, idx, panic, valid, holder, lru>>

\* bwrite(), which panics unless the caller has the buffer locked.
bwrite(p) ==
  /\ pc[p] = "use" /\ ~writing[p]
  /\ panic' = (panic \/ holder[buf[p]] # p)
  /\ writing' = [writing EXCEPT ![p] = TRUE]
  /\ Goto(p, "rw")
  /\ UNCHANGED <<blockno, data, onDisk, descVars, avail, used, handler, deviceVars, buf, idx,
                 cacheVars>>

\* brelse(): first releasesleep(), then, under bcache.lock, the reference is
\* dropped and an unused buffer goes to the front of the list.
BrelseUnlock(p) ==
  LET b == buf[p] IN
  /\ pc[p] = "use"
  /\ panic' = (panic \/ holder[b] # p)
  /\ holder' = [holder EXCEPT ![b] = NoProc]
  /\ pc' = [Wakeup({q \in Procs : buf[q] = b}, "asleep", "acquiresleep")
              EXCEPT ![p] = "brelse"]
  /\ writing' = [writing EXCEPT ![p] = FALSE]
  /\ UNCHANGED <<blockno, data, onDisk, descVars, avail, used, handler, deviceVars, buf, idx,
                 valid, refcnt, lru, logged>>

brelse(p) ==
  LET b == buf[p] IN
  /\ pc[p] = "brelse"
  /\ refcnt' = [refcnt EXCEPT ![b] = @ - 1]
  /\ IF refcnt[b] = 1
       THEN \E k \in 1 .. Len(lru) :
              /\ lru[k] = b
              /\ lru' = <<b>> \o SubSeq(lru, 1, k - 1) \o SubSeq(lru, k + 1, Len(lru))
       ELSE UNCHANGED lru
  /\ buf' = [buf EXCEPT ![p] = NoBuf]
  /\ Goto(p, "idle")
  /\ UNCHANGED <<blockno, data, onDisk, descVars, avail, used, handler, deviceVars, writing,
                 idx, panic, valid, holder, logged>>
-----------------------------------------------------------------------------
\* What a process does once it has called bread().
CacheStep(p) ==
  \/ acquiresleep(p) \/ bread(p) \/ RwReturned(p) \/ brelse(p)

Driver(p) == virtio_disk_rw(p) /\ UNCHANGED cacheVars
DriverDone(p) == RwDone(p) /\ UNCHANGED cacheVars
DriverKilled(p) == RwKilled(p) /\ UNCHANGED cacheVars
Interrupt == (IntrStart \/ IntrNext \/ IntrEnd) /\ UNCHANGED cacheVars
Device == (DeviceTake \/ \E i \in Desc : DeviceDone(i)) /\ UNCHANGED cacheVars

Next ==
  \/ \E p \in Procs :
       \/ CacheStep(p) \/ Killed(p) \/ log_write(p) \/ bwrite(p) \/ BrelseUnlock(p)
       \/ \E n \in Blocks : bget(p, n)
       \/ Driver(p) \/ DriverDone(p) \/ DriverKilled(p)
  \/ Interrupt \/ Device

Spec == Init /\ [][Next]_vars
-----------------------------------------------------------------------------
(***************************************************************************)
(* Properties                                                              *)
(***************************************************************************)

\* bread() returns the current contents: whoever has a buffer locked sees what
\* the block was last given, whether it was recycled, logged or written since,
\* and no other process has a buffer of the same block.
HolderSeesLatest ==
  \A p \in Procs : pc[p] = "use" =>
    /\ valid[buf[p]] /\ data[buf[p]] = "new"
    /\ \A q \in Procs \ {p} : pc[q] = "use" => blockno[buf[q]] # blockno[buf[p]]

\* Nobody is forgotten: who sleeps for a buffer sleeps for one that another has
\* locked, who sleeps for descriptors finds too few of them free, and who
\* sleeps for the device has a request that its interrupt has still to report;
\* however kills, the two steps of brelse() and the handler interleave.
NoForgottenSleeper ==
  \A p \in Procs :
    /\ pc[p] = "asleep" => holder[buf[p]] \in {q \in Procs \ {p} : buf[q] = buf[p]}
    /\ pc[p] = "rw_sleep" => Cardinality(free) < 3 /\ \E q \in Procs : idx[q] # NoDesc
    /\ pc[p] = "rw_wait" =>
         /\ onDisk[buf[p]]
         /\ idx[p] \in Range(avail) \cup inflight \cup Range(used)
         /\ used # <<>> => irq \/ handler
=============================================================================
