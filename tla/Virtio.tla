------------------------------- MODULE Virtio -------------------------------
(***************************************************************************)
(* The disk driver, kernel/virtio_disk.c, with the device it drives.       *)
(*                                                                         *)
(* Processes hand buffers to the device through a ring of descriptor       *)
(* chains; the device does the requests in any order and reports them      *)
(* through a second ring and an interrupt.  disk.vdisk_lock is held by a   *)
(* process for one step, and by the interrupt handler from `handler' on,   *)
(* because the device goes on while the handler reads the ring.            *)
(*                                                                         *)
(* The content of a block is "new" if it is what the block was last given, *)
(* and "old" otherwise.  A ring is the sequence of its entries that its    *)
(* reader has not read: its indexes differ by the length, modulo 2^16,     *)
(* which NUM divides.                                                      *)
(*                                                                         *)
(* A module that EXTENDS this one supplies the processes: one that calls   *)
(* virtio_disk_rw() is put at "rw" with its buffer in buf[p], and is found *)
(* at "rw_ret" when the call returns.                                      *)
(***************************************************************************)
EXTENDS Integers, Sequences, FiniteSets, FiniteSetsExt

CONSTANTS
  Procs,
  Bufs, NoBuf,
  Blocks, NoBlock,
  NUM   \* descriptors, and entries of each ring

ASSUME VirtioAssumption ==
  /\ NUM \in Nat /\ NUM >= 3
  /\ NoBuf \notin Bufs /\ NoBlock \notin Blocks

VARIABLES
  blockno, data, onDisk,                \* struct buf; onDisk is b->disk
  free, next, info,                     \* struct disk; info holds ops as well
  avail, used,                          \* the rings
  handler,                              \* virtio_disk_intr() runs
  inflight, irq, store,                 \* the device: requests, interrupt, blocks
  pc, buf, writing, idx,                \* per process: place, arguments, idx[0]
  panic

descVars == <<free, next, info>>
deviceVars == <<inflight, irq, store>>
diskVars == <<blockno, data, onDisk, descVars, avail, used, handler, deviceVars,
              pc, buf, writing, idx, panic>>

Desc == 0 .. NUM - 1
NoDesc == -1
NoRequest == [b |-> NoBuf]
\* virtio_disk_init(): zeroed rings, every descriptor free.
virtio_disk_init ==
  /\ free = Desc
  /\ next = [i \in Desc |-> NoDesc]
  /\ info = [i \in Desc |-> NoRequest]
  /\ avail = <<>> /\ used = <<>>
  /\ handler = FALSE /\ irq = FALSE /\ inflight = {}

Goto(p, place) == pc' = [pc EXCEPT ![p] = place]

\* Lets go on, at place `to', whoever sleeps at `from' and is in `who'.
Wakeup(who, from, to) ==
  [q \in Procs |-> IF q \in who /\ pc[q] = from THEN to ELSE pc[q]]
-----------------------------------------------------------------------------
(***************************************************************************)
(* The driver                                                              *)
(***************************************************************************)

\* alloc3_desc() takes the lowest free descriptors.
Lowest == Min(free)
Second == Min(free \ {Lowest})
Third == Min(free \ {Lowest, Second})

\* virtio_disk_rw() up to its first sleep().  When there are too few
\* descriptors, alloc3_desc() frees those that it took, and this wakes the
\* other processes that wait for descriptors.
virtio_disk_rw(p) ==
  LET b == buf[p] IN
  /\ pc[p] = "rw" /\ ~handler
  /\ IF Cardinality(free) >= 3
       THEN /\ free' = free \ {Lowest, Second, Third}
            /\ next' = [next EXCEPT ![Lowest] = Second, ![Second] = Third, ![Third] = NoDesc]
            /\ info' = [info EXCEPT ![Lowest] =
                          [b |-> b, write |-> writing[p], sector |-> blockno[b], status |-> 255]]
            /\ onDisk' = [onDisk EXCEPT ![b] = TRUE]
            /\ avail' = Append(avail, Lowest)
            /\ idx' = [idx EXCEPT ![p] = Lowest]
            /\ Goto(p, "rw_wait")
       ELSE /\ pc' = [Wakeup(IF free = {} THEN {} ELSE Procs, "rw_sleep", "rw")
                        EXCEPT ![p] = "rw_sleep"]
            /\ UNCHANGED <<onDisk, descVars, avail, idx>>
  /\ UNCHANGED <<blockno, data, used, handler, deviceVars, buf, writing, panic>>

\* The descriptors of a chain, as free_chain() follows it.
Chain(i) ==
  LET j == next[i] IN
  {i} \cup IF j = NoDesc THEN {} ELSE {j} \cup ({next[j]} \ {NoDesc})

\* A mutant: free_chain() reads `next' after free_desc() has cleared it.
RwDoneFirstOnly(p) ==
  LET chain == {idx[p]} IN
  /\ pc[p] = "rw_done" /\ ~handler
  /\ ~onDisk[buf[p]]
  /\ info' = [info EXCEPT ![idx[p]] = NoRequest]
  /\ free' = free \cup chain
  /\ next' = [i \in Desc |-> IF i \in chain THEN NoDesc ELSE next[i]]
  /\ panic' = (panic \/ free \cap chain # {})
  /\ pc' = [Wakeup(Procs, "rw_sleep", "rw") EXCEPT ![p] = "rw_ret"]
  /\ idx' = [idx EXCEPT ![p] = NoDesc]
  /\ UNCHANGED <<blockno, data, onDisk, avail, used, handler, deviceVars, buf,
                 writing>>

\* The end of virtio_disk_rw(): b->disk is tested again, and free_chain()
\* panics on a descriptor that is free.
RwDone(p) ==
  LET chain == Chain(idx[p]) IN
  /\ pc[p] = "rw_done" /\ ~handler
  /\ IF onDisk[buf[p]]
       THEN Goto(p, "rw_wait") /\ UNCHANGED <<info, free, next, panic, idx>>
       ELSE /\ info' = [info EXCEPT ![idx[p]] = NoRequest]
            /\ free' = free \cup chain
            /\ next' = [i \in Desc |-> IF i \in chain THEN NoDesc ELSE next[i]]
            /\ panic' = (panic \/ free \cap chain # {})
            /\ pc' = [Wakeup(Procs, "rw_sleep", "rw") EXCEPT ![p] = "rw_ret"]
            /\ idx' = [idx EXCEPT ![p] = NoDesc]
  /\ UNCHANGED <<blockno, data, onDisk, avail, used, handler, deviceVars, buf,
                 writing>>

\* kill() makes a sleeping process runnable whatever it waits for.
RwKilled(p) ==
  /\ \/ pc[p] = "rw_sleep" /\ Goto(p, "rw")
     \/ pc[p] = "rw_wait" /\ Goto(p, "rw_done")
  /\ UNCHANGED <<blockno, data, onDisk, descVars, avail, used, handler, deviceVars,
                 buf, writing, idx, panic>>
-----------------------------------------------------------------------------
(***************************************************************************)
(* The interrupt                                                           *)
(***************************************************************************)

\* virtio_disk_intr() takes the lock and acknowledges the interrupt.
IntrStart ==
  /\ irq /\ ~handler
  /\ handler' = TRUE /\ irq' = FALSE
  /\ UNCHANGED <<blockno, data, onDisk, descVars, avail, used, inflight, store, pc,
                 buf, writing, idx, panic>>

\* A round of its loop.  A request that the device did not finish, or that no
\* process waits for, is a panic or a fault.
IntrNext ==
  LET id == Head(used)
      b == info[id].b
  IN
  /\ handler /\ used # <<>>
  /\ panic' = (panic \/ b = NoBuf \/ info[id].status # 0)
  /\ onDisk' = [c \in Bufs |-> c # b /\ onDisk[c]]
  /\ pc' = Wakeup({q \in Procs : buf[q] = b}, "rw_wait", "rw_done")
  /\ used' = Tail(used)
  /\ UNCHANGED <<blockno, data, descVars, avail, handler, deviceVars, buf,
                 writing, idx>>

\* A mutant: an interrupt may leave entries of the ring for the next one.
IntrEndEarly ==
  /\ handler
  /\ handler' = FALSE
  /\ UNCHANGED <<blockno, data, onDisk, descVars, avail, used, deviceVars, pc, buf,
                 writing, idx, panic>>

IntrEnd ==
  /\ handler /\ used = <<>>
  /\ handler' = FALSE
  /\ UNCHANGED <<blockno, data, onDisk, descVars, avail, used, deviceVars, pc, buf,
                 writing, idx, panic>>
-----------------------------------------------------------------------------
(***************************************************************************)
(* The device                                                              *)
(***************************************************************************)

\* The device takes the next request of the ring.
DeviceTake ==
  /\ avail # <<>>
  /\ inflight' = inflight \cup {Head(avail)}
  /\ avail' = Tail(avail)
  /\ UNCHANGED <<blockno, data, onDisk, descVars, used, handler, irq, store, pc,
                 buf, writing, idx, panic>>

\* It finishes one of those it has, whichever.
DeviceDone(i) ==
  LET r == info[i] IN
  /\ i \in inflight /\ r # NoRequest
  /\ IF r.write
       THEN store' = [store EXCEPT ![r.sector] = data[r.b]] /\ UNCHANGED data
       ELSE data' = [data EXCEPT ![r.b] = store[r.sector]] /\ UNCHANGED store
  /\ inflight' = inflight \ {i}
  /\ info' = [info EXCEPT ![i].status = 0]
  /\ used' = Append(used, i)
  /\ irq' = TRUE
  /\ UNCHANGED <<blockno, onDisk, free, next, avail, handler, pc, buf, writing, idx,
                 panic>>
-----------------------------------------------------------------------------
(***************************************************************************)
(* Properties                                                              *)
(***************************************************************************)

\* No descriptor is lost or used twice: the chains of the requests under way
\* and the free descriptors are disjoint and are all there are.
DescriptorsExact ==
  LET busy == {p \in Procs : idx[p] # NoDesc} IN
  /\ \A p, q \in busy : p # q => Chain(idx[p]) \cap Chain(idx[q]) = {}
  /\ UNION {Chain(idx[p]) : p \in busy} = Desc \ free

=============================================================================
