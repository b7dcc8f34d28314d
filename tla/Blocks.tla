------------------------------- MODULE Blocks -------------------------------
(***************************************************************************)
(* What files are made of (fs.c, file.c, mkfs.c): the bitmap of blocks,    *)
(* the block numbers of an inode and its indirect block, read and write in *)
(* pieces, truncation, and the disk image that mkfs makes.  Processes work *)
(* on files at the same time; an inode's lock is held from its first block *)
(* to its last, and each bfree and each bmap is a step: the two ballocs of *)
(* an indirect block and of what it names, and the bitmap blocks that one  *)
(* balloc looks through, are taken together.  The byte at a place of a     *)
(* file is a function of file and place, so that one found elsewhere is    *)
(* seen to be the wrong one.                                               *)
(***************************************************************************)
EXTENDS Integers, FiniteSets, FiniteSetsExt, SequencesExt

CONSTANTS Procs, NoProc,
          Inums,                      \* inode numbers: the root and files
          Opens,                      \* which file each process has open
          FSSIZE, LOGSIZE, ninodeblocks,
          BPB, BSIZE,                 \* bits and bytes of a block
          NDIRECT, NINDIRECT,
          MAXOPBLOCKS,
          WORD,                       \* 2^32
          ROOTBYTES, FILEBYTES,       \* what mkfs puts in the root and in the first file
          WriteSizes, ReadSizes       \* the n of write and of read

ROOTINO == 1
MAXFILE == NDIRECT + NINDIRECT
nbitmap == FSSIZE \div BPB + 1
nmeta == 2 + LOGSIZE + ninodeblocks + nbitmap

BBLOCK(b) == 2 + LOGSIZE + ninodeblocks + b \div BPB

\* mkfs rounds the root's size up to a block, one more when it is full: it must
\* not be.
ASSUME BlocksAssumption ==
  /\ {ROOTINO, ROOTINO + 1} \subseteq Inums
  /\ ROOTBYTES % BSIZE # 0
  /\ WORD > 2 * MAXFILE * BSIZE

VARIABLES fs,      \* bit: blocks in use; data: of each block; addrs, size: of each inode
          lock,    \* of each inode
          logged,  \* of each process: the blocks its operation has logged so far
          file,    \* of each process: the inode and the offset of its open file
          loc      \* of each process: control and locals

vars == <<fs, lock, logged, file, loc>>

Byte(i, pos) == i * MAXFILE * BSIZE + pos
Zero == [bytes |-> [k \in 0 .. BSIZE - 1 |-> 0], ptrs |-> [k \in 0 .. NINDIRECT - 1 |-> 0]]
Junk == [bytes |-> [k \in 0 .. BSIZE - 1 |-> -1], ptrs |-> [k \in 0 .. NINDIRECT - 1 |-> nmeta]]

\* Block number s of inode i, MAXFILE for its indirect block; 0 if it has none.
BlockAt(f, i, s) ==
  LET ind == f.addrs[i][NDIRECT]
  IN IF s < NDIRECT THEN f.addrs[i][s]
     ELSE IF s = MAXFILE \/ ind = 0 THEN ind
     ELSE f.data[ind].ptrs[s - NDIRECT]

-----------------------------------------------------------------------------
(* mkfs.                                                                   *)

\* iappend, a byte at a time: blocks are taken in order.
AppendBlock(m, i, s) ==
  LET ind == s >= NDIRECT /\ m.addrs[i][NDIRECT] = 0
      b == m.free + (IF ind THEN 1 ELSE 0)
      n == IF ind THEN [m EXCEPT !.addrs[i][NDIRECT] = m.free] ELSE m
  IN IF BlockAt(m, i, s) # 0 /\ ~ind THEN m
     ELSE IF s < NDIRECT THEN [n EXCEPT !.addrs[i][s] = b, !.free = b + 1]
     ELSE [n EXCEPT !.data[n.addrs[i][NDIRECT]].ptrs[s - NDIRECT] = b, !.free = b + 1]

AppendByte(m, i, pos) ==
  LET n == AppendBlock(m, i, pos \div BSIZE)
  IN [n EXCEPT !.data[BlockAt(n, i, pos \div BSIZE)].bytes[pos % BSIZE] = Byte(i, pos),
               !.size[i] = pos + 1]

iappend(m, i, n) == FoldLeft(LAMBDA x, k : AppendByte(x, i, k - 1), m, [k \in 1 .. n |-> k])

\* The bitmap that mkfs writes, in its balloc.
UsedBlocks(free) == 0 .. free - 1

mkfs ==
  LET empty == [free |-> nmeta,
                data |-> [b \in 0 .. FSSIZE - 1 |-> Zero],
                addrs |-> [i \in Inums |-> [s \in 0 .. NDIRECT |-> 0]],
                size |-> [i \in Inums |-> 0]]
      m == iappend(iappend(empty, ROOTINO, ROOTBYTES), ROOTINO + 1, FILEBYTES)
  IN [bit |-> UsedBlocks(m.free), data |-> m.data, addrs |-> m.addrs,
      size |-> [m.size EXCEPT ![ROOTINO] = (@ \div BSIZE + 1) * BSIZE]]

Idle == [pc |-> "idle", n |-> 0, n1 |-> 0, tot |-> 0, k |-> 0]

Init ==
  /\ fs = mkfs
  /\ lock = [i \in Inums |-> NoProc]
  /\ logged = [p \in Procs |-> {}]
  /\ \E f \in Opens : file = [p \in Procs |-> [ip |-> f[p], off |-> 0]]
  /\ loc = [p \in Procs |-> Idle]

-----------------------------------------------------------------------------
(* Blocks.  w is what an operation works on: fs, the blocks it has logged, *)
(* and the block number that balloc or bmap returns.                       *)

bzeroNot(w, b) == [w EXCEPT !.logged = @ \cup {b}]
bzero(w, b) == [w EXCEPT !.fs.data[b] = Zero, !.logged = @ \cup {b}]

balloc(w) ==
  LET free == (0 .. FSSIZE - 1) \ w.fs.bit
      b == Min(free)
  IN IF free = {} THEN [w EXCEPT !.addr = 0]
     ELSE bzero([w EXCEPT !.fs.bit = @ \cup {b}, !.logged = @ \cup {BBLOCK(b)}, !.addr = b], b)

\* A free block keeps what it holds; all that matters is that it is not zero.
bfree(w, b) == [w EXCEPT !.fs.bit = @ \ {b}, !.fs.data[b] = Junk, !.logged = @ \cup {BBLOCK(b)}]

\* addrs[s] of inode i, allocated if there is none.
Direct(w, i, s) ==
  LET v == balloc(w)
  IN IF w.fs.addrs[i][s] # 0 THEN [w EXCEPT !.addr = w.fs.addrs[i][s]]
     ELSE [v EXCEPT !.fs.addrs[i][s] = v.addr]

bmap(w, i, bn) ==
  LET v == Direct(w, i, NDIRECT)
      a == v.fs.data[v.addr].ptrs[bn - NDIRECT]
      u == balloc(v)
  IN IF bn < NDIRECT THEN Direct(w, i, bn)
     ELSE IF v.addr = 0 THEN v
     ELSE IF a # 0 THEN [v EXCEPT !.addr = a]
     ELSE IF u.addr = 0 THEN u
     ELSE [u EXCEPT !.fs.data[v.addr].ptrs[bn - NDIRECT] = u.addr,
                    !.logged = @ \cup {v.addr}]

Work(p) == [fs |-> fs, logged |-> logged[p], addr |-> 0]
Becomes(p, w) == fs' = w.fs /\ logged' = [logged EXCEPT ![p] = w.logged]

Lock(p) == lock[file[p].ip] = NoProc /\ lock' = [lock EXCEPT ![file[p].ip] = p]
Unlock(p) == lock' = [lock EXCEPT ![file[p].ip] = NoProc]
Goto(p, l) == loc' = [loc EXCEPT ![p] = l]

\* Bytes of the block with place pos, up to its end.
InBlock(pos, n) == Min({n, BSIZE - (pos % BSIZE)})

-----------------------------------------------------------------------------
(* read.                                                                   *)

\* readi's tests; the sum may pass the end of an unsigned int.
ReadLength(size, off, n) ==
  IF off > size \/ (off + n) % WORD < off THEN 0
  ELSE IF (off + n) % WORD > size THEN size - off
  ELSE n

\* The blocks of r bytes at off: bmap would allocate those there are not.
readi(w, i, off, r) ==
  FoldSet(LAMBDA bn, v : bmap(v, i, bn), w, {x \div BSIZE : x \in off .. off + r - 1})

\* The file is locked meanwhile, so that its blocks are read in one step; a
\* copyout may fail.
fileread(p) ==
  LET i == file[p].ip
      off == file[p].off
  IN /\ loc[p].pc = "idle" /\ lock[i] = NoProc
     /\ \E n \in ReadSizes :
          LET r == ReadLength(fs.size[i], off, n)
          IN /\ Becomes(p, readi(Work(p), i, off, r))
             /\ \/ file' = [file EXCEPT ![p].off = @ + r]
                \/ r > 0 /\ UNCHANGED file
     /\ UNCHANGED <<lock, loc>>

-----------------------------------------------------------------------------
(* write.                                                                  *)

MaxWriteWide == ((MAXOPBLOCKS - 1 - 1) \div 2) * BSIZE

\* The bytes that filewrite writes in one transaction.
MaxWrite == ((MAXOPBLOCKS - 1 - 1 - 2) \div 2) * BSIZE

\* A piece of filewrite's n bytes, the first or the next one: a transaction, the
\* lock, and the tests of writei.  Nothing is written when n is not positive.
filewrite(p) ==
  LET l == loc[p]
      i == file[p].ip
      off == file[p].off
  IN /\ l.pc \in {"idle", "write"} /\ lock[i] = NoProc
     /\ \E n \in (IF l.pc = "idle" THEN WriteSizes ELSE {l.n}) :
          LET n1 == Min({n, MaxWrite})
          IN IF off > fs.size[i] \/ off + n1 > MAXFILE * BSIZE
             THEN Goto(p, Idle) /\ UNCHANGED lock
             ELSE Lock(p) /\ Goto(p, [Idle EXCEPT !.pc = "writei", !.n = n, !.n1 = n1])
     /\ UNCHANGED <<fs, logged, file>>

\* The bytes of a piece that are in one block, k of them.
Stored(w, i, pos, k) ==
  [w EXCEPT !.fs.data[w.addr].bytes =
     [x \in 0 .. BSIZE - 1 |->
        LET at == (pos \div BSIZE) * BSIZE + x
        IN IF at \in pos .. pos + k - 1 THEN Byte(i, at) ELSE @[x]]]

\* A block; a copyin that fails has stored some of the bytes, and is not logged.
writei(p) ==
  LET l == loc[p]
      i == file[p].ip
      pos == file[p].off + l.tot
      w == bmap(Work(p), i, pos \div BSIZE)
      m == InBlock(pos, l.n1 - l.tot)
      full == Stored(w, i, pos, m)
  IN /\ l.pc = "writei" /\ l.tot < l.n1
     /\ \/ /\ w.addr # 0
           /\ Becomes(p, [full EXCEPT !.logged = @ \cup {w.addr}])
           /\ Goto(p, [l EXCEPT !.tot = @ + m])
        \/ /\ w.addr # 0
           /\ \E k \in 0 .. m - 1 : Becomes(p, Stored(w, i, pos, k))
           /\ Goto(p, [l EXCEPT !.pc = "written"])
        \/ /\ w.addr = 0
           /\ Becomes(p, w)
           /\ Goto(p, [l EXCEPT !.pc = "written"])
     /\ UNCHANGED <<lock, file>>

NewSizeWanted(size, off, l) == Max({size, off + l.n1})

\* The size after writei: what was written, not what was to be.
NewSize(size, off, l) == Max({size, off + l.tot})

\* The end of writei: the inode is written, the transaction ends, and filewrite
\* goes on to the next piece if all of this one was written.
Written(p) ==
  LET l == loc[p]
      i == file[p].ip
  IN /\ l.pc = "written" \/ (l.pc = "writei" /\ l.tot = l.n1)
     /\ fs' = [fs EXCEPT !.size[i] = NewSize(@, file[p].off, l)]
     /\ logged' = [logged EXCEPT ![p] = {}]
     /\ file' = [file EXCEPT ![p].off = @ + l.tot]
     /\ Unlock(p)
     /\ Goto(p, IF l.tot = l.n1 /\ l.n > l.n1 THEN [Idle EXCEPT !.pc = "write", !.n = l.n - l.n1]
                ELSE Idle)

-----------------------------------------------------------------------------
(* open, with or without O_TRUNC.                                          *)

sys_open(p) ==
  /\ loc[p].pc = "idle" /\ file[p].off # 0
  /\ file' = [file EXCEPT ![p].off = 0]
  /\ UNCHANGED <<fs, lock, logged, loc>>

OpenTrunc(p) ==
  /\ loc[p].pc = "idle" /\ Lock(p)
  /\ file' = [file EXCEPT ![p].off = 0]
  /\ Goto(p, [Idle EXCEPT !.pc = "itrunc"])
  /\ UNCHANGED <<fs, logged>>

\* The blocks of the inode are freed one after the other, the indirect block
\* last; only then is its number forgotten.
itrunc(p) ==
  LET l == loc[p]
      i == file[p].ip
      b == BlockAt(fs, i, l.k)
      w == IF b = 0 THEN Work(p) ELSE bfree(Work(p), b)
      s == IF l.k = MAXFILE THEN NDIRECT ELSE l.k
  IN /\ l.pc = "itrunc"
     /\ IF l.k \in NDIRECT .. MAXFILE - 1 /\ fs.addrs[i][NDIRECT] # 0
        THEN Becomes(p, w) /\ Goto(p, [l EXCEPT !.k = @ + 1]) /\ UNCHANGED lock
        ELSE IF l.k < NDIRECT
        THEN /\ Becomes(p, [w EXCEPT !.fs.addrs[i][s] = 0])
             /\ Goto(p, [l EXCEPT !.k = @ + 1]) /\ UNCHANGED lock
        ELSE /\ Becomes(p, [w EXCEPT !.fs.addrs[i][s] = 0, !.fs.size[i] = 0, !.logged = {}])
             /\ Goto(p, Idle) /\ Unlock(p)
     /\ UNCHANGED file

Next ==
  \E p \in Procs :
    \/ fileread(p) \/ filewrite(p) \/ writei(p) \/ Written(p)
    \/ sys_open(p) \/ OpenTrunc(p) \/ itrunc(p)

Spec == Init /\ [][Next]_vars

-----------------------------------------------------------------------------
(* Properties.                                                             *)

\* The block numbers an inode holds, but for those that itrunc has freed.
Holds(i) ==
  {s \in 0 .. MAXFILE :
     /\ BlockAt(fs, i, s) # 0
     /\ \A p \in Procs : loc[p].pc = "itrunc" /\ file[p].ip = i => s >= loc[p].k}

\* The bitmap is exact at every step of every operation, failed ones too: in use
\* are the blocks of mkfs and those some inode holds, each of them once.
BitmapExact ==
  LET held == {x \in Inums \X (0 .. MAXFILE) : x[2] \in Holds(x[1])}
      blocks == {BlockAt(fs, x[1], x[2]) : x \in held}
  IN /\ fs.bit = (0 .. nmeta - 1) \cup blocks
     /\ blocks \cap (0 .. nmeta - 1) = {}
     /\ Cardinality(blocks) = Cardinality(held)

\* A file is the array of bytes that was written: every place below its size is
\* in a block of its own and holds the byte of that place; also when a write is
\* cut short by a full disk or a bad address.
FileIsArray ==
  \A i \in Inums \ {ROOTINO} :
    lock[i] = NoProc =>
      \A pos \in 0 .. fs.size[i] - 1 :
        LET b == BlockAt(fs, i, pos \div BSIZE)
        IN b # 0 /\ fs.data[b].bytes[pos % BSIZE] = Byte(i, pos)

\* An operation logs no more blocks, that of the inode included, than begin_op
\* reserves for it, unaligned and with a new indirect block too; a read, which
\* is outside any transaction, logs none.
OpFits ==
  \A p \in Procs : /\ Cardinality(logged[p]) + 1 <= MAXOPBLOCKS
                   /\ loc[p].pc = "idle" => logged[p] = {}
=============================================================================
