------------------------------- MODULE Inodes -------------------------------
(***************************************************************************)
(* The inode layer (fs.c): inodes on disk, the table of inodes in memory   *)
(* with its reference counts and sleep-locks, and what directories hold.   *)
(* The table is indexed by inode number: iget finds or makes the one entry *)
(* of a number in one step under itable.lock, and an entry without         *)
(* references is as good as none; so iget never finds the table full.      *)
(* Blocks are the subject of Blocks.                                       *)
(***************************************************************************)
EXTENDS Naturals, Sequences, FiniteSets, FiniteSetsExt

CONSTANTS Procs,
          Inums,   \* inode numbers, 1 (ROOTINO) among them
          Names,   \* names of directory entries besides "." and ".."
          NoProc

ROOTINO == 1
ASSUME InodesAssumption == ROOTINO \in Inums /\ Inums \subseteq Nat \ {0}

VARIABLES dinode,   \* on disk: type, nlink
          ents,     \* what a directory's entries name, 0 if nothing
          itable,   \* in memory: ref, valid, the holder of lock, type, nlink
          panicked

ivars == <<dinode, ents, itable, panicked>>

NoEnts == [n \in Names \cup {".."} |-> 0]
NoEntry == [ref |-> 0, valid |-> FALSE, lock |-> NoProc, type |-> "free", nlink |-> 0]

\* The root directory that mkfs makes, and each process in it.
IInit ==
  /\ dinode = [i \in Inums |-> IF i = ROOTINO THEN [type |-> "dir", nlink |-> 1]
                                              ELSE [type |-> "free", nlink |-> 0]]
  /\ ents = [i \in Inums |-> IF i = ROOTINO THEN [NoEnts EXCEPT ![".."] = i] ELSE NoEnts]
  /\ itable = [i \in Inums |-> IF i = ROOTINO THEN [NoEntry EXCEPT !.ref = Cardinality(Procs)]
                                              ELSE NoEntry]
  /\ panicked = FALSE

\* iget and idup: one more reference; a new entry is not valid.
Get(t, i) == [t EXCEPT ![i].ref = @ + 1]

\* ilock waits for the lock, and reads an entry that is not valid.
CanLock(i) == itable[i].lock = NoProc
Loaded(t, i) ==
  IF t[i].valid THEN t
  ELSE [t EXCEPT ![i].valid = TRUE, ![i].type = dinode[i].type, ![i].nlink = dinode[i].nlink]
ilock(t, i, p) == [Loaded(t, i) EXCEPT ![i].lock = p]
iunlock(t, i) == [t EXCEPT ![i].lock = NoProc]

\* The panics of ilock: no reference, or a free inode.
BadLock(i) == itable[i].ref = 0 \/ (~itable[i].valid /\ dinode[i].type = "free")

\* A change of nlink in memory, and iupdate.
Relink(t, i, n) == [t EXCEPT ![i].nlink = n]
iupdate(t, i) == [dinode EXCEPT ![i] = [type |-> t[i].type, nlink |-> t[i].nlink]]

TypeOf(i) == Loaded(itable, i)[i].type
NlinkOf(i) == Loaded(itable, i)[i].nlink

\* dirlink writes a new entry; that it may fail is for the caller.
dirlink(dp, n, i) == [ents EXCEPT ![dp][n] = i]

dirlookup(i, n) == IF n = "." THEN i ELSE ents[i][n]
isdirempty(i) == \A n \in Names : ents[i][n] = 0

LastPutLate(i) == itable[i].ref = 0 /\ itable[i].valid /\ itable[i].nlink = 0

\* iput: whether it was the last reference to an inode without links.
LastPut(i) == itable[i].ref = 1 /\ itable[i].valid /\ itable[i].nlink = 0

\* The decrement at the end of iput.
Put(t, i) == IF t[i].ref = 1 THEN [t EXCEPT ![i] = NoEntry] ELSE [t EXCEPT ![i].ref = @ - 1]

FreedValid(t, i) == [t EXCEPT ![i].lock = NoProc, ![i].type = "free", ![i].nlink = 0]

\* Freeing an inode, under its lock: itrunc, type 0, iupdate, not valid.
Freed(t, i) == [t EXCEPT ![i].valid = FALSE, ![i].lock = NoProc,
                         ![i].type = "free", ![i].nlink = 0]
=============================================================================
