-------------------------------- MODULE Names -------------------------------
(***************************************************************************)
(* Path names and the calls on them (fs.c, sysfile.c): open, mkdir, mknod, *)
(* link, unlink, chdir and close, by several processes at once.  A step    *)
(* runs from one lock to the next: from ilock to iunlock when nothing else *)
(* is locked in between, and each iput, which is three steps when it frees *)
(* the inode.  The transaction around a call is the subject of Log; that   *)
(* there is no block or no file left may fail any call that needs one.     *)
(***************************************************************************)
EXTENDS Inodes

\* A path is a record: abs, whether it starts with '/', and elems, its elements.
\* A request is a record: call, path, and new, the second path of link.
CONSTANT Loads    \* sets of requests; the processes of a run make those of one

VARIABLES load,     \* the requests made
          cwd, fd,  \* of each process: an inode; an open file's inode or 0
          loc,      \* of each process: control and locals
          reused,   \* history: inodes allocated while somebody had a reference
          strayed   \* history: the inode p has from the ".." of a removed directory, or 0

vars == <<ivars, load, cwd, fd, loc, reused, strayed>>

Idle == [pc |-> "idle", call |-> "none", path |-> <<>>, parent |-> FALSE,
         new |-> [abs |-> TRUE, elems |-> <<>>],
         ip |-> 0, dp |-> 0, old |-> 0, name |-> "", todo |-> <<>>, then |-> "idle"]

Init ==
  /\ IInit
  /\ load \in Loads
  /\ reused = {}
  /\ strayed = [p \in Procs |-> 0]
  /\ cwd = [p \in Procs |-> ROOTINO]
  /\ fd = [p \in Procs |-> 0]
  /\ loc = [p \in Procs |-> Idle]

\* The locals l once the iputs of todo are done and control is at pc.
Then(l, todo, pc) ==
  IF todo # <<>> THEN [l EXCEPT !.pc = "put", !.todo = todo, !.then = pc]
  ELSE IF pc = "idle" THEN Idle
  ELSE [l EXCEPT !.pc = pc, !.todo = <<>>, !.then = "idle"]

Goto(p, l) == loc' = [loc EXCEPT ![p] = l]
Panic(cond) == panicked' = cond

-----------------------------------------------------------------------------
(* iput.                                                                   *)

\* The test and the decrement are one step; to free the inode, iput takes its
\* lock first, with itable.lock held: it must not have to wait.
iput(p) ==
  LET i == Head(loc[p].todo)
  IN /\ loc[p].pc = "put"
     /\ IF LastPut(i)
        THEN /\ Panic(~CanLock(i))
             /\ itable' = [itable EXCEPT ![i].lock = p]
             /\ Goto(p, [loc[p] EXCEPT !.pc = "free"])
        ELSE /\ Panic(itable[i].ref = 0)
             /\ itable' = Put(itable, i)
             /\ Goto(p, Then(loc[p], Tail(loc[p].todo), loc[p].then))
     /\ UNCHANGED <<dinode, ents, cwd, fd>>

iputFrees(p) ==
  LET i == Head(loc[p].todo)
  IN /\ loc[p].pc = "free"
     /\ itable' = Freed(itable, i)
     /\ dinode' = iupdate(itable', i)
     /\ ents' = [ents EXCEPT ![i] = NoEnts]
     /\ Goto(p, [loc[p] EXCEPT !.pc = "drop"])
     /\ UNCHANGED <<cwd, fd, panicked>>

iputDrops(p) ==
  /\ loc[p].pc = "drop"
  /\ itable' = Put(itable, Head(loc[p].todo))
  /\ Goto(p, Then(loc[p], Tail(loc[p].todo), loc[p].then))
  /\ UNCHANGED <<dinode, ents, cwd, fd, panicked>>

-----------------------------------------------------------------------------
(* namex.                                                                  *)

\* Where a call goes on once its path is resolved, and if it cannot be.
Found(l) == CASE l.call = "link" /\ l.parent -> "link2"
              [] l.call \in {"create", "mkdir", "mknod"} -> "create"
              [] OTHER -> l.call
NotFound(l) == IF l.call = "link" /\ l.parent THEN "linkbad" ELSE "idle"

\* The start of namex(path): a reference to the root or the current directory.
StartAt(p, path) == IF path.abs THEN ROOTINO ELSE cwd[p]

ResolveKeeps(p, l, path, from) ==
  LET k == [l EXCEPT !.path = path.elems, !.ip = from]
  IN IF path.elems # <<>> THEN [k EXCEPT !.pc = "namex"]
     ELSE IF ~l.parent THEN [k EXCEPT !.pc = Found(l)]
     ELSE Then([k EXCEPT !.ip = 0], <<>>, NotFound(l))

\* A path without elements is its start; its parent does not exist.
Resolve(p, l, path, from) ==
  LET k == [l EXCEPT !.path = path.elems, !.ip = from]
  IN IF path.elems # <<>> THEN [k EXCEPT !.pc = "namex"]
     ELSE IF ~l.parent THEN [k EXCEPT !.pc = Found(l)]
     ELSE Then([k EXCEPT !.ip = 0], <<from>>, NotFound(l))

\* One element: lock the directory, look it up, unlock and put the directory.
namex(p) ==
  LET l == loc[p]
      n == Head(l.path)
      rest == Tail(l.path)
      next == dirlookup(l.ip, n)
  IN /\ l.pc = "namex" /\ CanLock(l.ip)
     /\ Panic(BadLock(l.ip))
     /\ IF TypeOf(l.ip) # "dir"
        THEN /\ itable' = Loaded(itable, l.ip)
             /\ Goto(p, Then([l EXCEPT !.ip = 0], <<l.ip>>, NotFound(l)))
        ELSE IF l.parent /\ rest = <<>>
        THEN /\ itable' = Loaded(itable, l.ip)
             /\ Goto(p, [l EXCEPT !.pc = Found(l), !.dp = l.ip, !.ip = 0, !.name = n,
                                  !.path = <<>>])
        ELSE IF next = 0
        THEN /\ itable' = Loaded(itable, l.ip)
             /\ Goto(p, Then([l EXCEPT !.ip = 0], <<l.ip>>, NotFound(l)))
        ELSE /\ itable' = Get(Loaded(itable, l.ip), next)
             /\ Goto(p, Then([l EXCEPT !.ip = next, !.path = rest], <<l.ip>>,
                             IF rest = <<>> /\ ~l.parent THEN Found(l) ELSE "namex"))
     /\ UNCHANGED <<dinode, ents, cwd, fd>>

-----------------------------------------------------------------------------
(* The system calls.                                                       *)

Begin(p, r) ==
  LET l == [Idle EXCEPT !.call = r.call, !.new = r.new,
                        !.parent = r.call \notin {"open", "chdir", "link"}]
  IN /\ loc[p].pc = "idle"
     /\ itable' = Get(itable, StartAt(p, r.path))
     /\ Goto(p, Resolve(p, l, r.path, StartAt(p, r.path)))
     /\ UNCHANGED <<dinode, ents, cwd, fd, panicked>>

close(p) ==
  /\ loc[p].pc = "idle" /\ fd[p] # 0
  /\ fd' = [fd EXCEPT ![p] = 0]
  /\ Goto(p, Then([Idle EXCEPT !.call = "close"], <<fd[p]>>, "idle"))
  /\ UNCHANGED <<ivars, cwd>>

\* A descriptor for ip, which keeps its reference; none when one is open
\* already, and there may be no file left.
Opens(p, l, i) ==
  \/ /\ fd[p] = 0
     /\ fd' = [fd EXCEPT ![p] = i]
     /\ Goto(p, Idle)
  \/ Goto(p, Then([l EXCEPT !.ip = 0], <<i>>, "idle")) /\ UNCHANGED fd

\* open without O_CREATE; a directory may not be opened for writing.
sys_open(p) ==
  LET l == loc[p]
  IN /\ l.pc = "open" /\ CanLock(l.ip)
     /\ Panic(BadLock(l.ip))
     /\ itable' = Loaded(itable, l.ip)
     /\ Opens(p, l, l.ip)
     /\ UNCHANGED <<dinode, ents, cwd>>

sys_chdir(p) ==
  LET l == loc[p]
  IN /\ l.pc = "chdir" /\ CanLock(l.ip)
     /\ Panic(BadLock(l.ip))
     /\ itable' = Loaded(itable, l.ip)
     /\ IF TypeOf(l.ip) = "dir"
        THEN /\ cwd' = [cwd EXCEPT ![p] = l.ip]
             /\ Goto(p, Then([l EXCEPT !.ip = 0], <<cwd[p]>>, "idle"))
        ELSE Goto(p, Then([l EXCEPT !.ip = 0], <<l.ip>>, "idle")) /\ UNCHANGED cwd
     /\ UNCHANGED <<dinode, ents, fd>>

-----------------------------------------------------------------------------
(* create, for open with O_CREATE, mkdir and mknod.                        *)

NewType(l) == CASE l.call = "create" -> "file" [] l.call = "mkdir" -> "dir" [] OTHER -> "dev"

FreeInums == {i \in Inums : dinode[i].type = "free"}

\* With the directory locked: the name exists and is looked at next, or
\* ialloc marks the first free inode and create goes on to lock it.
create(p) ==
  LET l == loc[p]
      i == dirlookup(l.dp, l.name)
  IN /\ l.pc = "create" /\ CanLock(l.dp)
     /\ Panic(BadLock(l.dp))
     /\ IF i # 0
        THEN /\ itable' = Get(Loaded(itable, l.dp), i)
             /\ Goto(p, Then([l EXCEPT !.ip = i, !.dp = 0], <<l.dp>>, "exists"))
             /\ UNCHANGED dinode
        ELSE IF FreeInums = {}
        THEN /\ itable' = Loaded(itable, l.dp)
             /\ Goto(p, Then([l EXCEPT !.dp = 0], <<l.dp>>, "idle"))
             /\ UNCHANGED dinode
        ELSE LET k == Min(FreeInums)
             IN /\ dinode' = [dinode EXCEPT ![k] = [type |-> NewType(l), nlink |-> 0]]
                /\ itable' = Get(ilock(itable, l.dp, p), k)
                /\ Goto(p, [l EXCEPT !.ip = k, !.pc = "fill"])
     /\ UNCHANGED <<ents, cwd, fd>>

\* open may take an existing file or device; mkdir and mknod may not.
Exists(p) ==
  LET l == loc[p]
  IN /\ l.pc = "exists" /\ CanLock(l.ip)
     /\ Panic(BadLock(l.ip))
     /\ itable' = Loaded(itable, l.ip)
     /\ IF l.call = "create" /\ TypeOf(l.ip) \in {"file", "dev"}
        THEN Opens(p, l, l.ip)
        ELSE Goto(p, Then([l EXCEPT !.ip = 0], <<l.ip>>, "idle")) /\ UNCHANGED fd
     /\ UNCHANGED <<dinode, ents, cwd>>

\* The link that the ".." of a new directory is to its parent.
DotDotUncounted(t, dp, isdir) == t
DotDot(t, dp, isdir) == IF isdir THEN Relink(t, dp, t[dp].nlink + 1) ELSE t

\* The new inode locked too: nlink is 1, "." and ".." are written, and the
\* name in the directory, whose nlink counts the "..".
Fill(p) ==
  LET l == loc[p]
      isdir == NewType(l) = "dir"
      t == Relink(ilock(itable, l.ip, p), l.ip, 1)
      u == DotDot(t, l.dp, isdir)
  IN /\ l.pc = "fill" /\ CanLock(l.ip)
     /\ Panic(BadLock(l.ip))
     /\ itable' = iunlock(u, l.dp)
     /\ dinode' = [iupdate(u, l.ip) EXCEPT ![l.dp].nlink = u[l.dp].nlink]
     /\ ents' = [dirlink(l.dp, l.name, l.ip) EXCEPT ![l.ip][".."] = IF isdir THEN l.dp ELSE 0]
     /\ Goto(p, Then([l EXCEPT !.dp = 0], <<l.dp>>, "created"))
     /\ UNCHANGED <<cwd, fd>>

\* A dirlink fails (no block left): the new inode is put with nlink 0, the
\* directory still locked.
FillFails(p) ==
  LET l == loc[p]
  IN /\ l.pc = "fill" /\ CanLock(l.ip)
     /\ Panic(BadLock(l.ip))
     /\ itable' = Relink(Loaded(itable, l.ip), l.ip, 0)
     /\ dinode' = iupdate(itable', l.ip)
     /\ Goto(p, Then([l EXCEPT !.ip = 0], <<l.ip>>, "unlockdp"))
     /\ UNCHANGED <<ents, cwd, fd>>

UnlockDp(p) ==
  LET l == loc[p]
  IN /\ l.pc = "unlockdp"
     /\ itable' = iunlock(itable, l.dp)
     /\ Goto(p, Then([l EXCEPT !.dp = 0], <<l.dp>>, NotFound(l)))
     /\ UNCHANGED <<dinode, ents, cwd, fd, panicked>>

\* create returns the new inode, still locked.
Created(p) ==
  LET l == loc[p]
  IN /\ l.pc = "created"
     /\ itable' = iunlock(itable, l.ip)
     /\ IF l.call = "create" THEN Opens(p, l, l.ip)
        ELSE Goto(p, Then([l EXCEPT !.ip = 0], <<l.ip>>, "idle")) /\ UNCHANGED fd
     /\ UNCHANGED <<dinode, ents, cwd, panicked>>

-----------------------------------------------------------------------------
(* link.                                                                   *)

\* The old path found: one more link, before the new name exists.
link1(p) ==
  LET l == loc[p]
      t == Relink(Loaded(itable, l.ip), l.ip, NlinkOf(l.ip) + 1)
      k == [l EXCEPT !.old = l.ip, !.parent = TRUE]
      from == StartAt(p, l.new)
  IN /\ l.pc = "link" /\ CanLock(l.ip)
     /\ Panic(BadLock(l.ip))
     /\ IF TypeOf(l.ip) = "dir"
        THEN /\ itable' = Loaded(itable, l.ip)
             /\ Goto(p, Then([l EXCEPT !.ip = 0], <<l.ip>>, "idle"))
             /\ UNCHANGED dinode
        ELSE /\ itable' = Get(t, from)
             /\ dinode' = iupdate(t, l.ip)
             /\ Goto(p, Resolve(p, k, l.new, from))
     /\ UNCHANGED <<ents, cwd, fd>>

\* The directory of the new path locked: dirlink writes the entry, or finds the
\* name taken and puts what it names, or there is no block left.
link2(p) ==
  LET l == loc[p]
      i == dirlookup(l.dp, l.name)
  IN /\ l.pc = "link2" /\ CanLock(l.dp)
     /\ Panic(BadLock(l.dp))
     /\ IF i # 0
        THEN /\ itable' = Get(ilock(itable, l.dp, p), i)
             /\ Goto(p, Then(l, <<i>>, "unlockdp"))
             /\ UNCHANGED ents
        ELSE /\ itable' = Loaded(itable, l.dp)
             /\ \/ /\ ents' = dirlink(l.dp, l.name, l.old)
                   /\ Goto(p, Then([l EXCEPT !.dp = 0, !.old = 0], <<l.dp, l.old>>, "idle"))
                \/ /\ Goto(p, Then([l EXCEPT !.dp = 0], <<l.dp>>, "linkbad"))
                   /\ UNCHANGED ents
     /\ UNCHANGED <<dinode, cwd, fd>>

\* bad: the link is taken back.
linkbad(p) ==
  LET l == loc[p]
  IN /\ l.pc = "linkbad" /\ CanLock(l.old)
     /\ Panic(BadLock(l.old))
     /\ itable' = Relink(Loaded(itable, l.old), l.old, NlinkOf(l.old) - 1)
     /\ dinode' = iupdate(itable', l.old)
     /\ Goto(p, Then([l EXCEPT !.old = 0], <<l.old>>, "idle"))
     /\ UNCHANGED <<ents, cwd, fd>>

-----------------------------------------------------------------------------
(* unlink.                                                                 *)

unlink1(p) ==
  LET l == loc[p]
      i == dirlookup(l.dp, l.name)
  IN /\ l.pc = "unlink" /\ CanLock(l.dp)
     /\ Panic(BadLock(l.dp))
     /\ IF l.name \in {".", ".."} \/ i = 0
        THEN /\ itable' = Loaded(itable, l.dp)
             /\ Goto(p, Then([l EXCEPT !.dp = 0], <<l.dp>>, "idle"))
        ELSE /\ itable' = Get(ilock(itable, l.dp, p), i)
             /\ Goto(p, [l EXCEPT !.ip = i, !.pc = "unlink2"])
     /\ UNCHANGED <<dinode, ents, cwd, fd>>

\* Directory and inode locked: a directory that is not empty stays; else the
\* entry goes, and the directory is unlocked and put first.
unlink2(p) ==
  LET l == loc[p]
      isdir == TypeOf(l.ip) = "dir"
      t == ilock(itable, l.ip, p)
      u == IF isdir THEN Relink(t, l.dp, t[l.dp].nlink - 1) ELSE t
  IN /\ l.pc = "unlink2" /\ CanLock(l.ip)
     /\ Panic(BadLock(l.ip) \/ NlinkOf(l.ip) < 1)
     /\ IF isdir /\ ~isdirempty(l.ip)
        THEN /\ itable' = Loaded(itable, l.ip)
             /\ Goto(p, Then([l EXCEPT !.ip = 0], <<l.ip>>, "unlockdp"))
             /\ UNCHANGED <<dinode, ents>>
        ELSE /\ itable' = iunlock(u, l.dp)
             /\ dinode' = iupdate(u, l.dp)
             /\ ents' = [ents EXCEPT ![l.dp][l.name] = 0]
             /\ Goto(p, Then([l EXCEPT !.dp = 0], <<l.dp>>, "unlink3"))
     /\ UNCHANGED <<cwd, fd>>

unlink3(p) ==
  LET l == loc[p]
  IN /\ l.pc = "unlink3"
     /\ itable' = iunlock(Relink(itable, l.ip, itable[l.ip].nlink - 1), l.ip)
     /\ dinode' = iupdate(itable', l.ip)
     /\ Goto(p, Then([l EXCEPT !.ip = 0], <<l.ip>>, "idle"))
     /\ UNCHANGED <<ents, cwd, fd, panicked>>

-----------------------------------------------------------------------------
Step(p) ==
  \/ \E r \in load : Begin(p, r)
  \/ close(p) \/ iput(p) \/ iputFrees(p) \/ iputDrops(p)
  \/ namex(p) \/ sys_open(p) \/ sys_chdir(p)
  \/ create(p) \/ Exists(p) \/ Fill(p) \/ FillFails(p) \/ UnlockDp(p) \/ Created(p)
  \/ link1(p) \/ link2(p) \/ linkbad(p) \/ unlink1(p) \/ unlink2(p) \/ unlink3(p)

\* The inodes whose type goes from free to another, with references left; those
\* that go back to free.
Reused == {i \in Inums : dinode[i].type = "free" /\ dinode'[i].type # "free" /\ itable[i].ref > 0}
Released == {i \in Inums : dinode'[i].type = "free"}

\* Whether p is about to look up ".." in a directory without links.
Strays(p) ==
  loc[p].pc = "namex" /\ Head(loc[p].path) = ".." /\ NlinkOf(loc[p].ip) = 0

\* What p has from there, until it goes on to another inode.
Stray(p) == IF Strays(p) \/ strayed[p] = loc'[p].ip THEN loc'[p].ip ELSE 0

Run == \E p \in Procs :
         /\ ~panicked /\ Step(p)
         /\ UNCHANGED load
         /\ reused' = (reused \ Released) \cup Reused
         /\ strayed' = [strayed EXCEPT ![p] = Stray(p)]

\* panic does not return.
Halt == panicked /\ UNCHANGED vars

Next == Run \/ Halt

Spec == Init /\ [][Next]_vars

-----------------------------------------------------------------------------
(* Properties.                                                             *)

Count(b) == IF b THEN 1 ELSE 0

\* The references p holds to inode i: directory, file, locals, iputs to do.
\* An iput that has freed the inode still has its reference to drop.
HeldBy(p, i) ==
  Count(cwd[p] = i) + Count(fd[p] = i) + Count(loc[p].ip = i)
  + Count(loc[p].dp = i) + Count(loc[p].old = i)
  + Cardinality({k \in DOMAIN loc[p].todo : loc[p].todo[k] = i})

\* Reference counts are exact at every step of every call: none is dropped
\* twice or kept for ever, on any error path.
InodeRefsExact ==
  \A i \in Inums : itable[i].ref = MapThenSumSet(LAMBDA p : HeldBy(p, i), Procs)


\* The names of inode i: entries, and the ".." of directories that have a name.
NamesOf(i) ==
  Cardinality({x \in Inums \X Names : ents[x[1]][x[2]] = i})
  + Cardinality({d \in Inums : ents[d][".."] = i /\ \E e \in Inums, n \in Names : ents[e][n] = d})

\* An inode has at least as many links as names, so one that has a name is never
\* freed; the root has one more.  The ".." of a removed directory is no name.
LinksCover ==
  \A i \in Inums : dinode[i].nlink >= NamesOf(i) + Count(i = ROOTINO)

\* iput frees an inode with its last link and reference (fs.c:332), but for one
\* race: an inode that is allocated again while an iput that freed it, or a
\* process that took the ".." of a removed directory, still has a reference.
OnlyReusedLeak ==
  \A i \in Inums \ reused :
    dinode[i].type # "free" /\ dinode[i].nlink = 0 => itable[i].ref > 0

\* The copy of an inode in memory is the inode on disk, unless it is locked:
\* also when an inode is freed and allocated again while its entry is in use.
CopyCurrent ==
  \A i \in Inums : itable[i].valid /\ itable[i].lock = NoProc =>
    itable[i].type = dinode[i].type /\ itable[i].nlink = dinode[i].nlink
=============================================================================
