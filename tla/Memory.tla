------------------------------- MODULE Memory -------------------------------
(***************************************************************************)
(* Physical pages and user address spaces: the page allocator (kalloc.c),  *)
(* the page tables (vm.c), and the calls that build, grow, replace and     *)
(* free them: fork, exec, sbrk, exit and wait (proc.c, exec.c, sysfile.c). *)
(* Pages are alike, so the free list is the number of its pages, and a     *)
(* page table is the set of its table pages and the map of its leaves.     *)
(* Every kalloc is a step of its own, with the private work after it, and  *)
(* fails when the list is empty; the kfrees of one clean-up are one step.  *)
(***************************************************************************)
EXTENDS Integers, FiniteSets, FiniteSetsExt, Functions, TLC

CONSTANTS Procs, initproc,
          FAN, LEVELS, \* entries of a page-table page (512); levels (3)
          PGSIZE,      \* bytes of a page (4096)
          WORD,        \* uint64 arithmetic is modulo WORD (2^64)
          RAM,         \* the numbers of pages the machine may have
          Deltas,      \* the arguments of sbrk
          SegEnds,     \* the values of ph.vaddr + ph.memsz
          MAXARG       \* the length of argv[] in sys_exec, its null pointer included (32)

VARIABLES npages, nfree, \* pages of the machine; pages on kmem.freelist
          pc, sz,        \* of each process
          tf,            \* the processes with a trapframe page
          pt,            \* page tables: <<p, "cur">>, and <<p, "new">> in exec
          loc,           \* locals of the call in progress
          panicked

vars == <<npages, nfree, pc, sz, tf, pt, loc, panicked>>

TRAMPOLINE == FAN^LEVELS - 1
TRAPFRAME == TRAMPOLINE - 1
MAXVA == FAN^LEVELS * PGSIZE

\* Physical memory is far smaller than the user part of an address space.
ASSUME RAMFits == \A n \in RAM : n \in Nat /\ n < TRAPFRAME

PagesOf(s) == (s + PGSIZE - 1) \div PGSIZE  \* PGROUNDUP(s) / PGSIZE
PGROUNDUP(s) == PagesOf(s) * PGSIZE

NoTable == [nodes |-> {}, leaf |-> <<>>]
Root == <<LEVELS, 0>>
Idle == [call |-> "none", np |-> initproc, va |-> 0, end |-> 0, size |-> 0,
         newsz |-> 0, stack |-> FALSE, mem |-> 0, argv |-> 0]

\* The page-table pages walk(va) passes below the root, as <<level, index>>.
Path(va) == {<<l, va \div FAN^l>> : l \in 1 .. LEVELS - 1}
Missing(t, va) == Path(va) \ t.nodes
TopMissing(t, va) == CHOOSE x \in Missing(t, va) : \A y \in Missing(t, va) : y[1] <= x[1]

UserLeaves(t) == {va \in DOMAIN t.leaf : t.leaf[va] # "kernel"}
Owned(t) == Cardinality(t.nodes) + Cardinality(UserLeaves(t))

uvmunmap(t, a, n) == [t EXCEPT !.leaf = Restrict(@, DOMAIN @ \ (a .. a + n - 1))]

\* What proc_freepagetable(t, size) needs not to panic: every page it unmaps
\* is mapped, and freewalk finds no leaf left.
CanFree(t, size) ==
  DOMAIN t.leaf = {TRAMPOLINE, TRAPFRAME} \cup 0 .. PagesOf(size) - 1

Table(p) == CASE loc[p].call = "fork" -> <<loc[p].np, "cur">>
              [] loc[p].call = "exec" -> <<p, "new">>
              [] OTHER -> <<p, "cur">>

-----------------------------------------------------------------------------
(* The state after userinit.                                               *)

FirstTable == [nodes |-> {Root} \cup Path(0) \cup Path(TRAPFRAME),
               leaf |-> (0 :> "user") @@ (TRAPFRAME :> "kernel") @@ (TRAMPOLINE :> "kernel")]

Init ==
  /\ npages \in RAM /\ nfree = npages - 1 - Owned(FirstTable)
  /\ pc = [p \in Procs |-> IF p = initproc THEN "user" ELSE "unused"]
  /\ sz = [p \in Procs |-> IF p = initproc THEN PGSIZE ELSE 0]
  /\ tf = {initproc}
  /\ pt = [x \in Procs \X {"cur", "new"} |->
             IF x = <<initproc, "cur">> THEN FirstTable ELSE NoTable]
  /\ loc = [p \in Procs |-> Idle]
  /\ panicked = FALSE

-----------------------------------------------------------------------------
(* System calls up to their first kalloc.                                  *)

\* growproc(n): a negative n deallocates at once; sz + n wraps round.
Shrink(p, n) ==
  LET newsz == (sz[p] + n) % WORD
      t == pt[<<p, "cur">>]
      u == uvmunmap(t, PagesOf(newsz), PagesOf(sz[p]) - PagesOf(newsz))
  IN /\ pc[p] = "user" /\ n < 0
     /\ IF newsz >= sz[p]
        THEN UNCHANGED <<nfree, pt, sz, panicked>>
        ELSE /\ panicked' = ~(PagesOf(newsz) .. PagesOf(sz[p]) - 1 \subseteq UserLeaves(t))
             /\ pt' = [pt EXCEPT ![<<p, "cur">>] = u]
             /\ nfree' = nfree + Owned(t) - Owned(u)
             /\ sz' = [sz EXCEPT ![p] = newsz]
     /\ UNCHANGED <<npages, pc, tf, loc>>

Grow(p, n) ==
  /\ pc[p] = "user" /\ n > 0
  /\ pc' = [pc EXCEPT ![p] = "mem"]
  /\ loc' = [loc EXCEPT ![p] = [Idle EXCEPT !.call = "sbrk", !.va = PagesOf(sz[p]),
                                            !.end = PagesOf(sz[p] + n), !.newsz = sz[p] + n]]
  /\ UNCHANGED <<npages, nfree, sz, tf, pt, panicked>>

\* fork: allocproc takes an unused slot of the process table.
fork(p, np) ==
  /\ pc[p] = "user" /\ pc[np] = "unused"
  /\ pc' = [pc EXCEPT ![p] = "trapframe", ![np] = "used"]
  /\ loc' = [loc EXCEPT ![p] = [Idle EXCEPT !.call = "fork", !.np = np,
                                            !.end = PagesOf(sz[p]), !.newsz = sz[p]]]
  /\ UNCHANGED <<npages, nfree, sz, tf, pt, panicked>>

sys_exec(p) ==
  /\ pc[p] = "user"
  /\ pc' = [pc EXCEPT ![p] = "argv"]
  /\ loc' = [loc EXCEPT ![p] = [Idle EXCEPT !.call = "exec"]]
  /\ UNCHANGED <<npages, nfree, sz, tf, pt, panicked>>

exit(p) ==
  /\ pc[p] = "user" /\ p # initproc
  /\ pc' = [pc EXCEPT ![p] = "zombie"]
  /\ UNCHANGED <<npages, nfree, sz, tf, pt, loc, panicked>>

\* wait, by whichever process is the parent: freeproc(c).
wait(p, c) ==
  /\ pc[p] = "user" /\ pc[c] = "zombie"
  /\ panicked' = ~CanFree(pt[<<c, "cur">>], sz[c])
  /\ nfree' = nfree + 1 + Owned(pt[<<c, "cur">>])
  /\ tf' = tf \ {c}
  /\ pt' = [pt EXCEPT ![<<c, "cur">>] = NoTable]
  /\ sz' = [sz EXCEPT ![c] = 0]
  /\ pc' = [pc EXCEPT ![c] = "unused"]
  /\ UNCHANGED <<npages, loc>>

-----------------------------------------------------------------------------
(* The steps of a call, each around one kalloc.                            *)

\* allocproc: the trapframe page of the new process.
allocproc(p) ==
  /\ pc[p] = "trapframe" /\ nfree > 0
  /\ nfree' = nfree - 1
  /\ tf' = tf \cup {loc[p].np}
  /\ pc' = [pc EXCEPT ![p] = "create"]
  /\ UNCHANGED <<npages, sz, pt, loc, panicked>>

uvmcreate(p) ==
  /\ pc[p] = "create" /\ nfree > 0
  /\ nfree' = nfree - 1
  /\ pt' = [pt EXCEPT ![Table(p)] = [NoTable EXCEPT !.nodes = {Root}]]
  /\ pc' = [pc EXCEPT ![p] = "trampoline"]
  /\ UNCHANGED <<npages, sz, tf, loc, panicked>>

\* The page mappages is at: proc_pagetable maps the trampoline and the
\* trapframe, uvmalloc and uvmcopy one page after the other.
Mapping(p) == pc[p] \in {"trampoline", "frame", "map"}
Va(p) == CASE pc[p] = "trampoline" -> TRAMPOLINE
           [] pc[p] = "frame" -> TRAPFRAME
           [] pc[p] = "map" -> loc[p].va

\* walk with alloc set adds the highest page-table page that is missing.
walk(p) ==
  /\ Mapping(p) /\ Missing(pt[Table(p)], Va(p)) # {} /\ nfree > 0
  /\ nfree' = nfree - 1
  /\ pt' = [pt EXCEPT ![Table(p)].nodes = @ \cup {TopMissing(pt[Table(p)], Va(p))}]
  /\ UNCHANGED <<npages, pc, sz, tf, loc, panicked>>

\* The flags of the new leaf: uvmcopy copies them from the parent.
Flags(p) == CASE pc[p] # "map" -> "kernel"
              [] loc[p].call = "fork" -> pt[<<p, "cur">>].leaf[loc[p].va]
              [] OTHER -> "user"

mappages(p) ==
  /\ Mapping(p) /\ Missing(pt[Table(p)], Va(p)) = {}
  /\ panicked' = (Va(p) \in DOMAIN pt[Table(p)].leaf)
  /\ pt' = [pt EXCEPT ![Table(p)].leaf = (Va(p) :> Flags(p)) @@ @]
  /\ IF pc[p] = "map"
     THEN loc' = [loc EXCEPT ![p].va = @ + 1, ![p].mem = 0]
     ELSE UNCHANGED loc
  /\ pc' = [pc EXCEPT ![p] = CASE @ = "trampoline" -> "frame"
                               [] @ = "frame" /\ loc[p].call = "exec" -> "image"
                               [] OTHER -> "mem"]
  /\ UNCHANGED <<npages, nfree, sz, tf>>

\* The loops of uvmalloc and uvmcopy: a page of memory for the next address.
\* uvmcopy panics where the parent has no page.
TakeMem(p) ==
  /\ pc[p] = "mem" /\ loc[p].va < loc[p].end /\ nfree > 0
  /\ nfree' = nfree - 1
  /\ loc' = [loc EXCEPT ![p].mem = 1]
  /\ panicked' = (loc[p].call = "fork" /\ loc[p].va \notin DOMAIN pt[<<p, "cur">>].leaf)
  /\ pc' = [pc EXCEPT ![p] = "map"]
  /\ UNCHANGED <<npages, sz, tf, pt>>

\* The end of the loop: sbrk and fork set the size and are done; exec has its
\* segment, or its stack with the guard page below it (uvmclear).
LoopDone(p) ==
  LET l == loc[p]
  IN /\ pc[p] = "mem" /\ l.va >= l.end
     /\ sz' = CASE l.call = "sbrk" -> [sz EXCEPT ![p] = l.newsz]
                [] l.call = "fork" -> [sz EXCEPT ![l.np] = l.newsz]
                [] OTHER -> sz
     /\ pc' = CASE l.call = "sbrk" -> [pc EXCEPT ![p] = "user"]
                [] l.call = "fork" -> [pc EXCEPT ![p] = "user", ![l.np] = "user"]
                [] l.stack -> [pc EXCEPT ![p] = "commit"]
                [] OTHER -> [pc EXCEPT ![p] = "image"]
     /\ loc' = [loc EXCEPT ![p] = IF l.call = "exec" THEN [l EXCEPT !.size = l.newsz] ELSE Idle]
     /\ pt' = IF l.stack
              THEN [pt EXCEPT ![<<p, "new">>].leaf[PagesOf(l.newsz) - 2] = "guard"]
              ELSE pt
     /\ UNCHANGED <<npages, nfree, tf, panicked>>

-----------------------------------------------------------------------------
(* exec.                                                                   *)

\* sys_exec copies the arguments, each to a page of its own.
TakeArg(p) ==
  /\ pc[p] = "argv" /\ loc[p].argv < MAXARG /\ nfree > 0
  /\ nfree' = nfree - 1
  /\ loc' = [loc EXCEPT ![p].argv = @ + 1]
  /\ UNCHANGED <<npages, pc, sz, tf, pt, panicked>>

\* The arguments end with a null pointer within argv[]: exec opens the file, and
\* has its header read before proc_pagetable.
ArgsDone(p) ==
  /\ pc[p] = "argv" /\ loc[p].argv < MAXARG
  /\ pc' = [pc EXCEPT ![p] = "create"]
  /\ UNCHANGED <<npages, nfree, sz, tf, pt, loc, panicked>>

\* uvmalloc(pagetable, sz, newsz) in exec, up to its loop.
StartAlloc(p, oldsz, newsz, stack) ==
  /\ pc' = [pc EXCEPT ![p] = "mem"]
  /\ loc' = [loc EXCEPT ![p] = [@ EXCEPT !.va = PagesOf(oldsz), !.end = PagesOf(newsz),
                                         !.size = oldsz, !.newsz = newsz, !.stack = stack]]
  /\ UNCHANGED <<npages, nfree, sz, tf, pt, panicked>>

\* A segment to load.  One that ends below sz is in place already.
Segment(p, e) ==
  /\ pc[p] = "image" /\ e >= loc[p].size /\ e > 0
  /\ StartAlloc(p, loc[p].size, e, FALSE)

\* No more segments: two pages for the stack, from a page boundary.
Stack(p) ==
  /\ pc[p] = "image"
  /\ StartAlloc(p, PGROUNDUP(loc[p].size), PGROUNDUP(loc[p].size) + 2 * PGSIZE, TRUE)

\* The arguments fit on the stack: the new image takes the place of the old,
\* which is freed; then sys_exec frees the argument pages.
Commit(p) ==
  LET old == pt[<<p, "cur">>]
  IN /\ pc[p] = "commit"
     /\ panicked' = ~CanFree(old, sz[p])
     /\ nfree' = nfree + Owned(old) + loc[p].argv
     /\ pt' = [pt EXCEPT ![<<p, "cur">>] = pt[<<p, "new">>], ![<<p, "new">>] = NoTable]
     /\ sz' = [sz EXCEPT ![p] = loc[p].size]
     /\ pc' = [pc EXCEPT ![p] = "user"]
     /\ loc' = [loc EXCEPT ![p] = Idle]
     /\ UNCHANGED <<npages, tf>>

-----------------------------------------------------------------------------
(* The error paths.                                                        *)

\* The page the failed loop of uvmalloc or uvmcopy began at.
First(p) == CASE loc[p].call = "exec" -> PagesOf(loc[p].size)
              [] loc[p].call = "sbrk" -> PagesOf(sz[p])
              [] loc[p].call = "fork" -> 0

\* Mutants of Unmapped: the pages mapped stay, or the last of them does.
UnmappedNone(p) == pt[Table(p)]
UnmappedButLast(p) ==
  IF pc[p] \in {"mem", "map"} THEN uvmunmap(pt[Table(p)], First(p), loc[p].va - First(p) - 1)
  ELSE pt[Table(p)]

\* The table once uvmalloc or uvmcopy has unmapped the pages it had mapped.
Unmapped(p) ==
  IF pc[p] \in {"mem", "map"} THEN uvmunmap(pt[Table(p)], First(p), loc[p].va - First(p))
  ELSE pt[Table(p)]

\* None of the panics of uvmunmap and freewalk: allocproc, proc_pagetable and
\* the callers of uvmalloc and uvmcopy free what has been mapped so far.
Freeable(p) ==
  LET leaves == DOMAIN pt[Table(p)].leaf
  IN CASE pc[p] \in {"trapframe", "create", "argv"} -> TRUE
       [] pc[p] = "trampoline" -> leaves = {}
       [] pc[p] = "frame" -> leaves = {TRAMPOLINE}
       [] loc[p].call = "sbrk" -> PagesOf(sz[p]) .. loc[p].va - 1 \subseteq leaves
       [] loc[p].call = "fork" -> CanFree(Unmapped(p), 0)
       [] loc[p].call = "exec" -> CanFree(Unmapped(p), loc[p].size)

\* Mutant of LoosePages: the page mappages could not map is not freed.
LoosePagesNotMem(p) ==
  loc[p].argv + (IF loc[p].call = "fork" /\ loc[p].np \in tf THEN 1 ELSE 0)

\* The pages in no page table that the failed call frees: the one mappages
\* could not map, the arguments, the trapframe of the process not made.
LoosePages(p) ==
  loc[p].mem + loc[p].argv + (IF loc[p].call = "fork" /\ loc[p].np \in tf THEN 1 ELSE 0)

\* The call p is in returns -1: exec and fork free the table they were
\* building (fork the trapframe page too), sbrk keeps the old size.
Fail(p) ==
  LET l == loc[p]
      left == IF l.call = "sbrk" THEN Unmapped(p) ELSE NoTable
  IN /\ panicked' = ~Freeable(p)
     /\ nfree' = nfree + LoosePages(p) + Owned(pt[Table(p)]) - Owned(left)
     /\ pt' = [pt EXCEPT ![Table(p)] = left]
     /\ tf' = IF l.call = "fork" THEN tf \ {l.np} ELSE tf
     /\ pc' = IF l.call = "fork" THEN [pc EXCEPT ![p] = "user", ![l.np] = "unused"]
                                 ELSE [pc EXCEPT ![p] = "user"]
     /\ loc' = [loc EXCEPT ![p] = Idle]
     /\ UNCHANGED <<npages, sz>>

\* kalloc returns 0.
NoMemory(p) ==
  /\ nfree = 0
  /\ \/ pc[p] \in {"trapframe", "create", "argv"}
     \/ pc[p] = "mem" /\ loc[p].va < loc[p].end
     \/ Mapping(p) /\ Missing(pt[Table(p)], Va(p)) # {}
  /\ Fail(p)

\* exec gives up for a reason of its own: a bad path or argument, a bad or
\* short program file, an empty first segment, arguments that do not fit.
BadProgram(p) == pc[p] \in {"argv", "image", "commit"} /\ Fail(p)

-----------------------------------------------------------------------------
(* Copies between kernel and user memory, page by page.                    *)

\* walkaddr finds the page: it is mapped, for the user.
walkaddr(t, va) ==
  LET page == va \div PGSIZE
  IN va < MAXVA /\ page \in DOMAIN t.leaf /\ t.leaf[page] = "user"

PageStart(va) == (va \div PGSIZE) * PGSIZE  \* PGROUNDDOWN
\* Mutant of Chunk: the offset of va in its page is forgotten.
ChunkWhole(va, len) == Min({PGSIZE, len})
\* The bytes of the page from va on, at most len of them.
Chunk(va, len) == Min({PGSIZE - (va - PageStart(va)), len})

\* copyout of len bytes to va: whether it returns 0, and which user address gets
\* which byte of the kernel's buffer.
copyout(t, va, len) ==
  LET loop[v \in Nat, i \in 0 .. len] ==
        LET n == Chunk(v, len - i)
            rest == loop[PageStart(v) + PGSIZE, i + n]
        IN IF i = len THEN [ok |-> TRUE, bytes |-> {}]
           ELSE IF ~walkaddr(t, PageStart(v)) THEN [ok |-> FALSE, bytes |-> {}]
           ELSE [rest EXCEPT !.bytes = @ \cup {<<v + j, i + j>> : j \in 0 .. n - 1}]
  IN loop[va, 0]

\* The same loop, with the copy the other way.
copyin(t, va, len) == [copyout(t, va, len) EXCEPT !.bytes = {<<b[2], b[1]>> : b \in @}]

\* copyinstr of at most max bytes at va, with a null byte at address zero:
\* whether it finds the end of the string.
copyinstr(t, zero, va, max) ==
  LET loop[v \in Nat, m \in 0 .. max] ==
        LET n == Chunk(v, m)
        IN IF m = 0 \/ ~walkaddr(t, PageStart(v)) THEN FALSE
           ELSE zero \in v .. v + n - 1 \/ loop[PageStart(v) + PGSIZE, m - n]
  IN loop[va, max]

-----------------------------------------------------------------------------
Step(p) ==
  \/ \E n \in Deltas : Shrink(p, n) \/ Grow(p, n)
  \/ \E np \in Procs : fork(p, np) \/ wait(p, np)
  \/ sys_exec(p) \/ exit(p) \/ allocproc(p) \/ uvmcreate(p) \/ walk(p) \/ mappages(p)
  \/ TakeMem(p) \/ LoopDone(p) \/ TakeArg(p) \/ ArgsDone(p)
  \/ (\E e \in SegEnds : Segment(p, e)) \/ Stack(p) \/ Commit(p)
  \/ NoMemory(p) \/ BadProgram(p)

Next == ~panicked /\ \E p \in Procs : Step(p)

Spec == Init /\ [][Next]_vars

-----------------------------------------------------------------------------
(* Properties.                                                             *)

Held(p) == (IF p \in tf THEN 1 ELSE 0) + Owned(pt[<<p, "cur">>]) + Owned(pt[<<p, "new">>])
           + loc[p].mem + loc[p].argv

\* Every page of the machine is free or in the hands of one owner (a page
\* table, a leaf, a trapframe, a call in progress), and none is lost or freed
\* twice on any path through fork, exec, sbrk, exit and wait, those that run
\* out of memory half way included.
PagesExact == nfree + MapThenSumSet(Held, Procs) = npages

\* The size of a process and its page table agree whatever calls it has made
\* and however they ended: exactly the pages below sz are mapped, of which
\* sbrk may have added some.  uvmcopy, uvmfree and uvmdealloc rely on it.
SizeIsMapped ==
  \A p \in Procs : pc[p] \notin {"unused", "used"} =>
    UserLeaves(pt[<<p, "cur">>]) =
      0 .. (IF loc[p].call = "sbrk" THEN loc[p].va ELSE PagesOf(sz[p])) - 1

\* None of the panics of vm.c: no page is mapped twice, unmapped when it is not
\* mapped, missing in uvmcopy, or left in a table that freewalk frees.
NoPanic == ~panicked

\* The addresses from va on that a process may use, to the first it may not.
Reach(t, va, len) ==
  {i \in 0 .. len - 1 : \A j \in 0 .. i : walkaddr(t, va + j)}

\* In every page table the calls can build, guard pages and gaps included, the
\* page-wise loops of copyout and copyin move byte i to or from va + i, stop
\* at the first page out of reach, and succeed when there is none; copyinstr
\* succeeds exactly when the string ends, within max and within reach.
CopiesExact ==
  (\A p \in Procs : loc[p] = Idle) =>
    \A p \in Procs : pc[p] = "user" =>
      LET t == pt[<<p, "cur">>]
      IN \A va \in 0 .. sz[p] + PGSIZE, len \in 0 .. 2 * PGSIZE + 1 :
           /\ copyout(t, va, len) = [ok |-> Cardinality(Reach(t, va, len)) = len,
                                     bytes |-> {<<va + i, i>> : i \in Reach(t, va, len)}]
           /\ copyin(t, va, len).bytes = {<<i, va + i>> : i \in Reach(t, va, len)}
           /\ \A zero \in va .. va + len :
                copyinstr(t, zero, va, len) <=> zero - va \in Reach(t, va, len)
=============================================================================
