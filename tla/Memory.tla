------------------------------- MODULE Memory -------------------------------
(***************************************************************************)
(* Physical pages (kalloc.c), the page tables of processes (vm.c) and the  *)
(* calls that build, change and free them: fork, exec, sbrk, wait, and the *)
(* kernel stacks of threads.  Every allocation may find no page.           *)
(*                                                                         *)
(* Which page kalloc returns makes no difference, so pages are counted:    *)
(* the free ones, and those that an image, a page directory with what it   *)
(* maps, is made of.                                                       *)
(*                                                                         *)
(* growproc runs under ptable.lock and is one action.  copyuvm runs under  *)
(* no lock, and copies one page per action; exec builds the new image in   *)
(* one action and commits to it in another.                                *)
(***************************************************************************)
EXTENDS Threads, Sequences, SequencesExt, FiniteSetsExt

CONSTANTS
  NFRAME,       \* pages of physical memory
  PGSIZE,       \* bytes of a page
  NPTENTRIES,   \* pages that one page table page maps
  KERNBASE,     \* first address that is not the user's
  KERNPAGES,    \* directory and page tables of the kernel part
  MUINT,        \* 2^w, the values of a uint
  Sbrk,         \* the n of the calls of sbrk
  ProgramSize,  \* sizes of the programs to exec
  InitProc      \* the process made by userinit

ASSUME MemoryAssumption ==
  /\ NFRAME \in Nat /\ PGSIZE \in Nat \ {0} /\ NPTENTRIES \in Nat \ {0} /\ KERNPAGES \in Nat \ {0}
  /\ KERNBASE % PGSIZE = 0 /\ MUINT = 2 * KERNBASE
  /\ Sbrk \subseteq Int /\ ProgramSize \subseteq 1 .. KERNBASE /\ InitProc \in Process

Page == 0 .. (KERNBASE \div PGSIZE) - 1
TableOf(pg) == pg \div NPTENTRIES

VARIABLES
  nfree,        \* length of kmem.freelist
  image,        \* what pgdir of each process holds
  sz,
  kstack,       \* the threads that have a kernel stack
  stale,        \* the threads whose CPU has a freed page directory in %cr3
  asked,        \* the threads with exitRequest set
  call,         \* the call each thread is in
  torn          \* history: processes whose size is not that of their image

memVars == <<nfree, image, sz, kstack, stale, asked, call, torn>>

NoImage == [kernel |-> 0, table |-> {}, page |-> {}]
EmptyImage == [NoImage EXCEPT !.kernel = KERNPAGES]
NoCall == [at |-> "user", child |-> 0, size |-> 0, next |-> 0, new |-> NoImage, meanwhile |-> "same"]

Image == [kernel : {0, KERNPAGES}, table : SUBSET {TableOf(pg) : pg \in Page}, page : SUBSET Page]

MemoryTypeOK ==
  /\ nfree \in 0 .. NFRAME
  /\ image \in [Process -> Image]
  /\ sz \in [Process -> 0 .. KERNBASE - 1]
  /\ kstack \subseteq Thread /\ stale \subseteq Thread /\ asked \subseteq kstack
  /\ \A t \in Thread :
       /\ call[t].at \in {"user", "fork", "entered", "exec", "zombie"} /\ call[t].new \in Image
       /\ call[t].meanwhile \in {"same", "resized", "replaced"}

-----------------------------------------------------------------------------
(* n calls of kalloc that succeed; n calls of kfree *)
Kalloc(n) == nfree >= n /\ nfree' = nfree - n
Kfree(n) == nfree' = nfree + n

RoundUp(n) == ((n + PGSIZE - 1) \div PGSIZE) * PGSIZE

(* The pages that allocuvm and deallocuvm visit between two sizes *)
PagesFrom(a, b) == {pg \in Page : RoundUp(a) <= pg * PGSIZE /\ pg * PGSIZE < b}

(* What freevm gives back: the user pages, the page tables, the directory *)
SizeOf(m) == m.kernel + Cardinality(m.table) + Cardinality(m.page)

(* kalloc of a page and mappages of it, with the page table page it may    *)
(* need; s is [ok, free, m].  When the table cannot be had the page is     *)
(* given back.                                                             *)
MapPage(s, pg) ==
  LET needed == IF TableOf(pg) \in s.m.table THEN 1 ELSE 2
  IN IF ~s.ok \/ s.free < needed THEN [s EXCEPT !.ok = FALSE]
     ELSE [ok |-> TRUE, free |-> s.free - needed,
           m |-> [s.m EXCEPT !.page = @ \union {pg}, !.table = @ \union {TableOf(pg)}]]

(* deallocuvm of the pages from newsz up to oldsz; page tables stay. *)
Dealloc(free, m, oldsz, newsz) ==
  LET gone == PagesFrom(newsz, oldsz) \intersect m.page
  IN [ok |-> FALSE, free |-> free + Cardinality(gone), m |-> [m EXCEPT !.page = @ \ gone]]

UndoFault(s, newsz, oldsz) == s
Undo(s, newsz, oldsz) == Dealloc(s.free, s.m, newsz, oldsz)

BeyondUser(newsz) == newsz >= KERNBASE

(* allocuvm: all of the pages, or none of them and FALSE. *)
Allocuvm(free, m, oldsz, newsz) ==
  LET s == FoldLeft(MapPage, [ok |-> TRUE, free |-> free, m |-> m],
                    SetToSortSeq(PagesFrom(oldsz, newsz), <))
  IN IF BeyondUser(newsz) THEN [ok |-> FALSE, free |-> free, m |-> m]
     ELSE IF s.ok THEN s ELSE Undo(s, newsz, oldsz)

-----------------------------------------------------------------------------
FirstThread(q) == CHOOSE u \in Thread : ProcOf[u] = q

(* userinit: one process with one page and one thread. *)
MemoryInit ==
  LET s == Allocuvm(NFRAME - 1 - KERNPAGES, EmptyImage, 0, PGSIZE)
  IN /\ nfree = s.free
     /\ image = [p \in Process |-> IF p = InitProc THEN s.m ELSE NoImage]
     /\ sz = [p \in Process |-> IF p = InitProc THEN PGSIZE ELSE 0]
     /\ kstack = {FirstThread(InitProc)}
     /\ stale = {} /\ asked = {} /\ torn = {}
     /\ call = [t \in Thread |-> NoCall]

ThreadsOf(p) == {t \in kstack : ProcOf[t] = p}
Siblings(t) == ThreadsOf(ProcOf[t]) \ {t}
Running(t) == t \in kstack /\ image[ProcOf[t]] # NoImage /\ call[t].at = "user"
InUser(t) == Running(t) /\ t \notin asked

(* The forks of the other threads that t disturbs *)
Disturb(t, how) ==
  [u \in Thread |-> IF u \in Siblings(t) /\ call[u].at = "fork" THEN [call[u] EXCEPT !.meanwhile = how]
                                                               ELSE call[u]]

(* growproc: grow by all of n or by nothing; shrink; a size that wraps     *)
(* below zero changes nothing.  Shrinking to 0 frees the pages, fails and  *)
(* leaves sz.  mappages panics on a page that is mapped.                   *)
GrowProc(t, n) ==
  LET p == ProcOf[t]
      newsz == (sz[p] + n) % MUINT
      up == Allocuvm(nfree, image[p], sz[p], newsz)
      down == Dealloc(nfree, image[p], sz[p], newsz)
  IN /\ InUser(t)
     /\ \/ /\ n > 0 /\ PagesFrom(sz[p], newsz) \intersect image[p].page = {}
           /\ nfree' = up.free
           /\ image' = [image EXCEPT ![p] = up.m]
           /\ sz' = [sz EXCEPT ![p] = IF up.ok THEN newsz ELSE @]
           /\ UNCHANGED torn
        \/ /\ n < 0 /\ newsz < sz[p]
           /\ nfree' = down.free
           /\ image' = [image EXCEPT ![p] = down.m]
           /\ sz' = [sz EXCEPT ![p] = IF newsz = 0 THEN @ ELSE newsz]
           /\ torn' = IF newsz = 0 THEN torn \union {p} ELSE torn
     /\ call' = Disturb(t, "resized")
     /\ UNCHANGED <<kstack, stale, asked>>

-----------------------------------------------------------------------------
SizeToCopy(p) == sz[p]

(* fork up to the first page: allocproc takes a kernel stack, setupkvm the *)
(* directory and the kernel part.  Without memory nothing is kept.         *)
Fork(t, q) ==
  /\ InUser(t)
  /\ image[q] = NoImage /\ ThreadsOf(q) = {}
  /\ Kalloc(1 + KERNPAGES)
  /\ kstack' = kstack \union {FirstThread(q)}
  /\ call' = [call EXCEPT ![t] = [NoCall EXCEPT !.at = "fork", !.child = q,
                                               !.size = SizeToCopy(ProcOf[t]), !.new = EmptyImage]]
  /\ UNCHANGED <<image, sz, stale, asked, torn>>

GivenBackFault(m) == m.kernel + Cardinality(m.page)

(* What a failed copyuvm frees, apart from the kernel stack *)
GivenBack(m) == SizeOf(m)

(* copyuvm, one page: it must be there in the parent, or the kernel        *)
(* panics.  On failure the child's image and its kernel stack are freed.   *)
(* What a copy finds in a directory that exec has freed is left out.       *)
CopyPage(t) ==
  LET c == call[t]
      s == MapPage([ok |-> TRUE, free |-> nfree, m |-> c.new], c.next)
  IN /\ c.at = "fork" /\ c.next * PGSIZE < c.size
     /\ c.meanwhile # "replaced" /\ c.next \in image[ProcOf[t]].page
     /\ \/ /\ s.ok
           /\ nfree' = s.free
           /\ call' = [call EXCEPT ![t].next = @ + 1, ![t].new = s.m]
           /\ UNCHANGED kstack
        \/ /\ ~s.ok
           /\ Kfree(GivenBack(c.new) + 1)
           /\ kstack' = kstack \ {FirstThread(c.child)}
           /\ call' = [call EXCEPT ![t] = NoCall]
     /\ UNCHANGED <<image, sz, stale, asked, torn>>

(* The size is read again, after the copy. *)
ForkReturns(t) ==
  LET c == call[t]
      p == ProcOf[t]
  IN /\ c.at = "fork" /\ c.next * PGSIZE >= c.size
     /\ image' = [image EXCEPT ![c.child] = c.new]
     /\ sz' = [sz EXCEPT ![c.child] = sz[p]]
     /\ torn' = IF c.meanwhile # "same" \/ p \in torn THEN torn \union {c.child} ELSE torn
     /\ call' = [call EXCEPT ![t] = NoCall]
     /\ UNCHANGED <<nfree, kstack, stale, asked>>

-----------------------------------------------------------------------------
(* The test of exitRequest comes before ptable.lock: two threads of a      *)
(* process may both pass it, and each then asks the other.                 *)
Exec(t) ==
  /\ InUser(t)
  /\ call' = [call EXCEPT ![t].at = "entered"]
  /\ UNCHANGED <<nfree, image, sz, kstack, stale, asked, torn>>

(* exec asks the other threads to exit and builds the new image: the       *)
(* program, a page without access for the user and the stack.  What was    *)
(* built is freed when memory runs out.                                    *)
ExecBuild(t, size) ==
  LET program == Allocuvm(nfree - KERNPAGES, EmptyImage, 0, size)
      top == RoundUp(size) + 2 * PGSIZE
      full == Allocuvm(program.free, program.m, RoundUp(size), top)
      built == nfree >= KERNPAGES /\ program.ok /\ full.ok
  IN /\ call[t].at = "entered"
     /\ asked' = asked \union {u \in Siblings(t) : call[u].at # "zombie"}
     /\ \/ /\ built
           /\ nfree' = full.free
           /\ call' = [call EXCEPT ![t] = [NoCall EXCEPT !.at = "exec", !.size = top, !.new = full.m]]
        \/ /\ ~built
           /\ call' = [call EXCEPT ![t] = NoCall]
           /\ UNCHANGED nfree
     /\ UNCHANGED <<image, sz, kstack, stale, torn>>

(* The threads whose CPU keeps the old directory: switchuvm comes before   *)
(* freevm, on this CPU only.                                               *)
LeftBehind(t) == {u \in Siblings(t) : call[u].at # "zombie"}

(* Commit to the user image. *)
ExecCommit(t) ==
  LET p == ProcOf[t]
  IN /\ call[t].at = "exec"
     /\ image' = [image EXCEPT ![p] = call[t].new]
     /\ sz' = [sz EXCEPT ![p] = call[t].size]
     /\ Kfree(SizeOf(image[p]))
     /\ stale' = (stale \ {t}) \union LeftBehind(t)
     /\ call' = [Disturb(t, "replaced") EXCEPT ![t] = NoCall]
     /\ torn' = torn \ {p}
     /\ UNCHANGED <<kstack, asked>>

(* The scheduler gives the thread a CPU: switchuvm. *)
Schedule(t) ==
  /\ t \in stale
  /\ stale' = stale \ {t}
  /\ UNCHANGED <<nfree, image, sz, kstack, asked, call, torn>>

KthreadCreate(t) ==
  /\ t \notin kstack /\ \E u \in ThreadsOf(ProcOf[t]) : InUser(u)
  /\ Kalloc(1)
  /\ kstack' = kstack \union {t}
  /\ UNCHANGED <<image, sz, stale, asked, call, torn>>

(* The CPU leaves the thread for the scheduler: switchkvm.  init stays. *)
KthreadExit(t) ==
  /\ Running(t)
  /\ ProcOf[t] # InitProc \/ \E u \in Siblings(t) : call[u].at # "zombie" /\ u \notin asked
  /\ call' = [call EXCEPT ![t].at = "zombie"]
  /\ stale' = stale \ {t}
  /\ asked' = asked \ {t}
  /\ UNCHANGED <<nfree, image, sz, kstack, torn>>

KthreadJoin(t, u) ==
  /\ InUser(t) /\ u \in Siblings(t) /\ call[u].at = "zombie"
  /\ Kfree(1)
  /\ kstack' = kstack \ {u}
  /\ call' = [call EXCEPT ![u] = NoCall]
  /\ UNCHANGED <<image, sz, stale, asked, torn>>

(* wait: the process is a zombie, and so are its threads. *)
Wait(q) ==
  LET ts == ThreadsOf(q)
  IN /\ image[q] # NoImage /\ \A t \in ts : call[t].at = "zombie"
     /\ Kfree(Cardinality(ts) + SizeOf(image[q]))
     /\ kstack' = kstack \ ts
     /\ call' = [t \in Thread |-> IF t \in ts THEN NoCall ELSE call[t]]
     /\ image' = [image EXCEPT ![q] = NoImage]
     /\ sz' = [sz EXCEPT ![q] = 0]
     /\ torn' = torn \ {q}
     /\ UNCHANGED <<stale, asked>>

MemoryNext ==
  \/ \E t \in Thread, n \in Sbrk : GrowProc(t, n)
  \/ \E t \in Thread, q \in Process : Fork(t, q)
  \/ \E t \in Thread : CopyPage(t)
  \/ \E t \in Thread : ForkReturns(t)
  \/ \E t \in Thread : Exec(t)
  \/ \E t \in Thread, size \in ProgramSize : ExecBuild(t, size)
  \/ \E t \in Thread : ExecCommit(t)
  \/ \E t \in Thread : Schedule(t)
  \/ \E t \in Thread : KthreadCreate(t)
  \/ \E t \in Thread : KthreadExit(t)
  \/ \E t, u \in Thread : KthreadJoin(t, u)
  \/ \E q \in Process : Wait(q)

-----------------------------------------------------------------------------
(* Every page of memory is free or has exactly one use, as a user page, a  *)
(* page table page, a directory or a kernel stack: whichever allocation    *)
(* fails half-way in fork, exec or sbrk, none is lost and none is freed    *)
(* twice.                                                                  *)
PagesAccounted ==
  nfree + Cardinality(kstack) + MapThenSumSet(LAMBDA p : SizeOf(image[p]), Process)
        + MapThenSumSet(LAMBDA t : SizeOf(call[t].new), Thread) = NFRAME

(* The pages below sz are mapped and no others are: a system call may use  *)
(* any address below sz.  Two cases of the code are let through: sbrk to   *)
(* size 0 frees every page and leaves sz, and the child of a fork during   *)
(* which another thread changed the size has a size that is not its own.   *)
ImageMatchesSize ==
  \A p \in Process \ torn : image[p].page = PagesFrom(0, sz[p])

(* copyuvm finds each page of the parent, and does not panic, unless       *)
(* another thread of the process changes the size or the image meanwhile.  *)
CopyFindsPages ==
  \A t \in Thread :
    LET c == call[t]
    IN c.at = "fork" /\ c.next * PGSIZE < c.size /\ c.meanwhile = "same" /\ ProcOf[t] \notin torn
         => c.next \in image[ProcOf[t]].page

(* No CPU runs on a page directory that was freed, except for a thread     *)
(* that exec has told to exit and that has not left yet.                   *)
DirectoryLive == stale \subseteq asked

(* The image of a process is what its size says, through sbrk, fork and    *)
(* exec with any failure, for every thread that runs on it.                *)
ImageSound == MemoryTypeOK /\ ImageMatchesSize /\ CopyFindsPages /\ DirectoryLive

=============================================================================
