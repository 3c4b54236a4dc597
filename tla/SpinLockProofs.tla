--------------------------- MODULE SpinLockProofs ---------------------------
(***************************************************************************)
(* Spin locks exclude, and every CPU knows the state of the stack it runs, *)
(* for any number of CPUs, threads and locks.                              *)
(***************************************************************************)
EXTENDS SpinLock, FiniteSetTheorems, TLAPS

-----------------------------------------------------------------------------
(***************************************************************************)
(* The inductive invariant.                                                *)
(***************************************************************************)
Op == [pc : {"at", "cli", "xchg", "mark", "clear", "new", "ready"},
       lk : 0..NLOCK, eflags : BOOLEAN]
CpuRec == [ncli : Int, intena : BOOLEAN, flag : BOOLEAN, runs : Stack]
StackRec == [now : Op, under : Op, handler : BOOLEAN, held : SUBSET Lock,
             intena : BOOLEAN, fresh : BOOLEAN]
LockRec == [locked : BOOLEAN, cpu : Cpu \cup {NoCpu}]

SpinTypeOK ==
    /\ cpus \in [Cpu -> CpuRec]
    /\ stack \in [Stack -> StackRec]
    /\ spinlock \in [Lock -> LockRec]

\* A CPU runs its scheduler or a thread, no stack runs twice, and a stack that
\* does not run has no lock: a thread is new or inside sched, a scheduler
\* between two statements of its loop and not interrupted.
Placed ==
    /\ \A c \in Cpu : X(c) # c => X(c) \in Kthread
    /\ \A c, d \in Cpu : X(c) = X(d) => c = d
    /\ \A t \in Kthread : (\A c \in Cpu : X(c) # t) =>
           stack[t].now.pc \in {"new", "ready"} /\ stack[t].held = {}
    /\ \A c \in Cpu : X(c) # c =>
           /\ stack[c].now.pc = "at" /\ stack[c].held = {}
           /\ ~stack[c].handler

\* Inside an acquire the lock comes after the ones that the stack has; inside
\* a release the stack does not have it any more.  An interrupt found the
\* stack between two statements, or before the cli of acquire.
Ordered(s) ==
    /\ s.now.pc \in {"cli", "xchg", "mark"} =>
           s.now.lk \in Lock /\ \A k \in s.held : k < s.now.lk
    /\ s.now.pc = "clear" => s.now.lk \in Lock /\ s.now.lk \notin s.held
    /\ s.under.pc \in {"at", "cli"}
    /\ s.under.pc = "cli" => s.under.lk \in Lock
    /\ s.now.pc = "new" => s.fresh

\* A thread that has been in user space remembers, wherever it is, that its
\* interrupts are to be enabled, unless a handler runs on it.
Remembers(s) ==
    ~s.fresh =>
        /\ s.now.pc = "cli" /\ s.held = {} => (s.now.eflags <=> ~s.handler)
        /\ s.handler /\ s.under.pc = "cli" => s.under.eflags
        /\ s.now.pc = "ready" => (s.intena <=> ~s.handler)

\* ncli, the interrupt flag and intena of a CPU, with record r, that runs a
\* stack with record s.
Outside(s) == s.now.pc \in {"at", "cli"} /\ s.held = {}

Counts(r, s) ==
    /\ s.now.pc \notin {"new", "ready"}
    /\ r.ncli = Cardinality(s.held) +
          (IF s.now.pc \in {"xchg", "mark", "clear"} THEN 1 ELSE 0)
    /\ r.flag => Outside(s)

Enables(r, s) ==
    ~s.fresh => IF Outside(s) THEN r.flag <=> ~s.handler
                              ELSE r.intena <=> ~s.handler

\* A lock that is not locked nobody has, and lk->cpu is the CPU whose stack
\* has marked the lock.
LocksRight ==
    /\ \A l \in Lock : ~spinlock[l].locked => \A x \in Stack : ~Has(x, l)
    /\ \A c \in Cpu : \A l \in Lock : spinlock[l].cpu = c <=> l \in Held(c)
    /\ SpinExclusion

StacksRight ==
    /\ \A x \in Stack : Ordered(stack[x])
    /\ \A t \in Kthread : Remembers(stack[t])

CpusRight ==
    /\ \A c \in Cpu : Counts(cpus[c], stack[X(c)])
    /\ \A c \in Cpu : X(c) # c => Enables(cpus[c], stack[X(c)])

SpinInv == SpinTypeOK /\ Placed /\ StacksRight /\ CpusRight /\ LocksRight
-----------------------------------------------------------------------------
(***************************************************************************)
(* Lemmas.                                                                 *)
(***************************************************************************)
\* Counting the locks that a stack has.
LEMMA LockSets ==
    ASSUME NEW S \in SUBSET Lock
    PROVE  /\ IsFiniteSet(S) /\ Cardinality(S) \in Nat
           /\ Cardinality(S) = 0 <=> S = {}
           /\ \A l \in Lock : l \notin S => Cardinality(S \cup {l}) = Cardinality(S) + 1
           /\ \A l \in S : Cardinality(S \ {l}) = Cardinality(S) - 1
<1>1. IsFiniteSet(Lock)
  BY FS_Interval, SpinLockAssumption DEF Lock
<1>2. IsFiniteSet(S)
  BY Zenon, <1>1, FS_Subset
<1>3. Cardinality(S) \in Nat /\ (Cardinality(S) = 0 <=> S = {})
  BY Zenon, <1>2, FS_CardinalityType, FS_EmptySet
<1>4. \A l \in Lock : l \notin S => Cardinality(S \cup {l}) = Cardinality(S) + 1
  BY Zenon, <1>2, FS_AddElement
<1>5. \A l \in S : Cardinality(S \ {l}) = Cardinality(S) - 1
  BY Zenon, <1>2, FS_RemoveElement
<1> QED
  BY Zenon, <1>2, <1>3, <1>4, <1>5

\* The stack that a CPU runs is a stack.
LEMMA Runs ==
    ASSUME SpinInv, NEW c \in Cpu
    PROVE  /\ X(c) \in Stack
           /\ X(c) # c => X(c) \in Kthread /\ X(c) \notin Cpu
           /\ X(c) \in Cpu => X(c) = c
BY Zenon, SpinLockAssumption DEF SpinInv, SpinTypeOK, Placed, CpuRec, X, Stack

\* What the invariant says of the stack that a CPU runs.
LEMMA View ==
    ASSUME SpinInv, NEW c \in Cpu
    PROVE  /\ X(c) \in Stack /\ stack[X(c)] \in StackRec /\ cpus[c] \in CpuRec
           /\ Ordered(stack[X(c)]) /\ Counts(cpus[c], stack[X(c)])
           /\ X(c) # c => Remembers(stack[X(c)]) /\ Enables(cpus[c], stack[X(c)])
BY Zenon, Runs DEF SpinInv, SpinTypeOK, StacksRight, CpusRight

\* A step of one CPU on the stack it runs concerns that CPU and that stack only.
LEMMA LocalStep ==
    ASSUME SpinInv, NEW c \in Cpu, X(c)' = X(c),
           \A d \in Cpu \ {c} : cpus'[d] = cpus[d],
           \A x \in Stack \ {X(c)} : stack'[x] = stack[x],
           Ordered(stack'[X(c)]), X(c) # c => Remembers(stack'[X(c)]),
           Counts(cpus'[c], stack'[X(c)]),
           X(c) # c => Enables(cpus'[c], stack'[X(c)])
    PROVE  Placed' /\ StacksRight' /\ CpusRight'
<1>1. \A d \in Cpu : X(d)' = X(d)
  BY Zenon DEF X
<1>2. \A d \in Cpu \ {c} : X(d) # X(c) /\ X(d) \in Stack
  BY Zenon, Runs DEF SpinInv, Placed
<1>3. \A d \in Cpu \ {c} : stack'[X(d)] = stack[X(d)]
  BY Zenon, <1>2
<1>4. \A d \in Cpu : X(d) # d => d # X(c) /\ d \in Stack
  BY Zenon, Runs DEF Stack
<1>5. Placed'
  <2>1. \A t \in Kthread : (\A d \in Cpu : X(d) # t) =>
            stack'[t].now.pc \in {"new", "ready"} /\ stack'[t].held = {}
    BY Zenon DEF SpinInv, Placed, Stack
  <2>2. \A d \in Cpu : X(d) # d =>
            stack'[d].now.pc = "at" /\ stack'[d].held = {} /\ ~stack'[d].handler
    BY Zenon, <1>4 DEF SpinInv, Placed
  <2> QED
    BY <1>1, <2>1, <2>2 DEF SpinInv, Placed
<1>6. StacksRight'
  BY Zenon, SpinLockAssumption DEF SpinInv, StacksRight, Stack
<1>7. CpusRight'
  BY <1>1, <1>3 DEF SpinInv, CpusRight
<1> QED
  BY Zenon, <1>5, <1>6, <1>7

\* A step that changes neither the stacks that run nor what a stack has.
LEMMA HeldKept ==
    ASSUME SpinInv, \A d \in Cpu : X(d)' = X(d),
           \A x \in Stack : stack'[x].held = stack[x].held
    PROVE  \A d \in Cpu : Held(d)' = Held(d)
BY Zenon, Runs DEF Held

\* A step that neither takes nor gives a lock.
LEMMA LocksKept ==
    ASSUME SpinInv, spinlock' = spinlock,
           \A x \in Stack : \A l \in Lock : Has(x, l)' <=> Has(x, l),
           \A d \in Cpu : Held(d)' = Held(d)
    PROVE  LocksRight'
BY DEF SpinInv, LocksRight, SpinExclusion
-----------------------------------------------------------------------------
(***************************************************************************)
(* acquire keeps the invariant.                                            *)
(***************************************************************************)
\* pushcli reads the flag: it says what the stack is to find again.
LEMMA PushcliStep ==
    ASSUME SpinInv, NEW c \in Cpu, NEW l \in Lock, Pushcli(c, l)
    PROVE  SpinInv'
<1> DEFINE x == X(c)
           s == stack[x]
<1>1. /\ x \in Stack /\ s \in StackRec /\ cpus[c] \in CpuRec
      /\ Ordered(s) /\ Counts(cpus[c], s)
      /\ x # c => Remembers(s) /\ Enables(cpus[c], s)
  BY Zenon, View
<1>2. /\ stack' = [stack EXCEPT ![x].now = [pc |-> "cli", lk |-> l, eflags |-> cpus[c].flag]]
      /\ cpus' = cpus /\ spinlock' = spinlock
      /\ s.now.pc = "at" /\ \A k \in s.held : k < l
  BY Zenon DEF Pushcli, Now, Held
<1>3. /\ stack'[x].now = [pc |-> "cli", lk |-> l, eflags |-> cpus[c].flag]
      /\ stack'[x].under = s.under /\ stack'[x].handler = s.handler
      /\ stack'[x].held = s.held /\ stack'[x].fresh = s.fresh
      /\ \A y \in Stack \ {x} : stack'[y] = stack[y]
  BY Zenon, <1>1, <1>2 DEF SpinInv, SpinTypeOK, StackRec
<1>4. SpinTypeOK'
  <2>1. [pc |-> "cli", lk |-> l, eflags |-> cpus[c].flag] \in Op
    BY <1>1, SpinLockAssumption DEF Op, CpuRec, Lock
  <2> QED
    BY Zenon, <1>1, <1>2, <2>1 DEF SpinInv, SpinTypeOK, StackRec
<1>5. Ordered(stack'[x])
  BY <1>1, <1>2, <1>3 DEF Ordered
<1>6. x # c => Remembers(stack'[x])
  BY <1>1, <1>2, <1>3 DEF Remembers, Enables, Outside
<1>7. Counts(cpus'[c], stack'[x])
  BY <1>1, <1>2, <1>3 DEF Counts, Outside
<1>8. x # c => Enables(cpus'[c], stack'[x])
  BY <1>1, <1>2, <1>3 DEF Enables, Outside
<1>9. Placed' /\ StacksRight' /\ CpusRight'
  BY Zenon, <1>2, <1>3, <1>5, <1>6, <1>7, <1>8, LocalStep DEF X
<1>10. LocksRight'
  <2>1. \A y \in Stack : \A k \in Lock : Has(y, k)' <=> Has(y, k)
    BY <1>2, <1>3 DEF Has
  <2>2. \A d \in Cpu : Held(d)' = Held(d)
    <3>1. \A d \in Cpu : X(d)' = X(d)
      BY Zenon, <1>2 DEF X
    <3>2. \A y \in Stack : stack'[y].held = stack[y].held
      BY Zenon, <1>3
    <3> QED
      BY Zenon, <3>1, <3>2, HeldKept
  <2> QED
    BY Zenon, <1>2, <2>1, <2>2, LocksKept
<1> QED
  BY Zenon, <1>4, <1>9, <1>10 DEF SpinInv

\* cli: the outermost pushcli keeps in intena what it has read.
LEMMA CliStep ==
    ASSUME SpinInv, NEW c \in Cpu, Cli(c)
    PROVE  SpinInv'
<1> DEFINE x == X(c)
           s == stack[x]
           r == cpus[c]
<1>1. /\ x \in Stack /\ s \in StackRec /\ r \in CpuRec
      /\ Ordered(s) /\ Counts(r, s)
      /\ x # c => Remembers(s) /\ Enables(r, s)
  BY Zenon, View
<1>2. /\ stack' = [stack EXCEPT ![x].now.pc = "xchg", ![x].now.eflags = FALSE]
      /\ cpus' = [cpus EXCEPT ![c].flag = FALSE, ![c].ncli = @ + 1,
                              ![c].intena = KeepsIntena(c, s.now.eflags)]
      /\ spinlock' = spinlock /\ s.now.pc = "cli"
  BY Zenon DEF Cli, Now
<1>3. /\ stack'[x].now = [pc |-> "xchg", lk |-> s.now.lk, eflags |-> FALSE]
      /\ stack'[x].under = s.under /\ stack'[x].handler = s.handler
      /\ stack'[x].held = s.held /\ stack'[x].fresh = s.fresh
      /\ s.now.pc = "cli" /\ \A y \in Stack \ {x} : stack'[y] = stack[y]
  BY Zenon, <1>1, <1>2 DEF SpinInv, SpinTypeOK, StackRec, Op
<1>4. /\ cpus'[c].flag = FALSE /\ cpus'[c].ncli = r.ncli + 1 /\ cpus'[c].runs = x
      /\ cpus'[c].intena = KeepsIntena(c, s.now.eflags)
      /\ \A d \in Cpu \ {c} : cpus'[d] = cpus[d]
  BY Zenon, <1>1, <1>2 DEF SpinInv, SpinTypeOK, CpuRec, X
<1>5. SpinTypeOK'
  <2>1. KeepsIntena(c, s.now.eflags) \in BOOLEAN
    BY Zenon, <1>1 DEF KeepsIntena, CpuRec, StackRec, Op
  <2>2. cpus' \in [Cpu -> CpuRec]
    BY <1>1, <1>2, <2>1 DEF SpinInv, SpinTypeOK, CpuRec
  <2>3. stack' \in [Stack -> StackRec]
    BY ZenonT(30), <1>1, <1>2 DEF SpinInv, SpinTypeOK, StackRec, Op
  <2> QED
    BY Zenon, <1>2, <2>2, <2>3 DEF SpinInv, SpinTypeOK
<1>6. Ordered(stack'[x]) /\ (x # c => Remembers(stack'[x]))
  BY SMTT(30), <1>1, <1>3 DEF Ordered, Remembers
<1>7. /\ Cardinality(s.held) \in Nat /\ (Cardinality(s.held) = 0 <=> s.held = {})
      /\ r.ncli = Cardinality(s.held)
  BY <1>1, <1>3, LockSets DEF Counts, StackRec
<1>8. Counts(cpus'[c], stack'[x])
  BY <1>3, <1>4, <1>7 DEF Counts
<1>9. x # c => Enables(cpus'[c], stack'[x])
  <2>1. CASE s.held = {}
    BY <1>1, <1>3, <1>4, <1>7, <2>1 DEF Enables, Outside, Remembers, KeepsIntena
  <2>2. CASE s.held # {}
    BY Zenon, <1>1, <1>3, <1>4, <1>7, <2>2 DEF Enables, Outside, KeepsIntena
  <2> QED
    BY Zenon, <2>1, <2>2
<1>10. Placed' /\ StacksRight' /\ CpusRight'
  BY Zenon, <1>3, <1>4, <1>6, <1>8, <1>9, LocalStep DEF X
<1>11. LocksRight'
  <2>1. \A y \in Stack : \A k \in Lock : Has(y, k)' <=> Has(y, k)
    BY <1>3 DEF Has
  <2>2. \A d \in Cpu : Held(d)' = Held(d)
    <3>1. \A d \in Cpu : X(d)' = X(d)
      BY Zenon, <1>4 DEF X
    <3>2. \A y \in Stack : stack'[y].held = stack[y].held
      BY Zenon, <1>3
    <3> QED
      BY Zenon, <3>1, <3>2, HeldKept
  <2> QED
    BY Zenon, <1>2, <2>1, <2>2, LocksKept
<1> QED
  BY Zenon, <1>5, <1>10, <1>11 DEF SpinInv

\* The xchg that finds 0 takes a lock that nobody has.
LEMMA SpinStep ==
    ASSUME SpinInv, NEW c \in Cpu, Spin(c)
    PROVE  SpinInv'
<1> DEFINE x == X(c)
           s == stack[x]
           n == s.now.lk
<1>1. /\ x \in Stack /\ s \in StackRec /\ cpus[c] \in CpuRec
      /\ Ordered(s) /\ Counts(cpus[c], s)
      /\ x # c => Remembers(s) /\ Enables(cpus[c], s)
  BY Zenon, View
<1>2. /\ stack' = [stack EXCEPT ![x].now.pc = "mark"]
      /\ spinlock' = [spinlock EXCEPT ![n].locked = TRUE]
      /\ cpus' = cpus /\ s.now.pc = "xchg" /\ ~spinlock[n].locked
  BY Zenon DEF Spin, Xchg, Now, Goto
<1>3. /\ stack'[x].now = [pc |-> "mark", lk |-> n, eflags |-> s.now.eflags]
      /\ stack'[x].under = s.under /\ stack'[x].handler = s.handler
      /\ stack'[x].held = s.held /\ stack'[x].fresh = s.fresh
      /\ s.now.pc = "xchg" /\ \A y \in Stack \ {x} : stack'[y] = stack[y]
  BY Zenon, <1>1, <1>2 DEF SpinInv, SpinTypeOK, StackRec, Op
<1>4. n \in Lock
  BY Zenon, <1>1, <1>2 DEF Ordered
<1>5. /\ spinlock'[n].locked = TRUE
      /\ \A l \in Lock : spinlock'[l].cpu = spinlock[l].cpu
      /\ \A l \in Lock \ {n} : spinlock'[l].locked = spinlock[l].locked
  BY Zenon, <1>2, <1>4 DEF SpinInv, SpinTypeOK, LockRec
<1>6. SpinTypeOK'
  <2>1. stack' \in [Stack -> StackRec]
    BY Zenon, <1>1, <1>2 DEF SpinInv, SpinTypeOK, StackRec, Op
  <2>2. spinlock' \in [Lock -> LockRec]
    BY ZenonT(30), <1>2, <1>4 DEF SpinInv, SpinTypeOK, LockRec
  <2> QED
    BY Zenon, <1>2, <2>1, <2>2 DEF SpinInv, SpinTypeOK
<1>7. Ordered(stack'[x]) /\ (x # c => Remembers(stack'[x]))
  BY SMTT(30), <1>1, <1>3 DEF Ordered, Remembers
<1>11. cpus'[c] = cpus[c]
  BY Zenon, <1>2
<1>8. Counts(cpus'[c], stack'[x]) /\ (x # c => Enables(cpus'[c], stack'[x]))
  BY SMTT(30), <1>1, <1>3, <1>11 DEF Counts, Enables, Outside
<1>9. Placed' /\ StacksRight' /\ CpusRight'
  BY Zenon, <1>2, <1>3, <1>7, <1>8, LocalStep DEF X
<1>10. LocksRight'
  <2>1. \A y \in Stack : \A l \in Lock : Has(y, l)' <=> Has(y, l) \/ (y = x /\ l = n)
    BY <1>3 DEF Has
  <2>2. \A y \in Stack : ~Has(y, n)
    BY Zenon, <1>2, <1>4 DEF SpinInv, LocksRight
  <2>3. \A d \in Cpu : Held(d)' = Held(d)
    <3>1. \A d \in Cpu : X(d)' = X(d)
      BY Zenon, <1>2 DEF X
    <3>2. \A y \in Stack : stack'[y].held = stack[y].held
      BY Zenon, <1>3
    <3> QED
      BY Zenon, <3>1, <3>2, HeldKept
  <2>4. SpinExclusion'
    BY <2>1, <2>2 DEF SpinInv, LocksRight, SpinExclusion
  <2>5. (\A l \in Lock : ~spinlock[l].locked => \A y \in Stack : ~Has(y, l))'
    BY Zenon, <1>5, <2>1 DEF SpinInv, LocksRight
  <2> QED
    BY <1>5, <2>3, <2>4, <2>5 DEF SpinInv, LocksRight
<1> QED
  BY Zenon, <1>6, <1>9, <1>10 DEF SpinInv

\* lk->cpu is set by the CPU whose xchg has found 0.
LEMMA MarkStep ==
    ASSUME SpinInv, NEW c \in Cpu, Mark(c)
    PROVE  SpinInv'
<1> DEFINE x == X(c)
           s == stack[x]
           n == s.now.lk
<1>1. /\ x \in Stack /\ s \in StackRec /\ cpus[c] \in CpuRec
      /\ Ordered(s) /\ Counts(cpus[c], s)
      /\ x # c => Remembers(s) /\ Enables(cpus[c], s)
  BY Zenon, View
<1>2. /\ stack' = [stack EXCEPT ![x].now = Idle0, ![x].held = @ \cup {n}]
      /\ spinlock' = [spinlock EXCEPT ![n].cpu = c]
      /\ cpus' = cpus /\ s.now.pc = "mark"
  BY Zenon DEF Mark, Now
<1>3. /\ stack'[x].now = Idle0 /\ Idle0.pc = "at"
      /\ stack'[x].under = s.under /\ stack'[x].handler = s.handler
      /\ stack'[x].held = s.held \cup {n} /\ stack'[x].fresh = s.fresh
      /\ s.now.pc = "mark" /\ \A y \in Stack \ {x} : stack'[y] = stack[y]
  BY Zenon, <1>1, <1>2 DEF SpinInv, SpinTypeOK, StackRec, Idle0
<1>4. n \in Lock /\ \A k \in s.held : k < n
  BY Zenon, <1>1, <1>2 DEF Ordered
<1>5. n \notin s.held /\ s.held \in SUBSET Lock
  BY <1>1, <1>4, SpinLockAssumption DEF StackRec, Lock
<1>6. /\ spinlock'[n].cpu = c
      /\ \A l \in Lock : spinlock'[l].locked = spinlock[l].locked
      /\ \A l \in Lock \ {n} : spinlock'[l].cpu = spinlock[l].cpu
  BY Zenon, <1>2, <1>4 DEF SpinInv, SpinTypeOK, LockRec
<1>7. SpinTypeOK'
  <2>1. Idle0 \in Op /\ s.held \cup {n} \in SUBSET Lock
    BY <1>4, <1>5, SpinLockAssumption DEF Op, Idle0
  <2>2. stack' \in [Stack -> StackRec]
    BY Zenon, <1>1, <1>2, <2>1 DEF SpinInv, SpinTypeOK, StackRec
  <2>3. spinlock' \in [Lock -> LockRec]
    BY Zenon, <1>2, <1>4 DEF SpinInv, SpinTypeOK, LockRec
  <2> QED
    BY Zenon, <1>2, <2>2, <2>3 DEF SpinInv, SpinTypeOK
<1>8. Ordered(stack'[x]) /\ (x # c => Remembers(stack'[x]))
  BY Zenon, <1>1, <1>3 DEF Ordered, Remembers
<1>13. cpus'[c] = cpus[c]
  BY Zenon, <1>2
<1>9. Counts(cpus'[c], stack'[x])
  <2>1. Cardinality(s.held \cup {n}) = Cardinality(s.held) + 1 /\ Cardinality(s.held) \in Nat
    BY Zenon, <1>4, <1>5, LockSets
  <2> QED
    BY <1>1, <1>3, <1>13, <2>1 DEF Counts, Outside
<1>10. x # c => Enables(cpus'[c], stack'[x])
  BY Zenon, <1>1, <1>3, <1>13 DEF Enables, Outside
<1>11. Placed' /\ StacksRight' /\ CpusRight'
  BY Zenon, <1>2, <1>3, <1>8, <1>9, <1>10, LocalStep DEF X
<1>12. LocksRight'
  <2>1. \A y \in Stack : \A l \in Lock : Has(y, l)' <=> Has(y, l)
    BY <1>3 DEF Has
  <2>2. Held(c)' = Held(c) \cup {n} /\ \A d \in Cpu \ {c} : Held(d)' = Held(d)
    <3>1. \A d \in Cpu : X(d)' = X(d)
      BY Zenon, <1>2 DEF X
    <3>2. \A d \in Cpu \ {c} : X(d) \in Stack \ {x}
      BY Zenon, Runs DEF SpinInv, Placed
    <3> QED
      BY Zenon, <1>3, <3>1, <3>2 DEF Held
  <2>3. \A d \in Cpu \ {c} : n \notin Held(d)
    <3>1. Has(x, n)
      BY Zenon, <1>2 DEF Has
    <3>2. \A d \in Cpu \ {c} : X(d) \in Stack /\ X(d) # x
      BY Zenon, Runs DEF SpinInv, Placed
    <3> QED
      BY Zenon, <1>1, <1>4, <3>1, <3>2 DEF SpinInv, LocksRight, SpinExclusion, Has, Held
  <2>4. (\A d \in Cpu : \A l \in Lock : spinlock[l].cpu = d <=> l \in Held(d))'
    BY <1>4, <1>6, <2>2, <2>3 DEF SpinInv, LocksRight
  <2>5. SpinExclusion' /\ (\A l \in Lock : ~spinlock[l].locked => \A y \in Stack : ~Has(y, l))'
    BY Zenon, <1>6, <2>1 DEF SpinInv, LocksRight, SpinExclusion
  <2> QED
    BY Zenon, <2>4, <2>5 DEF LocksRight
<1> QED
  BY Zenon, <1>7, <1>11, <1>12 DEF SpinInv

-----------------------------------------------------------------------------
(***************************************************************************)
(* release keeps the invariant.                                            *)
(***************************************************************************)
\* lk->cpu is cleared by the CPU that has the lock, before it gives it up.
LEMMA UnmarkStep ==
    ASSUME SpinInv, NEW c \in Cpu, NEW l \in Lock, Unmark(c, l)
    PROVE  SpinInv'
<1> DEFINE x == X(c)
           s == stack[x]
<1>1. /\ x \in Stack /\ s \in StackRec /\ cpus[c] \in CpuRec
      /\ Ordered(s) /\ Counts(cpus[c], s)
      /\ x # c => Remembers(s) /\ Enables(cpus[c], s)
  BY Zenon, View
<1>2. /\ stack' = [stack EXCEPT ![x].now = [pc |-> "clear", lk |-> l, eflags |-> FALSE],
                                ![x].held = @ \ {l}]
      /\ spinlock' = [spinlock EXCEPT ![l].cpu = NoCpu]
      /\ cpus' = cpus /\ s.now.pc = "at" /\ l \in s.held
  BY Zenon DEF Unmark, Now, Held, Unmarked
<1>3. /\ stack'[x].now = [pc |-> "clear", lk |-> l, eflags |-> FALSE]
      /\ stack'[x].under = s.under /\ stack'[x].handler = s.handler
      /\ stack'[x].held = s.held \ {l} /\ stack'[x].fresh = s.fresh
      /\ s.now.pc = "at" /\ \A y \in Stack \ {x} : stack'[y] = stack[y]
  BY Zenon, <1>1, <1>2 DEF SpinInv, SpinTypeOK, StackRec
<1>4. /\ spinlock'[l].cpu = NoCpu
      /\ \A k \in Lock : spinlock'[k].locked = spinlock[k].locked
      /\ \A k \in Lock \ {l} : spinlock'[k].cpu = spinlock[k].cpu
  BY Zenon, <1>2 DEF SpinInv, SpinTypeOK, LockRec
<1>5. l \in s.held /\ s.held \in SUBSET Lock /\ cpus'[c] = cpus[c]
  BY Zenon, <1>1, <1>2 DEF StackRec
<1>6. SpinTypeOK'
  <2>1. [pc |-> "clear", lk |-> l, eflags |-> FALSE] \in Op /\ s.held \ {l} \in SUBSET Lock
    BY <1>5, SpinLockAssumption DEF Op, Lock
  <2>2. stack' \in [Stack -> StackRec]
    BY Zenon, <1>1, <1>2, <2>1 DEF SpinInv, SpinTypeOK, StackRec
  <2>3. spinlock' \in [Lock -> LockRec]
    BY Zenon, <1>2 DEF SpinInv, SpinTypeOK, LockRec
  <2> QED
    BY Zenon, <1>2, <2>2, <2>3 DEF SpinInv, SpinTypeOK
<1>7. Ordered(stack'[x]) /\ (x # c => Remembers(stack'[x]))
  BY SMTT(30), <1>1, <1>3 DEF Ordered, Remembers
<1>8. Counts(cpus'[c], stack'[x])
  <2>1. Cardinality(s.held \ {l}) = Cardinality(s.held) - 1 /\ Cardinality(s.held) \in Nat
    BY Zenon, <1>5, LockSets
  <2>2. stack'[x].now.pc = "clear" /\ ~cpus[c].flag
    BY <1>1, <1>3, <1>5 DEF Counts, Outside
  <2>3. cpus[c].ncli = Cardinality(s.held)
    BY SMTT(30), <1>1, <1>3, <2>1 DEF Counts
  <2> QED
    <3>1. Cardinality(stack'[x].held) = Cardinality(s.held) - 1
      BY Zenon, <1>3, <2>1
    <3> QED
      BY <1>5, <2>1, <2>2, <2>3, <3>1 DEF Counts
<1>9. x # c => Enables(cpus'[c], stack'[x])
  BY <1>1, <1>3, <1>5 DEF Enables, Outside
<1>10. Placed' /\ StacksRight' /\ CpusRight'
  BY Zenon, <1>2, <1>3, <1>7, <1>8, <1>9, LocalStep DEF X
<1>11. LocksRight'
  <2>1. \A y \in Stack : \A k \in Lock : Has(y, k)' <=> Has(y, k)
    BY <1>3, <1>5 DEF Has
  <2>2. Held(c)' = Held(c) \ {l} /\ \A d \in Cpu \ {c} : Held(d)' = Held(d)
    <3>1. \A d \in Cpu : X(d)' = X(d)
      BY Zenon, <1>2 DEF X
    <3>2. \A d \in Cpu \ {c} : X(d) \in Stack \ {x}
      BY Zenon, Runs DEF SpinInv, Placed
    <3> QED
      BY Zenon, <1>3, <3>1, <3>2 DEF Held
  <2>3. \A d \in Cpu \ {c} : l \notin Held(d)
    <3>1. Has(x, l)
      BY Zenon, <1>5 DEF Has
    <3>2. \A d \in Cpu \ {c} : X(d) \in Stack /\ X(d) # x
      BY Zenon, Runs DEF SpinInv, Placed
    <3> QED
      BY Zenon, <1>1, <3>1, <3>2 DEF SpinInv, LocksRight, SpinExclusion, Has, Held
  <2>4. (\A d \in Cpu : \A k \in Lock : spinlock[k].cpu = d <=> k \in Held(d))'
    BY <1>4, <2>2, <2>3, SpinLockAssumption DEF SpinInv, LocksRight
  <2>5. SpinExclusion' /\ (\A k \in Lock : ~spinlock[k].locked => \A y \in Stack : ~Has(y, k))'
    BY Zenon, <1>4, <2>1 DEF SpinInv, LocksRight, SpinExclusion
  <2> QED
    BY Zenon, <2>4, <2>5 DEF LocksRight
<1> QED
  BY Zenon, <1>6, <1>10, <1>11 DEF SpinInv

\* The store to locked gives the lock up, and popcli sets the flag only when no
\* other lock is left.
LEMMA UnlockStep ==
    ASSUME SpinInv, NEW c \in Cpu, Unlock(c)
    PROVE  SpinInv'
<1> DEFINE x == X(c)
           s == stack[x]
           r == cpus[c]
           n == s.now.lk
<1>1. /\ x \in Stack /\ s \in StackRec /\ r \in CpuRec
      /\ Ordered(s) /\ Counts(r, s)
      /\ x # c => Remembers(s) /\ Enables(r, s)
  BY Zenon, View
<1>2. /\ stack' = [stack EXCEPT ![x].now = Idle0]
      /\ spinlock' = [spinlock EXCEPT ![n].locked = FALSE]
      /\ cpus' = [cpus EXCEPT ![c].ncli = @ - 1, ![c].flag = Sti(c, r.ncli - 1),
                              ![c].intena = @ /\ r.ncli > 1]
      /\ s.now.pc = "clear"
  BY Zenon DEF Unlock, Now
<1>3. /\ stack'[x].now = Idle0 /\ Idle0.pc = "at"
      /\ stack'[x].under = s.under /\ stack'[x].handler = s.handler
      /\ stack'[x].held = s.held /\ stack'[x].fresh = s.fresh
      /\ s.now.pc = "clear" /\ \A y \in Stack \ {x} : stack'[y] = stack[y]
  BY Zenon, <1>1, <1>2 DEF SpinInv, SpinTypeOK, StackRec, Idle0
<1>4. /\ cpus'[c].ncli = r.ncli - 1 /\ cpus'[c].runs = x
      /\ cpus'[c].flag <=> r.ncli = 1 /\ r.intena
      /\ cpus'[c].intena <=> r.intena /\ r.ncli > 1
      /\ \A d \in Cpu \ {c} : cpus'[d] = cpus[d]
  BY <1>1, <1>2 DEF SpinInv, SpinTypeOK, CpuRec, X, Sti
<1>5. n \in Lock /\ n \notin s.held /\ s.held \in SUBSET Lock
  BY Zenon, <1>1, <1>3 DEF Ordered, StackRec
<1>6. /\ spinlock'[n].locked = FALSE
      /\ \A l \in Lock : spinlock'[l].cpu = spinlock[l].cpu
      /\ \A l \in Lock \ {n} : spinlock'[l].locked = spinlock[l].locked
  BY ZenonT(30), <1>2, <1>5 DEF SpinInv, SpinTypeOK, LockRec
<1>7. SpinTypeOK'
  <2>1. Idle0 \in Op
    BY SpinLockAssumption DEF Op, Idle0
  <2>2. stack' \in [Stack -> StackRec]
    BY Zenon, <1>1, <1>2, <2>1 DEF SpinInv, SpinTypeOK, StackRec
  <2>3. spinlock' \in [Lock -> LockRec]
    BY Zenon, <1>2, <1>5 DEF SpinInv, SpinTypeOK, LockRec
  <2>4. cpus' \in [Cpu -> CpuRec]
    <3>1. Sti(c, r.ncli - 1) \in BOOLEAN /\ (r.intena /\ r.ncli > 1) \in BOOLEAN
      BY Zenon DEF Sti
    <3>2. PICK f \in BOOLEAN, e \in BOOLEAN :
             cpus' = [cpus EXCEPT ![c].ncli = @ - 1, ![c].flag = f, ![c].intena = e]
      BY Zenon, <1>1, <1>2, <3>1 DEF SpinInv, SpinTypeOK, CpuRec
    <3>3. cpus'[c] = [[[r EXCEPT !.ncli = r.ncli - 1] EXCEPT !.flag = f] EXCEPT !.intena = e]
      BY Zenon, <1>1, <3>2 DEF SpinInv, SpinTypeOK
    <3>4. [r EXCEPT !.ncli = r.ncli - 1] \in CpuRec
      BY <1>1 DEF CpuRec
    <3>5. \A q \in CpuRec : [[q EXCEPT !.flag = f] EXCEPT !.intena = e] \in CpuRec
      BY Zenon DEF CpuRec
    <3>6. cpus'[c] \in CpuRec
      BY Zenon, <3>3, <3>4, <3>5
    <3> QED
      BY Zenon, <1>4, <3>2, <3>6 DEF SpinInv, SpinTypeOK
  <2> QED
    BY Zenon, <2>2, <2>3, <2>4 DEF SpinInv, SpinTypeOK
<1>8. Ordered(stack'[x]) /\ (x # c => Remembers(stack'[x]))
  BY Zenon, <1>1, <1>3 DEF Ordered, Remembers
<1>9. /\ Cardinality(s.held) \in Nat /\ (Cardinality(s.held) = 0 <=> s.held = {})
      /\ r.ncli = Cardinality(s.held) + 1
  BY Zenon, <1>1, <1>3, <1>5, LockSets DEF Counts
<1>10. Counts(cpus'[c], stack'[x])
  BY <1>3, <1>4, <1>9 DEF Counts, Outside
<1>11. x # c => Enables(cpus'[c], stack'[x])
  <2>1. x # c /\ ~s.fresh => (r.intena <=> ~s.handler)
    BY Zenon, <1>1, <1>3 DEF Enables, Outside
  <2>2. Outside(stack'[x]) <=> s.held = {}
    BY Zenon, <1>3 DEF Outside
  <2>3. s.held = {} => r.ncli = 1
    BY <1>9
  <2>4. s.held # {} => r.ncli > 1
    BY <1>9
  <2> QED
    BY Zenon, <1>3, <1>4, <2>1, <2>2, <2>3, <2>4 DEF Enables
<1>12. Placed' /\ StacksRight' /\ CpusRight'
  BY Zenon, <1>3, <1>4, <1>8, <1>10, <1>11, LocalStep DEF X
<1>13. LocksRight'
  <2>1. \A y \in Stack : \A l \in Lock : Has(y, l)' <=> Has(y, l) /\ ~(y = x /\ l = n)
    BY Zenon, <1>3, <1>5 DEF Has
  <2>2. \A d \in Cpu : Held(d)' = Held(d)
    <3>1. \A d \in Cpu : X(d)' = X(d)
      BY Zenon, <1>4 DEF X
    <3>2. \A y \in Stack : stack'[y].held = stack[y].held
      BY Zenon, <1>3
    <3> QED
      BY Zenon, <3>1, <3>2, HeldKept
  <2>3. Has(x, n)
    BY Zenon, <1>3 DEF Has
  <2>4. \A l \in Lock : l = n => \A y \in Stack : ~Has(y, l)'
    BY <1>1, <1>5, <2>1, <2>3 DEF SpinInv, LocksRight, SpinExclusion
  <2>5. (\A l \in Lock : ~spinlock[l].locked => \A y \in Stack : ~Has(y, l))'
    BY Zenon, <1>6, <2>1, <2>4 DEF SpinInv, LocksRight
  <2>6. SpinExclusion'
    BY Zenon, <2>1 DEF SpinInv, LocksRight, SpinExclusion
  <2> QED
    BY <1>6, <2>2, <2>5, <2>6 DEF SpinInv, LocksRight
<1> QED
  BY Zenon, <1>7, <1>12, <1>13 DEF SpinInv

-----------------------------------------------------------------------------
(***************************************************************************)
(* Interrupts, the scheduler and sched keep the invariant.                 *)
(***************************************************************************)
\* An interrupt finds the stack without a lock.
LEMMA InterruptStep ==
    ASSUME SpinInv, NEW c \in Cpu, Interrupt(c)
    PROVE  SpinInv'
<1> DEFINE x == X(c)
           s == stack[x]
           r == cpus[c]
<1>1. /\ x \in Stack /\ s \in StackRec /\ r \in CpuRec
      /\ Ordered(s) /\ Counts(r, s)
      /\ x # c => Remembers(s) /\ Enables(r, s)
  BY Zenon, View
<1>2. /\ stack' = [stack EXCEPT ![x].handler = TRUE, ![x].under = s.now, ![x].now = Idle0]
      /\ cpus' = [cpus EXCEPT ![c].flag = FALSE]
      /\ spinlock' = spinlock /\ r.flag /\ ~s.handler
  BY Zenon DEF Interrupt, Now
<1>3. /\ stack'[x].now = Idle0 /\ Idle0.pc = "at"
      /\ stack'[x].under = s.now /\ stack'[x].handler = TRUE
      /\ stack'[x].held = s.held /\ stack'[x].fresh = s.fresh
      /\ r.flag /\ ~s.handler /\ \A y \in Stack \ {x} : stack'[y] = stack[y]
  BY Zenon, <1>1, <1>2 DEF SpinInv, SpinTypeOK, StackRec, Idle0
<1>4. /\ cpus'[c].flag = FALSE /\ cpus'[c].ncli = r.ncli /\ cpus'[c].runs = x
      /\ \A d \in Cpu \ {c} : cpus'[d] = cpus[d]
  BY Zenon, <1>1, <1>2 DEF SpinInv, SpinTypeOK, CpuRec, X
<1>5. s.held = {} /\ s.now.pc \in {"at", "cli"}
  BY Zenon, <1>1, <1>3 DEF Counts, Outside
<1>6. SpinTypeOK'
  <2>1. Idle0 \in Op /\ s.now \in Op
    BY <1>1, SpinLockAssumption DEF Op, Idle0, StackRec
  <2>2. stack' \in [Stack -> StackRec]
    BY Zenon, <1>1, <1>2, <2>1 DEF SpinInv, SpinTypeOK, StackRec
  <2>3. cpus' \in [Cpu -> CpuRec]
    BY Zenon, <1>1, <1>2 DEF SpinInv, SpinTypeOK, CpuRec
  <2> QED
    BY Zenon, <1>2, <2>2, <2>3 DEF SpinInv, SpinTypeOK
<1>7. Ordered(stack'[x])
  BY Zenon, <1>1, <1>3, <1>5 DEF Ordered
<1>8. x # c => Remembers(stack'[x])
  BY Zenon, <1>1, <1>3, <1>5 DEF Remembers
<1>9. Counts(cpus'[c], stack'[x])
  BY Zenon, <1>1, <1>3, <1>4, <1>5 DEF Counts
<1>10. x # c => Enables(cpus'[c], stack'[x])
  BY Zenon, <1>3, <1>4, <1>5 DEF Enables, Outside
<1>11. Placed' /\ StacksRight' /\ CpusRight'
  BY Zenon, <1>3, <1>4, <1>7, <1>8, <1>9, <1>10, LocalStep DEF X
<1>12. LocksRight'
  <2>1. \A y \in Stack : \A k \in Lock : Has(y, k)' <=> Has(y, k)
    BY Zenon, <1>3, <1>5 DEF Has
  <2>2. \A d \in Cpu : Held(d)' = Held(d)
    <3>1. \A d \in Cpu : X(d)' = X(d)
      BY Zenon, <1>4 DEF X
    <3>2. \A y \in Stack : stack'[y].held = stack[y].held
      BY Zenon, <1>3
    <3> QED
      BY Zenon, <3>1, <3>2, HeldKept
  <2> QED
    BY Zenon, <1>2, <2>1, <2>2, LocksKept
<1> QED
  BY Zenon, <1>6, <1>11, <1>12 DEF SpinInv

\* iret goes back to what was interrupted, with the flag set as it was.
LEMMA IretStep ==
    ASSUME SpinInv, NEW c \in Cpu, Iret(c)
    PROVE  SpinInv'
<1> DEFINE x == X(c)
           s == stack[x]
           r == cpus[c]
<1>1. /\ x \in Stack /\ s \in StackRec /\ r \in CpuRec
      /\ Ordered(s) /\ Counts(r, s)
      /\ x # c => Remembers(s) /\ Enables(r, s)
  BY Zenon, View
<1>2. /\ stack' = [stack EXCEPT ![x].handler = FALSE, ![x].now = s.under, ![x].under = Idle0]
      /\ cpus' = [cpus EXCEPT ![c].flag = TRUE]
      /\ spinlock' = spinlock /\ s.handler /\ s.now.pc = "at" /\ s.held = {}
  BY Zenon DEF Iret, Now, Held
<1>3. /\ stack'[x].now = s.under /\ stack'[x].under = Idle0 /\ Idle0.pc = "at"
      /\ stack'[x].handler = FALSE
      /\ stack'[x].held = s.held /\ stack'[x].fresh = s.fresh
      /\ s.handler /\ s.now.pc = "at" /\ s.held = {}
      /\ \A y \in Stack \ {x} : stack'[y] = stack[y]
  BY Zenon, <1>1, <1>2 DEF SpinInv, SpinTypeOK, StackRec, Idle0
<1>4. /\ cpus'[c].flag = TRUE /\ cpus'[c].ncli = r.ncli /\ cpus'[c].runs = x
      /\ \A d \in Cpu \ {c} : cpus'[d] = cpus[d]
  BY Zenon, <1>1, <1>2 DEF SpinInv, SpinTypeOK, CpuRec, X
<1>5. s.under.pc \in {"at", "cli"} /\ (s.under.pc = "cli" => s.under.lk \in Lock)
  BY Zenon, <1>1 DEF Ordered
<1>6. SpinTypeOK'
  <2>1. Idle0 \in Op /\ s.under \in Op
    BY <1>1, SpinLockAssumption DEF Op, Idle0, StackRec
  <2>2. stack' \in [Stack -> StackRec]
    BY Zenon, <1>1, <1>2, <2>1 DEF SpinInv, SpinTypeOK, StackRec
  <2>3. cpus' \in [Cpu -> CpuRec]
    BY Zenon, <1>1, <1>2 DEF SpinInv, SpinTypeOK, CpuRec
  <2> QED
    BY Zenon, <1>2, <2>2, <2>3 DEF SpinInv, SpinTypeOK
<1>7. Ordered(stack'[x])
  BY Zenon, <1>1, <1>3, <1>5 DEF Ordered
<1>8. x # c => Remembers(stack'[x])
  BY Zenon, <1>1, <1>3, <1>5 DEF Remembers
<1>9. Counts(cpus'[c], stack'[x])
  BY ZenonT(30), <1>1, <1>3, <1>4, <1>5 DEF Counts, Outside
<1>10. x # c => Enables(cpus'[c], stack'[x])
  BY Zenon, <1>3, <1>4, <1>5 DEF Enables, Outside
<1>11. Placed' /\ StacksRight' /\ CpusRight'
  BY Zenon, <1>3, <1>4, <1>7, <1>8, <1>9, <1>10, LocalStep DEF X
<1>12. LocksRight'
  <2>1. \A y \in Stack : \A k \in Lock : Has(y, k)' <=> Has(y, k)
    BY Zenon, <1>3, <1>5 DEF Has
  <2>2. \A d \in Cpu : Held(d)' = Held(d)
    <3>1. \A d \in Cpu : X(d)' = X(d)
      BY Zenon, <1>4 DEF X
    <3>2. \A y \in Stack : stack'[y].held = stack[y].held
      BY Zenon, <1>3
    <3> QED
      BY Zenon, <3>1, <3>2, HeldKept
  <2> QED
    BY Zenon, <1>2, <2>1, <2>2, LocksKept
<1> QED
  BY Zenon, <1>6, <1>11, <1>12 DEF SpinInv

\* The scheduler enables interrupts where it has no lock.
LEMMA SchedulerTopStep ==
    ASSUME SpinInv, NEW c \in Cpu, SchedulerTop(c)
    PROVE  SpinInv'
<1> DEFINE s == stack[c]
           r == cpus[c]
<1>1. /\ X(c) = c /\ c \in Stack /\ s \in StackRec /\ r \in CpuRec
      /\ Ordered(s) /\ Counts(r, s)
  BY Zenon, View DEF SchedulerTop
<1>2. /\ cpus' = [cpus EXCEPT ![c].flag = TRUE]
      /\ stack' = stack /\ spinlock' = spinlock /\ s.now.pc = "at" /\ s.held = {}
  BY Zenon, <1>1 DEF SchedulerTop, Now, Held
<1>3. /\ cpus'[c].flag = TRUE /\ cpus'[c].ncli = r.ncli /\ cpus'[c].runs = c
      /\ \A d \in Cpu \ {c} : cpus'[d] = cpus[d]
  BY Zenon, <1>1, <1>2 DEF SpinInv, SpinTypeOK, CpuRec, X
<1>4. SpinTypeOK'
  BY Zenon, <1>1, <1>2 DEF SpinInv, SpinTypeOK, CpuRec
<1>5. Counts(cpus'[c], stack'[c])
  BY Zenon, <1>1, <1>2, <1>3 DEF Counts, Outside
<1>6. X(c)' = X(c)
  BY Zenon, <1>1, <1>3 DEF X
<1>7. Placed' /\ StacksRight' /\ CpusRight'
  BY Zenon, <1>1, <1>2, <1>3, <1>5, <1>6, LocalStep
<1>8. LocksRight'
  <2>1. \A y \in Stack : \A k \in Lock : Has(y, k)' <=> Has(y, k)
    BY Zenon, <1>2 DEF Has
  <2>2. \A d \in Cpu : Held(d)' = Held(d)
    BY Zenon, <1>2, <1>3, <1>6 DEF Held, X
  <2> QED
    BY Zenon, <1>2, <2>1, <2>2, LocksKept
<1> QED
  BY Zenon, <1>4, <1>7, <1>8 DEF SpinInv

\* A new thread goes to user space, where interrupts are enabled.
LEMMA TrapretStep ==
    ASSUME SpinInv, NEW c \in Cpu, Trapret(c)
    PROVE  SpinInv'
<1> DEFINE x == X(c)
           s == stack[x]
           r == cpus[c]
<1>1. /\ x \in Stack /\ s \in StackRec /\ r \in CpuRec
      /\ Ordered(s) /\ Counts(r, s)
  BY Zenon, View
<1>2. /\ stack' = [stack EXCEPT ![x].fresh = FALSE]
      /\ cpus' = [cpus EXCEPT ![c].flag = TRUE]
      /\ spinlock' = spinlock /\ ~s.handler /\ s.now.pc = "at" /\ s.held = {}
  BY Zenon DEF Trapret, Now, Held
<1>3. /\ stack'[x].now = s.now /\ stack'[x].under = s.under
      /\ stack'[x].handler = s.handler
      /\ stack'[x].held = s.held /\ stack'[x].fresh = FALSE
      /\ ~s.handler /\ s.now.pc = "at" /\ s.held = {}
      /\ \A y \in Stack \ {x} : stack'[y] = stack[y]
  BY Zenon, <1>1, <1>2 DEF SpinInv, SpinTypeOK, StackRec
<1>4. /\ cpus'[c].flag = TRUE /\ cpus'[c].ncli = r.ncli /\ cpus'[c].runs = x
      /\ \A d \in Cpu \ {c} : cpus'[d] = cpus[d]
  BY Zenon, <1>1, <1>2 DEF SpinInv, SpinTypeOK, CpuRec, X
<1>5. SpinTypeOK'
  <2>1. stack' \in [Stack -> StackRec]
    BY Zenon, <1>1, <1>2 DEF SpinInv, SpinTypeOK, StackRec
  <2>2. cpus' \in [Cpu -> CpuRec]
    BY Zenon, <1>1, <1>2 DEF SpinInv, SpinTypeOK, CpuRec
  <2> QED
    BY Zenon, <1>2, <2>1, <2>2 DEF SpinInv, SpinTypeOK
<1>6. Ordered(stack'[x]) /\ Remembers(stack'[x])
  BY Zenon, <1>1, <1>3 DEF Ordered, Remembers
<1>7. Counts(cpus'[c], stack'[x]) /\ Enables(cpus'[c], stack'[x])
  BY Zenon, <1>1, <1>3, <1>4 DEF Counts, Enables, Outside
<1>8. Placed' /\ StacksRight' /\ CpusRight'
  BY Zenon, <1>3, <1>4, <1>6, <1>7, LocalStep DEF X
<1>9. LocksRight'
  <2>1. \A y \in Stack : \A k \in Lock : Has(y, k)' <=> Has(y, k)
    BY Zenon, <1>3 DEF Has
  <2>2. \A d \in Cpu : Held(d)' = Held(d)
    <3>1. \A d \in Cpu : X(d)' = X(d)
      BY Zenon, <1>4 DEF X
    <3>2. \A y \in Stack : stack'[y].held = stack[y].held
      BY Zenon, <1>3
    <3> QED
      BY Zenon, <3>1, <3>2, HeldKept
  <2> QED
    BY Zenon, <1>2, <2>1, <2>2, LocksKept
<1> QED
  BY Zenon, <1>5, <1>8, <1>9 DEF SpinInv

\* The scheduler passes ptable.lock to a thread, and the thread finds the
\* intena that it left.
LEMMA SwitchToStep ==
    ASSUME SpinInv, NEW c \in Cpu, NEW t \in Kthread, SwitchTo(c, t)
    PROVE  SpinInv'
<1> DEFINE s == stack[c]
           u == stack[t]
           r == cpus[c]
<1>1. /\ X(c) = c /\ c \in Stack /\ s \in StackRec /\ r \in CpuRec
      /\ Ordered(s) /\ Counts(r, s)
  BY Zenon, View DEF SwitchTo
<1>2. /\ t \in Stack /\ t # c /\ t \notin Cpu /\ c \notin Kthread /\ u \in StackRec
      /\ Ordered(u) /\ Remembers(u)
  BY Zenon, SpinLockAssumption DEF SpinInv, SpinTypeOK, StacksRight, Stack
<1>3. /\ stack' = [stack EXCEPT ![c].held = {}, ![t].held = {ptable},
                                ![t].now.pc = "at", ![t].intena = FALSE]
      /\ cpus' = [cpus EXCEPT ![c].runs = t, ![c].intena = Restored(c, t)]
      /\ spinlock' = spinlock
      /\ s.now.pc = "at" /\ s.held = {ptable} /\ ~s.handler
      /\ u.now.pc \in {"new", "ready"}
  BY Zenon, <1>1 DEF SwitchTo, Now, Held
<1>4. /\ stack'[c].now = s.now /\ stack'[c].under = s.under
      /\ stack'[c].handler = s.handler /\ stack'[c].held = {}
      /\ stack'[c].fresh = s.fresh
  BY Zenon, <1>1, <1>2, <1>3 DEF SpinInv, SpinTypeOK, StackRec
<1>5. /\ stack'[t].now.pc = "at" /\ stack'[t].under = u.under
      /\ stack'[t].handler = u.handler /\ stack'[t].held = {ptable}
      /\ stack'[t].fresh = u.fresh
  BY Zenon, <1>1, <1>2, <1>3 DEF SpinInv, SpinTypeOK, StackRec, Op
<1>6. \A y \in Stack \ {c, t} : stack'[y] = stack[y]
  BY Zenon, <1>1, <1>2, <1>3 DEF SpinInv, SpinTypeOK
<1>7. /\ cpus'[c].flag = r.flag /\ cpus'[c].ncli = r.ncli /\ cpus'[c].runs = t
      /\ cpus'[c].intena = Restored(c, t)
      /\ \A d \in Cpu \ {c} : cpus'[d] = cpus[d]
  BY Zenon, <1>1, <1>3 DEF SpinInv, SpinTypeOK, CpuRec
<1>8. SpinTypeOK'
  <2>1. Restored(c, t) \in BOOLEAN
    BY Zenon, <1>1, <1>2 DEF Restored, CpuRec, StackRec
  <2>2. cpus' \in [Cpu -> CpuRec]
    BY Zenon, <1>1, <1>2, <1>3, <2>1 DEF SpinInv, SpinTypeOK, CpuRec
  <2>3. ptable \in Lock
    BY SpinLockAssumption DEF ptable, Lock
  <2>4. stack' \in [Stack -> StackRec]
    BY <1>1, <1>2, <1>3, <2>3 DEF SpinInv, SpinTypeOK, StackRec, Op
  <2> QED
    BY Zenon, <1>3, <2>2, <2>4 DEF SpinInv, SpinTypeOK
<1>9. \A d \in Cpu : X(d) # t
  <2>1. \A d \in Cpu : stack[X(d)].now.pc \notin {"new", "ready"}
    BY Zenon DEF SpinInv, CpusRight, Counts
  <2> QED
    BY Zenon, <1>3, <2>1
<1>10. X(c)' = t /\ \A d \in Cpu \ {c} : X(d)' = X(d) /\ X(d) \in Stack \ {c, t}
  <2>1. X(c)' = t /\ \A d \in Cpu \ {c} : X(d)' = X(d)
    BY Zenon, <1>7 DEF X
  <2> QED
    BY Zenon, <2>1, <1>9, Runs
<1>11. Placed'
  <2>1. \A k \in Kthread : (\A d \in Cpu : X(d)' # k) =>
            stack'[k].now.pc \in {"new", "ready"} /\ stack'[k].held = {}
    <3> SUFFICES ASSUME NEW k \in Kthread, \A d \in Cpu : X(d)' # k
                 PROVE  stack'[k].now.pc \in {"new", "ready"} /\ stack'[k].held = {}
      BY Zenon
    <3>1. k \in Stack \ {c, t} /\ \A d \in Cpu : X(d) # k
      BY Zenon, <1>1, <1>2, <1>10 DEF Stack
    <3> QED
      BY Zenon, <1>6, <3>1 DEF SpinInv, Placed
  <2>2. \A d \in Cpu : X(d)' # d =>
            stack'[d].now.pc = "at" /\ stack'[d].held = {} /\ ~stack'[d].handler
    <3>1. stack'[c].now.pc = "at" /\ stack'[c].held = {} /\ ~stack'[c].handler
      BY Zenon, <1>3, <1>4
    <3>2. \A d \in Cpu \ {c} : d \in Stack \ {c, t} /\ (X(d)' # d => X(d) # d)
      BY Zenon, <1>2, <1>10 DEF Stack
    <3> QED
      BY <1>6, <3>1, <3>2 DEF SpinInv, Placed
  <2>3. \A d \in Cpu : X(d)' # d => X(d)' \in Kthread
    BY <1>10 DEF SpinInv, Placed
  <2>4. \A d, e \in Cpu : X(d)' = X(e)' => d = e
    BY <1>9, <1>10 DEF SpinInv, Placed
  <2> QED
    BY Zenon, <2>1, <2>2, <2>3, <2>4 DEF Placed
<1>12. StacksRight'
  <2>1. Ordered(stack'[c]) /\ Ordered(stack'[t])
    BY Zenon, <1>1, <1>2, <1>3, <1>4, <1>5 DEF Ordered
  <2>2. Remembers(stack'[t])
    BY Zenon, <1>2, <1>5 DEF Remembers
  <2> QED
    BY Zenon, <1>2, <1>6, <2>1, <2>2 DEF SpinInv, StacksRight, Stack
<1>13. Counts(cpus'[c], stack'[t])
  <2>1. ~r.flag
    BY Zenon, <1>1, <1>3 DEF Counts, Outside
  <2> QED
    BY ZenonT(30), <1>1, <1>3, <1>5, <1>7, <2>1 DEF Counts
<1>14. Enables(cpus'[c], stack'[t])
  BY ZenonT(30), <1>2, <1>3, <1>5, <1>7 DEF Enables, Outside, Remembers, Ordered, Restored
<1>15. CpusRight'
  BY <1>6, <1>7, <1>10, <1>13, <1>14 DEF SpinInv, CpusRight
<1>16. LocksRight'
  <2>1. u.held = {}
    BY Zenon, <1>9 DEF SpinInv, Placed
  <2>2. /\ \A k \in Lock : Has(t, k)' <=> k = ptable
        /\ \A k \in Lock : Has(c, k) <=> k = ptable
        /\ \A k \in Lock : ~Has(c, k)' /\ ~Has(t, k)
        /\ \A y \in Stack \ {c, t} : \A k \in Lock : Has(y, k)' <=> Has(y, k)
    BY ZenonT(30), <1>3, <1>4, <1>5, <1>6, <2>1 DEF Has
  <2>3. \A d \in Cpu : Held(d)' = Held(d)
    <3>1. Held(c)' = Held(c)
      BY Zenon, <1>1, <1>3, <1>5, <1>10 DEF Held
    <3>2. \A d \in Cpu \ {c} : Held(d)' = Held(d)
      BY Zenon, <1>6, <1>10 DEF Held
    <3> QED
      BY Zenon, <3>1, <3>2
  <2>4. (\A k \in Lock : ~spinlock[k].locked => \A y \in Stack : ~Has(y, k))'
    BY <1>1, <1>3, <2>2 DEF SpinInv, LocksRight
  <2>5. SpinExclusion'
    <3> SUFFICES ASSUME NEW k \in Lock, NEW y \in Stack, NEW z \in Stack, Has(y, k)', Has(z, k)'
                 PROVE  y = z
      BY Zenon DEF SpinExclusion
    <3>1. \A w \in Stack \ {c} : Has(w, ptable) => FALSE
      BY <1>1, <2>2, SpinLockAssumption DEF SpinInv, LocksRight, SpinExclusion, Lock, ptable
    <3> QED
      BY <1>2, <2>2, <3>1 DEF SpinInv, LocksRight, SpinExclusion
  <2> QED
    BY <1>3, <2>3, <2>4, <2>5 DEF SpinInv, LocksRight
<1> QED
  BY Zenon, <1>8, <1>11, <1>12, <1>15, <1>16 DEF SpinInv

\* sched passes ptable.lock back, and keeps intena for the thread.
LEMMA SchedStep ==
    ASSUME SpinInv, NEW c \in Cpu, Sched(c)
    PROVE  SpinInv'
<1> DEFINE t == X(c)
           s == stack[c]
           u == stack[t]
           r == cpus[c]
<1>1. /\ t \in Stack /\ t # c /\ t \in Kthread /\ t \notin Cpu
      /\ u \in StackRec /\ r \in CpuRec
      /\ Ordered(u) /\ Counts(r, u) /\ Remembers(u) /\ Enables(r, u)
  BY Zenon, View, Runs DEF Sched
<1>2. /\ c \in Stack /\ c \notin Kthread /\ s \in StackRec /\ Ordered(s)
      /\ s.now.pc = "at" /\ s.held = {} /\ ~s.handler
  BY Zenon, <1>1, SpinLockAssumption DEF SpinInv, SpinTypeOK, StacksRight, Stack, Placed
<1>3. /\ stack' = [stack EXCEPT ![t].held = {}, ![c].held = {ptable},
                                ![t].now.pc = "ready", ![t].intena = r.intena]
      /\ cpus' = [cpus EXCEPT ![c].runs = c]
      /\ spinlock' = spinlock
      /\ u.now.pc = "at" /\ u.held = {ptable}
  BY Zenon DEF Sched, Now, Held
<1>4. /\ stack'[c].now = s.now /\ stack'[c].under = s.under
      /\ stack'[c].handler = s.handler /\ stack'[c].held = {ptable}
      /\ stack'[c].fresh = s.fresh
  BY Zenon, <1>1, <1>2, <1>3 DEF SpinInv, SpinTypeOK, StackRec
<1>5. /\ stack'[t].now.pc = "ready" /\ stack'[t].under = u.under
      /\ stack'[t].handler = u.handler /\ stack'[t].held = {}
      /\ stack'[t].fresh = u.fresh /\ stack'[t].intena = r.intena
  BY Zenon, <1>1, <1>2, <1>3 DEF SpinInv, SpinTypeOK, StackRec, Op
<1>6. \A y \in Stack \ {c, t} : stack'[y] = stack[y]
  BY Zenon, <1>1, <1>2, <1>3 DEF SpinInv, SpinTypeOK
<1>7. /\ cpus'[c].flag = r.flag /\ cpus'[c].ncli = r.ncli /\ cpus'[c].runs = c
      /\ \A d \in Cpu \ {c} : cpus'[d] = cpus[d]
  BY Zenon, <1>1, <1>3 DEF SpinInv, SpinTypeOK, CpuRec
<1>8. SpinTypeOK'
  <2>1. r.intena \in BOOLEAN
    BY Zenon, <1>1 DEF CpuRec
  <2>2. cpus' \in [Cpu -> CpuRec]
    BY Zenon, <1>1, <1>2, <1>3 DEF SpinInv, SpinTypeOK, CpuRec
  <2>3. ptable \in Lock
    BY SpinLockAssumption DEF ptable, Lock
  <2>4. stack' \in [Stack -> StackRec]
    <3>1. [u.now EXCEPT !.pc = "ready"] \in Op
      BY Zenon, <1>1 DEF StackRec, Op
    <3>2. [u EXCEPT !.held = {}, !.now = [u.now EXCEPT !.pc = "ready"], !.intena = r.intena]
              \in StackRec
      BY Zenon, <1>1, <2>1, <3>1 DEF StackRec
    <3>3. [s EXCEPT !.held = {ptable}] \in StackRec
      BY Zenon, <1>2, <2>3 DEF StackRec
    <3>4. stack' = [stack EXCEPT
                      ![t] = [u EXCEPT !.held = {}, !.now = [u.now EXCEPT !.pc = "ready"],
                                       !.intena = r.intena],
                      ![c] = [s EXCEPT !.held = {ptable}]]
      BY Zenon, <1>1, <1>2, <1>3 DEF SpinInv, SpinTypeOK, StackRec
    <3> QED
      BY Zenon, <3>2, <3>3, <3>4 DEF SpinInv, SpinTypeOK
  <2> QED
    BY Zenon, <1>3, <2>2, <2>4 DEF SpinInv, SpinTypeOK
<1>9. X(c)' = c /\ \A d \in Cpu \ {c} : X(d)' = X(d) /\ X(d) \in Stack \ {c, t}
  <2>1. X(c)' = c /\ \A d \in Cpu \ {c} : X(d)' = X(d)
    BY Zenon, <1>7 DEF X
  <2>2. \A d \in Cpu \ {c} : X(d) # t
    BY Zenon, <1>1 DEF SpinInv, Placed
  <2> QED
    BY Zenon, <2>1, <2>2, Runs
<1>10. Placed'
  <2>1. \A k \in Kthread : (\A d \in Cpu : X(d)' # k) =>
            stack'[k].now.pc \in {"new", "ready"} /\ stack'[k].held = {}
    <3> SUFFICES ASSUME NEW k \in Kthread, k # t, \A d \in Cpu : X(d)' # k
                 PROVE  stack'[k].now.pc \in {"new", "ready"} /\ stack'[k].held = {}
      BY Zenon, <1>5
    <3>1. k \in Stack \ {c, t} /\ \A d \in Cpu : X(d) # k
      BY Zenon, <1>1, <1>2, <1>9 DEF Stack
    <3> QED
      BY Zenon, <1>6, <3>1 DEF SpinInv, Placed
  <2>2. \A d \in Cpu : X(d)' # d =>
            stack'[d].now.pc = "at" /\ stack'[d].held = {} /\ ~stack'[d].handler
    BY SMTT(30), <1>1, <1>6, <1>9 DEF SpinInv, Placed, Stack
  <2>3. \A d \in Cpu : X(d)' # d => X(d)' \in Kthread
    BY <1>9 DEF SpinInv, Placed
  <2>4. \A d, e \in Cpu : X(d)' = X(e)' => d = e
    BY <1>9 DEF SpinInv, Placed
  <2> QED
    BY Zenon, <2>1, <2>2, <2>3, <2>4 DEF Placed
<1>11. StacksRight'
  <2>1. Ordered(stack'[c]) /\ Ordered(stack'[t])
    BY Zenon, <1>1, <1>2, <1>4, <1>5 DEF Ordered
  <2>2. ~Outside(u)
    BY Zenon, <1>3 DEF Outside
  <2>3. Remembers(stack'[t])
    BY Zenon, <1>1, <1>5, <2>2 DEF Remembers, Enables
  <2> QED
    BY Zenon, <1>2, <1>6, <2>1, <2>3 DEF SpinInv, StacksRight, Stack
<1>12. Counts(cpus'[c], stack'[c])
  <2>1. ~r.flag
    BY Zenon, <1>1, <1>3 DEF Counts, Outside
  <2> QED
    BY ZenonT(30), <1>1, <1>2, <1>3, <1>4, <1>7, <2>1 DEF Counts
<1>13. CpusRight'
  BY <1>6, <1>7, <1>9, <1>12 DEF SpinInv, CpusRight
<1>14. LocksRight'
  <2>1. /\ \A k \in Lock : Has(c, k)' <=> k = ptable
        /\ \A k \in Lock : Has(t, k) <=> k = ptable
        /\ \A k \in Lock : ~Has(c, k)
        /\ \A y \in Stack \ {c, t} : \A k \in Lock : Has(y, k)' <=> Has(y, k)
    BY ZenonT(30), <1>2, <1>3, <1>4, <1>5, <1>6 DEF Has
  <2>2. \A y \in Stack : y = t => \A k \in Lock : ~Has(y, k)'
    BY Zenon, <1>5 DEF Has
  <2>3. \A d \in Cpu : Held(d)' = Held(d)
    BY ZenonT(30), <1>1, <1>3, <1>4, <1>6, <1>9 DEF Held
  <2>4. (\A k \in Lock : ~spinlock[k].locked => \A y \in Stack : ~Has(y, k))'
    BY <1>1, <1>3, <2>1, <2>2 DEF SpinInv, LocksRight
  <2>5. SpinExclusion'
    <3> SUFFICES ASSUME NEW k \in Lock, NEW y \in Stack, NEW z \in Stack, Has(y, k)', Has(z, k)'
                 PROVE  y = z
      BY Zenon DEF SpinExclusion
    <3>1. ptable \in Lock /\ Has(t, ptable)
      BY <1>1, <2>1, SpinLockAssumption DEF Lock, ptable
    <3>2. \A w \in Stack \ {t} : ~Has(w, ptable)
      BY Zenon, <1>1, <3>1 DEF SpinInv, LocksRight, SpinExclusion
    <3> QED
      BY <2>1, <2>2, <3>2 DEF SpinInv, LocksRight, SpinExclusion
  <2> QED
    BY <1>3, <2>3, <2>4, <2>5 DEF SpinInv, LocksRight
<1> QED
  BY Zenon, <1>8, <1>10, <1>11, <1>13, <1>14 DEF SpinInv

-----------------------------------------------------------------------------
(***************************************************************************)
(* The theorems.                                                           *)
(***************************************************************************)
\* The CPUs begin in their schedulers, with no lock taken and no thread run.
LEMMA SpinInvInit == SpinInit => SpinInv
<1> SUFFICES ASSUME SpinInit PROVE SpinInv
  BY Zenon
<1>1. Idle0 \in Op /\ [Idle0 EXCEPT !.pc = "new"] \in Op /\ [Idle0 EXCEPT !.pc = "at"] \in Op
  <2>1. Idle0 \in Op
    BY SpinLockAssumption DEF Op, Idle0
  <2>2. \A q \in Op : [q EXCEPT !.pc = "new"] \in Op /\ [q EXCEPT !.pc = "at"] \in Op
    BY Zenon DEF Op
  <2> QED
    BY Zenon, <2>1, <2>2
<1>2. \A x \in Stack :
          /\ stack[x].now.pc = (IF x \in Cpu THEN "at" ELSE "new")
          /\ stack[x].under.pc = "at" /\ stack[x].handler = FALSE
          /\ stack[x].held = {} /\ stack[x].fresh = (x \in Kthread)
  BY Zenon DEF SpinInit, Idle0
<1>3. \A c \in Cpu : cpus[c].runs = c /\ cpus[c].ncli = 0 /\ cpus[c].flag = TRUE /\ c \in Stack
  BY Zenon DEF SpinInit, Stack
<1>4. SpinTypeOK
  <2>1. cpus \in [Cpu -> CpuRec]
    BY DEF SpinInit, CpuRec, Stack
  <2>2. spinlock \in [Lock -> LockRec]
    BY Zenon DEF SpinInit, LockRec
  <2>3. stack \in [Stack -> StackRec]
    BY <1>1 DEF SpinInit, StackRec, Idle0
  <2> QED
    BY Zenon, <2>1, <2>2, <2>3 DEF SpinTypeOK
<1>5. Placed
  BY <1>2, <1>3, SpinLockAssumption DEF Placed, X, Stack
<1>6. StacksRight
  BY Zenon, <1>2, SpinLockAssumption DEF StacksRight, Ordered, Remembers, Stack
<1>7. CpusRight
  <2>1. Cardinality({}) = 0
    BY Zenon, FS_EmptySet
  <2> QED
    <3>1. \A c \in Cpu : X(c) = c /\ c \in Stack
      BY Zenon, <1>3 DEF X
    <3>2. \A c \in Cpu : stack[c].now.pc = "at" /\ stack[c].held = {}
      BY Zenon, <1>2, <3>1
    <3>3. \A c \in Cpu : Outside(stack[c]) /\ stack[c].now.pc \notin {"xchg", "mark", "clear"}
      BY Zenon, <3>2 DEF Outside
    <3>4. ASSUME NEW c \in Cpu PROVE cpus[c].ncli = Cardinality(stack[c].held) + 0
      <4>1. Cardinality(stack[c].held) = 0
        BY Zenon, <2>1, <3>2
      <4> QED
        BY <1>3, <4>1
    <3> QED
      BY Zenon, <3>1, <3>2, <3>3, <3>4 DEF CpusRight, Counts
<1>8. LocksRight
  BY <1>2, <1>3, SpinLockAssumption DEF LocksRight, SpinExclusion, Has, Held, X, SpinInit, Stack
<1> QED
  BY Zenon, <1>4, <1>5, <1>6, <1>7, <1>8 DEF SpinInv

\* Every step of every CPU keeps the invariant.
LEMMA SpinInvStep == SpinInv /\ [SpinNext]_lockVars => SpinInv'
<1> SUFFICES ASSUME SpinInv, [SpinNext]_lockVars PROVE SpinInv'
  BY Zenon
<1>1. CASE SpinNext
  BY Zenon, <1>1, PushcliStep, UnmarkStep, CliStep, SpinStep, MarkStep, UnlockStep, InterruptStep,
     IretStep, SchedulerTopStep, SchedStep, TrapretStep, SwitchToStep DEF SpinNext
<1>2. CASE UNCHANGED lockVars
  <2>1. SpinTypeOK' /\ Placed' /\ StacksRight' /\ CpusRight'
    BY Zenon, <1>2 DEF lockVars, SpinInv, SpinTypeOK, Placed, StacksRight, CpusRight, X
  <2>2. LocksRight'
    <3>1. \A d \in Cpu : Held(d)' = Held(d)
      BY Zenon, <1>2 DEF lockVars, Held, X
    <3>2. \A y \in Stack : \A k \in Lock : Has(y, k)' <=> Has(y, k)
      BY Zenon, <1>2 DEF lockVars, Has
    <3> QED
      BY <1>2, <3>1, <3>2 DEF lockVars, SpinInv, LocksRight, SpinExclusion
  <2> QED
    BY Zenon, <2>1, <2>2 DEF SpinInv
<1> QED
  BY Zenon, <1>1, <1>2

\* The invariant holds throughout, for any number of CPUs, threads and locks.
THEOREM SpinInvariant == SpinSpec => []SpinInv
<1> QED
  BY SpinInvInit, SpinInvStep, PTL DEF SpinSpec

\* acquire and release exclude: no two stacks are between the xchg and the
\* store for the same lock, also while sched and the scheduler pass it on.
THEOREM LocksExclude == SpinSpec => []SpinExclusion
<1>1. SpinInv => SpinExclusion
  BY Zenon DEF SpinInv, LocksRight
<1> QED
  BY <1>1, SpinInvariant, PTL

\* The panics of acquire, release, popcli and sched are never reached, no
\* interrupt comes while a lock is held, and a thread finds its interrupts as
\* it left them whichever CPU it goes on.
THEOREM CpuStateKnown == SpinSpec => []CpuStateExact
<1>1. ASSUME SpinInv PROVE CpuStateExact
  <2>1. ASSUME NEW c \in Cpu PROVE /\ X(c) \in Stack /\ Counts(cpus[c], stack[X(c)])
                                   /\ X(c) # c => Enables(cpus[c], stack[X(c)])
    BY Zenon, <1>1, View
  <2>2. NoInterruptInside
    <3> SUFFICES ASSUME NEW c \in Cpu, cpus[c].flag
                 PROVE  cpus[c].ncli = 0 /\ Held(c) = {} /\ Now(c).pc \in {"at", "cli"}
      BY Zenon DEF NoInterruptInside
    <3>1. Held(c) = {} /\ Now(c).pc \in {"at", "cli"}
      BY Zenon, <2>1 DEF Counts, Outside, Held, Now
    <3>2. Cardinality({}) = 0
      BY Zenon, FS_EmptySet
    <3>3. cpus[c].ncli = Cardinality(Held(c)) + 0
      BY Zenon, <2>1, <3>1 DEF Counts, Held, Now
    <3> QED
      BY <3>1, <3>2, <3>3
  <2>3. HoldingExact
    <3> SUFFICES ASSUME NEW c \in Cpu
                 PROVE  /\ \A l \in Lock : HoldingLock(c, l) <=> l \in Held(c)
                        /\ cpus[c].ncli = Cardinality(Held(c)) +
                              (IF Now(c).pc \in {"xchg", "mark", "clear"} THEN 1 ELSE 0)
      BY Zenon DEF HoldingExact
    <3>1. \A l \in Lock : l \in Held(c) => Has(X(c), l)
      BY Zenon DEF Held, Has
    <3>2. \A l \in Lock : l \in Held(c) => spinlock[l].locked
      BY Zenon, <1>1, <2>1, <3>1 DEF SpinInv, LocksRight
    <3>3. \A l \in Lock : HoldingLock(c, l) <=> l \in Held(c)
      BY Zenon, <1>1, <3>2 DEF SpinInv, LocksRight, HoldingLock
    <3> QED
      BY Zenon, <2>1, <3>3 DEF Counts, Held, Now
  <2>4. InterruptsRestored
    BY Zenon, <2>1 DEF InterruptsRestored, Enables, Outside, Held, Now
  <2> QED
    BY Zenon, <2>2, <2>3, <2>4 DEF CpuStateExact
<1> QED
  BY <1>1, SpinInvariant, PTL

=============================================================================
