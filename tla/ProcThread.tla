----------------------------- MODULE ProcThread -----------------------------
(***************************************************************************)
(* The life of processes and of their kernel threads: allocproc, fork,     *)
(* exit, wait, kill, scheduler, sched, yield and sleep/wakeup (proc.c),    *)
(* kthread_create, kthread_exit and kthread_join (kthread.c), the exit     *)
(* requests of exec (exec.c) and the checks of trap (trap.c).              *)
(*                                                                         *)
(* A section under ptable.lock is one action.  Accesses that the code      *)
(* makes without the lock are actions of their own, and a thread can be    *)
(* preempted between any two actions, in the kernel as in user space.  The *)
(* scheduler hands ptable.lock to the thread it switches to; the variable  *)
(* lock records that hand-over.                                            *)
(***************************************************************************)
EXTENDS Integers, FiniteSets

CONSTANTS
  NPROC, NTHREAD,   \* param.h, proc.h
  CPU,              \* the processors
  Calls,            \* Calls[r]: the system calls and faults of threads of role r
  KillPids,         \* the pids that programs pass to kill
  MemoryFails,      \* may kalloc and copyuvm run out of memory?
  MaxPid, MaxTid    \* bounds on nextpid and nexttid

CallNames == {"fork", "wait", "exit", "kill", "create", "kexit", "join", "exec", "fault"}

Roles == {"init", "main", "worker"}

ASSUME ProcThreadAssumption ==
  /\ NPROC \in Nat \ {0}
  /\ NTHREAD \in Nat \ {0}
  /\ Calls \in [Roles -> SUBSET CallNames]
  /\ KillPids \subseteq Nat
  /\ MemoryFails \in BOOLEAN
  /\ MaxPid \in Nat /\ MaxTid \in Nat

Proc == 0 .. NPROC - 1
Thread == Proc \X (0 .. NTHREAD - 1)

initproc == 0
NoProc == NPROC
Nil == <<NPROC, 0>>             \* the null thread, lock owner and channel
ProcChan(p) == <<p, NTHREAD>>   \* the address of a struct proc, as a channel
Chan == Thread \union {Nil} \union {ProcChan(p) : p \in Proc}

VARIABLES
  pstate, pid, parent, killed,                 \* fields of struct proc
  state, tid, exitRequest, kstack, chan,       \* fields of struct kthread
  tfReady,    \* has the thread's trap frame been filled in?
  pc,         \* where each thread is: in user space or in the kernel
  slot,       \* a local of its call: index of the new process or thread
  back,       \* where exit() returns to if it returns
  cpu,        \* c->thread
  lock,       \* the thread that the scheduler has handed ptable.lock
  nextpid, nexttid,
  stackPages  \* number of pages allocated as kernel stacks

procVars == <<pstate, pid, parent, killed>>
idVars == <<nextpid, nexttid>>
stackVars == <<kstack, stackPages>>
runVars == <<cpu, lock>>
vars == <<procVars, state, tid, exitRequest, stackVars, chan, tfReady, pc, slot, back,
          runVars, idVars>>

PState == {"UNUSED", "EMBRYO", "USED", "ZOMBIE"}
TState == {"UNINIT", "SLEEPING", "RUNNABLE", "RUNNING", "TERMINATED"}
PC == {"none", "forkret", "user", "dispatch", "sysret", "panic", "dead",
       "fork_kalloc", "fork_copy", "fork_undo", "fork_publish",
       "create_kalloc", "create_publish", "create_tf",
       "exit", "exit_close", "kexit", "wait_sleep", "join_sleep", "exec_commit",
       "fault_peek", "fault_poke"}

TypeOK ==
  /\ pstate \in [Proc -> PState]
  /\ pid \in [Proc -> Nat]
  /\ parent \in [Proc -> Proc \union {NoProc}]
  /\ killed \in [Proc -> BOOLEAN]
  /\ state \in [Thread -> TState]
  /\ tid \in [Thread -> Nat]
  /\ exitRequest \in [Thread -> BOOLEAN]
  /\ kstack \in [Thread -> BOOLEAN]
  /\ chan \in [Thread -> Chan]
  /\ tfReady \in [Thread -> BOOLEAN]
  /\ pc \in [Thread -> PC]
  /\ slot \in [Thread -> Nat]
  /\ back \in [Thread -> {"dispatch", "user", "sysret", "panic"}]
  /\ cpu \in [CPU -> Thread \union {Nil}]
  /\ lock \in Thread \union {Nil}
  /\ nextpid \in Nat /\ nexttid \in Nat
  /\ stackPages \in Int

\* The state userinit leaves: one process, whose main thread can be run.
Init ==
  LET main == <<initproc, 0>> IN
  /\ pstate = [p \in Proc |-> IF p = initproc THEN "USED" ELSE "UNUSED"]
  /\ pid = [p \in Proc |-> IF p = initproc THEN 1 ELSE 0]
  /\ parent = [p \in Proc |-> NoProc]
  /\ killed = [p \in Proc |-> FALSE]
  /\ state = [t \in Thread |-> IF t = main THEN "RUNNABLE" ELSE "UNINIT"]
  /\ tid = [t \in Thread |-> IF t = main THEN 1 ELSE 0]
  /\ exitRequest = [t \in Thread |-> FALSE]
  /\ kstack = [t \in Thread |-> t = main]
  /\ chan = [t \in Thread |-> Nil]
  /\ tfReady = [t \in Thread |-> t = main]
  /\ pc = [t \in Thread |-> IF t = main THEN "forkret" ELSE "none"]
  /\ slot = [t \in Thread |-> 0]
  /\ back = [t \in Thread |-> "user"]
  /\ cpu = [c \in CPU |-> Nil]
  /\ lock = Nil
  /\ nextpid = 2
  /\ nexttid = 2
  /\ stackPages = 1

-----------------------------------------------------------------------------
(* Helpers *)

Threads(p) == {t \in Thread : t[1] = p}

Role(t) == IF t[1] = initproc THEN "init" ELSE IF t[2] = 0 THEN "main" ELSE "worker"

MayCall(t, name) == name \in Calls[Role(t)]

Running(t) == \E c \in CPU : cpu[c] = t

\* t executes at label l (and not inside the sched() that gave it ptable.lock).
At(t, l) == Running(t) /\ lock # t /\ pc[t] = l

Goto(t, l) == pc' = [pc EXCEPT ![t] = l]

\* Fault: threads that sleep are taken for dead.
LiveOthersFault(t) == {u \in Threads(t[1]) \ {t} : state[u] \in {"RUNNABLE", "RUNNING"}}

\* The test that exit, kthread_exit and exec make on every other thread.
LiveOthers(t) ==
  {u \in Threads(t[1]) \ {t} : state[u] \notin {"TERMINATED", "UNINIT"}}

\* sched(): the CPU goes back to its scheduler, which releases ptable.lock.
Sched(t) ==
  /\ cpu' = [c \in CPU |-> IF cpu[c] = t THEN Nil ELSE cpu[c]]
  /\ lock' = Nil

\* wakeup1 on each of the channels in S.
Woken(S) ==
  [t \in Thread |->
     IF pstate[t[1]] # "UNUSED" /\ state[t] = "SLEEPING" /\ chan[t] \in S
     THEN "RUNNABLE" ELSE state[t]]

-----------------------------------------------------------------------------
(* scheduler, sched, yield, forkret *)

\* Fault: the thread that is switched to stays RUNNABLE.
ScheduleFault(c, t) ==
  /\ lock = Nil
  /\ cpu[c] = Nil
  /\ pstate[t[1]] = "USED"
  /\ state[t] = "RUNNABLE"
  /\ cpu' = [cpu EXCEPT ![c] = t]
  /\ lock' = t
  /\ UNCHANGED <<procVars, state, tid, exitRequest, stackVars, chan, tfReady, pc, slot, back, idVars>>

\* The scheduler of c picks t and switches to it, ptable.lock held.
Schedule(c, t) ==
  /\ lock = Nil
  /\ cpu[c] = Nil
  /\ pstate[t[1]] = "USED"
  /\ state[t] = "RUNNABLE"
  /\ cpu' = [cpu EXCEPT ![c] = t]
  /\ state' = [state EXCEPT ![t] = "RUNNING"]
  /\ lock' = t
  /\ UNCHANGED <<procVars, tid, exitRequest, stackVars, chan, tfReady, pc, slot, back, idVars>>

\* t comes back from sched() in yield, or starts in forkret, and releases
\* ptable.lock.  A thread that had terminated would reach the panic behind sched().
Resume(t) ==
  /\ lock = t
  /\ pc[t] \notin {"wait_sleep", "join_sleep"}
  /\ lock' = Nil
  /\ pc' = [pc EXCEPT ![t] = CASE @ = "forkret" -> "user"
                               [] @ = "dead" -> "panic"
                               [] OTHER -> @]
  /\ UNCHANGED <<procVars, state, tid, exitRequest, stackVars, chan, tfReady, slot, back,
                 cpu, idVars>>

\* The clock interrupts t, in user space or in the kernel with no lock held: yield.
Preempt(t) ==
  /\ Running(t)
  /\ lock = Nil
  /\ state[t] = "RUNNING"
  /\ pc[t] # "panic"
  /\ state' = [state EXCEPT ![t] = "RUNNABLE"]
  /\ Sched(t)
  /\ UNCHANGED <<procVars, tid, exitRequest, stackVars, chan, tfReady, pc, slot, back, idVars>>

-----------------------------------------------------------------------------
(* trap: the checks of exitRequest and killed *)

\* kthread_exit if asked to exit, exit if killed, else go on at l; an exit()
\* that returns goes on at l too.
Checked(t, l) ==
  /\ pc' = [pc EXCEPT ![t] = IF exitRequest[t] THEN "kexit"
                             ELSE IF killed[t[1]] THEN "exit" ELSE l]
  /\ back' = [back EXCEPT ![t] = l]
  /\ UNCHANGED <<procVars, state, tid, exitRequest, stackVars, chan, tfReady, runVars, idVars>>

\* A system call enters the kernel.
TrapSyscall(t) ==
  /\ At(t, "user")
  /\ Checked(t, "dispatch")
  /\ UNCHANGED slot

\* The system call is done and about to return.
TrapReturn(t) ==
  /\ At(t, "sysret")
  /\ Checked(t, "user")
  /\ UNCHANGED slot

\* A device interrupt taken in user space.
TrapInterrupt(t) ==
  /\ At(t, "user")
  /\ exitRequest[t] \/ killed[t[1]]
  /\ Checked(t, "user")
  /\ UNCHANGED slot

\* A fault in user space: the process is killed and its sleeping threads are
\* made runnable, one after the other and without ptable.lock.
Fault(t) ==
  /\ At(t, "user")
  /\ MayCall(t, "fault")
  /\ killed' = [killed EXCEPT ![t[1]] = TRUE]
  /\ slot' = [slot EXCEPT ![t] = 0]
  /\ Goto(t, "fault_peek")
  /\ UNCHANGED <<pstate, pid, parent, state, tid, exitRequest, stackVars, chan, tfReady, back,
                 runVars, idVars>>

FaultPeek(t) ==
  /\ At(t, "fault_peek")
  /\ IF slot[t] = NTHREAD
     THEN Checked(t, "user") /\ UNCHANGED slot
     ELSE /\ IF state[<<t[1], slot[t]>>] = "SLEEPING"
             THEN Goto(t, "fault_poke") /\ UNCHANGED slot
             ELSE slot' = [slot EXCEPT ![t] = @ + 1] /\ UNCHANGED pc
          /\ UNCHANGED <<procVars, state, tid, exitRequest, stackVars, chan, tfReady, back,
                         runVars, idVars>>

FaultPoke(t) ==
  /\ At(t, "fault_poke")
  /\ state' = [state EXCEPT ![<<t[1], slot[t]>>] = "RUNNABLE"]
  /\ slot' = [slot EXCEPT ![t] = @ + 1]
  /\ Goto(t, "fault_peek")
  /\ UNCHANGED <<procVars, tid, exitRequest, stackVars, chan, tfReady, back, runVars, idVars>>

-----------------------------------------------------------------------------
(* fork and allocproc *)

FirstUnused(p) ==
  /\ pstate[p] = "UNUSED"
  /\ \A q \in Proc : q < p => pstate[q] # "UNUSED"

AllocProc(t) ==
  /\ At(t, "dispatch") /\ MayCall(t, "fork")
  /\ lock = Nil
  /\ nextpid <= MaxPid /\ nexttid <= MaxTid
  /\ \E p \in Proc :
       /\ FirstUnused(p)
       /\ pstate' = [pstate EXCEPT ![p] = "EMBRYO"]
       /\ pid' = [pid EXCEPT ![p] = nextpid]
       /\ state' = [u \in Thread |-> IF u[1] = p THEN "UNINIT" ELSE state[u]]
       /\ tid' = [tid EXCEPT ![<<p, 0>>] = nexttid]
       /\ exitRequest' = [exitRequest EXCEPT ![<<p, 0>>] = FALSE]
       /\ slot' = [slot EXCEPT ![t] = p]
  /\ nextpid' = nextpid + 1
  /\ nexttid' = nexttid + 1
  /\ Goto(t, "fork_kalloc")
  /\ UNCHANGED <<parent, killed, stackVars, chan, tfReady, back, runVars>>

\* No process slot is free: fork returns -1.
AllocProcFull(t) ==
  /\ At(t, "dispatch") /\ MayCall(t, "fork")
  /\ lock = Nil
  /\ \A p \in Proc : pstate[p] # "UNUSED"
  /\ Goto(t, "sysret")
  /\ UNCHANGED <<procVars, state, tid, exitRequest, stackVars, chan, tfReady, slot, back,
                 runVars, idVars>>

\* The stack of the new thread u; when kalloc fails allocproc returns 0 and
\* leaves the slot as it is.
Kalloc(t, u, done) ==
  /\ \/ /\ kstack' = [kstack EXCEPT ![u] = TRUE]
        /\ stackPages' = stackPages + 1
        /\ Goto(t, done)
     \/ /\ MemoryFails
        /\ kstack' = [kstack EXCEPT ![u] = FALSE]
        /\ UNCHANGED stackPages
        /\ Goto(t, "sysret")
  /\ tfReady' = [tfReady EXCEPT ![u] = FALSE]
  /\ UNCHANGED <<procVars, state, tid, exitRequest, chan, slot, back, runVars, idVars>>

ForkKalloc(t) ==
  /\ At(t, "fork_kalloc")
  /\ Kalloc(t, <<slot[t], 0>>, "fork_copy")

\* copyuvm, and the fields of the child that are set without ptable.lock.
ForkCopy(t) ==
  /\ At(t, "fork_copy")
  /\ parent' = [parent EXCEPT ![slot[t]] = t[1]]
  /\ tfReady' = [tfReady EXCEPT ![<<slot[t], 0>>] = TRUE]
  /\ Goto(t, "fork_publish")
  /\ UNCHANGED <<pstate, pid, killed, state, tid, exitRequest, stackVars, chan, slot, back,
                 runVars, idVars>>

\* Fault: the kernel stack of the child is not freed.
ForkCopyFailsFault(t) ==
  /\ At(t, "fork_copy")
  /\ MemoryFails
  /\ kstack' = [kstack EXCEPT ![<<slot[t], 0>>] = FALSE]
  /\ pstate' = [pstate EXCEPT ![slot[t]] = "UNUSED"]
  /\ Goto(t, "fork_undo")
  /\ UNCHANGED <<pid, parent, killed, state, stackPages, tid, exitRequest, chan, tfReady, slot,
                 back, runVars, idVars>>

ForkCopyFails(t) ==
  /\ At(t, "fork_copy")
  /\ MemoryFails
  /\ kstack' = [kstack EXCEPT ![<<slot[t], 0>>] = FALSE]
  /\ stackPages' = stackPages - 1
  /\ pstate' = [pstate EXCEPT ![slot[t]] = "UNUSED"]
  /\ Goto(t, "fork_undo")
  /\ UNCHANGED <<pid, parent, killed, state, tid, exitRequest, chan, tfReady, slot, back,
                 runVars, idVars>>

ForkUndo(t) ==
  /\ At(t, "fork_undo")
  /\ state' = [state EXCEPT ![<<slot[t], 0>>] = "UNINIT"]
  /\ Goto(t, "sysret")
  /\ UNCHANGED <<procVars, tid, exitRequest, stackVars, chan, tfReady, slot, back,
                 runVars, idVars>>

ForkPublish(t) ==
  /\ At(t, "fork_publish")
  /\ lock = Nil
  /\ pstate' = [pstate EXCEPT ![slot[t]] = "USED"]
  /\ state' = [state EXCEPT ![<<slot[t], 0>>] = "RUNNABLE"]
  /\ pc' = [pc EXCEPT ![t] = "sysret", ![<<slot[t], 0>>] = "forkret"]
  /\ UNCHANGED <<pid, parent, killed, tid, exitRequest, stackVars, chan, tfReady, slot, back,
                 runVars, idVars>>

-----------------------------------------------------------------------------
(* exit *)

SysExit(t) ==
  /\ At(t, "dispatch") /\ MayCall(t, "exit")
  /\ Goto(t, "exit")
  /\ back' = [back EXCEPT ![t] = "sysret"]
  /\ UNCHANGED <<procVars, state, tid, exitRequest, stackVars, chan, tfReady, slot,
                 runVars, idVars>>

\* Fault: the other threads are not asked to exit.
ExitFault(t) ==
  /\ At(t, "exit")
  /\ lock = Nil
  /\ Goto(t, IF t[1] = initproc THEN "panic"
             ELSE IF LiveOthers(t) = {} THEN "exit_close" ELSE back[t])
  /\ UNCHANGED <<procVars, state, tid, exitRequest, stackVars, chan, tfReady, slot, back,
                 runVars, idVars>>

\* A thread that is not the last asks the others to exit and returns.
Exit(t) ==
  /\ At(t, "exit")
  /\ lock = Nil
  /\ exitRequest' = [u \in Thread |-> exitRequest[u] \/ (t[1] # initproc /\ u \in LiveOthers(t))]
  /\ Goto(t, IF t[1] = initproc THEN "panic"
             ELSE IF LiveOthers(t) = {} THEN "exit_close" ELSE back[t])
  /\ UNCHANGED <<procVars, state, tid, stackVars, chan, tfReady, slot, back, runVars, idVars>>

Orphans(p) == {q \in Proc : parent[q] = p}

\* Fault: the children keep their parent.
ReparentedFault(p) == parent

Reparented(p) == [q \in Proc |-> IF q \in Orphans(p) THEN initproc ELSE parent[q]]

ParentChan(p) == IF parent[p] \in Proc THEN {ProcChan(parent[p])} ELSE {}

\* Fault: initproc is not told of the zombies it inherits.
ExitWakesFault(t) == {t} \union ParentChan(t[1])

\* The channels that a dying thread t, the last of its process, wakes.
ExitWakes(t) ==
  {t} \union ParentChan(t[1])
      \union {ProcChan(initproc) : q \in {r \in Orphans(t[1]) : pstate[r] = "ZOMBIE"}}

\* The last thread, its files closed, wakes the parent, passes its children to
\* initproc and becomes a zombie.
ExitFinal(t) ==
  /\ At(t, "exit_close")
  /\ lock = Nil
  /\ parent' = Reparented(t[1])
  /\ pstate' = [pstate EXCEPT ![t[1]] = "ZOMBIE"]
  /\ state' = [Woken(ExitWakes(t)) EXCEPT ![t] = "TERMINATED"]
  /\ Goto(t, "dead")
  /\ Sched(t)
  /\ UNCHANGED <<pid, killed, tid, exitRequest, stackVars, chan, tfReady, slot, back, idVars>>

-----------------------------------------------------------------------------
(* wait: the scan is made on entry and again after every wakeup *)

InWait(t) ==
  \/ At(t, "dispatch") /\ MayCall(t, "wait") /\ lock = Nil
  \/ lock = t /\ pc[t] = "wait_sleep"

Children(t) == {p \in Proc : parent[p] = t[1]}

Zombies(t) == {p \in Children(t) : pstate[p] = "ZOMBIE"}

\* Fault: the slot of the zombie keeps its state.
WaitReapKeeps(t) ==
  /\ InWait(t)
  /\ \E p \in Zombies(t) :
       /\ \A q \in Zombies(t) : p <= q
       /\ LET dead == {u \in Threads(p) : state[u] = "TERMINATED"}
              gone == \A u \in Threads(p) \ {t} : state[u] \in {"UNINIT", "TERMINATED"}
          IN /\ kstack' = [u \in Thread |-> kstack[u] /\ u \notin dead]
             /\ stackPages' = stackPages - Cardinality(dead)
             /\ tid' = [u \in Thread |-> IF u \in dead THEN 0 ELSE tid[u]]
             /\ exitRequest' = [u \in Thread |-> exitRequest[u] /\ u \notin dead]
             /\ state' = [u \in Thread |-> IF u \in dead THEN "UNINIT" ELSE state[u]]
             /\ pc' = [u \in Thread |-> IF u = t THEN IF \A d \in dead : kstack[d] THEN "sysret"
                                                      ELSE "panic"
                                        ELSE IF u \in dead THEN "none" ELSE pc[u]]
             /\ pid' = IF gone THEN [pid EXCEPT ![p] = 0] ELSE pid
             /\ parent' = IF gone THEN [parent EXCEPT ![p] = NoProc] ELSE parent
             /\ killed' = IF gone THEN [killed EXCEPT ![p] = FALSE] ELSE killed
             /\ pstate' = pstate
  /\ chan' = [chan EXCEPT ![t] = Nil]
  /\ lock' = Nil
  /\ UNCHANGED <<tfReady, slot, back, cpu, idVars>>

\* The first zombie child: its terminated threads are cleaned, and its slot is
\* freed if none of its threads is left.
WaitReap(t) ==
  /\ InWait(t)
  /\ \E p \in Zombies(t) :
       /\ \A q \in Zombies(t) : p <= q
       /\ LET dead == {u \in Threads(p) : state[u] = "TERMINATED"}
              gone == \A u \in Threads(p) \ {t} : state[u] \in {"UNINIT", "TERMINATED"}
          IN /\ kstack' = [u \in Thread |-> kstack[u] /\ u \notin dead]
             /\ stackPages' = stackPages - Cardinality(dead)
             /\ tid' = [u \in Thread |-> IF u \in dead THEN 0 ELSE tid[u]]
             /\ exitRequest' = [u \in Thread |-> exitRequest[u] /\ u \notin dead]
             /\ state' = [u \in Thread |-> IF u \in dead THEN "UNINIT" ELSE state[u]]
             /\ pc' = [u \in Thread |-> IF u = t THEN IF \A d \in dead : kstack[d] THEN "sysret"
                                                      ELSE "panic"
                                        ELSE IF u \in dead THEN "none" ELSE pc[u]]
             /\ pid' = IF gone THEN [pid EXCEPT ![p] = 0] ELSE pid
             /\ parent' = IF gone THEN [parent EXCEPT ![p] = NoProc] ELSE parent
             /\ killed' = IF gone THEN [killed EXCEPT ![p] = FALSE] ELSE killed
             /\ pstate' = IF gone THEN [pstate EXCEPT ![p] = "UNUSED"] ELSE pstate
  /\ chan' = [chan EXCEPT ![t] = Nil]
  /\ lock' = Nil
  /\ UNCHANGED <<tfReady, slot, back, cpu, idVars>>

\* No children, or the caller is to die: wait returns -1.
WaitFails(t) ==
  /\ InWait(t)
  /\ Zombies(t) = {}
  /\ Children(t) = {} \/ killed[t[1]] \/ exitRequest[t]
  /\ chan' = [chan EXCEPT ![t] = Nil]
  /\ lock' = Nil
  /\ Goto(t, "sysret")
  /\ UNCHANGED <<procVars, state, tid, exitRequest, stackVars, tfReady, slot, back, cpu, idVars>>

WaitSleep(t) ==
  /\ InWait(t)
  /\ Zombies(t) = {}
  /\ Children(t) # {} /\ ~ killed[t[1]] /\ ~ exitRequest[t]
  /\ chan' = [chan EXCEPT ![t] = ProcChan(t[1])]
  /\ state' = [state EXCEPT ![t] = "SLEEPING"]
  /\ Goto(t, "wait_sleep")
  /\ Sched(t)
  /\ UNCHANGED <<procVars, tid, exitRequest, stackVars, tfReady, slot, back, idVars>>

-----------------------------------------------------------------------------
(* kill *)

\* The first process with this pid, in whatever state it is.
Kill(t, n) ==
  /\ At(t, "dispatch") /\ MayCall(t, "kill")
  /\ lock = Nil
  /\ LET hit == {p \in Proc : pid[p] = n}
     IN  killed' = [p \in Proc |-> killed[p] \/ (p \in hit /\ \A q \in hit : p <= q)]
  /\ Goto(t, "sysret")
  /\ UNCHANGED <<pstate, pid, parent, state, tid, exitRequest, stackVars, chan, tfReady, slot,
                 back, runVars, idVars>>

-----------------------------------------------------------------------------
(* kthread_create *)

New(t) == <<t[1], slot[t]>>

\* Pick a slot and give it a tid under ptable.lock; its state stays UNINIT.
CreatePick(t) ==
  /\ At(t, "dispatch") /\ MayCall(t, "create")
  /\ lock = Nil
  /\ nexttid <= MaxTid
  /\ \E u \in Threads(t[1]) :
       /\ state[u] = "UNINIT"
       /\ \A v \in Threads(t[1]) : v[2] < u[2] => state[v] # "UNINIT"
       /\ tid' = [tid EXCEPT ![u] = nexttid]
       /\ slot' = [slot EXCEPT ![t] = u[2]]
  /\ nexttid' = nexttid + 1
  /\ Goto(t, "create_kalloc")
  /\ UNCHANGED <<procVars, state, exitRequest, stackVars, chan, tfReady, back, runVars, nextpid>>

CreateFull(t) ==
  /\ At(t, "dispatch") /\ MayCall(t, "create")
  /\ lock = Nil
  /\ \A u \in Threads(t[1]) : state[u] # "UNINIT"
  /\ Goto(t, "sysret")
  /\ UNCHANGED <<procVars, state, tid, exitRequest, stackVars, chan, tfReady, slot, back,
                 runVars, idVars>>

CreateKalloc(t) ==
  /\ At(t, "create_kalloc")
  /\ Kalloc(t, New(t), "create_publish")

\* exitRequest and state are stored without ptable.lock, state before the
\* trap frame is filled in.
CreatePublish(t) ==
  /\ At(t, "create_publish")
  /\ exitRequest' = [exitRequest EXCEPT ![New(t)] = FALSE]
  /\ state' = [state EXCEPT ![New(t)] = "RUNNABLE"]
  /\ pc' = [pc EXCEPT ![t] = "create_tf",
                      ![New(t)] = IF Running(New(t)) THEN @ ELSE "forkret"]
  /\ UNCHANGED <<procVars, tid, stackVars, chan, tfReady, slot, back, runVars, idVars>>

CreateTf(t) ==
  /\ At(t, "create_tf")
  /\ tfReady' = [tfReady EXCEPT ![New(t)] = TRUE]
  /\ Goto(t, "sysret")
  /\ UNCHANGED <<procVars, state, tid, exitRequest, stackVars, chan, slot, back, runVars, idVars>>

-----------------------------------------------------------------------------
(* kthread_exit *)

SysKthreadExit(t) ==
  /\ At(t, "dispatch") /\ MayCall(t, "kexit")
  /\ Goto(t, "kexit")
  /\ UNCHANGED <<procVars, state, tid, exitRequest, stackVars, chan, tfReady, slot, back,
                 runVars, idVars>>

\* The last thread calls exit(); if that returned, sched() would find
\* ptable.lock free and panic.
KthreadExitLast(t) ==
  /\ At(t, "kexit")
  /\ lock = Nil
  /\ LiveOthers(t) = {}
  /\ Goto(t, "exit")
  /\ back' = [back EXCEPT ![t] = "panic"]
  /\ UNCHANGED <<procVars, state, tid, exitRequest, stackVars, chan, tfReady, slot,
                 runVars, idVars>>

\* Fault: the joiners are not woken.
KthreadExitSilent(t) ==
  /\ At(t, "kexit")
  /\ lock = Nil
  /\ LiveOthers(t) # {}
  /\ state' = [state EXCEPT ![t] = "TERMINATED"]
  /\ Goto(t, "dead")
  /\ Sched(t)
  /\ UNCHANGED <<procVars, tid, exitRequest, stackVars, chan, tfReady, slot, back, idVars>>

KthreadExit(t) ==
  /\ At(t, "kexit")
  /\ lock = Nil
  /\ LiveOthers(t) # {}
  /\ state' = [Woken({t}) EXCEPT ![t] = "TERMINATED"]
  /\ Goto(t, "dead")
  /\ Sched(t)
  /\ UNCHANGED <<procVars, tid, exitRequest, stackVars, chan, tfReady, slot, back, idVars>>

-----------------------------------------------------------------------------
(* kthread_join *)

\* Where the search for thread_id = n stops: the first thread of the process
\* with that tid, or the thread behind its last one, which is the first of the
\* next process.  The memory behind the last table is taken not to match.
Found(t, n, u) ==
  LET hit == {v \in Threads(t[1]) : tid[v] = n}
  IN  \/ u \in hit /\ \A v \in hit : u[2] <= v[2]
      \/ hit = {} /\ u = <<t[1] + 1, 0>> /\ u \in Thread /\ tid[u] = n

\* t, holding ptable.lock, frees the terminated thread u and returns 0.
Free(t, u) ==
  /\ state[u] = "TERMINATED"
  /\ kstack' = [kstack EXCEPT ![u] = FALSE]
  /\ stackPages' = stackPages - 1
  /\ state' = [state EXCEPT ![u] = "UNINIT"]
  /\ pc' = [pc EXCEPT ![t] = IF kstack[u] THEN "sysret" ELSE "panic", ![u] = "none"]
  /\ chan' = [chan EXCEPT ![t] = Nil]
  /\ lock' = Nil
  /\ UNCHANGED <<procVars, tid, exitRequest, tfReady, slot, back, cpu, idVars>>

SleepOn(t, u) ==
  /\ state[u] # "TERMINATED"
  /\ chan' = [chan EXCEPT ![t] = u]
  /\ state' = [state EXCEPT ![t] = "SLEEPING"]
  /\ Goto(t, "join_sleep")
  /\ Sched(t)
  /\ UNCHANGED <<procVars, tid, exitRequest, stackVars, tfReady, slot, back, idVars>>

Join(t, n) ==
  /\ At(t, "dispatch") /\ MayCall(t, "join")
  /\ lock = Nil
  /\ tid[t] # n
  /\ \E u \in Thread :
       /\ Found(t, n, u)
       /\ state[u] # "UNINIT"
       /\ Free(t, u) \/ SleepOn(t, u)

\* Own tid, no such thread, or a thread that is not initialised: -1.
JoinFails(t, n) ==
  /\ At(t, "dispatch") /\ MayCall(t, "join")
  /\ tid[t] = n \/ (lock = Nil /\ \A u \in Thread : Found(t, n, u) => state[u] = "UNINIT")
  /\ Goto(t, "sysret")
  /\ UNCHANGED <<procVars, state, tid, exitRequest, stackVars, chan, tfReady, slot, back,
                 runVars, idVars>>

\* Woken in the loop of kthread_join: chan still names the thread waited for.
JoinResume(t) ==
  /\ lock = t
  /\ pc[t] = "join_sleep"
  /\ Free(t, chan[t]) \/ SleepOn(t, chan[t])

-----------------------------------------------------------------------------
(* exec: the part that concerns the other threads of the process *)

ExecAsk(t) ==
  /\ At(t, "dispatch") /\ MayCall(t, "exec")
  /\ \/ exitRequest[t] /\ Goto(t, "kexit") /\ UNCHANGED exitRequest
     \/ /\ ~ exitRequest[t]
        /\ lock = Nil
        /\ exitRequest' = [u \in Thread |-> exitRequest[u] \/ u \in LiveOthers(t)]
        /\ Goto(t, "exec_commit")
  /\ UNCHANGED <<procVars, state, tid, stackVars, chan, tfReady, slot, back, runVars, idVars>>

\* The new image is loaded, or could not be: exec returns either way.
ExecReturn(t) ==
  /\ At(t, "exec_commit")
  /\ Goto(t, "sysret")
  /\ UNCHANGED <<procVars, state, tid, exitRequest, stackVars, chan, tfReady, slot, back,
                 runVars, idVars>>

-----------------------------------------------------------------------------

\* Any other system call (getpid, kthread_id, uptime...).
SysOther(t) ==
  /\ At(t, "dispatch")
  /\ Goto(t, "sysret")
  /\ UNCHANGED <<procVars, state, tid, exitRequest, stackVars, chan, tfReady, slot, back,
                 runVars, idVars>>

Dispatch(t) ==
  \/ SysOther(t)
  \/ AllocProc(t) \/ AllocProcFull(t)
  \/ SysExit(t)
  \/ \E n \in KillPids : Kill(t, n)
  \/ CreatePick(t) \/ CreateFull(t)
  \/ SysKthreadExit(t)
  \/ \E n \in 1 .. MaxTid : Join(t, n) \/ JoinFails(t, n)
  \/ ExecAsk(t)

\* What a thread does next when it has a CPU.
Kernel(t) ==
  \/ TrapReturn(t) \/ FaultPeek(t) \/ FaultPoke(t)
  \/ ForkKalloc(t) \/ ForkCopy(t) \/ ForkCopyFails(t) \/ ForkUndo(t) \/ ForkPublish(t)
  \/ Exit(t) \/ ExitFinal(t)
  \/ WaitReap(t) \/ WaitFails(t) \/ WaitSleep(t)
  \/ CreateKalloc(t) \/ CreatePublish(t) \/ CreateTf(t)
  \/ KthreadExitLast(t) \/ KthreadExit(t)
  \/ JoinResume(t) \/ ExecReturn(t)
  \/ Dispatch(t)

User(t) == TrapSyscall(t) \/ TrapInterrupt(t) \/ Fault(t)

Next ==
  \/ \E c \in CPU, t \in Thread : Schedule(c, t)
  \/ \E t \in Thread : Resume(t) \/ Preempt(t) \/ Kernel(t) \/ User(t)

Spec == Init /\ [][Next]_vars

\* initproc never creates threads.
CanStart == {t \in Thread : t[1] = initproc => t[2] = 0}

\* Every scheduler scans the table cyclically, so a thread that is runnable
\* again and again is run; the clock interrupts the threads, in user space and
\* in the kernel; a thread that gets the CPU again and again makes a step.
Fairness ==
  /\ \A t \in CanStart :
       /\ SF_vars(\E c \in CPU : Schedule(c, t))
       /\ SF_vars(Kernel(t) \/ TrapInterrupt(t))
  /\ SF_vars(\E t \in Thread : Preempt(t))
  /\ WF_vars(\E t \in Thread : Resume(t))

\* init.c waits in a loop.
InitWaits ==
  LET main == <<initproc, 0>> IN
  /\ SF_vars(TrapSyscall(main))
  /\ SF_vars(WaitReap(main) \/ WaitFails(main) \/ WaitSleep(main))

FairSpec == Spec /\ Fairness

FairInitSpec == FairSpec /\ InitWaits

-----------------------------------------------------------------------------
(* Properties *)

Live(t) == state[t] \in {"SLEEPING", "RUNNABLE", "RUNNING"}

\* A thread runs on at most one CPU, and a CPU runs exactly the threads that
\* are RUNNING: the state changes of the scheduler, of sched() and of the
\* wakeups never give a running thread to a second scheduler.
OneCpu ==
  /\ \A t \in Thread : state[t] = "RUNNING" <=> Running(t)
  /\ \A c, d \in CPU : cpu[c] = cpu[d] /\ cpu[c] # Nil => c = d

\* A process that is a zombie, being created or free has no live thread, so
\* wait() can free the stacks and the slot of every zombie it finds, and the
\* scheduler's test of p->state never hides a runnable thread.
LiveInUsed == \A t \in Thread : Live(t) => pstate[t[1]] = "USED"

\* A process in use has a thread left to call exit() some day.
UsedHasThread == \A p \in Proc : pstate[p] = "USED" => \E t \in Threads(p) : Live(t)

\* The parent of a process that has not been waited for can still wait: exit()
\* passes the children of a dying process to initproc.
ParentAlive ==
  \A p \in Proc \ {initproc} :
    pstate[p] \in {"USED", "ZOMBIE"} => parent[p] \in Proc /\ pstate[parent[p]] = "USED"

\* No lost wakeup in wait(): nobody sleeps there while a child is a zombie,
\* also when the child became its child because another process exited.
WaitNotMissed ==
  \A t \in Thread : state[t] = "SLEEPING" /\ pc[t] = "wait_sleep" => Zombies(t) = {}

\* No lost wakeup in kthread_join(): nobody sleeps there when the thread it
\* waits for has terminated, by kthread_exit() or by exit().
JoinNotMissed ==
  \A t \in Thread :
    state[t] = "SLEEPING" /\ pc[t] = "join_sleep" => state[chan[t]] # "TERMINATED"

\* Every kernel stack belongs to a thread slot (none is lost or freed twice),
\* and every thread that can run, or has just stopped running, has one.
StacksAccounted ==
  /\ stackPages = Cardinality({t \in Thread : kstack[t]})
  /\ \A t \in Thread : state[t] # "UNINIT" => kstack[t]

\* None of the kernel's panics is reached: "init exiting", "zombie exit",
\* "terminated exit", "sched ptable.lock", and "kfree" of a null stack.
NoPanic == \A t \in Thread : pc[t] # "panic"

\* A thread that runs in user space has had its trap frame filled in.
UserFrameReady == \A t \in Thread : pc[t] = "user" => tfReady[t]

\* A slot in state EMBRYO belongs to a fork() that is still running.
EmbryoOwned ==
  \A p \in Proc : pstate[p] = "EMBRYO" =>
    \E t \in Thread : /\ pc[t] \in {"fork_kalloc", "fork_copy", "fork_publish"}
                      /\ slot[t] = p

\* A zombie that is, or becomes, a child of initproc is waited for.
ZombieReaped ==
  \A p \in Proc : pstate[p] = "ZOMBIE" /\ parent[p] = initproc ~> pstate[p] = "UNUSED"

\* A killed process exits, unless one of its threads goes back to sleep in
\* kthread_join() for ever: kill() wakes nobody, and the loop of kthread_join()
\* does not look at killed or exitRequest.
KilledExits ==
  \A p \in Proc :
    <>[](killed[p] /\ pstate[p] = "USED")
      => []<>(\E t \in Threads(p) : state[t] = "SLEEPING" /\ pc[t] = "join_sleep")

\* The process table is consistent with the threads in it: live threads are
\* in processes in use, and exit(), kthread_exit() and kthread_join() meet no
\* state in which they panic.
TableSound == TypeOK /\ LiveInUsed /\ NoPanic

\* The table holds a family: every process in use has a thread left and,
\* zombies included, a parent that can wait for it, and every slot taken by
\* fork() is published or given back.
FamilySound == ParentAlive /\ UsedHasThread /\ EmbryoOwned

=============================================================================
