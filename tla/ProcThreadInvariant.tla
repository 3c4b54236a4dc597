------------------------- MODULE ProcThreadInvariant ------------------------
(***************************************************************************)
(* Proofs about ProcThread: for any number of processes, of threads per    *)
(* process and of CPUs, the schedulers, the wakeups and the end of threads *)
(* and processes leave every thread on at most one CPU, every kernel stack *)
(* accounted for, every process with a parent that can wait for it, and    *)
(* nobody asleep who has been waited for.                                  *)
(*                                                                         *)
(* The code does not promise this to every program.  Disciplined says what *)
(* the programs are taken to do, and each conjunct is needed: a fault in   *)
(* user space makes threads runnable without ptable.lock; two threads that *)
(* create threads at the same time can be given the same slot; a fork that *)
(* runs out of memory resets a slot which it has already given back.       *)
(***************************************************************************)
EXTENDS ProcThread, FiniteSetTheorems, TLAPS

\* init.c forks and waits and is not killed; only the main thread of a process
\* creates threads; nobody faults; and when memory runs out, only init forks.
Disciplined ==
    /\ Calls["init"] \subseteq {"fork", "wait"} /\ 1 \notin KillPids
    /\ "create" \notin Calls["worker"]
    /\ \A r \in Roles : "fault" \notin Calls[r]
    /\ MemoryFails => "fork" \notin Calls["main"] \union Calls["worker"]

InitMain == <<initproc, 0>>
Main(p) == <<p, 0>>
Forking == {"fork_kalloc", "fork_copy", "fork_publish"}

\* Who runs is RUNNING, on one CPU, and so is the thread that has been handed
\* ptable.lock.
CpusRight == OneCpu /\ (lock # Nil => state[lock] = "RUNNING")

\* The state of a thread and the place where it is in the code agree.
PlacesRight ==
    \A t \in Thread :
        /\ state[t] = "UNINIT" => pc[t] = "none"
        /\ state[t] = "TERMINATED" => pc[t] = "dead"
        /\ Live(t) => pc[t] \notin {"none", "dead", "panic", "fault_peek", "fault_poke"}
        /\ state[t] = "SLEEPING" => pc[t] \in {"wait_sleep", "join_sleep"}
        /\ pc[t] = "join_sleep" => chan[t] \in Thread
        /\ state[t] = "SLEEPING" /\ pc[t] = "wait_sleep" => chan[t] = ProcChan(t[1])

\* The threads of a process that is free or being created are not initialised,
\* and those of a zombie are not live.
SlotsRight ==
    \A t \in Thread :
        /\ pstate[t[1]] \in {"UNUSED", "EMBRYO"} => state[t] = "UNINIT"
        /\ pstate[t[1]] = "ZOMBIE" => ~Live(t)

\* A thread that has found itself to be the last one stays the last one.
ExitsRight ==
    \A t \in Thread :
        pc[t] = "exit_close" \/ (pc[t] = "exit" /\ back[t] = "panic") => LiveOthers(t) = {}

\* init has one thread, which nobody asks to exit.
InitRight ==
    /\ pstate[initproc] = "USED" /\ pid[initproc] = 1 /\ ~killed[initproc]
    /\ parent[initproc] = NoProc
    /\ \A t \in Thread : t[1] = initproc =>
           /\ ~exitRequest[t]
           /\ t # InitMain => state[t] = "UNINIT"
           /\ pc[t] \notin {"exit", "exit_close", "kexit", "create_kalloc", "create_publish"}

\* The slot of a fork belongs to it alone.
ForksRight ==
    /\ \A t \in Thread : pc[t] \in Forking =>
           slot[t] \in Proc /\ pstate[slot[t]] = "EMBRYO"
    /\ \A t, u \in Thread :
           pc[t] \in Forking /\ pc[u] \in Forking /\ slot[t] = slot[u] => t = u
    /\ \A t \in Thread : pc[t] = "fork_kalloc" => ~kstack[Main(slot[t])]
    /\ \A t \in Thread : pc[t] \in {"fork_copy", "fork_publish"} => kstack[Main(slot[t])]
    /\ \A t \in Thread : pc[t] = "fork_publish" => parent[slot[t]] = t[1]
    /\ \A t \in Thread : pc[t] = "fork_undo" =>
           MemoryFails /\ slot[t] \in Proc /\ pstate[slot[t]] = "UNUSED"
    /\ \A t \in Thread : MemoryFails /\ pc[t] \in Forking \union {"fork_undo"} => t = InitMain

\* The slot that a main thread has picked for a new thread stays free.
CreatesRight ==
    \A t \in Thread : pc[t] \in {"create_kalloc", "create_publish"} =>
        /\ t = Main(t[1]) /\ New(t) \in Thread /\ state[New(t)] = "UNINIT"
        /\ pc[t] = "create_kalloc" => ~kstack[New(t)]
        /\ pc[t] = "create_publish" => kstack[New(t)]

\* A slot with no thread has a stack only while the thread is being created.
StacksRight ==
    /\ StacksAccounted
    /\ \A t \in Thread : state[t] = "UNINIT" /\ kstack[t] =>
           \/ pstate[t[1]] = "EMBRYO" /\ t = Main(t[1])
           \/ pc[Main(t[1])] = "create_publish" /\ New(Main(t[1])) = t

\* Every process in use has a thread, and a parent other than itself.
FamilyRight ==
    /\ ParentAlive /\ UsedHasThread
    /\ \A p \in Proc : parent[p] # p

SleepersRight == JoinNotMissed /\ WaitNotMissed

EmbryosRight == MemoryFails \/ EmbryoOwned

TableInv ==
    /\ TypeOK /\ CpusRight /\ PlacesRight /\ SlotsRight /\ ExitsRight /\ InitRight
    /\ ForksRight /\ CreatesRight /\ StacksRight /\ FamilyRight /\ SleepersRight /\ EmbryosRight
-----------------------------------------------------------------------------
(***************************************************************************)
(* Threads, processes and channels.                                        *)
(***************************************************************************)
\* A thread is a process and an index.
LEMMA ThreadPair ==
    /\ \A t \in Thread : t = <<t[1], t[2]>> /\ t[1] \in Proc /\ t[2] \in 0 .. NTHREAD - 1
    /\ \A p \in Proc : \A i \in 0 .. NTHREAD - 1 : <<p, i>> \in Thread
BY DEF Thread

\* The main thread of a process is its first; init's is InitMain.
LEMMA MainThread ==
    /\ \A p \in Proc : Main(p) \in Thread /\ Main(p)[1] = p
    /\ InitMain \in Thread /\ InitMain[1] = initproc /\ initproc \in Proc
    /\ InitMain = Main(initproc)
    /\ \A p, q : Main(p) = Main(q) => p = q
    /\ Nil \notin Thread
BY ProcThreadAssumption DEF Main, InitMain, initproc, Proc, Thread, Nil

\* The channels of two processes differ, and neither is a thread.
LEMMA Channels ==
    /\ \A p, q : ProcChan(p) = ProcChan(q) => p = q
    /\ \A p : ProcChan(p) \notin Thread
    /\ \A p \in Proc : ProcChan(p) \in Chan
    /\ Thread \subseteq Chan /\ Nil \in Chan
BY ProcThreadAssumption DEF ProcChan, Proc, Thread, Nil, Chan

\* Who runs is RUNNING; a live thread is in a process in use.
LEMMA WhoRuns ==
    ASSUME TableInv, NEW t \in Thread
    PROVE  /\ Running(t) => state[t] = "RUNNING"
           /\ lock = t => state[t] = "RUNNING" /\ Running(t)
           /\ state[t] = "RUNNING" => Live(t)
           /\ Live(t) <=> state[t] \notin {"UNINIT", "TERMINATED"}
           /\ Live(t) => pstate[t[1]] = "USED" /\ pc[t] \notin {"none", "dead", "panic"}
           /\ Live(t) => pc[t] \notin {"fault_peek", "fault_poke"}
           /\ pc[t] \notin {"none", "dead"} => Live(t)
<1>1. /\ state[t] \in TState /\ pstate[t[1]] \in PState
  BY Zenon, ThreadPair DEF TableInv, TypeOK
<1>2. /\ Running(t) => state[t] = "RUNNING"
      /\ lock = t => state[t] = "RUNNING" /\ Running(t)
  BY Zenon, MainThread DEF TableInv, CpusRight, OneCpu
<1>3. Live(t) <=> state[t] \notin {"UNINIT", "TERMINATED"}
  BY Zenon, <1>1 DEF Live, TState
<1> QED
  BY Zenon, <1>1, <1>2, <1>3 DEF TableInv, PlacesRight, SlotsRight, Live, PState
-----------------------------------------------------------------------------
(***************************************************************************)
(* Steps that change no state of a process or thread.                      *)
(***************************************************************************)
\* The same threads run, on the same CPUs.
LEMMA CpusKept ==
    ASSUME TableInv, cpu' = cpu, lock' \in {lock, Nil},
           \A u \in Thread : state'[u] = "RUNNING" <=> state[u] = "RUNNING"
    PROVE  CpusRight'
<1>1. \A u : Running(u)' <=> Running(u)
  BY Zenon DEF Running
<1>2. lock \in Thread \union {Nil}
  BY Zenon DEF TableInv, TypeOK
<1> QED
  BY Zenon, <1>1, <1>2 DEF TableInv, CpusRight, OneCpu

\* A step that brings no thread into fork, and leaves the slots and the stacks
\* of the forks under way alone.
LEMMA ForksKept ==
    ASSUME TableInv,
           \A u \in Thread : pc'[u] \in Forking \union {"fork_undo"} =>
               /\ pc'[u] = pc[u] /\ slot'[u] = slot[u] /\ pstate'[slot[u]] = pstate[slot[u]]
               /\ parent'[slot[u]] = parent[slot[u]]
               /\ pc[u] \in Forking => kstack'[Main(slot[u])] = kstack[Main(slot[u])]
    PROVE  ForksRight'
<1>1. ForksRight
  BY Zenon DEF TableInv
<1> QED
  BY <1>1 DEF ForksRight, Forking

\* A step that brings no thread into kthread_create, and leaves the slots that
\* have been picked for new threads alone.
LEMMA CreatesKept ==
    ASSUME TableInv,
           \A u \in Thread : pc'[u] \in {"create_kalloc", "create_publish"} =>
               /\ pc'[u] = pc[u] /\ New(u)' = New(u)
               /\ state'[New(u)] = state[New(u)] /\ kstack'[New(u)] = kstack[New(u)]
    PROVE  CreatesRight'
<1>1. CreatesRight
  BY Zenon DEF TableInv
<1> QED
  BY <1>1 DEF CreatesRight

\* A step that takes no process out of EMBRYO, nor a thread out of fork.
LEMMA EmbryosKept ==
    ASSUME TableInv, pstate' = pstate,
           \A u \in Thread : pc[u] \in Forking => pc'[u] \in Forking /\ slot'[u] = slot[u]
    PROVE  EmbryosRight'
<1>1. EmbryosRight
  BY Zenon DEF TableInv
<1> QED
  BY <1>1 DEF EmbryosRight, EmbryoOwned, Forking

LocalPlaces == {"user", "dispatch", "sysret", "exit", "exit_close", "kexit", "create_tf",
                "exec_commit"}

\* A running thread goes on to a place at which it owns no slot.
LEMMA LocalStep ==
    ASSUME TableInv, NEW t \in Thread, NEW l \in LocalPlaces, state[t] = "RUNNING",
           pc' = [pc EXCEPT ![t] = l],
           MemoryFails \/ pc[t] \notin Forking, pc[t] # "create_publish",
           t[1] = initproc => l \in {"user", "dispatch", "sysret"},
           l = "exit_close" \/ (l = "exit" /\ back'[t] = "panic") => LiveOthers(t) = {},
           back' \in [Thread -> {"dispatch", "user", "sysret", "panic"}],
           \A u \in Thread \ {t} : back'[u] = back[u] /\ chan'[u] = chan[u],
           chan' \in [Thread -> Chan], tfReady' \in [Thread -> BOOLEAN],
           exitRequest' \in [Thread -> BOOLEAN],
           \A u \in Thread : u[1] = initproc => ~exitRequest'[u],
           killed' \in [Proc -> BOOLEAN], ~killed'[initproc],
           lock' \in {lock, Nil},
           UNCHANGED <<pstate, pid, parent, state, tid, stackVars, slot, cpu, idVars>>
    PROVE  TableInv'
<1> USE DEF TableInv
<1>1. /\ pc'[t] = l /\ \A u \in Thread \ {t} : pc'[u] = pc[u]
      /\ pstate' = pstate /\ pid' = pid /\ parent' = parent /\ state' = state /\ tid' = tid
      /\ kstack' = kstack /\ stackPages' = stackPages /\ slot' = slot /\ cpu' = cpu
      /\ nextpid' = nextpid /\ nexttid' = nexttid
  BY Zenon DEF TypeOK, stackVars, idVars
<1>2. l \notin Forking \union {"none", "dead", "panic", "wait_sleep", "join_sleep",
                               "fork_undo", "create_kalloc", "create_publish",
                               "fault_peek", "fault_poke"}
  BY Zenon DEF LocalPlaces, Forking
<1>3. TypeOK'
  <2>1. l \in PC
    BY Zenon DEF LocalPlaces, PC
  <2>2. pc' \in [Thread -> PC]
    BY Zenon, <2>1 DEF TypeOK
  <2>3. lock' \in Thread \union {Nil}
    BY Zenon DEF TypeOK
  <2> QED
    BY Zenon, <1>1, <2>2, <2>3 DEF TypeOK
<1>4. CpusRight'
  BY <1>1 DEF CpusRight, OneCpu, Running
<1>5. PlacesRight'
  BY <1>1, <1>2 DEF PlacesRight, Live
<1>6. SlotsRight'
  BY <1>1 DEF SlotsRight, Live
<1>7. ExitsRight'
  BY <1>1, <1>2 DEF ExitsRight, LiveOthers, Threads
<1>8. InitRight'
  BY <1>1, <1>2 DEF InitRight
<1>9. ForksRight'
  BY <1>1, <1>2 DEF ForksRight, Forking
<1>10. CreatesRight'
  BY <1>1, <1>2 DEF CreatesRight, New
<1>11. StacksRight'
  BY <1>1, <1>2 DEF StacksRight, StacksAccounted, New
<1>12. FamilyRight'
  BY <1>1 DEF FamilyRight, ParentAlive, UsedHasThread, Threads, Live
<1>13. SleepersRight'
  BY <1>1, <1>2 DEF SleepersRight, JoinNotMissed, WaitNotMissed, Zombies, Children
<1>14. EmbryosRight'
  BY <1>1, <1>2 DEF EmbryosRight, EmbryoOwned, Forking
<1> QED
  BY Zenon, <1>3, <1>4, <1>5, <1>6, <1>7, <1>8, <1>9, <1>10, <1>11, <1>12, <1>13, <1>14

\* Programs that init and the others may be.
LEMMA WhoCalls ==
    ASSUME Disciplined, NEW t \in Thread
    PROVE  /\ t[1] = initproc => \A n : MayCall(t, n) => n \in {"fork", "wait"}
           /\ MayCall(t, "create") => t[1] # initproc /\ t = Main(t[1])
           /\ ~MayCall(t, "fault")
           /\ MemoryFails /\ MayCall(t, "fork") => t[1] = initproc
<1>1. t = <<t[1], t[2]>>
  BY Zenon, ThreadPair
<1> QED
  BY Zenon, <1>1 DEF Disciplined, MayCall, Role, Roles, Main

\* The checks of trap.
LEMMA CheckedStep ==
    ASSUME TableInv, NEW t \in Thread, NEW l \in {"dispatch", "user"}, state[t] = "RUNNING",
           pc[t] \in {"user", "sysret"}, Checked(t, l), slot' = slot
    PROVE  TableInv'
<1> DEFINE m == IF exitRequest[t] THEN "kexit" ELSE IF killed[t[1]] THEN "exit" ELSE l
<1>1. m \in LocalPlaces /\ m # "exit_close" /\ (t[1] = initproc => m = l)
  BY Zenon DEF LocalPlaces, TableInv, InitRight
<1>2. /\ pc' = [pc EXCEPT ![t] = m] /\ back' = [back EXCEPT ![t] = l]
      /\ UNCHANGED <<procVars, state, tid, exitRequest, stackVars, chan, tfReady, runVars, idVars>>
  BY Zenon DEF Checked
<1>3. /\ back' \in [Thread -> {"dispatch", "user", "sysret", "panic"}]
      /\ back'[t] # "panic" /\ \A u \in Thread \ {t} : back'[u] = back[u]
  BY Zenon, <1>2 DEF TableInv, TypeOK
<1>4. /\ pc[t] \notin Forking /\ pc[t] # "create_publish"
  BY Zenon DEF Forking
<1>5. /\ chan' = chan /\ tfReady' = tfReady /\ exitRequest' = exitRequest /\ killed' = killed
      /\ lock' \in {lock, Nil}
      /\ UNCHANGED <<pstate, pid, parent, state, tid, stackVars, slot, cpu, idVars>>
  BY Zenon, <1>2 DEF procVars, runVars
<1>6. /\ chan' \in [Thread -> Chan] /\ tfReady' \in [Thread -> BOOLEAN]
      /\ exitRequest' \in [Thread -> BOOLEAN] /\ killed' \in [Proc -> BOOLEAN]
      /\ ~killed'[initproc] /\ \A u \in Thread : u[1] = initproc => ~exitRequest'[u]
      /\ \A u \in Thread \ {t} : chan'[u] = chan[u]
  BY Zenon, <1>5 DEF TableInv, TypeOK, InitRight
<1> HIDE DEF m
<1>7. t[1] = initproc => m \in {"user", "dispatch", "sysret"}
  BY Zenon, <1>1
<1> QED
  BY Zenon, <1>1, <1>2, <1>3, <1>4, <1>5, <1>6, <1>7, LocalStep

\* A running thread goes on to l, and the rest stays as it is.
LEMMA GotoStep ==
    ASSUME TableInv, NEW t \in Thread, NEW l \in LocalPlaces, state[t] = "RUNNING", Goto(t, l),
           MemoryFails \/ pc[t] \notin Forking, pc[t] # "create_publish",
           t[1] = initproc => l \in {"user", "dispatch", "sysret"},
           l = "exit_close" \/ (l = "exit" /\ back'[t] = "panic") => LiveOthers(t) = {},
           \/ back' = back
           \/ \E b \in {"dispatch", "user", "sysret"} : back' = [back EXCEPT ![t] = b],
           \/ chan' = chan \/ chan' = [chan EXCEPT ![t] = Nil],
           \/ tfReady' = tfReady
           \/ \E u : tfReady' = [tfReady EXCEPT ![u] = TRUE]
           \/ \E u : tfReady' = [tfReady EXCEPT ![u] = FALSE],
           exitRequest' = exitRequest, lock' \in {lock, Nil},
           UNCHANGED <<procVars, state, tid, stackVars, slot, cpu, idVars>>
    PROVE  TableInv'
<1>1. /\ pc' = [pc EXCEPT ![t] = l]
      /\ killed' = killed /\ UNCHANGED <<pstate, pid, parent, state, tid, stackVars, slot, cpu, idVars>>
  BY Zenon DEF Goto, procVars
<1>2. /\ back' \in [Thread -> {"dispatch", "user", "sysret", "panic"}]
      /\ \A u \in Thread \ {t} : back'[u] = back[u]
  BY Zenon DEF TableInv, TypeOK
<1>3. chan' \in [Thread -> Chan] /\ \A u \in Thread \ {t} : chan'[u] = chan[u]
  BY Channels DEF TableInv, TypeOK
<1>4. tfReady' \in [Thread -> BOOLEAN]
  BY Zenon DEF TableInv, TypeOK
<1>5. /\ exitRequest' \in [Thread -> BOOLEAN] /\ killed' \in [Proc -> BOOLEAN]
      /\ ~killed'[initproc] /\ \A u \in Thread : u[1] = initproc => ~exitRequest'[u]
  BY Zenon, <1>1 DEF TableInv, TypeOK, InitRight
<1> QED
  BY Zenon, <1>1, <1>2, <1>3, <1>4, <1>5, LocalStep

\* A system call comes in, returns, or is interrupted.
LEMMA TrapStep ==
    ASSUME TableInv, NEW t \in Thread, TrapSyscall(t) \/ TrapReturn(t) \/ TrapInterrupt(t)
    PROVE  TableInv'
<1>1. state[t] = "RUNNING" /\ pc[t] \in {"user", "sysret"} /\ slot' = slot
  BY Zenon, WhoRuns DEF TrapSyscall, TrapReturn, TrapInterrupt, At
<1>2. PICK l \in {"dispatch", "user"} : Checked(t, l)
  BY Zenon DEF TrapSyscall, TrapReturn, TrapInterrupt
<1> QED
  BY Zenon, <1>1, <1>2, CheckedStep

\* Calls that change nothing, or fail and change nothing.
LEMMA ReturnStep ==
    ASSUME TableInv, NEW t \in Thread,
           \/ AllocProcFull(t) \/ CreateFull(t) \/ SysOther(t) \/ ExecReturn(t) \/ CreateTf(t)
           \/ \E n \in 1 .. MaxTid : JoinFails(t, n)
           \/ WaitFails(t)
    PROVE  TableInv'
<1>1. /\ state[t] = "RUNNING"
      /\ pc[t] \in {"dispatch", "exec_commit", "create_tf", "wait_sleep"}
  BY Zenon, WhoRuns DEF AllocProcFull, CreateFull, SysOther, ExecReturn, CreateTf, JoinFails, WaitFails,
                 InWait, At
<1>2. /\ Goto(t, "sysret") /\ back' = back /\ exitRequest' = exitRequest
      /\ lock' \in {lock, Nil}
      /\ UNCHANGED <<procVars, state, tid, stackVars, slot, cpu, idVars>>
  BY Zenon DEF AllocProcFull, CreateFull, SysOther, ExecReturn, CreateTf, JoinFails, WaitFails, runVars
<1>3. /\ chan' = chan \/ chan' = [chan EXCEPT ![t] = Nil]
      /\ tfReady' = tfReady \/ \E u : tfReady' = [tfReady EXCEPT ![u] = TRUE]
  BY Zenon DEF AllocProcFull, CreateFull, SysOther, ExecReturn, CreateTf, JoinFails, WaitFails
<1>4. pc[t] \notin Forking /\ pc[t] # "create_publish"
  BY Zenon, <1>1 DEF Forking
<1>5. "sysret" \in LocalPlaces
  BY Zenon DEF LocalPlaces
<1> QED
  BY Zenon, <1>1, <1>2, <1>3, <1>4, <1>5, GotoStep

\* The calls exit and kthread_exit.
LEMMA SysExitStep ==
    ASSUME TableInv, Disciplined, NEW t \in Thread, SysExit(t) \/ SysKthreadExit(t)
    PROVE  TableInv'
<1>1. state[t] = "RUNNING" /\ pc[t] = "dispatch" /\ t[1] # initproc
  BY WhoRuns, WhoCalls DEF SysExit, SysKthreadExit, At
<1>2. PICK l \in {"exit", "kexit"} :
         /\ Goto(t, l)
         /\ l = "exit" => back' = [back EXCEPT ![t] = "sysret"]
         /\ l = "kexit" => back' = back
  BY Zenon DEF SysExit, SysKthreadExit
<1>3. /\ chan' = chan /\ tfReady' = tfReady /\ exitRequest' = exitRequest /\ lock' \in {lock, Nil}
      /\ UNCHANGED <<procVars, state, tid, stackVars, slot, cpu, idVars>>
  BY Zenon DEF SysExit, SysKthreadExit, runVars
<1>4. l = "exit" => back'[t] # "panic"
  BY Zenon, <1>2 DEF TableInv, TypeOK
<1>5. pc[t] \notin Forking /\ pc[t] # "create_publish" /\ l \in LocalPlaces
  BY Zenon, <1>1 DEF Forking, LocalPlaces
<1>6. \/ back' = back
      \/ \E b \in {"dispatch", "user", "sysret"} : back' = [back EXCEPT ![t] = b]
  BY Zenon, <1>2
<1> QED
  BY Zenon, <1>1, <1>2, <1>3, <1>4, <1>5, <1>6, GotoStep

\* kill sets a flag, and never that of init.
LEMMA KillStep ==
    ASSUME TableInv, Disciplined, NEW t \in Thread, NEW n \in KillPids, Kill(t, n)
    PROVE  TableInv'
<1>1. state[t] = "RUNNING" /\ pc[t] = "dispatch"
  BY Zenon, WhoRuns DEF Kill, At
<1>2. /\ pc' = [pc EXCEPT ![t] = "sysret"] /\ lock' \in {lock, Nil}
      /\ back' = back /\ chan' = chan /\ tfReady' = tfReady /\ exitRequest' = exitRequest
      /\ UNCHANGED <<pstate, pid, parent, state, tid, stackVars, slot, cpu, idVars>>
  BY Zenon DEF Kill, Goto, runVars
<1>3. killed' \in [Proc -> BOOLEAN]
  BY Zenon DEF Kill, TableInv, TypeOK
<1>4. ~killed'[initproc]
  <2>1. n # 1 /\ pid[initproc] = 1 /\ ~killed[initproc]
    BY Zenon DEF Disciplined, TableInv, InitRight
  <2> QED
    BY Zenon, <2>1, MainThread DEF Kill
<1>5. /\ back' \in [Thread -> {"dispatch", "user", "sysret", "panic"}]
      /\ chan' \in [Thread -> Chan] /\ tfReady' \in [Thread -> BOOLEAN]
      /\ exitRequest' \in [Thread -> BOOLEAN]
      /\ \A u \in Thread : u[1] = initproc => ~exitRequest'[u]
      /\ \A u \in Thread \ {t} : back'[u] = back[u] /\ chan'[u] = chan[u]
  BY Zenon, <1>2 DEF TableInv, TypeOK, InitRight
<1>6. pc[t] \notin Forking /\ pc[t] # "create_publish" /\ "sysret" \in LocalPlaces
  BY Zenon, <1>1 DEF Forking, LocalPlaces
<1> QED
  BY Zenon, <1>1, <1>2, <1>3, <1>4, <1>5, <1>6, LocalStep

\* exit and exec ask the other threads to exit; the last one goes on to close
\* the files.
LEMMA AskStep ==
    ASSUME TableInv, Disciplined, NEW t \in Thread, Exit(t) \/ ExecAsk(t)
    PROVE  TableInv'
<1>1. state[t] = "RUNNING" /\ pc[t] \in {"exit", "dispatch"} /\ t[1] # initproc
  BY WhoRuns, WhoCalls DEF Exit, ExecAsk, At, TableInv, InitRight
<1>2. PICK l \in LocalPlaces :
         /\ pc' = [pc EXCEPT ![t] = l]
         /\ l = "exit_close" => LiveOthers(t) = {}
         /\ l # "exit"
  <2>1. CASE ExecAsk(t)
    BY Zenon, <2>1 DEF ExecAsk, Goto, LocalPlaces
  <2>2. CASE Exit(t) /\ LiveOthers(t) = {}
    BY Zenon, <1>1, <2>2 DEF Exit, Goto, LocalPlaces
  <2>3. CASE Exit(t) /\ LiveOthers(t) # {}
    <3>1. back[t] \in {"dispatch", "user", "sysret"}
      BY Zenon, <2>3 DEF TableInv, TypeOK, ExitsRight, Exit, At
    <3> QED
      BY Zenon, <1>1, <2>3, <3>1 DEF Exit, Goto, LocalPlaces
  <2> QED
    BY Zenon, <2>1, <2>2, <2>3
<1>3. /\ back' = back /\ chan' = chan /\ tfReady' = tfReady /\ killed' = killed
      /\ lock' \in {lock, Nil}
      /\ UNCHANGED <<pstate, pid, parent, state, tid, stackVars, slot, cpu, idVars>>
  BY Zenon DEF Exit, ExecAsk, procVars, runVars
<1>4. /\ exitRequest' \in [Thread -> BOOLEAN]
      /\ \A u \in Thread : u[1] = initproc => ~exitRequest'[u]
  <2>1. /\ exitRequest \in [Thread -> BOOLEAN]
        /\ \A u \in Thread : u[1] = initproc => ~exitRequest[u] /\ u \notin LiveOthers(t)
    BY Zenon, <1>1 DEF TableInv, TypeOK, InitRight, LiveOthers, Threads
  <2>2. \/ exitRequest' = exitRequest
        \/ \E S : /\ S \subseteq LiveOthers(t)
                  /\ exitRequest' = [u \in Thread |-> exitRequest[u] \/ u \in S]
    BY Zenon, <1>1 DEF Exit, ExecAsk
  <2> QED
    BY Zenon, <2>1, <2>2
<1>5. /\ back' \in [Thread -> {"dispatch", "user", "sysret", "panic"}]
      /\ chan' \in [Thread -> Chan] /\ tfReady' \in [Thread -> BOOLEAN]
      /\ killed' \in [Proc -> BOOLEAN] /\ ~killed'[initproc]
      /\ \A u \in Thread \ {t} : back'[u] = back[u] /\ chan'[u] = chan[u]
  BY Zenon, <1>3 DEF TableInv, TypeOK, InitRight
<1>6. pc[t] \notin Forking /\ pc[t] # "create_publish"
  BY Zenon, <1>1 DEF Forking
<1> QED
  BY Zenon, <1>1, <1>2, <1>3, <1>4, <1>5, <1>6, LocalStep

\* The last thread goes on to exit, which does not return.
LEMMA KthreadExitLastStep ==
    ASSUME TableInv, NEW t \in Thread, KthreadExitLast(t)
    PROVE  TableInv'
<1>1. state[t] = "RUNNING" /\ pc[t] = "kexit" /\ t[1] # initproc /\ LiveOthers(t) = {}
  BY Zenon, WhoRuns DEF KthreadExitLast, At, TableInv, InitRight
<1>2. /\ pc' = [pc EXCEPT ![t] = "exit"] /\ back' = [back EXCEPT ![t] = "panic"]
      /\ chan' = chan /\ tfReady' = tfReady /\ killed' = killed /\ exitRequest' = exitRequest
      /\ lock' \in {lock, Nil}
      /\ UNCHANGED <<pstate, pid, parent, state, tid, stackVars, slot, cpu, idVars>>
  BY Zenon DEF KthreadExitLast, Goto, procVars, runVars
<1>3. /\ back' \in [Thread -> {"dispatch", "user", "sysret", "panic"}]
      /\ chan' \in [Thread -> Chan] /\ tfReady' \in [Thread -> BOOLEAN]
      /\ killed' \in [Proc -> BOOLEAN] /\ ~killed'[initproc]
      /\ exitRequest' \in [Thread -> BOOLEAN]
      /\ \A u \in Thread : u[1] = initproc => ~exitRequest'[u]
      /\ \A u \in Thread \ {t} : back'[u] = back[u] /\ chan'[u] = chan[u]
  BY Zenon, <1>2 DEF TableInv, TypeOK, InitRight
<1>4. pc[t] \notin Forking /\ pc[t] # "create_publish" /\ "exit" \in LocalPlaces
  BY Zenon, <1>1 DEF Forking, LocalPlaces
<1> QED
  BY Zenon, <1>1, <1>2, <1>3, <1>4, LocalStep
-----------------------------------------------------------------------------
(***************************************************************************)
(* The scheduler.                                                          *)
(***************************************************************************)
\* A live thread becomes RUNNABLE or RUNNING.
LEMMA RunStep ==
    ASSUME TableInv, NEW t \in Thread, Live(t), NEW s \in {"RUNNABLE", "RUNNING"},
           state' = [state EXCEPT ![t] = s], CpusRight',
           cpu' \in [CPU -> Thread \union {Nil}], lock' \in Thread \union {Nil},
           UNCHANGED <<procVars, tid, exitRequest, stackVars, chan, tfReady, pc, slot, back, idVars>>
    PROVE  TableInv'
<1> USE DEF TableInv
<1>1. /\ state'[t] = s /\ \A u \in Thread \ {t} : state'[u] = state[u]
      /\ pstate' = pstate /\ pid' = pid /\ parent' = parent /\ killed' = killed /\ pc' = pc
      /\ kstack' = kstack /\ stackPages' = stackPages /\ slot' = slot /\ chan' = chan
      /\ exitRequest' = exitRequest /\ back' = back
  BY Zenon DEF TypeOK, stackVars, procVars
<1>2. state[t] \notin {"UNINIT", "TERMINATED"} /\ s \notin {"UNINIT", "TERMINATED", "SLEEPING"}
  BY Zenon DEF Live
<1>3. \A u \in Thread : Live(u)' <=> Live(u)
  BY Zenon, <1>1 DEF Live
<1>4. TypeOK'
  <2>1. state' \in [Thread -> TState]
    BY Zenon DEF TypeOK, TState
  <2> QED
    BY Zenon, <2>1 DEF TypeOK, procVars, stackVars, idVars
<1>5. PlacesRight'
  BY <1>1, <1>2, <1>3 DEF PlacesRight
<1>6. SlotsRight'
  BY Zenon, <1>1, <1>2, <1>3, ThreadPair DEF SlotsRight
<1>7. ExitsRight'
  BY <1>1, <1>2 DEF ExitsRight, LiveOthers, Threads
<1>8. InitRight'
  BY Zenon, <1>1, <1>2 DEF InitRight
<1>9. ForksRight'
  BY <1>1 DEF ForksRight
<1>10. CreatesRight'
  BY <1>1, <1>2 DEF CreatesRight, New
<1>11. StacksRight'
  BY <1>1, <1>2 DEF StacksRight, StacksAccounted, New
<1>12. FamilyRight'
  BY Zenon, <1>1, <1>3 DEF FamilyRight, ParentAlive, UsedHasThread, Threads
<1>13. SleepersRight'
  BY <1>1, <1>2 DEF SleepersRight, JoinNotMissed, WaitNotMissed, Zombies, Children
<1>14. EmbryosRight'
  BY <1>1 DEF EmbryosRight, EmbryoOwned
<1> QED
  BY Zenon, <1>4, <1>5, <1>6, <1>7, <1>8, <1>9, <1>10, <1>11, <1>12, <1>13, <1>14

\* The scheduler takes a thread that no other CPU has.
LEMMA ScheduleStep ==
    ASSUME TableInv, NEW c \in CPU, NEW t \in Thread, Schedule(c, t)
    PROVE  TableInv'
<1>1. /\ lock = Nil /\ cpu[c] = Nil /\ state[t] = "RUNNABLE" /\ Live(t)
      /\ cpu' = [cpu EXCEPT ![c] = t] /\ state' = [state EXCEPT ![t] = "RUNNING"] /\ lock' = t
  BY Zenon DEF Schedule, Live
<1>2. /\ cpu'[c] = t /\ \A d \in CPU \ {c} : cpu'[d] = cpu[d]
      /\ state'[t] = "RUNNING" /\ \A u \in Thread \ {t} : state'[u] = state[u]
      /\ cpu' \in [CPU -> Thread \union {Nil}]
  BY Zenon, <1>1 DEF TableInv, TypeOK
<1>3. ~Running(t)
  BY Zenon, <1>1 DEF TableInv, CpusRight, OneCpu
<1>4. \A u \in Thread : state'[u] = "RUNNING" <=> Running(u)'
  BY <1>1, <1>2, <1>3, MainThread DEF TableInv, CpusRight, OneCpu, Running
<1>5. CpusRight'
  BY <1>1, <1>2, <1>3, <1>4, MainThread DEF TableInv, CpusRight, OneCpu, Running
<1>6. UNCHANGED <<procVars, tid, exitRequest, stackVars, chan, tfReady, pc, slot, back, idVars>>
  BY Zenon DEF Schedule
<1> QED
  BY Zenon, <1>1, <1>2, <1>5, <1>6, RunStep

\* sched(): the CPU of t has no thread any more.
LEMMA SchedEffect ==
    ASSUME TableInv, NEW t \in Thread, Sched(t), state[t] = "RUNNING",
           \A u \in Thread \ {t} : state'[u] = "RUNNING" <=> state[u] = "RUNNING",
           state'[t] # "RUNNING"
    PROVE  /\ CpusRight' /\ cpu' \in [CPU -> Thread \union {Nil}]
           /\ lock' \in Thread \union {Nil}
<1>1. /\ lock' = Nil /\ cpu' \in [CPU -> Thread \union {Nil}]
      /\ \A d \in CPU : cpu'[d] = IF cpu[d] = t THEN Nil ELSE cpu[d]
  BY Zenon DEF Sched, TableInv, TypeOK
<1>2. \A u \in Thread : state'[u] = "RUNNING" <=> Running(u)'
  BY <1>1, MainThread DEF TableInv, CpusRight, OneCpu, Running
<1> QED
  BY <1>1, <1>2 DEF TableInv, CpusRight, OneCpu

\* The clock takes the CPU from a thread.
LEMMA PreemptStep ==
    ASSUME TableInv, NEW t \in Thread, Preempt(t)
    PROVE  TableInv'
<1>1. /\ state[t] = "RUNNING" /\ Live(t) /\ state' = [state EXCEPT ![t] = "RUNNABLE"]
      /\ UNCHANGED <<procVars, tid, exitRequest, stackVars, chan, tfReady, pc, slot, back, idVars>>
  BY Zenon DEF Preempt, Live
<1>2. state'[t] = "RUNNABLE" /\ \A u \in Thread \ {t} : state'[u] = state[u]
  BY Zenon, <1>1 DEF TableInv, TypeOK
<1>3. /\ CpusRight' /\ cpu' \in [CPU -> Thread \union {Nil}]
      /\ lock' \in Thread \union {Nil}
  BY Zenon, <1>1, <1>2, SchedEffect DEF Preempt
<1> QED
  BY Zenon, <1>1, <1>3, RunStep

\* A thread comes back from sched, or begins in forkret.
LEMMA ResumeStep ==
    ASSUME TableInv, NEW t \in Thread, Resume(t)
    PROVE  TableInv'
<1>1. /\ lock = t /\ lock' = Nil /\ state[t] = "RUNNING" /\ Live(t) /\ pc[t] # "dead"
      /\ UNCHANGED <<procVars, state, tid, exitRequest, stackVars, chan, tfReady, slot, back, cpu,
                     idVars>>
  BY Zenon, WhoRuns DEF Resume
<1>2. pc' = [pc EXCEPT ![t] = IF pc[t] = "forkret" THEN "user" ELSE pc[t]]
  BY Zenon, <1>1 DEF Resume, TableInv, TypeOK
<1>3. CASE pc[t] = "forkret"
  <2>1. pc[t] \notin Forking /\ pc[t] # "create_publish" /\ "user" \in LocalPlaces
    BY Zenon, <1>3 DEF Forking, LocalPlaces
  <2> QED
    BY Zenon, <1>1, <1>2, <1>3, <2>1, GotoStep DEF Goto
<1>4. CASE pc[t] # "forkret"
  <2>1. pc' = pc /\ state' = [state EXCEPT ![t] = "RUNNING"]
    BY Zenon, <1>1, <1>2, <1>4 DEF TableInv, TypeOK
  <2>2. CpusRight' /\ cpu' \in [CPU -> Thread \union {Nil}] /\ lock' \in Thread \union {Nil}
    BY Zenon, <1>1 DEF TableInv, TypeOK, CpusRight, OneCpu, Running
  <2> QED
    BY Zenon, <1>1, <2>1, <2>2, RunStep
<1> QED
  BY Zenon, <1>3, <1>4
-----------------------------------------------------------------------------
(***************************************************************************)
(* Kernel stacks.                                                          *)
(***************************************************************************)
\* Sets of threads are finite.
LEMMA StackSet ==
    ASSUME NEW S \in SUBSET Thread
    PROVE  /\ IsFiniteSet(S) /\ Cardinality(S) \in Nat
           /\ \A u \in Thread \ S : Cardinality(S \union {u}) = Cardinality(S) + 1
           /\ \A u \in S : Cardinality(S \ {u}) = Cardinality(S) - 1
           /\ \A D \in SUBSET S : Cardinality(S \ D) = Cardinality(S) - Cardinality(D)
<1>1. IsFiniteSet(Thread)
  <2>1. IsFiniteSet(0 .. NPROC - 1) /\ IsFiniteSet(0 .. NTHREAD - 1)
    BY FS_Interval, ProcThreadAssumption
  <2> QED
    BY Zenon, <2>1, FS_Product DEF Thread, Proc
<1>2. IsFiniteSet(S) /\ Cardinality(S) \in Nat
  BY Zenon, <1>1, FS_Subset, FS_CardinalityType
<1>3. \A u \in Thread \ S : Cardinality(S \union {u}) = Cardinality(S) + 1
  BY Zenon, <1>2, FS_AddElement
<1>4. \A u \in S : Cardinality(S \ {u}) = Cardinality(S) - 1
  BY Zenon, <1>2, FS_RemoveElement
<1>5. ASSUME NEW D \in SUBSET S PROVE Cardinality(S \ D) = Cardinality(S) - Cardinality(D)
  <2>1. IsFiniteSet(D) /\ Cardinality(D) \in Nat
    BY Zenon, <1>2, FS_Subset, FS_CardinalityType
  <2>2. S \cap D = D
    BY Zenon
  <2> QED
    BY <1>2, <2>1, <2>2, FS_Difference
<1> QED
  BY Zenon, <1>2, <1>3, <1>4, <1>5

\* A stack is allocated for a slot that has none.
LEMMA StackGained ==
    ASSUME TableInv, NEW u \in Thread, ~kstack[u],
           kstack' = [kstack EXCEPT ![u] = TRUE], stackPages' = stackPages + 1
    PROVE  /\ stackPages' = Cardinality({t \in Thread : kstack'[t]})
           /\ stackPages' \in Int /\ kstack' \in [Thread -> BOOLEAN]
           /\ kstack'[u] /\ \A t \in Thread \ {u} : kstack'[t] = kstack[t]
<1> DEFINE S == {t \in Thread : kstack[t]}
           R == {t \in Thread : kstack'[t]}
<1>1. /\ kstack' \in [Thread -> BOOLEAN] /\ kstack'[u]
      /\ \A t \in Thread \ {u} : kstack'[t] = kstack[t]
      /\ stackPages = Cardinality(S)
  BY Zenon DEF TableInv, TypeOK, StacksRight, StacksAccounted
<1>2. R = S \union {u}
  BY Zenon, <1>1
<1>3. u \in Thread \ S /\ S \in SUBSET Thread
  BY Zenon
<1>4. Cardinality(S \union {u}) = Cardinality(S) + 1 /\ Cardinality(S) \in Nat
  BY Zenon, <1>3, StackSet
<1>5. stackPages' = Cardinality(R) /\ stackPages' \in Int
  <2> HIDE DEF R, S
  <2> QED
    BY <1>1, <1>2, <1>4
<1> QED
  BY Zenon, <1>1, <1>5

\* The stacks of the threads in D are freed.
LEMMA StacksLost ==
    ASSUME TableInv, NEW D \in SUBSET {t \in Thread : kstack[t]},
           kstack' \in [Thread -> BOOLEAN],
           \A t \in Thread : kstack'[t] <=> kstack[t] /\ t \notin D,
           stackPages' = stackPages - Cardinality(D)
    PROVE  stackPages' = Cardinality({t \in Thread : kstack'[t]}) /\ stackPages' \in Int
<1> DEFINE S == {t \in Thread : kstack[t]}
           R == {t \in Thread : kstack'[t]}
<1>1. R = S \ D /\ stackPages = Cardinality(S)
  BY Zenon DEF TableInv, StacksRight, StacksAccounted
<1>2. S \in SUBSET Thread /\ D \in SUBSET Thread /\ D \in SUBSET S
  BY Zenon
<1>3. /\ Cardinality(S \ D) = Cardinality(S) - Cardinality(D)
      /\ Cardinality(S) \in Nat /\ Cardinality(D) \in Nat
  BY Zenon, <1>2, StackSet
<1>4. stackPages' = Cardinality(R) /\ stackPages' \in Int
  <2> HIDE DEF R, S
  <2> QED
    BY <1>1, <1>3
<1> QED
  BY Zenon, <1>4

\* One stack is freed.
LEMMA StackLost ==
    ASSUME TableInv, NEW u \in Thread, kstack[u],
           kstack' = [kstack EXCEPT ![u] = FALSE], stackPages' = stackPages - 1
    PROVE  /\ stackPages' = Cardinality({t \in Thread : kstack'[t]})
           /\ stackPages' \in Int /\ kstack' \in [Thread -> BOOLEAN]
           /\ ~kstack'[u] /\ \A t \in Thread \ {u} : kstack'[t] = kstack[t]
<1>1. /\ kstack' \in [Thread -> BOOLEAN] /\ ~kstack'[u]
      /\ \A t \in Thread \ {u} : kstack'[t] = kstack[t]
  BY Zenon DEF TableInv, TypeOK
<1>2. Cardinality({u}) = 1 /\ {u} \in SUBSET {t \in Thread : kstack[t]}
  BY Zenon, FS_Singleton
<1>3. \A t \in Thread : kstack'[t] <=> kstack[t] /\ t \notin {u}
  BY Zenon, <1>1
<1> QED
  BY Zenon, <1>1, <1>2, <1>3, StacksLost
-----------------------------------------------------------------------------
(***************************************************************************)
(* wait and kthread_join.                                                  *)
(***************************************************************************)
\* A thread goes to sleep in wait or kthread_join.
LEMMA SleepStep ==
    ASSUME TableInv, NEW t \in Thread, state[t] = "RUNNING",
           pc[t] \in {"dispatch", "wait_sleep", "join_sleep"},
           NEW l \in {"wait_sleep", "join_sleep"}, NEW ch \in Chan,
           l = "join_sleep" => ch \in Thread /\ state[ch] # "TERMINATED",
           l = "wait_sleep" => ch = ProcChan(t[1]) /\ Zombies(t) = {},
           state' = [state EXCEPT ![t] = "SLEEPING"], chan' = [chan EXCEPT ![t] = ch],
           pc' = [pc EXCEPT ![t] = l], Sched(t),
           UNCHANGED <<procVars, tid, exitRequest, stackVars, tfReady, slot, back, idVars>>
    PROVE  TableInv'
<1> USE DEF TableInv
<1>1. /\ state'[t] = "SLEEPING" /\ \A u \in Thread \ {t} : state'[u] = state[u]
      /\ chan'[t] = ch /\ \A u \in Thread \ {t} : chan'[u] = chan[u]
      /\ pc'[t] = l /\ \A u \in Thread \ {t} : pc'[u] = pc[u]
      /\ pstate' = pstate /\ pid' = pid /\ parent' = parent /\ killed' = killed
      /\ kstack' = kstack /\ stackPages' = stackPages /\ slot' = slot
      /\ exitRequest' = exitRequest /\ back' = back
  BY Zenon DEF TypeOK, procVars, stackVars
<1>2. l \notin Forking \union {"none", "dead", "panic", "exit", "exit_close", "kexit", "fork_undo",
                               "create_kalloc", "create_publish"}
  BY Zenon DEF Forking
<1>3. /\ CpusRight' /\ cpu' \in [CPU -> Thread \union {Nil}]
      /\ lock' \in Thread \union {Nil}
  BY Zenon, <1>1, SchedEffect
<1>4. TypeOK'
  <2>1. state' \in [Thread -> TState] /\ chan' \in [Thread -> Chan] /\ pc' \in [Thread -> PC]
    BY Zenon DEF TypeOK, TState, PC
  <2> QED
    BY Zenon, <1>1, <1>3, <2>1 DEF TypeOK, idVars
<1>5. PlacesRight'
  BY SMTT(30), <1>1, <1>2 DEF PlacesRight, Live
<1>6. SlotsRight'
  BY <1>1, WhoRuns DEF SlotsRight, Live
<1>7. ExitsRight'
  BY <1>1, <1>2 DEF ExitsRight, LiveOthers, Threads
<1>8. InitRight'
  BY <1>1, <1>2 DEF InitRight
<1>9. ForksRight'
  BY SMTT(30), <1>1, <1>2 DEF ForksRight, Forking
<1>10. CreatesRight'
  BY <1>1, <1>2 DEF CreatesRight, New
<1>11. StacksRight'
  BY SMTT(30), <1>1, <1>2 DEF StacksRight, StacksAccounted, New
<1>12. FamilyRight'
  BY <1>1 DEF FamilyRight, ParentAlive, UsedHasThread, Threads, Live
<1>13. SleepersRight'
  <2>1. \A u \in Thread : Zombies(u)' = Zombies(u)
    BY Zenon, <1>1 DEF Zombies, Children
  <2>2. \A u \in Thread : state'[u] = "TERMINATED" => state[u] = "TERMINATED"
    BY Zenon, <1>1
  <2>3. JoinNotMissed'
    BY <1>1, <2>2 DEF SleepersRight, JoinNotMissed, PlacesRight
  <2>4. WaitNotMissed'
    BY Zenon, <1>1, <2>1 DEF SleepersRight, WaitNotMissed
  <2> QED
    BY Zenon, <2>3, <2>4 DEF SleepersRight
<1>14. EmbryosRight'
  BY <1>1, <1>2 DEF EmbryosRight, EmbryoOwned, Forking
<1> QED
  BY Zenon, <1>3, <1>4, <1>5, <1>6, <1>7, <1>8, <1>9, <1>10, <1>11, <1>12, <1>13, <1>14

\* wait goes to sleep when none of the children is a zombie.
LEMMA WaitSleepStep ==
    ASSUME TableInv, NEW t \in Thread, WaitSleep(t)
    PROVE  TableInv'
<1>1. state[t] = "RUNNING" /\ pc[t] \in {"dispatch", "wait_sleep", "join_sleep"}
  BY Zenon, WhoRuns DEF WaitSleep, InWait, At
<1>2. ProcChan(t[1]) \in Chan
  BY Zenon, Channels, ThreadPair
<1> QED
  BY Zenon, <1>1, <1>2, SleepStep DEF WaitSleep, Goto

\* The thread that joins frees the stack and the slot of the other.
LEMMA FreeStep ==
    ASSUME TableInv, NEW t \in Thread, state[t] = "RUNNING", pc[t] \in {"dispatch", "join_sleep"},
           NEW u \in Thread, Free(t, u)
    PROVE  TableInv'
<1> USE DEF TableInv
<1>1. state[u] = "TERMINATED" /\ kstack[u] /\ u # t /\ pc[u] = "dead"
  BY Zenon DEF Free, StacksRight, StacksAccounted, PlacesRight
<1>2. /\ kstack' = [kstack EXCEPT ![u] = FALSE] /\ stackPages' = stackPages - 1
      /\ state' = [state EXCEPT ![u] = "UNINIT"] /\ chan' = [chan EXCEPT ![t] = Nil]
      /\ pc' = [pc EXCEPT ![t] = "sysret", ![u] = "none"] /\ lock' = Nil
  BY Zenon, <1>1 DEF Free
<1>3. /\ pstate' = pstate /\ pid' = pid /\ parent' = parent /\ killed' = killed /\ tid' = tid
      /\ exitRequest' = exitRequest /\ tfReady' = tfReady /\ slot' = slot /\ back' = back
      /\ cpu' = cpu /\ nextpid' = nextpid /\ nexttid' = nexttid
      /\ \A v \in Thread : New(v)' = New(v)
  BY Zenon DEF Free, procVars, idVars, New
<1>4. /\ stackPages' = Cardinality({v \in Thread : kstack'[v]})
      /\ stackPages' \in Int /\ kstack' \in [Thread -> BOOLEAN]
      /\ ~kstack'[u] /\ \A v \in Thread \ {u} : kstack'[v] = kstack[v]
  BY Zenon, <1>1, <1>2, StackLost
<1>5. /\ state'[u] = "UNINIT" /\ \A v \in Thread \ {u} : state'[v] = state[v]
      /\ pc'[t] = "sysret" /\ pc'[u] = "none" /\ \A v \in Thread \ {t, u} : pc'[v] = pc[v]
      /\ \A v \in Thread \ {t} : chan'[v] = chan[v]
  BY Zenon, <1>1, <1>2 DEF TypeOK
<1>6. TypeOK'
  <2>1. state' \in [Thread -> TState] /\ chan' \in [Thread -> Chan] /\ pc' \in [Thread -> PC]
    BY Zenon, <1>2, Channels DEF TypeOK, TState, PC
  <2> QED
    BY Zenon, <1>2, <1>3, <1>4, <2>1 DEF TypeOK
<1>7. CpusRight'
  BY Zenon, <1>1, <1>2, <1>3, <1>5, CpusKept
<1>8. PlacesRight'
  <2>1. \A v \in Thread \ {t, u} :
           /\ state'[v] = state[v] /\ pc'[v] = pc[v] /\ chan'[v] = chan[v]
           /\ Live(v)' <=> Live(v)
    BY Zenon, <1>5 DEF Live
  <2>2. state'[t] = "RUNNING" /\ pc'[t] = "sysret"
    BY Zenon, <1>1, <1>5
  <2>3. state'[u] = "UNINIT" /\ pc'[u] = "none" /\ ~Live(u)'
    BY Zenon, <1>5 DEF Live
  <2> QED
    BY <2>1, <2>2, <2>3 DEF PlacesRight
<1>9. SlotsRight'
  <2>1. pstate' = pstate
    BY Zenon, <1>3
  <2> QED
    BY <1>5, <2>1 DEF SlotsRight, Live
<1>10. ExitsRight'
  <2>1. /\ back' = back
        /\ \A v \in Thread : pc'[v] \in {"exit", "exit_close"} => pc'[v] = pc[v]
    BY Zenon, <1>3, <1>5
  <2>2. \A v \in Thread : LiveOthers(v)' \subseteq LiveOthers(v)
    BY <1>5 DEF LiveOthers, Threads
  <2> QED
    BY Zenon, <2>1, <2>2 DEF ExitsRight
<1>11. InitRight'
  BY <1>1, <1>3, <1>5 DEF InitRight
<1>12. ForksRight'
  <2>1. \A v \in Thread : pc[v] \in Forking => Main(slot[v]) \in Thread /\ Main(slot[v]) # u
    BY SMTT(30), <1>1, MainThread DEF ForksRight, SlotsRight
  <2> QED
    <3>1. \A v \in Thread : pc'[v] \in Forking \union {"fork_undo"} =>
             /\ pc'[v] = pc[v] /\ slot'[v] = slot[v] /\ pstate'[slot[v]] = pstate[slot[v]]
             /\ parent'[slot[v]] = parent[slot[v]]
             /\ pc[v] \in Forking => kstack'[Main(slot[v])] = kstack[Main(slot[v])]
      BY Zenon, <1>3, <1>4, <1>5, <2>1 DEF Forking
    <3> QED
      BY Zenon, <3>1, ForksKept
<1>13. CreatesRight'
  BY <1>1, <1>3, <1>4, <1>5 DEF CreatesRight
<1>14. StacksRight'
  BY <1>1, <1>3, <1>4, <1>5, MainThread, ThreadPair DEF StacksRight, StacksAccounted
<1>15. FamilyRight'
  BY SMTT(30), <1>1, <1>3, <1>5 DEF FamilyRight, ParentAlive, UsedHasThread, Threads, Live
<1>16. SleepersRight'
  <2>1. \A v \in Thread : Zombies(v)' = Zombies(v)
    BY Zenon, <1>3 DEF Zombies, Children
  <2>2. \A v \in Thread : /\ state'[v] = "SLEEPING" =>
                                state[v] = "SLEEPING" /\ pc'[v] = pc[v] /\ chan'[v] = chan[v]
                          /\ state'[v] = "TERMINATED" => state[v] = "TERMINATED"
    BY <1>1, <1>5
  <2> QED
    BY SMTT(30), <2>1, <2>2 DEF SleepersRight, JoinNotMissed, WaitNotMissed, PlacesRight
<1>17. EmbryosRight'
  <2>1. \A v \in Thread : pc[v] \in Forking => pc'[v] = pc[v]
    BY Zenon, <1>1, <1>5 DEF Forking
  <2> QED
    BY Zenon, <1>3, <2>1 DEF EmbryosRight, EmbryoOwned, Forking
<1> QED
  BY Zenon, <1>6, <1>7, <1>8, <1>9, <1>10, <1>11, <1>12, <1>13, <1>14, <1>15, <1>16, <1>17

\* kthread_join, on entry and after each wakeup.
LEMMA JoinStep ==
    ASSUME TableInv, NEW t \in Thread,
           JoinResume(t) \/ \E n \in 1 .. MaxTid : Join(t, n)
    PROVE  TableInv'
<1>1. state[t] = "RUNNING" /\ pc[t] \in {"dispatch", "join_sleep"}
  BY Zenon, WhoRuns DEF JoinResume, Join, At
<1>2. PICK u \in Thread : Free(t, u) \/ SleepOn(t, u)
  BY Zenon DEF JoinResume, Join, TableInv, PlacesRight
<1>3. CASE Free(t, u)
  BY Zenon, <1>1, <1>3, FreeStep
<1>4. CASE SleepOn(t, u)
  <2>1. u \in Chan
    BY Zenon, Channels
  <2> QED
    BY Zenon, <1>1, <1>4, <2>1, SleepStep DEF SleepOn, Goto
<1> QED
  BY Zenon, <1>2, <1>3, <1>4
-----------------------------------------------------------------------------
(***************************************************************************)
(* The first step of kthread_create.                                       *)
(***************************************************************************)
\* Two main threads that create threads have different slots.
LEMMA NewThreads ==
    ASSUME TableInv, NEW t \in Thread, t = Main(t[1])
    PROVE  /\ New(t)[1] = t[1]
           /\ \A u \in Thread \ {t} : pc[u] \in {"create_kalloc", "create_publish"} =>
                  New(u) # New(t) /\ New(u)[1] = u[1] /\ u[1] # t[1]
<1>1. \A u \in Thread : New(u)[1] = u[1]
  BY Zenon DEF New
<1>2. \A u \in Thread \ {t} : pc[u] \in {"create_kalloc", "create_publish"} => u[1] # t[1]
  BY Zenon DEF TableInv, CreatesRight
<1> QED
  BY Zenon, <1>1, <1>2

\* The main thread picks a slot that is free and has no stack.
LEMMA CreatePickStep ==
    ASSUME TableInv, Disciplined, NEW t \in Thread, CreatePick(t)
    PROVE  TableInv'
<1> USE DEF TableInv
<1>1. PICK u \in Threads(t[1]) :
        /\ state[u] = "UNINIT" /\ tid' = [tid EXCEPT ![u] = nexttid]
        /\ slot' = [slot EXCEPT ![t] = u[2]]
  BY Zenon DEF CreatePick
<1>2. /\ state[t] = "RUNNING" /\ pc[t] = "dispatch" /\ t[1] # initproc /\ t = Main(t[1])
      /\ pc' = [pc EXCEPT ![t] = "create_kalloc"] /\ nexttid' = nexttid + 1
  BY Zenon, WhoRuns, WhoCalls DEF CreatePick, At, Goto
<1>3. /\ pstate' = pstate /\ pid' = pid /\ parent' = parent /\ killed' = killed
      /\ state' = state /\ exitRequest' = exitRequest /\ kstack' = kstack
      /\ stackPages' = stackPages /\ chan' = chan /\ tfReady' = tfReady /\ back' = back
      /\ cpu' = cpu /\ lock' = lock /\ nextpid' = nextpid
  BY Zenon DEF CreatePick, procVars, stackVars, runVars
<1>4. u \in Thread /\ u = <<t[1], u[2]>> /\ u[2] \in 0 .. NTHREAD - 1
  BY Zenon, ThreadPair DEF Threads
<1>5. /\ pc'[t] = "create_kalloc" /\ \A v \in Thread \ {t} : pc'[v] = pc[v]
      /\ slot'[t] = u[2] /\ \A v \in Thread \ {t} : slot'[v] = slot[v]
  BY Zenon, <1>1, <1>2 DEF TypeOK
<1>6. ~kstack[u]
  BY <1>1, <1>2, <1>4, WhoRuns DEF StacksRight, Threads
<1>7. TypeOK'
  <2>1. u[2] \in Nat
    BY <1>4, ProcThreadAssumption
  <2>2. tid' \in [Thread -> Nat] /\ slot' \in [Thread -> Nat] /\ pc' \in [Thread -> PC]
    BY Zenon, <1>1, <1>2, <2>1 DEF TypeOK, PC
  <2> QED
    BY SMTT(30), <1>2, <1>3, <2>2 DEF TypeOK
<1>8. CpusRight'
  BY Zenon, <1>3, CpusKept
<1>9. PlacesRight' /\ SlotsRight' /\ ExitsRight' /\ InitRight'
  <2>1. PlacesRight' /\ SlotsRight'
    BY <1>2, <1>3, <1>5 DEF PlacesRight, SlotsRight, Live
  <2>2. ExitsRight'
    BY <1>3, <1>5 DEF ExitsRight, Live, LiveOthers, Threads
  <2>3. InitRight'
    BY <1>2, <1>3, <1>5 DEF InitRight
  <2> QED
    BY Zenon, <2>1, <2>2, <2>3
<1>10. ForksRight'
  <2>1. \A v \in Thread : pc'[v] \in Forking \union {"fork_undo"} =>
           /\ pc'[v] = pc[v] /\ slot'[v] = slot[v] /\ pstate'[slot[v]] = pstate[slot[v]]
           /\ parent'[slot[v]] = parent[slot[v]]
           /\ pc[v] \in Forking => kstack'[Main(slot[v])] = kstack[Main(slot[v])]
    BY Zenon, <1>3, <1>5 DEF Forking
  <2> QED
    BY Zenon, <2>1, ForksKept
<1>11. CreatesRight'
  <2>1. New(t)' = u /\ \A v \in Thread \ {t} : New(v)' = New(v)
    BY Zenon, <1>4, <1>5 DEF New
  <2> QED
    BY <1>1, <1>2, <1>3, <1>4, <1>5, <1>6, <2>1 DEF CreatesRight
<1>12. StacksRight'
  <2>1. \A v \in Thread \ {t} : New(v)' = New(v)
    BY Zenon, <1>5 DEF New
  <2> QED
    BY <1>2, <1>3, <1>5, <2>1, MainThread, ThreadPair DEF StacksRight, StacksAccounted
<1>13. FamilyRight' /\ SleepersRight'
  BY <1>2, <1>3, <1>5 DEF FamilyRight, ParentAlive, UsedHasThread, Threads, Live,
                    SleepersRight, JoinNotMissed, WaitNotMissed, Zombies, Children
<1>14. EmbryosRight'
  <2>1. \A v \in Thread : pc[v] \in Forking => pc'[v] \in Forking /\ slot'[v] = slot[v]
    BY Zenon, <1>2, <1>5 DEF Forking
  <2> QED
    BY Zenon, <1>3, <2>1, EmbryosKept
<1> QED
  BY Zenon, <1>7, <1>8, <1>9, <1>10, <1>11, <1>12, <1>13, <1>14
=============================================================================
