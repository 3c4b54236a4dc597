------------------------------ MODULE SpinLock ------------------------------
(***************************************************************************)
(* Spin locks and the interrupt flag: src/spinlock.c (acquire, release,    *)
(* holding, pushcli, popcli) with the parts of src/proc.c that carry a     *)
(* lock from one stack to another (scheduler, sched, forkret).             *)
(*                                                                         *)
(* A stack is that of a thread or the scheduler's of a CPU (named by the   *)
(* CPU).  A CPU runs one stack; an interrupt runs on top of it.  Between   *)
(* the instructions of acquire and release everything can happen that the  *)
(* interrupt flag admits.  The kernel takes locks in one order, with       *)
(* ptable.lock last; a lock is a number.                                   *)
(***************************************************************************)
EXTENDS Integers, FiniteSets

CONSTANTS
    Cpu, NoCpu,   \* the processors, and the 0 of lk->cpu
    Kthread,      \* the threads
    NLOCK         \* locks 1..NLOCK; the last is ptable.lock

ASSUME SpinLockAssumption ==
    /\ Cpu \cap Kthread = {} /\ NoCpu \notin Cpu
    /\ NLOCK \in Nat \ {0}

VARIABLES cpus,    \* ncli, intena, the interrupt flag, and the stack that runs
          stack,   \* what each stack is doing
          spinlock \* the locks: locked and cpu

lockVars == <<cpus, stack, spinlock>>

Lock == 1..NLOCK
ptable == NLOCK
Stack == Kthread \cup Cpu

\* pc: between two statements ("at"), or in acquire ("cli", "xchg", "mark")
\* or release ("clear"), for the lock lk.  A thread that does not run
\* is "new", or "ready" inside sched, with its intena.  A fresh thread has not
\* been in user space.
Idle0 == [pc |-> "at", lk |-> 0, eflags |-> FALSE]

SpinInit ==
    /\ cpus = [c \in Cpu |-> [ncli |-> 0, intena |-> FALSE, flag |-> TRUE,
                              runs |-> c]]
    /\ stack = [x \in Stack |->
                   [now |-> [Idle0 EXCEPT !.pc = IF x \in Cpu THEN "at"
                                                 ELSE "new"],
                    under |-> Idle0, handler |-> FALSE, held |-> {},
                    intena |-> FALSE, fresh |-> x \in Kthread]]
    /\ spinlock = [l \in Lock |-> [locked |-> FALSE, cpu |-> NoCpu]]

\* The stack that c runs, and what it does.
X(c) == cpus[c].runs
Now(c) == stack[X(c)].now
Held(c) == stack[X(c)].held
Goto(c, pc) == stack' = [stack EXCEPT ![X(c)].now.pc = pc]

HoldingLock(c, l) == spinlock[l].locked /\ spinlock[l].cpu = c
-----------------------------------------------------------------------------
(***************************************************************************)
(* acquire                                                                 *)
(***************************************************************************)
\* The loop of the scheduler takes ptable.lock after its sti() and no other.
SchedulerTakes(c, l) ==
    X(c) = c /\ ~stack[c].handler => l = ptable /\ cpus[c].flag

\* pushcli reads eflags ...
Pushcli(c, l) ==
    /\ Now(c).pc = "at"
    /\ \A k \in Held(c) : k < l
    /\ SchedulerTakes(c, l)
    /\ stack' = [stack EXCEPT
                    ![X(c)].now = [pc |-> "cli", lk |-> l,
                                   eflags |-> cpus[c].flag]]
    /\ UNCHANGED <<cpus, spinlock>>

\* ... and only the outermost pushcli remembers them ...
KeepsIntena(c, eflags) ==
    IF cpus[c].ncli = 0 THEN eflags ELSE cpus[c].intena

\* ... after it has cleared the flag.
Cli(c) ==
    /\ Now(c).pc = "cli"
    /\ cpus' = [cpus EXCEPT ![c].flag = FALSE, ![c].ncli = @ + 1,
                            ![c].intena = KeepsIntena(c, Now(c).eflags)]
    /\ stack' = [stack EXCEPT ![X(c)].now.pc = "xchg",
                              ![X(c)].now.eflags = FALSE]
    /\ UNCHANGED spinlock

XchgFault(c) == TRUE

\* The xchg found 0.
Xchg(c) == ~spinlock[Now(c).lk].locked

Spin(c) ==
    /\ Now(c).pc = "xchg" /\ Xchg(c)
    /\ spinlock' = [spinlock EXCEPT ![Now(c).lk].locked = TRUE]
    /\ Goto(c, "mark")
    /\ UNCHANGED cpus

Mark(c) ==
    /\ Now(c).pc = "mark"
    /\ spinlock' = [spinlock EXCEPT ![Now(c).lk].cpu = c]
    /\ stack' = [stack EXCEPT ![X(c)].now = Idle0,
                              ![X(c)].held = @ \cup {Now(c).lk}]
    /\ UNCHANGED cpus
-----------------------------------------------------------------------------
(***************************************************************************)
(* release                                                                 *)
(***************************************************************************)
Unmarked(l) == NoCpu

Unmark(c, l) ==
    /\ Now(c).pc = "at" /\ l \in Held(c)
    /\ spinlock' = [spinlock EXCEPT ![l].cpu = Unmarked(l)]
    /\ stack' = [stack EXCEPT
                    ![X(c)].now = [pc |-> "clear", lk |-> l, eflags |-> FALSE],
                    ![X(c)].held = @ \ {l}]
    /\ UNCHANGED cpus

\* popcli sets the flag again when the outermost pushcli had found it set;
\* intena has no meaning then, and is FALSE.
Sti(c, ncli) == ncli = 0 /\ cpus[c].intena

\* The store to locked, and popcli, which no other CPU notices.
Unlock(c) ==
    /\ Now(c).pc = "clear"
    /\ spinlock' = [spinlock EXCEPT ![Now(c).lk].locked = FALSE]
    /\ cpus' = [cpus EXCEPT ![c].ncli = @ - 1,
                            ![c].flag = Sti(c, cpus[c].ncli - 1),
                            ![c].intena = @ /\ cpus[c].ncli > 1]
    /\ stack' = [stack EXCEPT ![X(c)].now = Idle0]
-----------------------------------------------------------------------------
(***************************************************************************)
(* Interrupts.  The gate clears the flag and iret sets it again.           *)
(***************************************************************************)
Interrupt(c) ==
    /\ cpus[c].flag
    /\ ~stack[X(c)].handler
    /\ cpus' = [cpus EXCEPT ![c].flag = FALSE]
    /\ stack' = [stack EXCEPT ![X(c)].handler = TRUE,
                              ![X(c)].under = Now(c), ![X(c)].now = Idle0]
    /\ UNCHANGED spinlock

Iret(c) ==
    /\ stack[X(c)].handler
    /\ Now(c).pc = "at" /\ Held(c) = {}
    /\ cpus' = [cpus EXCEPT ![c].flag = TRUE]
    /\ stack' = [stack EXCEPT ![X(c)].handler = FALSE,
                              ![X(c)].now = stack[X(c)].under,
                              ![X(c)].under = Idle0]
    /\ UNCHANGED spinlock
-----------------------------------------------------------------------------
(***************************************************************************)
(* The scheduler and sched pass ptable.lock between two stacks of a CPU.   *)
(***************************************************************************)
\* The sti() at the top of the scheduler's loop.
SchedulerTop(c) ==
    /\ X(c) = c /\ Now(c).pc = "at" /\ Held(c) = {}
    /\ ~stack[c].handler /\ ~cpus[c].flag
    /\ cpus' = [cpus EXCEPT ![c].flag = TRUE]
    /\ UNCHANGED <<stack, spinlock>>

RestoredFault(c, t) == cpus[c].intena

\* What sched puts back into intena; forkret puts nothing back.
Restored(c, t) ==
    IF stack[t].now.pc = "new" THEN cpus[c].intena ELSE stack[t].intena

\* swtch to thread t, which comes out of sched, or begins in forkret.  A
\* handler on the stack of the scheduler does not switch: mythread() is 0.
SwitchTo(c, t) ==
    /\ X(c) = c /\ Now(c).pc = "at" /\ Held(c) = {ptable}
    /\ ~stack[c].handler
    /\ stack[t].now.pc \in {"new", "ready"}
    /\ cpus' = [cpus EXCEPT ![c].runs = t, ![c].intena = Restored(c, t)]
    /\ stack' = [stack EXCEPT ![c].held = {}, ![t].held = {ptable},
                              ![t].now.pc = "at", ![t].intena = FALSE]
    /\ UNCHANGED spinlock

\* sched: swtch back to the scheduler of this CPU.
Sched(c) ==
    /\ X(c) # c /\ Now(c).pc = "at" /\ Held(c) = {ptable}
    /\ cpus' = [cpus EXCEPT ![c].runs = c]
    /\ stack' = [stack EXCEPT ![X(c)].held = {}, ![c].held = {ptable},
                              ![X(c)].now.pc = "ready",
                              ![X(c)].intena = cpus[c].intena]
    /\ UNCHANGED spinlock

\* trapret after forkret: the flag that user space had.
Trapret(c) ==
    /\ Now(c).pc = "at" /\ Held(c) = {} /\ stack[X(c)].fresh
    /\ ~stack[X(c)].handler
    /\ cpus' = [cpus EXCEPT ![c].flag = TRUE]
    /\ stack' = [stack EXCEPT ![X(c)].fresh = FALSE]
    /\ UNCHANGED spinlock

SpinNext ==
    \E c \in Cpu :
        \/ \E l \in Lock : Pushcli(c, l) \/ Unmark(c, l)
        \/ Cli(c) \/ Spin(c) \/ Mark(c) \/ Unlock(c)
        \/ Interrupt(c) \/ Iret(c)
        \/ SchedulerTop(c) \/ Sched(c) \/ Trapret(c)
        \/ \E t \in Kthread : SwitchTo(c, t)

SpinSpec == SpinInit /\ [][SpinNext]_lockVars
-----------------------------------------------------------------------------
(***************************************************************************)
(* Properties.                                                             *)
(***************************************************************************)
\* Stack x is between the xchg of acquire and the store of release.
Has(x, l) ==
    \/ l \in stack[x].held
    \/ stack[x].now.pc \in {"mark", "clear"} /\ stack[x].now.lk = l

\* No two stacks have a lock at the same time, also while ptable.lock
\* passes from one to the other in sched and scheduler.
SpinExclusion ==
    \A l \in Lock : \A x, y \in Stack : Has(x, l) /\ Has(y, l) => x = y

\* An interrupt comes only where the CPU has no lock and waits for none, so
\* that a handler never spins for a lock that its own CPU has: popcli sets
\* the flag only at the end of the outermost release.
NoInterruptInside ==
    \A c \in Cpu : cpus[c].flag =>
        /\ cpus[c].ncli = 0 /\ Held(c) = {}
        /\ Now(c).pc \in {"at", "cli"}

\* holding and ncli say on each CPU what is true of the stack it runs,
\* although locks move between stacks and lk->cpu is read without the lock:
\* the panics of acquire, release and sched never happen.
HoldingExact ==
    \A c \in Cpu :
        /\ \A l \in Lock : HoldingLock(c, l) <=> l \in Held(c)
        /\ cpus[c].ncli = Cardinality(Held(c)) +
              (IF Now(c).pc \in {"xchg", "mark", "clear"} THEN 1 ELSE 0)

\* A thread outside of locks has interrupts enabled, and a handler has them
\* disabled, whichever threads ran on the CPU in between: intena belongs to
\* the thread and not to the CPU.
InterruptsRestored ==
    \A c \in Cpu :
        /\ X(c) # c /\ ~stack[X(c)].fresh
        /\ Now(c).pc \in {"at", "cli"} /\ Held(c) = {}
        => (cpus[c].flag <=> ~stack[X(c)].handler)

\* Each CPU knows the state of the stack it runs: the interrupt flag, ncli,
\* intena and lk->cpu are right, whatever acquire, release, sched and the
\* interrupts have done to them in which order.
CpuStateExact == NoInterruptInside /\ HoldingExact /\ InterruptsRestored

=============================================================================
