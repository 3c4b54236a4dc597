------------------------------- MODULE KMutex -------------------------------
(***************************************************************************)
(* The mutexes of kernel threads (mutex.c): a table of MAX_MUTEXES         *)
(* mutexes, scanned under mutexTable.lock, whose locked/tid/waitingThreads *)
(* fields are changed under the spinlock of each mutex, and on whose       *)
(* channel &mutex->tid the threads that wait for it sleep.                 *)
(*                                                                         *)
(* A section under one spinlock is one action.  The reads that the code    *)
(* makes after it releases mutexTable.lock, and the wakeup it makes after  *)
(* it releases mutex->lock, are actions of their own.  deallocate holds    *)
(* mutexTable.lock but not mutex->lock, so its test of locked and its      *)
(* stores are two actions.                                                 *)
(***************************************************************************)
EXTENDS Integers, FiniteSets

CONSTANTS
  Thread,        \* the threads that call the system calls, named by their tid
  NoTid,         \* tid 0, which no thread has
  MAX_MUTEXES,   \* kthread.h
  MutexId,       \* the mutex ids the programs pass to the calls
  PastEndId,     \* the word where mutexes[MAX_MUTEXES].id would be
  Calls,         \* the calls the programs make
  Discipline     \* what the programs keep to, of the three rules below

\* "balanced": a thread locks a mutex it is not in and unlocks one it is in;
\* "once": no thread calls lock twice on the same mutex;
\* "quiescent": a mutex is deallocated when no thread is in it or in a call on it.
Rule == {"balanced", "once", "quiescent"}

ASSUME MutexAssumption ==
  /\ IsFiniteSet(Thread)
  /\ NoTid \notin Thread
  /\ MAX_MUTEXES \in Nat \ {0}
  /\ MutexId \subseteq Int
  /\ PastEndId \in Int
  /\ Calls \subseteq {"alloc", "dealloc", "lock", "unlock"}
  /\ Discipline \subseteq Rule

Slot == 0 .. MAX_MUTEXES - 1

\* What a scan may return: a slot, or the address just past the table.
Addr == 0 .. MAX_MUTEXES

VARIABLES
  id, locked, tid, used, waitingThreads,  \* the fields of mutexes[i], i \in Addr
  tableLock,   \* the thread inside mutexTable.lock, when it stays there over two actions
  pc,          \* where each thread is in its call
  at,          \* the local variable mutex of its call
  arg,         \* the mutex_id it passed
  mode,        \* history: how the last lock call on a mutex returned to the thread
  tried        \* history: the mutexes on which a thread has called lock

fields == <<id, locked, tid, used, waitingThreads>>
local == <<pc, at, arg>>
history == <<mode, tried>>
vars == <<fields, tableLock, local, history>>

PC == {"idle", "lk_check", "lk_acquire", "lk_sleep", "lk_retry",
       "ul_check", "ul_acquire", "ul_wake", "de_clear"}

\* "owner": lock returned 0 having set locked and tid; "bare": lock returned 0
\* without setting them; "out": the thread is not between lock and unlock.
Mode == {"out", "owner", "bare"}

TypeOK ==
  /\ id \in [Addr -> Int]
  /\ locked \in [Addr -> {0, 1}]
  /\ tid \in [Addr -> Thread \union {NoTid}]
  /\ used \in [Addr -> {0, 1}]
  /\ waitingThreads \in [Addr -> Int]
  /\ tableLock \in Thread \union {NoTid}
  /\ pc \in [Thread -> PC]
  /\ at \in [Thread -> Addr]
  /\ arg \in [Thread -> Int]
  /\ mode \in [Thread -> [Addr -> Mode]]
  /\ tried \in [Thread -> SUBSET Int]

\* The table is zero at boot; what lies past it is whatever memory is there.
Init ==
  /\ id = [i \in Addr |-> IF i \in Slot THEN 0 ELSE PastEndId]
  /\ locked = [i \in Addr |-> 0]
  /\ tid = [i \in Addr |-> NoTid]
  /\ used = [i \in Addr |-> IF i \in Slot THEN 0 ELSE 1]
  /\ waitingThreads = [i \in Addr |-> 0]
  /\ tableLock = NoTid
  /\ pc = [t \in Thread |-> "idle"]
  /\ at = [t \in Thread |-> 0]
  /\ arg = [t \in Thread |-> 0]
  /\ mode = [t \in Thread |-> [i \in Addr |-> "out"]]
  /\ tried = [t \in Thread |-> {}]

Goto(t, label) == pc' = [pc EXCEPT ![t] = label]

SetMode(t, m, v) == mode' = [mode EXCEPT ![t][m] = v]

\* The scan of the table for mutex_id = n stops at i.
FoundAt(n, i) ==
  /\ i \in Slot => id[i] = n
  /\ \A j \in 0 .. i - 1 : id[j] # n

FirstFree(i) ==
  /\ i \in Slot => used[i] = 0
  /\ \A j \in 0 .. i - 1 : used[j] = 1

-----------------------------------------------------------------------------
(* kthread_mutex_alloc *)

Alloc(t) ==
  /\ "alloc" \in Calls
  /\ pc[t] = "idle"
  /\ tableLock = NoTid
  /\ \E i \in Slot :
       /\ FirstFree(i)
       /\ id' = [id EXCEPT ![i] = i]
       /\ locked' = [locked EXCEPT ![i] = 0]
       /\ tid' = [tid EXCEPT ![i] = NoTid]
       /\ used' = [used EXCEPT ![i] = 1]
       /\ waitingThreads' = [waitingThreads EXCEPT ![i] = 0]
  /\ UNCHANGED <<tableLock, local, history>>

-----------------------------------------------------------------------------
(* kthread_mutex_dealloc *)

Unused(n) ==
  \A u \in Thread :
    /\ n \in Addr => mode[u][n] = "out"
    /\ pc[u] # "idle" => arg[u] # n

\* The scan, and the tests of locked and used of the mutex it stops at.
DeallocCheck(t, n) ==
  /\ "dealloc" \in Calls
  /\ pc[t] = "idle"
  /\ tableLock = NoTid
  /\ "quiescent" \in Discipline => Unused(n)
  /\ \E i \in Slot :
       /\ FoundAt(n, i)
       /\ locked[i] = 0
       /\ used[i] = 1
       /\ at' = [at EXCEPT ![t] = i]
  /\ tableLock' = t
  /\ Goto(t, "de_clear")
  /\ UNCHANGED <<fields, arg, history>>

DeallocClear(t) ==
  /\ pc[t] = "de_clear"
  /\ LET i == at[t] IN
       /\ id' = [id EXCEPT ![i] = 0]
       /\ locked' = [locked EXCEPT ![i] = 0]
       /\ tid' = [tid EXCEPT ![i] = NoTid]
       /\ used' = [used EXCEPT ![i] = 0]
       /\ waitingThreads' = [waitingThreads EXCEPT ![i] = 0]
  /\ tableLock' = NoTid
  /\ Goto(t, "idle")
  /\ UNCHANGED <<at, arg, history>>

-----------------------------------------------------------------------------
(* kthread_mutex_lock *)

LockFind(t, n) ==
  /\ "lock" \in Calls
  /\ pc[t] = "idle"
  /\ tableLock = NoTid
  /\ "balanced" \in Discipline /\ n \in Addr => mode[t][n] = "out"
  /\ "once" \in Discipline => n \notin tried[t]
  /\ \E i \in Addr : FoundAt(n, i) /\ at' = [at EXCEPT ![t] = i]
  /\ arg' = [arg EXCEPT ![t] = n]
  /\ tried' = IF "once" \in Discipline THEN [tried EXCEPT ![t] = @ \union {n}] ELSE tried
  /\ Goto(t, "lk_check")
  /\ UNCHANGED <<fields, tableLock, mode>>

\* The tests of id and used, made with no lock held.
LockCheck(t) ==
  /\ pc[t] = "lk_check"
  /\ Goto(t, IF id[at[t]] = arg[t] /\ used[at[t]] = 1 THEN "lk_acquire" ELSE "idle")
  /\ UNCHANGED <<fields, tableLock, at, arg, history>>

\* Fault: the previous holder takes the mutex like any other thread.
CatchGreedy(t, i, w) ==
  /\ waitingThreads' = [waitingThreads EXCEPT ![i] = IF tid[i] # t THEN w - 1 ELSE w]
  /\ locked' = [locked EXCEPT ![i] = 1]
  /\ tid' = [tid EXCEPT ![i] = t]
  /\ SetMode(t, i, "owner")
  /\ Goto(t, "idle")

\* Fault: the counter is decremented after tid has been set to the caller.
CatchLateCount(t, i, w) ==
  LET takes == tid[i] # t \/ w = 0
  IN  /\ waitingThreads' = [waitingThreads EXCEPT ![i] = w]
      /\ locked' = [locked EXCEPT ![i] = IF takes THEN 1 ELSE 0]
      /\ tid' = [tid EXCEPT ![i] = IF takes THEN t ELSE @]
      /\ SetMode(t, i, IF takes THEN "owner" ELSE "bare")
      /\ Goto(t, "idle")

\* The end of lock, mutex->lock held, mutex i unlocked and waiting = w so far:
\* take the mutex unless the caller was the last to have it and others wait.
Catch(t, i, w) ==
  LET left == IF tid[i] # t THEN w - 1 ELSE w
      takes == tid[i] # t \/ left = 0
  IN  /\ waitingThreads' = [waitingThreads EXCEPT ![i] = left]
      /\ locked' = [locked EXCEPT ![i] = IF takes THEN 1 ELSE 0]
      /\ tid' = [tid EXCEPT ![i] = IF takes THEN t ELSE @]
      /\ SetMode(t, i, IF takes THEN "owner" ELSE "bare")
      /\ Goto(t, "idle")

\* Fault: lock does not look at locked before it takes the mutex.
LockAcquireFault(t) ==
  /\ pc[t] = "lk_acquire"
  /\ Catch(t, at[t], waitingThreads[at[t]] + (IF tid[at[t]] # t THEN 1 ELSE 0))
  /\ UNCHANGED <<id, used, tableLock, at, arg, tried>>

LockAcquire(t) ==
  /\ pc[t] = "lk_acquire"
  /\ LET i == at[t]
         w == waitingThreads[i] + (IF tid[i] # t THEN 1 ELSE 0)
     IN  \/ /\ locked[i] = 1
            /\ waitingThreads' = [waitingThreads EXCEPT ![i] = w]
            /\ Goto(t, "lk_sleep")
            /\ UNCHANGED <<locked, tid, mode>>
         \/ /\ locked[i] = 0
            /\ Catch(t, i, w)
  /\ UNCHANGED <<id, used, tableLock, at, arg, tried>>

\* Fault: if instead of while around the sleep.
LockRetryFault(t) ==
  /\ pc[t] = "lk_retry"
  /\ Catch(t, at[t], waitingThreads[at[t]])
  /\ UNCHANGED <<id, used, tableLock, at, arg, tried>>

\* sleep() returns to the while loop with mutex->lock held again.
LockRetry(t) ==
  /\ pc[t] = "lk_retry"
  /\ LET i == at[t] IN
       \/ /\ locked[i] = 1
          /\ Goto(t, "lk_sleep")
          /\ UNCHANGED <<locked, tid, waitingThreads, mode>>
       \/ /\ locked[i] = 0
          /\ Catch(t, i, waitingThreads[i])
  /\ UNCHANGED <<id, used, tableLock, at, arg, tried>>

-----------------------------------------------------------------------------
(* kthread_mutex_unlock *)

UnlockFind(t, n) ==
  /\ "unlock" \in Calls
  /\ pc[t] = "idle"
  /\ tableLock = NoTid
  /\ "balanced" \in Discipline => n \in Addr /\ mode[t][n] # "out"
  /\ \E i \in Addr : FoundAt(n, i) /\ at' = [at EXCEPT ![t] = i]
  /\ arg' = [arg EXCEPT ![t] = n]
  /\ Goto(t, "ul_check")
  /\ UNCHANGED <<fields, tableLock, history>>

\* The tests of id and of the recorded owner, made with no lock held.
UnlockCheck(t) ==
  /\ pc[t] = "ul_check"
  /\ \/ /\ id[at[t]] = arg[t]
        /\ tid[at[t]] = t
        /\ Goto(t, "ul_acquire")
        /\ UNCHANGED mode
     \/ /\ id[at[t]] # arg[t] \/ tid[at[t]] # t
        /\ Goto(t, "idle")
        /\ SetMode(t, at[t], "out")
  /\ UNCHANGED <<fields, tableLock, at, arg, tried>>

UnlockRelease(t) ==
  /\ pc[t] = "ul_acquire"
  /\ Goto(t, IF locked[at[t]] = 1 THEN "ul_wake" ELSE "idle")
  /\ locked' = [locked EXCEPT ![at[t]] = 0]
  /\ SetMode(t, at[t], "out")
  /\ UNCHANGED <<id, tid, used, waitingThreads, tableLock, at, arg, tried>>

\* Fault: only one of the sleepers is woken.
UnlockWakeupFault(t) ==
  /\ pc[t] = "ul_wake"
  /\ \/ \E u \in Thread :
          /\ pc[u] = "lk_sleep" /\ at[u] = at[t]
          /\ pc' = [pc EXCEPT ![u] = "lk_retry", ![t] = "idle"]
     \/ /\ \A u \in Thread : ~ (pc[u] = "lk_sleep" /\ at[u] = at[t])
        /\ Goto(t, "idle")
  /\ UNCHANGED <<fields, tableLock, at, arg, history>>

\* wakeup(&mutex->tid)
UnlockWakeup(t) ==
  /\ pc[t] = "ul_wake"
  /\ pc' = [u \in Thread |->
              IF u = t THEN "idle"
              ELSE IF pc[u] = "lk_sleep" /\ at[u] = at[t] THEN "lk_retry"
              ELSE pc[u]]
  /\ UNCHANGED <<fields, tableLock, at, arg, history>>

-----------------------------------------------------------------------------

\* What a thread does once it is inside a call.
Step(t) ==
  \/ DeallocClear(t)
  \/ LockCheck(t) \/ LockAcquire(t) \/ LockRetry(t)
  \/ UnlockCheck(t) \/ UnlockRelease(t) \/ UnlockWakeup(t)

Call(t) ==
  \/ Alloc(t)
  \/ \E n \in MutexId : DeallocCheck(t, n) \/ LockFind(t, n) \/ UnlockFind(t, n)

Next == \E t \in Thread : Step(t) \/ Call(t)

Spec == Init /\ [][Next]_vars

-----------------------------------------------------------------------------
(* Properties *)

InCS(t, m) ==
  /\ mode[t][m] # "out"
  /\ ~ (pc[t] \in {"ul_check", "ul_acquire", "ul_wake"} /\ at[t] = m)

Waiters(m) == {t \in Thread : pc[t] \in {"lk_sleep", "lk_retry"} /\ at[t] = m}

\* Between a lock that returned 0 and its unlock no other thread is between
\* lock and unlock of the same mutex: what a caller of kthread_mutex_lock
\* relies on.
MutualExclusion ==
  \A m \in Slot : \A t, u \in Thread : InCS(t, m) /\ InCS(u, m) => t = u

\* A thread that took a mutex stays the recorded holder until its own unlock
\* clears locked: neither another thread's unlock, whose test of tid is made
\* before it holds mutex->lock, nor deallocate takes the mutex from it.
OwnerIntact ==
  \A m \in Slot, t \in Thread : mode[t][m] = "owner" => locked[m] = 1 /\ tid[m] = t

\* waitingThreads counts exactly the threads inside the while loop of lock,
\* although the increment and the decrement are made in different sections and
\* each tests tid again.
WaitingExact ==
  \A m \in Slot : waitingThreads[m] = Cardinality(Waiters(m))

\* No lost wakeup: a thread asleep on a mutex that is free is going to be
\* woken by an unlock that has cleared locked and not yet called wakeup.
NoLostWakeup ==
  \A m \in Slot, t \in Thread :
    pc[t] = "lk_sleep" /\ at[t] = m /\ locked[m] = 0
      => \E u \in Thread : pc[u] = "ul_wake" /\ at[u] = m

\* The last holder of a mutex never takes it again over the head of a thread
\* that waits for it (the test at the end of kthread_mutex_lock).
NoOvertaking ==
  [][\A m \in Slot, t \in Thread :
       locked[m] = 0 /\ locked'[m] = 1 /\ tid[m] = t /\ tid'[m] = t
         => Waiters(m) \subseteq {t}]_vars

=============================================================================
