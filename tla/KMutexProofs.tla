---------------------------- MODULE KMutexProofs ----------------------------
(***************************************************************************)
(* Theorems about KMutex, for any number of threads and mutexes: the       *)
(* types, the scans of the table, deallocation, the wakeup, mutual         *)
(* exclusion and the count of waiting threads.                             *)
(***************************************************************************)
EXTENDS KMutex, FiniteSetTheorems, TLAPS

\* The slots of the table are among the addresses a scan may return.
LEMMA SlotAddr == Slot \subseteq Addr
BY MutexAssumption DEF Slot, Addr

\* The table as the kernel starts is well typed.
LEMMA TypeInit == Init => TypeOK
BY MutexAssumption DEF Init, TypeOK, Addr, Slot, PC, Mode

\* The end of lock keeps the types.
LEMMA CatchType ==
  ASSUME TypeOK, NEW t \in Thread, NEW i \in Addr, NEW w \in Int, Catch(t, i, w)
  PROVE  /\ locked' \in [Addr -> {0, 1}]
         /\ tid' \in [Addr -> Thread \union {NoTid}]
         /\ waitingThreads' \in [Addr -> Int]
         /\ pc' \in [Thread -> PC]
         /\ mode' \in [Thread -> [Addr -> Mode]]
<1>1. mode' \in [Thread -> [Addr -> Mode]]
  BY Zenon DEF Catch, SetMode, TypeOK, Mode
<1>2. pc' \in [Thread -> PC]
  BY Zenon DEF Catch, Goto, TypeOK, PC
<1> QED
  BY <1>1, <1>2 DEF Catch, TypeOK

\* Every step of the four mutex calls keeps the types.
LEMMA TypeStep == TypeOK /\ [Next]_vars => TypeOK'
<1> SUFFICES ASSUME TypeOK, [Next]_vars PROVE TypeOK'
  BY Zenon
<1> USE MutexAssumption DEF TypeOK, PC, Mode, Goto, SetMode, fields, local, history
<1>1. CASE UNCHANGED vars
  BY Zenon, <1>1 DEF vars
<1>2. ASSUME NEW t \in Thread, Alloc(t) PROVE TypeOK'
  BY <1>2, SMTT(30) DEF Alloc, Addr, Slot
<1>3. ASSUME NEW t \in Thread, NEW n \in MutexId, DeallocCheck(t, n) PROVE TypeOK'
  BY <1>3 DEF DeallocCheck, Addr, Slot
<1>4. ASSUME NEW t \in Thread, NEW n \in MutexId, LockFind(t, n) PROVE TypeOK'
  <2>1. tried' \in [Thread -> SUBSET Int]
    BY Zenon, <1>4, n \in Int DEF LockFind
  <2> QED
    BY <1>4, <2>1 DEF LockFind
<1>5. ASSUME NEW t \in Thread, NEW n \in MutexId, UnlockFind(t, n) PROVE TypeOK'
  BY <1>5 DEF UnlockFind
<1>6. ASSUME NEW t \in Thread, DeallocClear(t) PROVE TypeOK'
  BY <1>6 DEF DeallocClear
<1>7. ASSUME NEW t \in Thread, LockCheck(t) PROVE TypeOK'
  BY Zenon, <1>7 DEF LockCheck
<1>8. ASSUME NEW t \in Thread, LockAcquire(t) PROVE TypeOK'
  <2>1. CASE locked[at[t]] = 1
    <3>1. /\ waitingThreads' = [waitingThreads EXCEPT ![at[t]]
                                  = @ + (IF tid[at[t]] # t THEN 1 ELSE 0)]
          /\ Goto(t, "lk_sleep")
          /\ UNCHANGED <<locked, tid, mode>>
      BY <1>8, <2>1 DEF LockAcquire
    <3> QED
      BY <1>8, <3>1 DEF LockAcquire
  <2>2. CASE locked[at[t]] = 0
    <3>1. Catch(t, at[t], waitingThreads[at[t]] + (IF tid[at[t]] # t THEN 1 ELSE 0))
      BY <1>8, <2>2 DEF LockAcquire
    <3> QED
      BY <1>8, <3>1, CatchType DEF LockAcquire
  <2> QED
    BY Zenon, <2>1, <2>2
<1>9. ASSUME NEW t \in Thread, LockRetry(t) PROVE TypeOK'
  <2>1. CASE locked[at[t]] = 1
    <3>1. Goto(t, "lk_sleep") /\ UNCHANGED <<locked, tid, waitingThreads, mode>>
      BY <1>9, <2>1 DEF LockRetry
    <3> QED
      BY Zenon, <1>9, <3>1 DEF LockRetry
  <2>2. CASE locked[at[t]] = 0
    <3>1. Catch(t, at[t], waitingThreads[at[t]])
      BY <1>9, <2>2 DEF LockRetry
    <3> QED
      BY Zenon, <1>9, <3>1, CatchType DEF LockRetry
  <2> QED
    BY Zenon, <2>1, <2>2
<1>10. ASSUME NEW t \in Thread, UnlockCheck(t) PROVE TypeOK'
  <2>1. CASE UNCHANGED mode
    BY Zenon, <1>10, <2>1 DEF UnlockCheck
  <2>2. CASE SetMode(t, at[t], "out")
    BY Zenon, <1>10, <2>2 DEF UnlockCheck
  <2> QED
    BY Zenon, <1>10, <2>1, <2>2 DEF UnlockCheck
<1>11. ASSUME NEW t \in Thread, UnlockRelease(t) PROVE TypeOK'
  BY Zenon, <1>11 DEF UnlockRelease
<1>12. ASSUME NEW t \in Thread, UnlockWakeup(t) PROVE TypeOK'
  BY Zenon, <1>12 DEF UnlockWakeup
<1> QED
  BY Zenon, <1>1, <1>2, <1>3, <1>4, <1>5, <1>6, <1>7, <1>8, <1>9, <1>10, <1>11, <1>12
  DEF Next, Step, Call

\* Every variable of the mutex system calls keeps its type, for any number of
\* threads and mutexes and whatever the programs call.
THEOREM TypeCorrect == Spec => []TypeOK
BY TypeInit, TypeStep, PTL DEF Spec

-----------------------------------------------------------------------------
(* What every invariant below rests on: the scans, and deallocation. *)

LockPc == {"lk_check", "lk_acquire", "lk_sleep", "lk_retry"}
UnlockPc == {"ul_check", "ul_acquire", "ul_wake"}

\* A mutex that is in use has its own index as id; a free one has 0.
IdInv == \A i \in Slot : id[i] = i \/ (id[i] = 0 /\ used[i] = 0)

\* The scan stopped at the mutex that was asked for, or past the table.
ArgInv ==
  \A t \in Thread : pc[t] \in LockPc \union UnlockPc /\ at[t] \in Slot => arg[t] = at[t]

\* While a mutex is being deallocated no thread is in it or in a call on it.
DeallocInv ==
  \A t \in Thread : pc[t] = "de_clear" =>
    /\ tableLock = t
    /\ at[t] \in Slot
    /\ \A u \in Thread : mode[u][at[t]] = "out"
    /\ \A u \in Thread : pc[u] \in LockPc \union UnlockPc => at[u] # at[t]

\* A mutex that a thread is in, or waits for, is in use.
UsedInv ==
  /\ \A t \in Thread : pc[t] \in LockPc \ {"lk_check"} /\ at[t] \in Slot => used[at[t]] = 1
  /\ \A t \in Thread, m \in Slot : mode[t][m] # "out" => used[m] = 1

Base == TypeOK /\ IdInv /\ ArgInv /\ DeallocInv /\ UsedInv

\* The scans of mutex.c find a mutex at the slot its id names, although free
\* slots have id 0, which is also the id of slot 0.
LEMMA FoundIsId ==
  ASSUME TypeOK, IdInv, NEW n, NEW i \in Slot, FoundAt(n, i)
  PROVE  i = n
<1>1. 0 \in Slot /\ id[0] = 0
  BY MutexAssumption DEF Slot, IdInv
<1>2. id[i] = n /\ \A j \in 0 .. i - 1 : id[j] # n
  BY Zenon DEF FoundAt
<1>3. CASE id[i] = 0
  <2>1. i # 0 => 0 \in 0 .. i - 1
    BY MutexAssumption DEF Slot
  <2> QED
    BY Zenon, <1>1, <1>2, <1>3, <2>1
<1> QED
  BY Zenon, <1>2, <1>3 DEF IdInv

\* The facts about scans and deallocation hold of the empty table.
LEMMA BaseInit == Init => Base
<1> SUFFICES ASSUME Init PROVE Base
  BY Zenon
<1>1. TypeOK
  BY Zenon, TypeInit
<1> QED
  BY Zenon, <1>1, SlotAddr DEF Init, Base, IdInv, ArgInv, DeallocInv, UsedInv, LockPc, UnlockPc

\* What SetMode does, point by point.
LEMMA ModeAt ==
  ASSUME TypeOK, NEW t \in Thread, NEW i \in Addr, NEW v, SetMode(t, i, v)
  PROVE  \A u \in Thread, m \in Addr :
           mode'[u][m] = IF u = t /\ m = i THEN v ELSE mode[u][m]
BY Zenon DEF TypeOK, SetMode

\* A section of lock sends the thread to sleep, or it finds the mutex free and
\* returns 0, without the mutex only to the thread that had it last.
LEMMA LockSection ==
  ASSUME TypeOK, NEW t \in Thread, LockAcquire(t) \/ LockRetry(t)
  PROVE  /\ pc[t] \in {"lk_acquire", "lk_retry"}
         /\ UNCHANGED <<id, used, tableLock, at, arg, tried>>
         /\ \/ /\ locked[at[t]] = 1
               /\ pc' = [pc EXCEPT ![t] = "lk_sleep"]
               /\ UNCHANGED <<locked, tid, mode>>
            \/ /\ locked[at[t]] = 0
               /\ pc' = [pc EXCEPT ![t] = "idle"]
               /\ \/ /\ tid[at[t]] = t
                     /\ SetMode(t, at[t], "bare")
                     /\ UNCHANGED <<locked, tid>>
                  \/ /\ SetMode(t, at[t], "owner")
                     /\ locked' = [locked EXCEPT ![at[t]] = 1]
                     /\ tid' = [tid EXCEPT ![at[t]] = t]
<1> DEFINE w == IF pc[t] = "lk_acquire"
                THEN waitingThreads[at[t]] + (IF tid[at[t]] # t THEN 1 ELSE 0)
                ELSE waitingThreads[at[t]]
<1>1. /\ pc[t] \in {"lk_acquire", "lk_retry"}
      /\ UNCHANGED <<id, used, tableLock, at, arg, tried>>
  BY Zenon DEF LockAcquire, LockRetry
<1>2. \/ /\ locked[at[t]] = 1
         /\ Goto(t, "lk_sleep")
         /\ UNCHANGED <<locked, tid, mode>>
      \/ locked[at[t]] = 0 /\ Catch(t, at[t], w)
  BY Zenon DEF LockAcquire, LockRetry
<1>3. ASSUME locked[at[t]] = 0, Catch(t, at[t], w)
      PROVE  \/ /\ tid[at[t]] = t
                /\ SetMode(t, at[t], "bare")
                /\ UNCHANGED <<locked, tid>>
             \/ /\ SetMode(t, at[t], "owner")
                /\ locked' = [locked EXCEPT ![at[t]] = 1]
                /\ tid' = [tid EXCEPT ![at[t]] = t]
  <2> HIDE DEF w
  <2>1. CASE tid[at[t]] # t \/ w = 0
    <3>1. locked' = [locked EXCEPT ![at[t]] = 1] /\ tid' = [tid EXCEPT ![at[t]] = t]
      BY Zenon, <1>3, <2>1 DEF Catch
    <3>2. SetMode(t, at[t], "owner")
      BY Zenon, <1>3, <2>1 DEF Catch
    <3> QED
      BY Zenon, <3>1, <3>2
  <2>2. CASE tid[at[t]] = t /\ w # 0
    <3>1. UNCHANGED <<locked, tid>>
      BY Zenon, <1>3, <2>2 DEF Catch, TypeOK
    <3>2. SetMode(t, at[t], "bare")
      BY Zenon, <1>3, <2>2 DEF Catch
    <3> QED
      BY Zenon, <2>2, <3>1, <3>2
  <2> QED
    BY Zenon, <2>1, <2>2
<1>4. locked[at[t]] = 0 /\ Catch(t, at[t], w) => pc' = [pc EXCEPT ![t] = "idle"]
  BY Zenon DEF Catch, Goto
<1> QED
  BY Zenon, <1>1, <1>2, <1>3, <1>4 DEF Goto

\* A section of kthread_mutex_lock keeps the facts about scans and deallocation.
LEMMA LockBase ==
  ASSUME Base, TypeOK', NEW t \in Thread, LockAcquire(t) \/ LockRetry(t)
  PROVE  Base'
<1> USE SlotAddr DEF LockPc, UnlockPc
<1>1. TypeOK
  BY Zenon DEF Base
<1>2. /\ pc[t] \in {"lk_acquire", "lk_retry"}
      /\ UNCHANGED <<id, used, tableLock, at, arg>>
      /\ pc' = [pc EXCEPT ![t] = "lk_sleep"] \/ pc' = [pc EXCEPT ![t] = "idle"]
  BY Zenon, <1>1, LockSection
<1>3. \A u \in Thread, m \in Addr : mode'[u][m] = mode[u][m] \/ (u = t /\ m = at[t])
  BY <1>1, LockSection, ModeAt, SMTT(30) DEF TypeOK
<1>4. IdInv' /\ ArgInv'
  BY Zenon, <1>1, <1>2 DEF Base, IdInv, ArgInv, TypeOK
<1>5. DeallocInv'
  BY <1>1, <1>2, <1>3 DEF Base, DeallocInv, TypeOK
<1>6. UsedInv'
  <2>1. at[t] \in Slot => used[at[t]] = 1
    BY Zenon, <1>2 DEF Base, UsedInv
  <2>2. \A u \in Thread : pc'[u] \in LockPc \ {"lk_check"} /\ at'[u] \in Slot => used'[at'[u]] = 1
    BY ZenonT(30), <1>1, <1>2 DEF Base, UsedInv, TypeOK
  <2>3. \A u \in Thread, m \in Slot : mode'[u][m] # "out" => used'[m] = 1
    BY <1>2, <1>3, <2>1 DEF Base, UsedInv
  <2> QED
    BY Zenon, <2>2, <2>3 DEF UsedInv
<1> QED
  BY Zenon, <1>4, <1>5, <1>6 DEF Base

\* Every step keeps them, when only mutexes that nobody uses are deallocated.
LEMMA BaseStep ==
  ASSUME "quiescent" \in Discipline, Base, [Next]_vars
  PROVE  Base'
<1>0. TypeOK /\ TypeOK'
  BY Zenon, TypeStep DEF Base
<1> USE <1>0, MutexAssumption, SlotAddr
    DEF IdInv, ArgInv, DeallocInv, UsedInv, LockPc, UnlockPc, fields, local, history, Goto, SetMode
<1>1. CASE UNCHANGED vars
  BY <1>1 DEF vars, Base
<1>2. ASSUME NEW t \in Thread, Alloc(t) PROVE Base'
  BY <1>2 DEF Alloc, Base, TypeOK, FirstFree
<1>3. ASSUME NEW t \in Thread, NEW n \in MutexId, DeallocCheck(t, n) PROVE Base'
  <2> PICK i \in Slot : FoundAt(n, i) /\ at' = [at EXCEPT ![t] = i]
    BY Zenon, <1>3 DEF DeallocCheck
  <2>1. i = n
    BY Zenon, FoundIsId DEF Base
  <2> QED
    BY <1>3, <2>1 DEF DeallocCheck, Base, TypeOK, Unused
<1>4. ASSUME NEW t \in Thread, NEW n \in MutexId, LockFind(t, n) PROVE Base'
  <2> PICK i \in Addr : FoundAt(n, i) /\ at' = [at EXCEPT ![t] = i]
    BY Zenon, <1>4 DEF LockFind
  <2>1. i \in Slot => i = n
    BY Zenon, FoundIsId DEF Base
  <2> QED
    BY <1>4, <2>1, SMTT(30) DEF LockFind, Base, TypeOK
<1>5. ASSUME NEW t \in Thread, NEW n \in MutexId, UnlockFind(t, n) PROVE Base'
  <2> PICK i \in Addr : FoundAt(n, i) /\ at' = [at EXCEPT ![t] = i]
    BY Zenon, <1>5 DEF UnlockFind
  <2>1. i \in Slot => i = n
    BY Zenon, FoundIsId DEF Base
  <2> QED
    BY <1>5, <2>1, SMTT(30) DEF UnlockFind, Base, TypeOK
<1>6. ASSUME NEW t \in Thread, DeallocClear(t) PROVE Base'
  BY SMTT(30), <1>6 DEF DeallocClear, Base, TypeOK
<1>7. ASSUME NEW t \in Thread, LockCheck(t) PROVE Base'
  BY <1>7 DEF LockCheck, Base, TypeOK
<1>8. ASSUME NEW t \in Thread, LockAcquire(t) PROVE Base'
  BY Zenon, <1>8, LockBase DEF Base
<1>9. ASSUME NEW t \in Thread, LockRetry(t) PROVE Base'
  BY Zenon, <1>9, LockBase DEF Base
<1>10. ASSUME NEW t \in Thread, UnlockCheck(t) PROVE Base'
  <2>1. /\ pc' = [pc EXCEPT ![t] = "ul_acquire"] \/ pc' = [pc EXCEPT ![t] = "idle"]
        /\ pc[t] = "ul_check"
        /\ UNCHANGED <<id, used, tableLock, at, arg>>
        /\ UNCHANGED mode \/ SetMode(t, at[t], "out")
    BY Zenon, <1>10 DEF UnlockCheck
  <2> HIDE DEF SetMode
  <2>2. \A u \in Thread, m \in Addr : mode'[u][m] \in {mode[u][m], "out"}
    BY <2>1, ModeAt DEF TypeOK
  <2> QED
    BY SMTT(30), <2>1, <2>2 DEF Base, TypeOK
<1>11. ASSUME NEW t \in Thread, UnlockRelease(t) PROVE Base'
  BY <1>11, SMTT(30) DEF UnlockRelease, Base, TypeOK
<1>12. ASSUME NEW t \in Thread, UnlockWakeup(t) PROVE Base'
  BY <1>12 DEF UnlockWakeup, Base, TypeOK
<1> QED
  BY Zenon, <1>1, <1>2, <1>3, <1>4, <1>5, <1>6, <1>7, <1>8, <1>9, <1>10, <1>11, <1>12
  DEF Next, Step, Call

-----------------------------------------------------------------------------
(* No lost wakeup *)

\* kthread_mutex_alloc takes a free slot: no thread is in its mutex or waits
\* for it, and the other mutexes stay as they are.
LEMMA AllocSlot ==
  ASSUME Base, NEW t \in Thread, Alloc(t)
  PROVE  /\ UNCHANGED <<pc, at, arg, mode, tried>>
         /\ \E i \in Slot :
              /\ used[i] = 0 /\ locked'[i] = 0 /\ tid'[i] = NoTid
              /\ \A m \in Slot \ {i} : locked'[m] = locked[m] /\ tid'[m] = tid[m]
<1>1. locked \in [Addr -> {0, 1}] /\ tid \in [Addr -> Thread \union {NoTid}]
  BY Zenon DEF Base, TypeOK
<1>2. PICK i \in Slot : /\ FirstFree(i)
                       /\ locked' = [locked EXCEPT ![i] = 0]
                       /\ tid' = [tid EXCEPT ![i] = NoTid]
  BY Zenon DEF Alloc
<1>3. \A m \in Slot \ {i} : locked'[m] = locked[m] /\ tid'[m] = tid[m]
  BY Zenon, <1>1, <1>2, SlotAddr
<1>4. used[i] = 0 /\ locked'[i] = 0 /\ tid'[i] = NoTid
  BY Zenon, <1>1, <1>2, SlotAddr DEF FirstFree
<1> QED
  BY Zenon, <1>3, <1>4 DEF Alloc, local, history

\* kthread_mutex_dealloc resets the slot its scan found, and no other.
LEMMA ClearSlot ==
  ASSUME Base, NEW t \in Thread, DeallocClear(t)
  PROVE  /\ UNCHANGED <<at, arg, mode, tried>>
         /\ pc[t] = "de_clear" /\ pc'[t] = "idle"
         /\ \A u \in Thread \ {t} : pc'[u] = pc[u]
         /\ locked'[at[t]] = 0 /\ tid'[at[t]] = NoTid
         /\ \A m \in Slot \ {at[t]} : locked'[m] = locked[m] /\ tid'[m] = tid[m]
<1>1. /\ locked \in [Addr -> {0, 1}] /\ tid \in [Addr -> Thread \union {NoTid}]
      /\ pc \in [Thread -> PC] /\ at[t] \in Addr
  BY Zenon DEF Base, TypeOK
<1> QED
  BY Zenon, <1>1, SlotAddr DEF DeallocClear, Goto, history

\* No step of lock, unlock or dealloc leaves a sleeper behind on a free mutex.
LEMMA WakeupStep ==
  ASSUME Base, NoLostWakeup, [Next]_vars
  PROVE  NoLostWakeup'
<1>0. TypeOK
  BY Zenon DEF Base
<1> USE <1>0, MutexAssumption, SlotAddr DEF NoLostWakeup, TypeOK, fields, local, history, Goto
<1>1. CASE UNCHANGED vars
  BY Zenon, <1>1 DEF vars
<1>2. ASSUME NEW t \in Thread, Alloc(t) PROVE NoLostWakeup'
  <2> HIDE <1>0 DEF TypeOK
  <2> QED
    BY <1>2, AllocSlot DEF Base, UsedInv, LockPc
<1>3. ASSUME NEW t \in Thread, NEW n \in MutexId, DeallocCheck(t, n) PROVE NoLostWakeup'
  BY <1>3 DEF DeallocCheck
<1>4. ASSUME NEW t \in Thread, NEW n \in MutexId, LockFind(t, n) PROVE NoLostWakeup'
  BY <1>4 DEF LockFind
<1>5. ASSUME NEW t \in Thread, NEW n \in MutexId, UnlockFind(t, n) PROVE NoLostWakeup'
  BY <1>5 DEF UnlockFind
<1>6. ASSUME NEW t \in Thread, DeallocClear(t) PROVE NoLostWakeup'
  <2> HIDE <1>0 DEF TypeOK
  <2> QED
    BY <1>6, ClearSlot DEF Base, DeallocInv, LockPc
<1>7. ASSUME NEW t \in Thread, LockCheck(t) PROVE NoLostWakeup'
  BY <1>7 DEF LockCheck
<1>8. ASSUME NEW t \in Thread, LockAcquire(t) \/ LockRetry(t) PROVE NoLostWakeup'
  <2>1. /\ pc[t] \in {"lk_acquire", "lk_retry"}
        /\ at' = at
        /\ \/ locked[at[t]] = 1 /\ pc' = [pc EXCEPT ![t] = "lk_sleep"] /\ locked' = locked
           \/ /\ pc' = [pc EXCEPT ![t] = "idle"]
              /\ locked' = locked \/ locked' = [locked EXCEPT ![at[t]] = 1]
    BY Zenon, <1>8, LockSection
  <2> QED
    BY <2>1
<1>9. ASSUME NEW t \in Thread, UnlockCheck(t) PROVE NoLostWakeup'
  <2>1. /\ pc[t] = "ul_check"
        /\ UNCHANGED <<at, locked>>
        /\ pc' = [pc EXCEPT ![t] = "ul_acquire"] \/ pc' = [pc EXCEPT ![t] = "idle"]
    BY Zenon, <1>9 DEF UnlockCheck
  <2> QED
    BY <2>1
<1>10. ASSUME NEW t \in Thread, UnlockRelease(t) PROVE NoLostWakeup'
  <2> SUFFICES ASSUME NEW m \in Slot, NEW u \in Thread,
                      pc'[u] = "lk_sleep", at'[u] = m, locked'[m] = 0
               PROVE  \E v \in Thread : pc'[v] = "ul_wake" /\ at'[v] = m
    BY Zenon
  <2>1. pc[u] = "lk_sleep" /\ at[u] = m
    BY <1>10 DEF UnlockRelease
  <2>2. CASE locked[m] = 0
    <3> PICK v \in Thread : pc[v] = "ul_wake" /\ at[v] = m
      BY Zenon, <2>1, <2>2
    <3> QED
      BY <1>10 DEF UnlockRelease
  <2>3. CASE locked[m] # 0
    <3>1. at[t] = m /\ pc'[t] = "ul_wake" /\ at'[t] = m
      BY <1>10, <2>3 DEF UnlockRelease
    <3> QED
      BY Zenon, <3>1
  <2> QED
    BY Zenon, <2>2, <2>3
<1>11. ASSUME NEW t \in Thread, UnlockWakeup(t) PROVE NoLostWakeup'
  <2> SUFFICES ASSUME NEW m \in Slot, NEW u \in Thread,
                      pc'[u] = "lk_sleep", at'[u] = m, locked'[m] = 0
               PROVE  \E v \in Thread : pc'[v] = "ul_wake" /\ at'[v] = m
    BY Zenon
  <2>1. pc[u] = "lk_sleep" /\ at[u] = m /\ at[t] # m /\ locked[m] = 0
    BY Zenon, <1>11 DEF UnlockWakeup
  <2> PICK v \in Thread : pc[v] = "ul_wake" /\ at[v] = m
    BY Zenon, <2>1
  <2> QED
    BY Zenon, <1>11, <2>1 DEF UnlockWakeup
<1> QED
  BY Zenon, <1>1, <1>2, <1>3, <1>4, <1>5, <1>6, <1>7, <1>8, <1>9, <1>10, <1>11
  DEF Next, Step, Call

\* When mutexes are deallocated only once nobody uses them, a thread asleep in
\* kthread_mutex_lock on a free mutex is always about to be woken, although
\* kthread_mutex_unlock calls wakeup after it has released mutex->lock.
THEOREM NoWakeupIsLost ==
  ASSUME "quiescent" \in Discipline
  PROVE  Spec => []NoLostWakeup
<1>1. Init => Base /\ NoLostWakeup
  BY Zenon, BaseInit DEF Init, NoLostWakeup
<1>2. Base /\ NoLostWakeup /\ [Next]_vars => Base' /\ NoLostWakeup'
  BY Zenon, BaseStep, WakeupStep
<1> QED
  BY <1>1, <1>2, PTL DEF Spec

\* The sections of kthread_mutex_unlock before the wakeup leave the caller
\* outside lock, take no mutex and change nothing of other threads.
LEMMA UnlockSection ==
  ASSUME TypeOK, NEW t \in Thread, UnlockCheck(t) \/ UnlockRelease(t)
  PROVE  /\ UNCHANGED <<at, arg, tried, tid>>
         /\ pc[t] \in {"ul_check", "ul_acquire"}
         /\ \A u \in Thread : u # t => pc'[u] = pc[u]
         /\ pc'[t] \in {"ul_acquire", "ul_wake", "idle"}
         /\ pc'[t] = "ul_acquire" => mode' = mode
         /\ \A u \in Thread, m \in Addr :
              \/ mode'[u][m] = mode[u][m]
              \/ u = t /\ m = at[t] /\ mode'[u][m] = "out"
         /\ \A m \in Addr :
              \/ locked'[m] = locked[m]
              \/ m = at[t] /\ locked'[m] = 0 /\ mode'[t][m] = "out"
<1>1. at[t] \in Addr
  BY Zenon DEF TypeOK
<1>2. UNCHANGED <<at, arg, tried, tid>> /\ pc[t] \in {"ul_check", "ul_acquire"}
  BY Zenon DEF UnlockCheck, UnlockRelease, fields
<1>3. \E l \in {"ul_acquire", "ul_wake", "idle"} :
        pc' = [pc EXCEPT ![t] = l] /\ (l = "ul_acquire" => mode' = mode)
  BY Zenon DEF UnlockCheck, UnlockRelease, Goto
<1>4. /\ \A u \in Thread : u # t => pc'[u] = pc[u]
      /\ pc'[t] \in {"ul_acquire", "ul_wake", "idle"}
      /\ pc'[t] = "ul_acquire" => mode' = mode
  BY Zenon, <1>3 DEF TypeOK
<1>5. mode' = mode \/ SetMode(t, at[t], "out")
  BY Zenon DEF UnlockCheck, UnlockRelease
<1>6. \A u \in Thread, m \in Addr :
        \/ mode'[u][m] = mode[u][m]
        \/ u = t /\ m = at[t] /\ mode'[u][m] = "out"
  <2>1. CASE mode' = mode
    BY Zenon, <2>1
  <2>2. CASE SetMode(t, at[t], "out")
    BY <1>1, <2>2, ModeAt
  <2> QED
    BY Zenon, <1>5, <2>1, <2>2
<1>7. \/ locked' = locked
      \/ locked' = [locked EXCEPT ![at[t]] = 0] /\ SetMode(t, at[t], "out")
  BY Zenon DEF UnlockCheck, UnlockRelease, fields
<1>8. \A m \in Addr :
        \/ locked'[m] = locked[m]
        \/ m = at[t] /\ locked'[m] = 0 /\ mode'[t][m] = "out"
  <2>1. CASE locked' = locked
    BY Zenon, <2>1
  <2>2. CASE locked' = [locked EXCEPT ![at[t]] = 0] /\ SetMode(t, at[t], "out")
    <3>0. SetMode(t, at[t], "out")
      BY Zenon, <2>2
    <3>1. mode'[t][at[t]] = "out"
      BY Zenon, <1>1, <3>0 DEF SetMode, TypeOK
    <3> QED
      BY Zenon, <1>1, <2>2, <3>1 DEF TypeOK
  <2> QED
    BY Zenon, <1>7, <2>1, <2>2
<1> QED
  BY Zenon, <1>2, <1>4, <1>6, <1>8

-----------------------------------------------------------------------------
\* A thread that a mutex names as its holder has locked it, and is not
\* locking it now.
FreshInv ==
  /\ \A t \in Thread : pc[t] \in LockPc => arg[t] \in tried[t]
  /\ \A t \in Thread, m \in Slot :
       tid[m] = t => m \in tried[t] /\ ~ (pc[t] \in LockPc /\ at[t] = m)

\* lock never returns 0 without the mutex, and only the holder unlocks.
HoldInv ==
  /\ \A t \in Thread, m \in Slot : mode[t][m] # "bare"
  /\ \A t \in Thread : pc[t] \in {"ul_check", "ul_acquire"} /\ at[t] \in Slot
                         => mode[t][at[t]] = "owner"

Exclusive == FreshInv /\ HoldInv /\ OwnerIntact

\* At the start no thread has a mutex.
LEMMA ExclusiveInit == Init => Exclusive
<1> SUFFICES ASSUME Init PROVE Exclusive
  BY Zenon
<1> QED
  BY Zenon, SlotAddr, MutexAssumption DEF Init, Exclusive, FreshInv, HoldInv, OwnerIntact, LockPc

\* A section of kthread_mutex_lock gives a mutex only to a thread that finds it free.
LEMMA LockExclusive ==
  ASSUME Base, Base', Exclusive, NEW t \in Thread, LockAcquire(t) \/ LockRetry(t)
  PROVE  Exclusive'
<1> USE SlotAddr DEF LockPc
<1>1. TypeOK
  BY Zenon DEF Base
<1>2. CASE UNCHANGED <<locked, tid, mode>>
  BY <1>1, <1>2, LockSection DEF Exclusive, FreshInv, HoldInv, OwnerIntact, TypeOK
<1>3. CASE /\ locked[at[t]] = 0
           /\ tid[at[t]] = t
           /\ SetMode(t, at[t], "bare")
           /\ UNCHANGED <<locked, tid>>
  <2>1. at[t] \notin Slot
    BY ZenonT(30), <1>1, <1>3, LockSection DEF Exclusive, FreshInv
  <2>2. \A u \in Thread, m \in Slot : mode'[u][m] = mode[u][m]
    BY <1>1, <1>3, <2>1, ModeAt DEF TypeOK
  <2>3. FreshInv'
    BY <1>1, <1>3, LockSection DEF Exclusive, FreshInv, TypeOK
  <2>4. HoldInv'
    BY <1>1, <2>2, LockSection DEF Exclusive, HoldInv, TypeOK
  <2>5. OwnerIntact'
    BY <1>1, <1>3, <2>2 DEF Exclusive, OwnerIntact, TypeOK
  <2> QED
    BY Zenon, <2>3, <2>4, <2>5 DEF Exclusive
<1>4. CASE /\ locked[at[t]] = 0
           /\ SetMode(t, at[t], "owner")
           /\ locked' = [locked EXCEPT ![at[t]] = 1]
           /\ tid' = [tid EXCEPT ![at[t]] = t]
  <2>1. \A u \in Thread, m \in Addr :
          mode'[u][m] = IF u = t /\ m = at[t] THEN "owner" ELSE mode[u][m]
    BY <1>1, <1>4, ModeAt DEF TypeOK
  <2>2. at[t] \in Slot => at[t] \in tried[t]
    BY Zenon, <1>1, LockSection DEF Base, ArgInv, Exclusive, FreshInv
  <2>0. /\ pc[t] \in {"lk_acquire", "lk_retry"}
        /\ pc' = [pc EXCEPT ![t] = "idle"]
        /\ UNCHANGED <<at, arg, tried>>
    BY <1>1, <1>4, LockSection
  <2>3. FreshInv'
    BY Zenon, <1>1, <1>4, <2>0, <2>2 DEF Exclusive, FreshInv, TypeOK
  <2>4. HoldInv'
    <3>1. \A u \in Thread, m \in Slot : mode'[u][m] # "bare"
      BY <1>1, <2>0, <2>1 DEF Exclusive, HoldInv
    <3>2. \A u \in Thread : pc'[u] \in {"ul_check", "ul_acquire"} /\ at'[u] \in Slot
                         => u # t /\ pc[u] \in {"ul_check", "ul_acquire"} /\ at'[u] = at[u]
      BY Zenon, <1>1, <2>0, <2>1 DEF TypeOK
    <3> QED
      BY <3>1, <3>2, <1>1, <2>0, <2>1 DEF Exclusive, HoldInv
  <2>5. OwnerIntact'
    BY <1>1, <1>4, <2>1 DEF Exclusive, OwnerIntact, TypeOK
  <2> QED
    BY Zenon, <2>3, <2>4, <2>5 DEF Exclusive
<1> QED
  BY Zenon, <1>1, <1>2, <1>3, <1>4, LockSection

\* A section of kthread_mutex_unlock takes no mutex away from its holder.
LEMMA UnlockExclusive ==
  ASSUME Base, Exclusive, NEW t \in Thread, UnlockCheck(t) \/ UnlockRelease(t)
  PROVE  Exclusive'
<1>0. TypeOK
  BY Zenon DEF Base
<1>1. \A u \in Thread, m \in Slot :
        \/ mode'[u][m] = mode[u][m]
        \/ u = t /\ m = at[t] /\ mode'[u][m] = "out"
  BY <1>0, SlotAddr, UnlockSection
<1>2. /\ UNCHANGED <<at, arg, tried, tid>>
      /\ pc[t] \in {"ul_check", "ul_acquire"}
      /\ \A u \in Thread : u # t => pc'[u] = pc[u]
      /\ pc'[t] \in {"ul_acquire", "ul_wake", "idle"}
      /\ pc'[t] = "ul_acquire" => mode' = mode
  BY Zenon, <1>0, UnlockSection
<1>3. FreshInv'
  BY Zenon, <1>2 DEF Exclusive, FreshInv, LockPc
<1>4. HoldInv'
  <2>1. \A u \in Thread, m \in Slot : mode'[u][m] # "bare"
    BY <1>1 DEF Exclusive, HoldInv
  <2>2. ASSUME NEW u \in Thread, pc'[u] \in {"ul_check", "ul_acquire"}, at'[u] \in Slot
        PROVE  mode'[u][at'[u]] = "owner"
    <3>1. pc[u] \in {"ul_check", "ul_acquire"} /\ at'[u] = at[u]
      BY Zenon, <1>2, <2>2
    <3>2. mode[u][at[u]] = "owner"
      BY Zenon, <2>2, <3>1 DEF Exclusive, HoldInv
    <3> QED
      BY Zenon, <1>1, <1>2, <2>2, <3>1, <3>2
  <2> QED
    BY Zenon, <2>1, <2>2 DEF HoldInv
<1>5. OwnerIntact'
  <2> SUFFICES ASSUME NEW m \in Slot, NEW u \in Thread, mode'[u][m] = "owner"
               PROVE  locked'[m] = 1 /\ tid'[m] = u
    BY Zenon DEF OwnerIntact
  <2>1. mode[u][m] = "owner"
    BY Zenon, <1>1
  <2>2. locked[m] = 1 /\ tid[m] = u
    BY Zenon, <2>1 DEF Exclusive, OwnerIntact
  <2>3. m = at[t] => mode[t][m] = "owner" /\ tid[m] = t
    BY <1>2 DEF Exclusive, HoldInv, OwnerIntact
  <2>4. \/ locked'[m] = locked[m]
        \/ m = at[t] /\ locked'[m] = 0 /\ mode'[t][m] = "out"
    BY <1>0, SlotAddr, UnlockSection
  <2> QED
    BY Zenon, <1>2, <2>2, <2>3, <2>4
<1> QED
  BY Zenon, <1>3, <1>4, <1>5 DEF Exclusive

\* Every step keeps mutexes with their holders, when no thread locks one twice.
LEMMA ExclusiveStep ==
  ASSUME Rule \subseteq Discipline, Base, Base', Exclusive, [Next]_vars
  PROVE  Exclusive'
<1>0. TypeOK
  BY Zenon DEF Base
<1>a. FreshInv /\ HoldInv /\ OwnerIntact
  BY Zenon DEF Exclusive
<1>1. CASE UNCHANGED vars
  BY Zenon, <1>1, <1>a DEF vars, fields, local, history, Exclusive, FreshInv, HoldInv, OwnerIntact
<1>2. ASSUME NEW t \in Thread, Alloc(t) PROVE Exclusive'
  <2>1. FreshInv'
    BY <1>2, <1>a, AllocSlot, MutexAssumption DEF FreshInv
  <2>2. HoldInv'
    BY <1>2, <1>a, AllocSlot DEF HoldInv
  <2>3. OwnerIntact'
    BY <1>2, <1>a, AllocSlot DEF OwnerIntact, Base, UsedInv
  <2> QED
    BY Zenon, <2>1, <2>2, <2>3 DEF Exclusive
<1>3. ASSUME NEW t \in Thread, NEW n \in MutexId, DeallocCheck(t, n) PROVE Exclusive'
  BY <1>0, <1>3, <1>a
  DEF DeallocCheck, fields, history, Exclusive, FreshInv, HoldInv, OwnerIntact, LockPc, TypeOK, Goto
<1>4. ASSUME NEW t \in Thread, NEW n \in MutexId, LockFind(t, n) PROVE Exclusive'
  <2> PICK i \in Addr : FoundAt(n, i) /\ at' = [at EXCEPT ![t] = i]
    BY Zenon, <1>4 DEF LockFind
  <2>1. i \in Slot => i = n
    BY Zenon, FoundIsId DEF Base
  <2>2. FreshInv'
    BY <1>0, <1>4, <1>a, <2>1 DEF LockFind, FreshInv, LockPc, Rule, fields, TypeOK, Goto
  <2>3. HoldInv' /\ OwnerIntact'
    BY <1>0, <1>4, <1>a DEF LockFind, HoldInv, OwnerIntact, fields, TypeOK, Goto
  <2> QED
    BY Zenon, <2>2, <2>3 DEF Exclusive
<1>5. ASSUME NEW t \in Thread, NEW n \in MutexId, UnlockFind(t, n) PROVE Exclusive'
  <2> PICK i \in Addr : FoundAt(n, i) /\ at' = [at EXCEPT ![t] = i]
    BY Zenon, <1>5 DEF UnlockFind
  <2>1. i \in Slot => i = n
    BY Zenon, FoundIsId DEF Base
  <2>2. FreshInv' /\ OwnerIntact'
    BY <1>0, <1>5, <1>a DEF UnlockFind, FreshInv, OwnerIntact, LockPc, fields, history, TypeOK, Goto
  <2>3. HoldInv'
    BY <1>0, <1>5, <1>a, <2>1, SlotAddr
    DEF UnlockFind, HoldInv, Rule, fields, history, TypeOK, Goto, Mode
  <2> QED
    BY Zenon, <2>2, <2>3 DEF Exclusive
<1>6. ASSUME NEW t \in Thread, DeallocClear(t) PROVE Exclusive'
  <2>1. FreshInv'
    BY <1>6, <1>a, ClearSlot, MutexAssumption DEF FreshInv, LockPc
  <2>2. HoldInv'
    BY <1>6, <1>a, ClearSlot DEF HoldInv
  <2>3. OwnerIntact'
    BY <1>6, <1>a, ClearSlot DEF OwnerIntact, Base, DeallocInv
  <2> QED
    BY Zenon, <2>1, <2>2, <2>3 DEF Exclusive
<1>7. ASSUME NEW t \in Thread, LockCheck(t) PROVE Exclusive'
  BY <1>0, <1>7, <1>a
  DEF LockCheck, fields, history, Exclusive, FreshInv, HoldInv, OwnerIntact, LockPc, TypeOK, Goto
<1>8. ASSUME NEW t \in Thread, LockAcquire(t) \/ LockRetry(t) PROVE Exclusive'
  BY Zenon, <1>8, LockExclusive
<1>9. ASSUME NEW t \in Thread, UnlockCheck(t) \/ UnlockRelease(t) PROVE Exclusive'
  BY Zenon, <1>9, UnlockExclusive
<1>11. ASSUME NEW t \in Thread, UnlockWakeup(t) PROVE Exclusive'
  BY <1>0, <1>11, <1>a
  DEF UnlockWakeup, fields, history, Exclusive, FreshInv, HoldInv, OwnerIntact, LockPc, TypeOK, Goto
<1> QED
  BY Zenon, <1>1, <1>2, <1>3, <1>4, <1>5, <1>6, <1>7, <1>8, <1>9, <1>11
  DEF Next, Step, Call

\* The inductive invariant behind OwnerStaysIntact and MutexExcludes.
LEMMA ExclusiveInv ==
  ASSUME Rule \subseteq Discipline
  PROVE  Spec => [](Base /\ Exclusive)
<1>1. Init => Base /\ Exclusive
  BY Zenon, BaseInit, ExclusiveInit
<1>2. Base /\ Exclusive /\ [Next]_vars => Base' /\ Exclusive'
  BY Zenon, BaseStep, ExclusiveStep DEF Rule
<1> QED
  BY <1>1, <1>2, PTL DEF Spec

\* When every thread locks a mutex at most once, a thread that has a mutex
\* keeps it until its own unlock.
THEOREM OwnerStaysIntact ==
  ASSUME Rule \subseteq Discipline
  PROVE  Spec => []OwnerIntact
BY ExclusiveInv, PTL DEF Exclusive

\* When every thread locks a mutex at most once, kthread_mutex_lock and
\* kthread_mutex_unlock give mutual exclusion to any number of threads.
THEOREM MutexExcludes ==
  ASSUME Rule \subseteq Discipline
  PROVE  Spec => []MutualExclusion
<1>1. Base /\ Exclusive => MutualExclusion
  BY SlotAddr DEF Base, Exclusive, HoldInv, OwnerIntact, MutualExclusion, InCS, TypeOK, Mode
<1> QED
  BY <1>1, ExclusiveInv, PTL

-----------------------------------------------------------------------------
(* The count of waiting threads *)

\* A thread that locks a mutex is not in it; the holder of a locked mutex is;
\* a thread that waits for a mutex did not have it last.
LockerInv ==
  /\ \A t \in Thread : pc[t] \in LockPc /\ at[t] \in Slot => mode[t][at[t]] = "out"
  /\ \A t \in Thread, m \in Slot : tid[m] = t /\ locked[m] = 1 => mode[t][m] # "out"
  /\ \A t \in Thread : pc[t] \in {"lk_sleep", "lk_retry"} /\ at[t] \in Slot => tid[at[t]] # t

\* At the start no thread is in kthread_mutex_lock.
LEMMA LockerInit == Init => LockerInv
<1> SUFFICES ASSUME Init PROVE LockerInv
  BY Zenon
<1> QED
  BY Zenon, SlotAddr, MutexAssumption DEF Init, LockerInv, LockPc

\* A section of kthread_mutex_lock keeps what is known of the threads in it.
LEMMA LockLocker ==
  ASSUME Base, LockerInv, NEW t \in Thread, LockAcquire(t) \/ LockRetry(t)
  PROVE  LockerInv'
<1> USE SlotAddr DEF LockPc
<1>1. TypeOK
  BY Zenon DEF Base
<1>2. /\ pc[t] \in {"lk_acquire", "lk_retry"}
      /\ UNCHANGED at
  BY Zenon, <1>1, LockSection
<1>3. CASE /\ locked[at[t]] = 1
           /\ pc' = [pc EXCEPT ![t] = "lk_sleep"]
           /\ UNCHANGED <<locked, tid, mode>>
  BY Zenon, <1>1, <1>2, <1>3 DEF LockerInv, TypeOK
<1>4. ASSUME NEW v \in {"owner", "bare"},
             pc' = [pc EXCEPT ![t] = "idle"],
             SetMode(t, at[t], v),
             \/ UNCHANGED <<locked, tid>>
             \/ /\ locked' = [locked EXCEPT ![at[t]] = 1]
                /\ tid' = [tid EXCEPT ![at[t]] = t]
      PROVE  LockerInv'
  <2>1. \A u \in Thread, m \in Addr :
          mode'[u][m] = IF u = t /\ m = at[t] THEN v ELSE mode[u][m]
    BY <1>1, <1>4, ModeAt DEF TypeOK
  <2>2. \A u \in Thread : pc'[u] \in LockPc => u # t /\ pc'[u] = pc[u]
    BY Zenon, <1>1, <1>4 DEF TypeOK
  <2>3. \A u \in Thread : pc'[u] \in LockPc /\ at'[u] \in Slot => mode'[u][at'[u]] = "out"
    BY <1>2, <2>1, <2>2 DEF LockerInv
  <2>4. \A u \in Thread, m \in Slot : tid'[m] = u /\ locked'[m] = 1 => mode'[u][m] # "out"
    BY <1>1, <1>4, <2>1 DEF LockerInv, TypeOK
  <2>5. \A u \in Thread :
          pc'[u] \in {"lk_sleep", "lk_retry"} /\ at'[u] \in Slot => tid'[at'[u]] # u
    BY <1>1, <1>2, <1>4, <2>2 DEF LockerInv, TypeOK
  <2> QED
    BY Zenon, <2>3, <2>4, <2>5 DEF LockerInv
<1> QED
  BY Zenon, <1>1, <1>3, <1>4, LockSection

\* A section of kthread_mutex_unlock lets go of a mutex only when it clears
\* locked: a test of id or tid that fails was not made by the holder.
LEMMA UnlockLocker ==
  ASSUME Base, LockerInv, NEW t \in Thread, UnlockCheck(t) \/ UnlockRelease(t)
  PROVE  LockerInv'
<1>0. TypeOK /\ at[t] \in Addr
  BY Zenon DEF Base, TypeOK
<1>1. \A u \in Thread, m \in Slot :
        \/ mode'[u][m] = mode[u][m]
        \/ u = t /\ m = at[t] /\ mode'[u][m] = "out"
  BY <1>0, SlotAddr, UnlockSection
<1>2. /\ UNCHANGED <<at, tid>>
      /\ pc[t] \in {"ul_check", "ul_acquire"}
      /\ \A u \in Thread : u # t => pc'[u] = pc[u]
      /\ pc'[t] \in {"ul_acquire", "ul_wake", "idle"}
  BY Zenon, <1>0, UnlockSection
<1>3. \A u \in Thread : pc'[u] \in LockPc => u # t /\ pc'[u] = pc[u]
  BY Zenon, <1>2 DEF LockPc
<1>4. \A u \in Thread : pc'[u] \in LockPc /\ at'[u] \in Slot => mode'[u][at'[u]] = "out"
  BY <1>1, <1>2, <1>3 DEF LockerInv
<1>5. \A u \in Thread :
        pc'[u] \in {"lk_sleep", "lk_retry"} /\ at'[u] \in Slot => tid'[at'[u]] # u
  BY Zenon, <1>2, <1>3 DEF LockerInv, LockPc
<1>6. ASSUME NEW u \in Thread, NEW m \in Slot, tid'[m] = u, locked'[m] = 1
      PROVE  mode'[u][m] # "out"
  <2>1. locked[m] = 1
    BY <1>0, <1>6, SlotAddr, UnlockSection
  <2>2. mode[u][m] # "out"
    BY Zenon, <1>2, <1>6, <2>1 DEF LockerInv
  <2>3. u = t /\ m = at[t] => mode' = mode
    <3> SUFFICES ASSUME u = t, m = at[t] PROVE mode' = mode
      BY Zenon
    <3>1. tid[at[t]] = t /\ locked'[at[t]] = 1
      BY Zenon, <1>2, <1>6
    <3>2. ~ UnlockRelease(t)
      BY <1>0, <3>1 DEF UnlockRelease, TypeOK
    <3>3. id[m] = m /\ arg[t] = m
      BY <1>2, <2>2 DEF Base, UsedInv, IdInv, ArgInv, UnlockPc
    <3> QED
      BY Zenon, <3>1, <3>2, <3>3 DEF UnlockCheck
  <2> QED
    BY Zenon, <1>1, <2>2, <2>3
<1> QED
  BY Zenon, <1>4, <1>5, <1>6 DEF LockerInv

\* Every step keeps it, when the calls are balanced.
LEMMA LockerStep ==
  ASSUME {"balanced", "quiescent"} \subseteq Discipline, Base, LockerInv, [Next]_vars
  PROVE  LockerInv'
<1>0. TypeOK
  BY Zenon DEF Base
<1> USE <1>0, MutexAssumption, SlotAddr
    DEF LockerInv, TypeOK, fields, local, history, Goto, LockPc, UnlockPc
<1>1. CASE UNCHANGED vars
  BY Zenon, <1>1 DEF vars
<1>2. ASSUME NEW t \in Thread, Alloc(t) PROVE LockerInv'
  BY <1>2 DEF Alloc
<1>3. ASSUME NEW t \in Thread, NEW n \in MutexId, DeallocCheck(t, n) PROVE LockerInv'
  BY <1>3 DEF DeallocCheck
<1>4. ASSUME NEW t \in Thread, NEW n \in MutexId, LockFind(t, n) PROVE LockerInv'
  <2> PICK i \in Addr : FoundAt(n, i) /\ at' = [at EXCEPT ![t] = i]
    BY Zenon, <1>4 DEF LockFind
  <2>1. i \in Slot => i = n
    BY Zenon, FoundIsId DEF Base
  <2> QED
    BY <1>4, <2>1 DEF LockFind
<1>5. ASSUME NEW t \in Thread, NEW n \in MutexId, UnlockFind(t, n) PROVE LockerInv'
  BY <1>5 DEF UnlockFind
<1>6. ASSUME NEW t \in Thread, DeallocClear(t) PROVE LockerInv'
  BY <1>6 DEF DeallocClear
<1>7. ASSUME NEW t \in Thread, LockCheck(t) PROVE LockerInv'
  BY <1>7 DEF LockCheck
<1>8. ASSUME NEW t \in Thread, LockAcquire(t) \/ LockRetry(t) PROVE LockerInv'
  BY Zenon, <1>8, LockLocker
<1>9. ASSUME NEW t \in Thread, UnlockCheck(t) \/ UnlockRelease(t) PROVE LockerInv'
  BY Zenon, <1>9, UnlockLocker
<1>11. ASSUME NEW t \in Thread, UnlockWakeup(t) PROVE LockerInv'
  BY <1>11 DEF UnlockWakeup
<1> QED
  BY Zenon, <1>1, <1>2, <1>3, <1>4, <1>5, <1>6, <1>7, <1>8, <1>9, <1>11
  DEF Next, Step, Call

\* The waiters of a mutex are finitely many, so they can be counted.
LEMMA WaitersFinite == \A m : IsFiniteSet(Waiters(m)) /\ Cardinality(Waiters(m)) \in Nat
BY Zenon, MutexAssumption, FS_Subset, FS_CardinalityType DEF Waiters

\* What the sections of lock do to the count, for a thread that has not had
\* the mutex last and for one that has.
LEMMA LockCount ==
  ASSUME TypeOK, NEW t \in Thread, LockAcquire(t) \/ LockRetry(t)
  PROVE  /\ tid[at[t]] # t /\ pc[t] = "lk_acquire" /\ locked[at[t]] = 1
              => waitingThreads' = [waitingThreads EXCEPT ![at[t]] = @ + 1]
         /\ pc[t] = "lk_acquire" /\ locked[at[t]] = 0 => waitingThreads' = waitingThreads
         /\ pc[t] = "lk_retry" /\ locked[at[t]] = 1 => waitingThreads' = waitingThreads
         /\ tid[at[t]] # t /\ pc[t] = "lk_retry" /\ locked[at[t]] = 0
              => waitingThreads' = [waitingThreads EXCEPT ![at[t]] = @ - 1]
         /\ tid[at[t]] = t /\ locked[at[t]] = 0 /\ locked'[at[t]] = 1
              => waitingThreads[at[t]] = 0
<1>1. CASE LockAcquire(t)
  <2>1. CASE locked[at[t]] = 1
    BY <1>1, <2>1 DEF LockAcquire, TypeOK
  <2>2. CASE locked[at[t]] = 0
    <3>0. locked[at[t]] # 1
      BY <2>2
    <3>1. Catch(t, at[t], waitingThreads[at[t]] + (IF tid[at[t]] # t THEN 1 ELSE 0))
      BY <1>1, <3>0, Zenon DEF LockAcquire
    <3>2. waitingThreads' = waitingThreads
      BY <3>1 DEF Catch, TypeOK
    <3>3. tid[at[t]] = t /\ locked'[at[t]] = 1 => waitingThreads[at[t]] = 0
      BY <3>1 DEF Catch, TypeOK
    <3>4. pc[t] = "lk_acquire"
      BY Zenon, <1>1 DEF LockAcquire
    <3> QED
      BY <2>2, <3>2, <3>3, <3>4, SMTT(30)
  <2> QED
    BY Zenon, <2>1, <2>2 DEF TypeOK
<1>2. CASE LockRetry(t)
  <2>1. CASE locked[at[t]] = 1
    BY <1>2, <2>1 DEF LockRetry, TypeOK
  <2>2. CASE locked[at[t]] = 0
    <3>0. locked[at[t]] # 1
      BY <2>2
    <3>1. Catch(t, at[t], waitingThreads[at[t]])
      BY <1>2, <3>0, Zenon DEF LockRetry
    <3>2. tid[at[t]] # t => waitingThreads' = [waitingThreads EXCEPT ![at[t]] = @ - 1]
      BY Zenon, <3>1 DEF Catch, TypeOK
    <3>3. tid[at[t]] = t /\ locked'[at[t]] = 1 => waitingThreads[at[t]] = 0
      BY <3>1 DEF Catch, TypeOK
    <3>4. pc[t] = "lk_retry"
      BY Zenon, <1>2 DEF LockRetry
    <3> QED
      BY <2>2, <3>2, <3>3, <3>4
  <2> QED
    BY Zenon, <2>1, <2>2 DEF TypeOK
<1> QED
  BY Zenon, <1>1, <1>2

\* A section of kthread_mutex_lock keeps the count exact.
LEMMA LockWaiting ==
  ASSUME Base, LockerInv, WaitingExact, NEW t \in Thread, LockAcquire(t) \/ LockRetry(t)
  PROVE  WaitingExact'
<1> USE SlotAddr DEF LockPc
<1>1. TypeOK
  BY Zenon DEF Base
<1>2. /\ pc[t] \in {"lk_acquire", "lk_retry"}
      /\ at' = at
      /\ \/ locked[at[t]] = 1 /\ pc' = [pc EXCEPT ![t] = "lk_sleep"]
         \/ locked[at[t]] = 0 /\ pc' = [pc EXCEPT ![t] = "idle"]
  BY Zenon, <1>1, LockSection
<1> SUFFICES ASSUME NEW m \in Slot PROVE waitingThreads'[m] = Cardinality(Waiters(m)')
  BY Zenon DEF WaitingExact
<1>3. waitingThreads[m] = Cardinality(Waiters(m))
  BY Zenon DEF WaitingExact
<1>4. CASE at[t] # m
  <2>1. Waiters(m)' = Waiters(m)
    BY Zenon, <1>1, <1>2, <1>4 DEF Waiters, TypeOK
  <2>2. waitingThreads'[m] = waitingThreads[m]
    BY Zenon, <1>1, <1>4 DEF LockAcquire, LockRetry, Catch, TypeOK
  <2> QED
    BY Zenon, <1>3, <2>1, <2>2
<1>5. CASE at[t] = m /\ pc[t] = "lk_acquire" /\ locked[m] = 1
  <2>1. tid[m] # t
    BY Zenon, <1>5 DEF LockerInv
  <2>2. Waiters(m)' = Waiters(m) \union {t} /\ t \notin Waiters(m)
    BY <1>1, <1>2, <1>5 DEF Waiters, TypeOK
  <2>3. waitingThreads'[m] = waitingThreads[m] + 1
    BY Zenon, <1>1, <1>5, <2>1, LockCount DEF TypeOK
  <2>4. Cardinality(Waiters(m) \union {t}) = Cardinality(Waiters(m)) + 1
    BY Zenon, <2>2, WaitersFinite, FS_AddElement
  <2> QED
    BY Zenon, <1>3, <2>2, <2>3, <2>4
<1>6. CASE at[t] = m /\ pc[t] = "lk_acquire" /\ locked[m] = 0
  <2>1. Waiters(m)' = Waiters(m)
    BY <1>1, <1>2, <1>6 DEF Waiters, TypeOK
  <2> QED
    BY Zenon, <1>1, <1>3, <1>6, <2>1, LockCount
<1>7. CASE at[t] = m /\ pc[t] = "lk_retry" /\ locked[m] = 1
  <2>1. Waiters(m)' = Waiters(m)
    BY <1>1, <1>2, <1>7 DEF Waiters, TypeOK
  <2> QED
    BY Zenon, <1>1, <1>3, <1>7, <2>1, LockCount
<1>8. CASE at[t] = m /\ pc[t] = "lk_retry" /\ locked[m] = 0
  <2>1. tid[m] # t
    BY Zenon, <1>8 DEF LockerInv
  <2>2. Waiters(m)' = Waiters(m) \ {t} /\ t \in Waiters(m)
    BY <1>1, <1>2, <1>8 DEF Waiters, TypeOK
  <2>3. waitingThreads'[m] = waitingThreads[m] - 1
    BY <1>1, <1>8, <2>1, LockCount DEF TypeOK
  <2>4. Cardinality(Waiters(m) \ {t}) = Cardinality(Waiters(m)) - 1
    BY Zenon, <2>2, WaitersFinite, FS_RemoveElement
  <2> QED
    BY Zenon, <1>3, <2>2, <2>3, <2>4
<1> QED
  BY Zenon, <1>1, <1>2, <1>4, <1>5, <1>6, <1>7, <1>8 DEF TypeOK

\* Every step keeps the count exact.
LEMMA WaitingStep ==
  ASSUME Base, LockerInv, WaitingExact, [Next]_vars
  PROVE  WaitingExact'
<1>0. TypeOK
  BY Zenon DEF Base
<1> USE <1>0, MutexAssumption, SlotAddr
    DEF WaitingExact, Waiters, TypeOK, fields, local, history, Goto, LockPc
<1>1. CASE UNCHANGED vars
  BY <1>1 DEF vars
<1>2. ASSUME NEW t \in Thread, Alloc(t) PROVE WaitingExact'
  <2> PICK i \in Slot : FirstFree(i) /\ waitingThreads' = [waitingThreads EXCEPT ![i] = 0]
    BY Zenon, <1>2 DEF Alloc
  <2>1. Waiters(i) = {}
    BY DEF FirstFree, Base, UsedInv
  <2>2. \A m \in Slot : Waiters(m)' = Waiters(m)
    BY Zenon, <1>2 DEF Alloc
  <2> HIDE DEF Waiters
  <2> QED
    BY Zenon, <2>1, <2>2, FS_EmptySet
<1>3. ASSUME NEW t \in Thread, NEW n \in MutexId, DeallocCheck(t, n) PROVE WaitingExact'
  <2>1. \A m \in Slot : Waiters(m)' = Waiters(m)
    BY <1>3 DEF DeallocCheck
  <2>2. waitingThreads' = waitingThreads
    BY Zenon, <1>3 DEF DeallocCheck
  <2> HIDE DEF Waiters, TypeOK
  <2> QED
    BY Zenon, <2>1, <2>2
<1>4. ASSUME NEW t \in Thread, NEW n \in MutexId, LockFind(t, n) PROVE WaitingExact'
  <2>1. \A m \in Slot : Waiters(m)' = Waiters(m)
    BY <1>4 DEF LockFind
  <2>2. waitingThreads' = waitingThreads
    BY Zenon, <1>4 DEF LockFind
  <2> HIDE DEF Waiters, TypeOK
  <2> QED
    BY Zenon, <2>1, <2>2
<1>5. ASSUME NEW t \in Thread, NEW n \in MutexId, UnlockFind(t, n) PROVE WaitingExact'
  <2>1. \A m \in Slot : Waiters(m)' = Waiters(m)
    BY Zenon, <1>5 DEF UnlockFind
  <2>2. waitingThreads' = waitingThreads
    BY Zenon, <1>5 DEF UnlockFind
  <2> HIDE DEF Waiters, TypeOK
  <2> QED
    BY Zenon, <2>1, <2>2
<1>6. ASSUME NEW t \in Thread, DeallocClear(t) PROVE WaitingExact'
  <2>1. \A m \in Slot : Waiters(m)' = Waiters(m)
    BY Zenon, <1>6 DEF DeallocClear
  <2>2. at[t] \in Slot /\ Waiters(at[t]) = {}
    BY <1>6 DEF DeallocClear, Base, DeallocInv
  <2>3. waitingThreads' = [waitingThreads EXCEPT ![at[t]] = 0]
    BY Zenon, <1>6 DEF DeallocClear
  <2> HIDE DEF Waiters
  <2> QED
    BY Zenon, <2>1, <2>2, <2>3, FS_EmptySet
<1>7. ASSUME NEW t \in Thread, LockCheck(t) PROVE WaitingExact'
  <2>1. \A m \in Slot : Waiters(m)' = Waiters(m)
    BY Zenon, <1>7 DEF LockCheck
  <2>2. waitingThreads' = waitingThreads
    BY Zenon, <1>7 DEF LockCheck
  <2> HIDE DEF Waiters, TypeOK
  <2> QED
    BY Zenon, <2>1, <2>2
<1>8. ASSUME NEW t \in Thread, LockAcquire(t) \/ LockRetry(t) PROVE WaitingExact'
  BY Zenon, <1>8, LockWaiting
<1>9. ASSUME NEW t \in Thread, UnlockCheck(t) \/ UnlockRelease(t) \/ UnlockWakeup(t)
      PROVE  WaitingExact'
  <2>1. at' = at /\ waitingThreads' = waitingThreads
    BY Zenon, <1>9 DEF UnlockCheck, UnlockRelease, UnlockWakeup
  <2>2. \A u \in Thread : pc'[u] \in {"lk_sleep", "lk_retry"}
                              <=> pc[u] \in {"lk_sleep", "lk_retry"}
    <3>1. CASE UnlockCheck(t) \/ UnlockRelease(t)
      <4>1. /\ pc[t] \in {"ul_check", "ul_acquire"}
            /\ \E l \in {"ul_acquire", "ul_wake", "idle"} : pc' = [pc EXCEPT ![t] = l]
        BY Zenon, <3>1 DEF UnlockCheck, UnlockRelease
      <4> QED
        BY Zenon, <4>1
    <3>2. CASE UnlockWakeup(t)
      BY Zenon, <3>2 DEF UnlockWakeup
    <3> QED
      BY Zenon, <1>9, <3>1, <3>2
  <2>3. \A m \in Slot : Waiters(m)' = Waiters(m)
    BY Zenon, <2>1, <2>2
  <2> QED
    BY Zenon, <2>1, <2>3
<1> QED
  BY Zenon, <1>1, <1>2, <1>3, <1>4, <1>5, <1>6, <1>7, <1>8, <1>9
  DEF Next, Step, Call

\* The inductive invariant behind WaitingIsExact and NeverOvertakes.
LEMMA WaitingInv ==
  ASSUME {"balanced", "quiescent"} \subseteq Discipline
  PROVE  Spec => [](Base /\ LockerInv /\ WaitingExact)
<1>1. Init => WaitingExact
  <2> SUFFICES ASSUME Init, NEW m \in Slot PROVE waitingThreads[m] = Cardinality(Waiters(m))
    BY Zenon DEF WaitingExact
  <2>1. Waiters(m) = {}
    BY Zenon DEF Init, Waiters
  <2> QED
    BY Zenon, <2>1, SlotAddr, FS_EmptySet DEF Init
<1>2. Base /\ LockerInv /\ WaitingExact /\ [Next]_vars => (Base /\ LockerInv /\ WaitingExact)'
  BY Zenon, BaseStep, LockerStep, WaitingStep
<1> QED
  BY <1>1, <1>2, BaseInit, LockerInit, PTL DEF Spec

\* When programs unlock what they lock and deallocate only what nobody uses,
\* waitingThreads is the number of threads inside the loop of
\* kthread_mutex_lock, for any number of threads.
THEOREM WaitingIsExact ==
  ASSUME {"balanced", "quiescent"} \subseteq Discipline
  PROVE  Spec => []WaitingExact
BY WaitingInv, PTL

\* Only kthread_mutex_lock sets locked.
LEMMA OnlyLockTakes ==
  ASSUME TypeOK, NEW t \in Thread, Step(t) \/ Call(t),
         NEW m \in Slot, locked[m] = 0, locked'[m] = 1
  PROVE  LockAcquire(t) \/ LockRetry(t)
<1>1. ASSUME NEW i \in Addr PROVE locked' # [locked EXCEPT ![i] = 0]
  BY SlotAddr DEF TypeOK
<1>2. locked' # locked /\ at[t] \in Addr
  BY DEF TypeOK
<1>3. ~ Alloc(t)
  BY Zenon, <1>1, SlotAddr DEF Alloc
<1>4. ~ DeallocClear(t) /\ ~ UnlockRelease(t)
  BY Zenon, <1>1, <1>2 DEF DeallocClear, UnlockRelease
<1>5. ASSUME NEW n \in MutexId
      PROVE  ~ DeallocCheck(t, n) /\ ~ LockFind(t, n) /\ ~ UnlockFind(t, n)
  BY Zenon, <1>2 DEF DeallocCheck, LockFind, UnlockFind, fields
<1>6. ~ LockCheck(t) /\ ~ UnlockCheck(t) /\ ~ UnlockWakeup(t)
  BY Zenon, <1>2 DEF LockCheck, UnlockCheck, UnlockWakeup, fields
<1> QED
  BY Zenon, <1>3, <1>4, <1>5, <1>6 DEF Step, Call

\* The last holder never takes a mutex again over the head of a waiting
\* thread: the test at the end of kthread_mutex_lock is right because the
\* count it looks at is exact.
THEOREM NeverOvertakes ==
  ASSUME {"balanced", "quiescent"} \subseteq Discipline
  PROVE  Spec => NoOvertaking
<1> DEFINE Polite == \A m \in Slot, t \in Thread :
                       locked[m] = 0 /\ locked'[m] = 1 /\ tid[m] = t /\ tid'[m] = t
                         => Waiters(m) \subseteq {t}
<1>1. ASSUME Base, WaitingExact, [Next]_vars PROVE [Polite]_vars
  <2> USE MutexAssumption, SlotAddr DEF TypeOK, fields, local, history
  <2>0. TypeOK
    BY Zenon, <1>1 DEF Base
  <2> SUFFICES ASSUME Next, NEW m \in Slot, NEW t \in Thread,
                      locked[m] = 0, locked'[m] = 1, tid[m] = t, tid'[m] = t
               PROVE  Waiters(m) \subseteq {t}
    BY Zenon, <1>1
  <2>1. PICK u \in Thread : Step(u) \/ Call(u)
    BY Zenon DEF Next
  <2>2. LockAcquire(u) \/ LockRetry(u)
    BY Zenon, <2>0, <2>1, OnlyLockTakes
  <2>3. at[u] = m /\ tid[m] = u
    BY <2>0, <2>2, LockSection
  <2>4. waitingThreads[m] = 0
    BY Zenon, <2>0, <2>2, <2>3, LockCount
  <2> QED
    BY Zenon, <1>1, <2>4, WaitersFinite, FS_EmptySet DEF WaitingExact
<1>2. Spec => [][Polite]_vars
  BY <1>1, WaitingInv, PTL DEF Spec
<1> QED
  BY Zenon, <1>2 DEF NoOvertaking

=============================================================================
