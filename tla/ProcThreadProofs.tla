-------------------------- MODULE ProcThreadProofs --------------------------
(***************************************************************************)
(* The end of threads and processes preserves the invariant of             *)
(* ProcThreadInvariant; so does every other step, and the properties of    *)
(* ProcThread follow.                                                      *)
(***************************************************************************)
EXTENDS ProcThreadForkProofs

-----------------------------------------------------------------------------
(***************************************************************************)
(* The end of threads and processes.                                       *)
(***************************************************************************)
\* A running thread t terminates and wakes the channels in W.
LEMMA EndEffect ==
    ASSUME TableInv, NEW t \in Thread, state[t] = "RUNNING", NEW W, t \in W,
           state' = [Woken(W) EXCEPT ![t] = "TERMINATED"], Goto(t, "dead"), Sched(t)
    PROVE  /\ state'[t] = "TERMINATED" /\ state' \in [Thread -> TState]
           /\ \A u \in Thread \ {t} :
                 /\ state'[u] = "UNINIT" <=> state[u] = "UNINIT"
                 /\ state'[u] = "TERMINATED" <=> state[u] = "TERMINATED"
                 /\ Live(u)' <=> Live(u)
                 /\ state'[u] = "SLEEPING" => state[u] = "SLEEPING" /\ chan[u] \notin W
           /\ pc'[t] = "dead" /\ pc' \in [Thread -> PC]
           /\ \A u \in Thread \ {t} : pc'[u] = pc[u]
           /\ CpusRight' /\ cpu' \in [CPU -> Thread \union {Nil}] /\ lock' \in Thread \union {Nil}
<1>1. \A u \in Thread : state[u] = "SLEEPING" => pstate[u[1]] # "UNUSED"
  BY Zenon, WhoRuns DEF Live
<1>2. /\ state'[t] = "TERMINATED" /\ state' \in [Thread -> TState]
      /\ \A u \in Thread \ {t} :
            state'[u] = IF state[u] = "SLEEPING" /\ chan[u] \in W THEN "RUNNABLE" ELSE state[u]
  BY Zenon, <1>1 DEF Woken, TableInv, TypeOK, TState
<1>3. \A u \in Thread \ {t} :
         /\ state'[u] = "UNINIT" <=> state[u] = "UNINIT"
         /\ state'[u] = "TERMINATED" <=> state[u] = "TERMINATED"
         /\ state'[u] = "RUNNING" <=> state[u] = "RUNNING"
         /\ Live(u)' <=> Live(u)
         /\ state'[u] = "SLEEPING" => state[u] = "SLEEPING" /\ chan[u] \notin W
  BY Zenon, <1>2 DEF Live
<1>4. /\ pc'[t] = "dead" /\ pc' \in [Thread -> PC] /\ \A u \in Thread \ {t} : pc'[u] = pc[u]
  BY Zenon DEF Goto, TableInv, TypeOK, PC
<1>5. /\ CpusRight' /\ cpu' \in [CPU -> Thread \union {Nil}]
      /\ lock' \in Thread \union {Nil}
  BY Zenon, <1>2, <1>3, SchedEffect
<1> QED
  BY Zenon, <1>2, <1>3, <1>4, <1>5

\* kthread_exit wakes who joins the thread, and leaves the process a thread.
LEMMA KthreadExitStep ==
    ASSUME TableInv, NEW t \in Thread, KthreadExit(t)
    PROVE  TableInv'
<1> USE DEF TableInv
<1>1. /\ state[t] = "RUNNING" /\ pc[t] = "kexit" /\ t[1] # initproc /\ LiveOthers(t) # {}
      /\ pstate[t[1]] = "USED" /\ kstack[t] /\ Live(t)
  BY Zenon, WhoRuns DEF KthreadExit, At, InitRight, StacksRight, StacksAccounted
<1>2. /\ state'[t] = "TERMINATED" /\ state' \in [Thread -> TState]
      /\ \A u \in Thread \ {t} :
            /\ state'[u] = "UNINIT" <=> state[u] = "UNINIT"
            /\ state'[u] = "TERMINATED" <=> state[u] = "TERMINATED"
            /\ Live(u)' <=> Live(u)
            /\ state'[u] = "SLEEPING" => state[u] = "SLEEPING" /\ chan[u] \notin {t}
      /\ pc'[t] = "dead" /\ pc' \in [Thread -> PC] /\ \A u \in Thread \ {t} : pc'[u] = pc[u]
      /\ CpusRight' /\ cpu' \in [CPU -> Thread \union {Nil}] /\ lock' \in Thread \union {Nil}
  BY Zenon, <1>1, EndEffect DEF KthreadExit
<1>3. /\ pstate' = pstate /\ pid' = pid /\ parent' = parent /\ killed' = killed /\ tid' = tid
      /\ exitRequest' = exitRequest /\ kstack' = kstack /\ stackPages' = stackPages
      /\ chan' = chan /\ tfReady' = tfReady /\ slot' = slot /\ back' = back
      /\ nextpid' = nextpid /\ nexttid' = nexttid
      /\ \A v \in Thread : New(v)' = New(v)
  BY Zenon DEF KthreadExit, procVars, stackVars, idVars, New
<1>4. TypeOK'
  BY Zenon, <1>2, <1>3 DEF TypeOK
<1>5. ~Live(t)'
  BY Zenon, <1>2 DEF Live
<1>6. PlacesRight'
  BY <1>2, <1>3, <1>5 DEF PlacesRight
<1>7. SlotsRight'
  BY Zenon, <1>1, <1>2, <1>3, <1>5 DEF SlotsRight
<1>8. ExitsRight'
  <2>1. \A u \in Thread : LiveOthers(u)' \subseteq LiveOthers(u)
    BY Zenon, <1>2 DEF LiveOthers, Threads
  <2> QED
    BY Zenon, <1>2, <1>3, <2>1 DEF ExitsRight
<1>9. InitRight'
  BY <1>1, <1>2, <1>3 DEF InitRight
<1>10. ForksRight'
  BY <1>2, <1>3 DEF ForksRight, Forking
<1>11. CreatesRight'
  BY <1>1, <1>2, <1>3 DEF CreatesRight
<1>12. StacksRight'
  <2>1. StacksAccounted'
    BY Zenon, <1>1, <1>2, <1>3 DEF StacksRight, StacksAccounted
  <2>2. \A v \in Thread :
           /\ pc[v] = "create_publish" => pc'[v] = pc[v]
           /\ state'[v] = "UNINIT" => state[v] = "UNINIT"
    BY Zenon, <1>1, <1>2
  <2> QED
    BY <1>3, <2>1, <2>2, ThreadPair, MainThread DEF StacksRight
<1>13. FamilyRight'
  <2>1. PICK u \in Thread \ {t} : u[1] = t[1] /\ Live(u)
    BY Zenon, <1>1, WhoRuns DEF LiveOthers, Threads
  <2>2. UsedHasThread'
    BY <1>2, <1>3, <2>1 DEF FamilyRight, UsedHasThread, Threads
  <2> QED
    BY Zenon, <1>3, <2>2 DEF FamilyRight, ParentAlive
<1>14. SleepersRight'
  <2>1. \A v \in Thread : Zombies(v)' = Zombies(v)
    BY Zenon, <1>3 DEF Zombies, Children
  <2>2. JoinNotMissed'
    BY Zenon, <1>2, <1>3 DEF SleepersRight, JoinNotMissed, PlacesRight
  <2>3. WaitNotMissed'
    BY Zenon, <1>2, <1>3, <2>1 DEF SleepersRight, WaitNotMissed
  <2> QED
    BY Zenon, <2>2, <2>3 DEF SleepersRight
<1>15. EmbryosRight'
  BY <1>1, <1>2, <1>3 DEF EmbryosRight, EmbryoOwned
<1> QED
  BY Zenon, <1>2, <1>4, <1>6, <1>7, <1>8, <1>9, <1>10, <1>11, <1>12, <1>13, <1>14, <1>15

\* exit, in the last thread, wakes who waits for the process, gives the children
\* to init, which it wakes when it inherits a zombie, and leaves a zombie.
LEMMA ExitFinalStep ==
    ASSUME TableInv, NEW t \in Thread, ExitFinal(t)
    PROVE  TableInv'
<1> USE DEF TableInv
<1>1. /\ state[t] = "RUNNING" /\ pc[t] = "exit_close" /\ t[1] # initproc /\ LiveOthers(t) = {}
      /\ pstate[t[1]] = "USED" /\ kstack[t] /\ Live(t) /\ t[1] \in Proc
  BY Zenon, WhoRuns, ThreadPair
  DEF ExitFinal, At, InitRight, ExitsRight, StacksRight, StacksAccounted
<1> DEFINE W == ExitWakes(t)
<1>a. t \in W /\ state' = [Woken(W) EXCEPT ![t] = "TERMINATED"] /\ Goto(t, "dead") /\ Sched(t)
  BY Zenon DEF ExitFinal, ExitWakes
<1>b. /\ parent[t[1]] \in Proc => ProcChan(parent[t[1]]) \in W
      /\ \A q \in Proc : parent[q] = t[1] /\ pstate[q] = "ZOMBIE" => ProcChan(initproc) \in W
  BY Zenon DEF ExitWakes, ParentChan, Orphans
<1> HIDE DEF W
<1>2. /\ state'[t] = "TERMINATED" /\ state' \in [Thread -> TState]
      /\ \A u \in Thread \ {t} :
            /\ state'[u] = "UNINIT" <=> state[u] = "UNINIT"
            /\ state'[u] = "TERMINATED" <=> state[u] = "TERMINATED"
            /\ Live(u)' <=> Live(u)
            /\ state'[u] = "SLEEPING" => state[u] = "SLEEPING" /\ chan[u] \notin W
      /\ pc'[t] = "dead" /\ pc' \in [Thread -> PC] /\ \A u \in Thread \ {t} : pc'[u] = pc[u]
      /\ CpusRight' /\ cpu' \in [CPU -> Thread \union {Nil}] /\ lock' \in Thread \union {Nil}
  BY Zenon, <1>1, <1>a, EndEffect
<1>3. /\ pid' = pid /\ killed' = killed /\ tid' = tid
      /\ exitRequest' = exitRequest /\ kstack' = kstack /\ stackPages' = stackPages
      /\ chan' = chan /\ tfReady' = tfReady /\ slot' = slot /\ back' = back
      /\ nextpid' = nextpid /\ nexttid' = nexttid
      /\ \A v \in Thread : New(v)' = New(v)
  BY Zenon DEF ExitFinal, stackVars, idVars, New
<1>4. /\ pstate'[t[1]] = "ZOMBIE" /\ \A q \in Proc \ {t[1]} : pstate'[q] = pstate[q]
      /\ pstate' \in [Proc -> PState]
  BY Zenon, <1>1 DEF ExitFinal, TypeOK, PState
<1>5. /\ \A q \in Proc : parent'[q] = IF parent[q] = t[1] THEN initproc ELSE parent[q]
      /\ parent' \in [Proc -> Proc \union {NoProc}]
  BY Zenon, MainThread DEF ExitFinal, Reparented, Orphans, TypeOK
<1>c. parent[initproc] = NoProc /\ parent'[initproc] = NoProc /\ NoProc \notin Proc
  <2>1. NoProc \notin Proc
    BY ProcThreadAssumption DEF NoProc, Proc
  <2> QED
    BY Zenon, <1>1, <1>5, <2>1, MainThread DEF InitRight
<1>6. \A u \in Thread \ {t} : u[1] = t[1] => ~Live(u) /\ pc[u] \in {"none", "dead"}
  BY Zenon, <1>1, WhoRuns DEF LiveOthers, Threads
<1>7. TypeOK'
  BY Zenon, <1>2, <1>3, <1>4, <1>5 DEF TypeOK
<1>8. ~Live(t)'
  BY Zenon, <1>2 DEF Live
<1>9. PlacesRight'
  BY <1>2, <1>3, <1>8 DEF PlacesRight
<1>10. SlotsRight'
  BY <1>1, <1>2, <1>4, <1>6, <1>8, ThreadPair DEF SlotsRight
<1>11. ExitsRight'
  <2>1. \A u \in Thread : LiveOthers(u)' \subseteq LiveOthers(u)
    BY Zenon, <1>2 DEF LiveOthers, Threads
  <2> QED
    BY Zenon, <1>2, <1>3, <2>1 DEF ExitsRight
<1>12. InitRight'
  BY SMTT(30), <1>1, <1>2, <1>3, <1>4, <1>c, MainThread DEF InitRight
<1>13. ForksRight'
  <2>1. \A u \in Thread : pc[u] \in Forking \union {"fork_undo"} =>
           u # t /\ u[1] # t[1] /\ slot[u] \in Proc /\ slot[u] # t[1]
    BY Zenon, <1>1, <1>6 DEF ForksRight, Forking
  <2>2. \A u \in Thread : pc'[u] \in Forking \union {"fork_undo"} => pc'[u] = pc[u]
    BY Zenon, <1>2 DEF Forking
  <2>3. \A u \in Thread : pc[u] \in Forking => pstate'[slot[u]] = "EMBRYO"
    BY Zenon, <1>4, <2>1 DEF ForksRight
  <2>4. \A u \in Thread : pc[u] = "fork_undo" => pstate'[slot[u]] = "UNUSED"
    BY <1>4, <2>1 DEF ForksRight
  <2>5. \A u \in Thread : pc[u] = "fork_publish" => parent'[slot[u]] = u[1]
    BY <1>5, <2>1 DEF ForksRight, Forking
  <2> QED
    BY <1>3, <2>1, <2>2, <2>3, <2>4, <2>5 DEF ForksRight, Forking
<1>14. CreatesRight'
  BY <1>1, <1>2, <1>3 DEF CreatesRight
<1>15. StacksRight'
  <2>1. StacksAccounted'
    BY Zenon, <1>1, <1>2, <1>3 DEF StacksRight, StacksAccounted
  <2>2. \A v \in Thread :
           /\ pc[v] = "create_publish" => pc'[v] = pc[v]
           /\ state'[v] = "UNINIT" => state[v] = "UNINIT"
           /\ pstate[v[1]] = "EMBRYO" => pstate'[v[1]] = "EMBRYO"
    BY Zenon, <1>1, <1>2, <1>4, ThreadPair
  <2> QED
    BY <1>3, <2>1, <2>2, ThreadPair, MainThread DEF StacksRight
<1>16. FamilyRight'
  <2>1. ParentAlive'
    BY <1>1, <1>4, <1>5, MainThread DEF FamilyRight, ParentAlive, InitRight
  <2>2. UsedHasThread'
    BY <1>1, <1>2, <1>4 DEF FamilyRight, UsedHasThread, Threads
  <2>3. \A p \in Proc : parent'[p] # p
    BY <1>1, <1>5, <1>c, MainThread DEF FamilyRight
  <2> QED
    BY Zenon, <2>1, <2>2, <2>3 DEF FamilyRight
<1>17. SleepersRight'
  <2>1. JoinNotMissed'
    BY <1>a, <1>2, <1>3 DEF SleepersRight, JoinNotMissed, PlacesRight
  <2>2. ASSUME NEW u \in Thread, state'[u] = "SLEEPING", pc'[u] = "wait_sleep",
               NEW q \in Proc, parent'[q] = u[1], pstate'[q] = "ZOMBIE"
        PROVE  FALSE
    <3>1. /\ u # t /\ state[u] = "SLEEPING" /\ pc[u] = "wait_sleep"
          /\ chan[u] = ProcChan(u[1]) /\ chan[u] \notin W /\ u[1] \in Proc
      BY Zenon, <1>2, <2>2, ThreadPair DEF PlacesRight
    <3>2. ~(parent[q] = u[1] /\ pstate[q] = "ZOMBIE")
      BY Zenon, <3>1 DEF SleepersRight, WaitNotMissed, Zombies, Children
    <3>3. CASE parent[q] = t[1]
      <4>1. u[1] = initproc /\ q # t[1]
        BY Zenon, <1>5, <2>2, <3>3 DEF FamilyRight
      <4> QED
        BY Zenon, <1>b, <1>4, <2>2, <3>1, <3>3, <4>1
    <3>4. CASE parent[q] # t[1]
      <4>1. parent[q] = u[1]
        BY Zenon, <1>5, <2>2, <3>4
      <4>2. q = t[1]
        BY Zenon, <1>4, <2>2, <3>2, <4>1
      <4> QED
        BY Zenon, <1>b, <3>1, <4>1, <4>2
    <3> QED
      BY Zenon, <3>3, <3>4
  <2>3. WaitNotMissed'
    BY Zenon, <2>2 DEF WaitNotMissed, Zombies, Children
  <2> QED
    BY Zenon, <2>1, <2>3 DEF SleepersRight
<1>18. EmbryosRight'
  <2>1. \A u \in Thread : pc[u] \in Forking => pc'[u] = pc[u]
    BY Zenon, <1>1, <1>2 DEF Forking
  <2> QED
    BY <1>1, <1>3, <1>4, <2>1 DEF EmbryosRight, EmbryoOwned, Forking
<1> QED
  BY Zenon, <1>2, <1>7, <1>9, <1>10, <1>11, <1>12, <1>13, <1>14, <1>15, <1>16, <1>17, <1>18

\* wait frees the stacks of the threads of a zombie, and its slot.
LEMMA WaitReapStep ==
    ASSUME TableInv, NEW t \in Thread, WaitReap(t)
    PROVE  TableInv'
<1> USE DEF TableInv
<1>1. /\ state[t] = "RUNNING" /\ pc[t] \in {"dispatch", "wait_sleep"} /\ Live(t)
      /\ lock' = Nil /\ chan' = [chan EXCEPT ![t] = Nil]
      /\ tfReady' = tfReady /\ slot' = slot /\ back' = back /\ cpu' = cpu
      /\ nextpid' = nextpid /\ nexttid' = nexttid
      /\ \A v \in Thread : New(v)' = New(v)
  BY Zenon, WhoRuns DEF WaitReap, InWait, At, idVars, New
<1>2. PICK p \in Zombies(t) :
         LET dead == {u \in Threads(p) : state[u] = "TERMINATED"}
             gone == \A u \in Threads(p) \ {t} : state[u] \in {"UNINIT", "TERMINATED"}
         IN  /\ kstack' = [u \in Thread |-> kstack[u] /\ u \notin dead]
             /\ stackPages' = stackPages - Cardinality(dead)
             /\ tid' = [u \in Thread |-> IF u \in dead THEN 0 ELSE tid[u]]
             /\ exitRequest' = [u \in Thread |-> exitRequest[u] /\ u \notin dead]
             /\ state' = [u \in Thread |-> IF u \in dead THEN "UNINIT" ELSE state[u]]
             /\ pc' = [u \in Thread |-> IF u = t THEN IF \A d \in dead : kstack[d] THEN "sysret"
                                                      ELSE "panic"
                                        ELSE IF u \in dead THEN "none" ELSE pc[u]]
             /\ pid' = IF gone THEN [pid EXCEPT ![p] = 0] ELSE pid
             /\ parent' = IF gone THEN [parent EXCEPT ![p] = NoProc] ELSE parent
             /\ killed' = IF gone THEN [killed EXCEPT ![p] = FALSE] ELSE killed
             /\ pstate' = IF gone THEN [pstate EXCEPT ![p] = "UNUSED"] ELSE pstate
  BY Zenon DEF WaitReap
<1> DEFINE D == {u \in Threads(p) : state[u] = "TERMINATED"}
<1>3. /\ p \in Proc /\ parent[p] = t[1] /\ pstate[p] = "ZOMBIE" /\ p # initproc
      /\ \A u \in Threads(p) : state[u] \in {"UNINIT", "TERMINATED"}
  <2>1. p \in Proc /\ parent[p] = t[1] /\ pstate[p] = "ZOMBIE" /\ p # initproc
    BY Zenon DEF Zombies, Children, InitRight
  <2> QED
    BY Zenon, <2>1, WhoRuns DEF Threads, SlotsRight
<1>4. /\ D \subseteq Thread /\ t \notin D
      /\ \A u \in Thread : u \in D <=> u[1] = p /\ state[u] = "TERMINATED"
      /\ \A u \in D : kstack[u] /\ pc[u] = "dead"
  BY Zenon, <1>1 DEF Threads, StacksRight, StacksAccounted, PlacesRight
<1>5. /\ kstack' = [u \in Thread |-> kstack[u] /\ u \notin D]
      /\ stackPages' = stackPages - Cardinality(D)
      /\ tid' = [u \in Thread |-> IF u \in D THEN 0 ELSE tid[u]]
      /\ exitRequest' = [u \in Thread |-> exitRequest[u] /\ u \notin D]
      /\ state' = [u \in Thread |-> IF u \in D THEN "UNINIT" ELSE state[u]]
      /\ pc' = [u \in Thread |-> IF u = t THEN "sysret" ELSE IF u \in D THEN "none" ELSE pc[u]]
  BY Zenon, <1>2, <1>4
<1>6. /\ pid' = [pid EXCEPT ![p] = 0] /\ parent' = [parent EXCEPT ![p] = NoProc]
      /\ killed' = [killed EXCEPT ![p] = FALSE] /\ pstate' = [pstate EXCEPT ![p] = "UNUSED"]
  BY Zenon, <1>2, <1>3
<1> HIDE DEF D
<1>7. /\ stackPages' = Cardinality({v \in Thread : kstack'[v]}) /\ stackPages' \in Int
      /\ kstack' \in [Thread -> BOOLEAN]
      /\ \A v \in Thread : kstack'[v] <=> kstack[v] /\ v \notin D
  <2>1. kstack' \in [Thread -> BOOLEAN] /\ \A v \in Thread : kstack'[v] <=> kstack[v] /\ v \notin D
    BY Zenon, <1>5 DEF TypeOK
  <2>2. D \in SUBSET {v \in Thread : kstack[v]} /\ stackPages' = stackPages - Cardinality(D)
    BY Zenon, <1>4, <1>5
  <2> QED
    BY Zenon, <2>1, <2>2, StacksLost
<1>8. /\ pstate'[p] = "UNUSED" /\ \A q \in Proc \ {p} : pstate'[q] = pstate[q]
      /\ parent'[p] = NoProc /\ \A q \in Proc \ {p} : parent'[q] = parent[q]
      /\ \A q \in Proc \ {p} : pid'[q] = pid[q] /\ killed'[q] = killed[q]
      /\ NoProc \notin Proc
  BY <1>3, <1>6, ProcThreadAssumption DEF TypeOK, NoProc, Proc
<1>9. /\ \A u \in D : state'[u] = "UNINIT" /\ pc'[u] = "none"
      /\ \A u \in Thread \ D : state'[u] = state[u]
      /\ pc'[t] = "sysret" /\ state'[t] = "RUNNING"
      /\ \A u \in Thread \ (D \union {t}) : pc'[u] = pc[u]
      /\ \A u \in Thread \ {t} : chan'[u] = chan[u]
      /\ \A u \in Thread : exitRequest'[u] <=> exitRequest[u] /\ u \notin D
  BY Zenon, <1>1, <1>4, <1>5 DEF TypeOK
<1>10. \A u \in Thread : /\ Live(u)' <=> Live(u)
                         /\ state'[u] = "RUNNING" <=> state[u] = "RUNNING"
                         /\ state'[u] = "SLEEPING" <=> state[u] = "SLEEPING"
  BY Zenon, <1>4, <1>9 DEF Live
<1>11. \A u \in Thread : /\ pc[u] \notin {"dead", "dispatch", "wait_sleep"} => pc'[u] = pc[u]
                         /\ pc'[u] \notin {"none", "sysret"} => pc'[u] = pc[u]
  BY Zenon, <1>1, <1>4, <1>9
<1>12. TypeOK'
  <2>1. /\ state' \in [Thread -> TState] /\ pc' \in [Thread -> PC] /\ tid' \in [Thread -> Nat]
        /\ exitRequest' \in [Thread -> BOOLEAN]
    BY Zenon, <1>5 DEF TypeOK, TState, PC
  <2>2. /\ pid' \in [Proc -> Nat] /\ parent' \in [Proc -> Proc \union {NoProc}]
        /\ killed' \in [Proc -> BOOLEAN] /\ pstate' \in [Proc -> PState]
    BY Zenon, <1>6 DEF TypeOK, PState
  <2>3. chan' \in [Thread -> Chan] /\ lock' \in Thread \union {Nil}
    BY Zenon, <1>1, Channels DEF TypeOK
  <2> QED
    BY Zenon, <1>1, <1>7, <2>1, <2>2, <2>3 DEF TypeOK
<1>13. CpusRight'
  BY Zenon, <1>1, <1>10, CpusKept
<1>14. PlacesRight'
  <2>1. \A u \in Thread : /\ state'[u] = "UNINIT" => pc'[u] = "none"
                          /\ state'[u] = "TERMINATED" => pc'[u] = "dead"
    BY SMTT(30), <1>1, <1>4, <1>9 DEF PlacesRight
  <2>2. \A u \in Thread : Live(u)' =>
           pc'[u] \notin {"none", "dead", "panic", "fault_peek", "fault_poke"}
    BY SMTT(30), <1>4, <1>9, <1>10 DEF PlacesRight, Live
  <2>3. \A u \in Thread : /\ state'[u] = "SLEEPING" => u # t /\ pc'[u] = pc[u] /\ chan'[u] = chan[u]
                          /\ pc'[u] = "join_sleep" => u # t /\ pc[u] = "join_sleep" /\ chan'[u] = chan[u]
    BY <1>1, <1>4, <1>9, <1>10
  <2> QED
    BY <1>10, <2>1, <2>2, <2>3 DEF PlacesRight
<1>15. SlotsRight'
  <2>1. \A u \in Thread : u[1] = p => state'[u] = "UNINIT"
    BY <1>3, <1>4, <1>9 DEF Threads
  <2>2. \A u \in Thread : u[1] # p => pstate'[u[1]] = pstate[u[1]] /\ u \notin D
    BY Zenon, <1>4, <1>8, ThreadPair
  <2> QED
    BY SMTT(30), <1>8, <1>9, <1>10, <2>1, <2>2 DEF SlotsRight
<1>16. ExitsRight'
  <2>1. \A u \in Thread : LiveOthers(u)' \subseteq LiveOthers(u)
    BY Zenon, <1>4, <1>9 DEF LiveOthers, Threads
  <2>2. \A u \in Thread : pc'[u] \in {"exit", "exit_close"} => pc'[u] = pc[u]
    BY Zenon, <1>11
  <2> QED
    BY Zenon, <1>1, <2>1, <2>2 DEF ExitsRight
<1>17. InitRight'
  <2>1. /\ pstate'[initproc] = "USED" /\ pid'[initproc] = 1 /\ ~killed'[initproc]
        /\ parent'[initproc] = NoProc
    BY Zenon, <1>3, <1>8, MainThread DEF InitRight
  <2>2. \A u \in Thread : u[1] = initproc => u \notin D /\ (u # t => pc'[u] = pc[u])
    BY Zenon, <1>3, <1>4, <1>9
  <2> QED
    BY <1>9, <2>1, <2>2 DEF InitRight
<1>18. ForksRight'
  <2>1. \A u \in Thread : pc'[u] \in Forking \union {"fork_undo"} => pc'[u] = pc[u]
    BY Zenon, <1>11 DEF Forking
  <2>2. \A u \in Thread : pc[u] \in Forking \union {"fork_undo"} => slot[u] \in Proc /\ slot[u] # p
    BY Zenon, <1>3 DEF ForksRight, Forking
  <2>3. \A u \in Thread : pc[u] \in Forking =>
           /\ kstack'[Main(slot[u])] <=> kstack[Main(slot[u])]
           /\ Main(slot[u]) \in Thread
    BY <1>4, <1>7, <2>2, MainThread
  <2> QED
    BY SMTT(30), <1>1, <1>8, <2>1, <2>2, <2>3 DEF ForksRight, Forking
<1>19. CreatesRight'
  <2>1. \A u \in Thread : pc'[u] \in {"create_kalloc", "create_publish"} =>
           /\ pc'[u] = pc[u] /\ New(u) \in Thread /\ state[New(u)] = "UNINIT" /\ New(u) \notin D
    BY Zenon, <1>4, <1>11 DEF CreatesRight
  <2> QED
    BY <1>1, <1>7, <1>9, <2>1 DEF CreatesRight
<1>20. StacksRight'
  <2>1. StacksAccounted'
    BY <1>7, <1>9, <1>4 DEF StacksRight, StacksAccounted
  <2>2. ASSUME NEW u \in Thread, state'[u] = "UNINIT", kstack'[u]
        PROVE  /\ state[u] = "UNINIT" /\ kstack[u] /\ Main(u[1]) \in Thread
               /\ pstate[u[1]] = "EMBRYO" => pstate'[u[1]] = "EMBRYO"
               /\ pc[Main(u[1])] = "create_publish" => pc'[Main(u[1])] = "create_publish"
    <3>1. state[u] = "UNINIT" /\ kstack[u]
      BY Zenon, <1>7, <1>9, <2>2
    <3>2. Main(u[1]) \in Thread /\ u[1] \in Proc
      BY Zenon, ThreadPair, MainThread
    <3> QED
      BY Zenon, <1>3, <1>8, <1>11, <3>1, <3>2
  <2>3. \A u \in Thread : New(Main(u[1]))' = New(Main(u[1]))
    BY Zenon, <1>1, MainThread, ThreadPair
  <2>4. ASSUME NEW u \in Thread, state'[u] = "UNINIT", kstack'[u]
        PROVE  \/ pstate'[u[1]] = "EMBRYO" /\ u = Main(u[1])
               \/ pc'[Main(u[1])] = "create_publish" /\ New(Main(u[1]))' = u
    <3>1. /\ state[u] = "UNINIT" /\ kstack[u]
          /\ pstate[u[1]] = "EMBRYO" => pstate'[u[1]] = "EMBRYO"
          /\ pc[Main(u[1])] = "create_publish" => pc'[Main(u[1])] = "create_publish"
      BY Zenon, <2>2, <2>4
    <3>2. \/ pstate[u[1]] = "EMBRYO" /\ u = Main(u[1])
          \/ pc[Main(u[1])] = "create_publish" /\ New(Main(u[1])) = u
      BY Zenon, <3>1 DEF StacksRight
    <3> QED
      BY Zenon, <2>3, <3>1, <3>2
  <2> QED
    BY Zenon, <2>1, <2>4 DEF StacksRight
<1>21. FamilyRight'
  <2>1. ParentAlive'
    BY <1>3, <1>8 DEF FamilyRight, ParentAlive
  <2>2. UsedHasThread'
    BY SMTT(30), <1>8, <1>10 DEF FamilyRight, UsedHasThread, Threads
  <2> QED
    BY <1>8, <2>1, <2>2 DEF FamilyRight
<1>22. SleepersRight'
  <2>1. \A u \in Thread : state'[u] = "SLEEPING" =>
           u # t /\ state[u] = "SLEEPING" /\ pc'[u] = pc[u] /\ chan'[u] = chan[u]
    BY Zenon, <1>4, <1>9, <1>10
  <2>2. \A u \in Thread : Zombies(u)' \subseteq Zombies(u)
    BY Zenon, <1>3, <1>8, ThreadPair DEF Zombies, Children
  <2>3. \A u \in Thread : state'[u] = "TERMINATED" => state[u] = "TERMINATED"
    BY Zenon, <1>9
  <2>4. JoinNotMissed'
    BY <2>1, <2>3 DEF SleepersRight, JoinNotMissed, PlacesRight
  <2>5. WaitNotMissed'
    BY Zenon, <2>1, <2>2 DEF SleepersRight, WaitNotMissed
  <2> QED
    BY Zenon, <2>4, <2>5 DEF SleepersRight
<1>23. EmbryosRight'
  <2>1. \A u \in Thread : pc[u] \in Forking => pc'[u] = pc[u]
    BY Zenon, <1>11 DEF Forking
  <2> QED
    BY SMTT(30), <1>1, <1>8, <2>1 DEF EmbryosRight, EmbryoOwned, Forking
<1> QED
  BY Zenon, <1>12, <1>13, <1>14, <1>15, <1>16, <1>17, <1>18, <1>19, <1>20, <1>21, <1>22, <1>23
-----------------------------------------------------------------------------
(***************************************************************************)
(* The invariant, and what it says.                                        *)
(***************************************************************************)
\* The table that userinit leaves satisfies the invariant.
LEMMA TableInvInit ==
    Init => TableInv
<1> SUFFICES ASSUME Init PROVE TableInv
  BY Zenon
<1>1. /\ InitMain \in Thread /\ InitMain[1] = initproc /\ initproc \in Proc /\ Nil \notin Thread
      /\ NoProc \notin Proc
  BY MainThread, ProcThreadAssumption DEF NoProc, Proc
<1>2. /\ pstate = [p \in Proc |-> IF p = initproc THEN "USED" ELSE "UNUSED"]
      /\ pid = [p \in Proc |-> IF p = initproc THEN 1 ELSE 0]
      /\ parent = [p \in Proc |-> NoProc] /\ killed = [p \in Proc |-> FALSE]
      /\ state = [t \in Thread |-> IF t = InitMain THEN "RUNNABLE" ELSE "UNINIT"]
      /\ exitRequest = [t \in Thread |-> FALSE] /\ kstack = [t \in Thread |-> t = InitMain]
      /\ chan = [t \in Thread |-> Nil]
      /\ pc = [t \in Thread |-> IF t = InitMain THEN "forkret" ELSE "none"]
      /\ cpu = [c \in CPU |-> Nil] /\ lock = Nil /\ stackPages = 1
  BY Zenon DEF Init, InitMain
<1>3. TypeOK
  <2>1. /\ pstate \in [Proc -> PState] /\ state \in [Thread -> TState] /\ pc \in [Thread -> PC]
        /\ chan \in [Thread -> Chan]
    BY Zenon, <1>2, Channels DEF PState, TState, PC
  <2> QED
    BY <2>1 DEF Init, TypeOK
<1>4. CpusRight
  BY Zenon, <1>1, <1>2 DEF CpusRight, OneCpu, Running
<1>5. PlacesRight /\ SlotsRight
  BY Zenon, <1>1, <1>2, ThreadPair DEF PlacesRight, SlotsRight, Live
<1>6. ExitsRight /\ InitRight /\ CreatesRight
  BY Zenon, <1>1, <1>2, ThreadPair DEF ExitsRight, InitRight, CreatesRight
<1>7. ForksRight
  BY Zenon, <1>2 DEF ForksRight, Forking
<1>8. StacksRight
  <2>1. {t \in Thread : kstack[t]} = {InitMain}
    BY Zenon, <1>1, <1>2
  <2>2. Cardinality({InitMain}) = 1
    BY Zenon, FS_Singleton
  <2> QED
    BY Zenon, <1>2, <2>1, <2>2 DEF StacksRight, StacksAccounted
<1>9. FamilyRight
  BY Zenon, <1>1, <1>2 DEF FamilyRight, ParentAlive, UsedHasThread, Threads, Live
<1>10. SleepersRight /\ EmbryosRight
  BY Zenon, <1>2 DEF SleepersRight, JoinNotMissed, WaitNotMissed, EmbryosRight, EmbryoOwned
<1> QED
  BY Zenon, <1>3, <1>4, <1>5, <1>6, <1>7, <1>8, <1>9, <1>10 DEF TableInv

\* Nobody faults.
LEMMA NoFaultStep ==
    ASSUME TableInv, Disciplined, NEW t \in Thread, Fault(t) \/ FaultPeek(t) \/ FaultPoke(t)
    PROVE  FALSE
BY Zenon, WhoRuns, WhoCalls DEF Fault, FaultPeek, FaultPoke, At

\* Every step of the kernel preserves the invariant.
LEMMA TableInvStep ==
    Disciplined /\ TableInv /\ [Next]_vars => TableInv'
<1> SUFFICES ASSUME Disciplined, TableInv, [Next]_vars PROVE TableInv'
  BY Zenon
<1>1. ASSUME NEW c \in CPU, NEW t \in Thread, Schedule(c, t) PROVE TableInv'
  BY Zenon, <1>1, ScheduleStep
<1>2. ASSUME NEW t \in Thread, Resume(t) \/ Preempt(t) PROVE TableInv'
  BY Zenon, <1>2, ResumeStep, PreemptStep
<1>3. ASSUME NEW t \in Thread, User(t) PROVE TableInv'
  BY Zenon, <1>3, TrapStep, NoFaultStep DEF User
<1>4. ASSUME NEW t \in Thread, Dispatch(t) PROVE TableInv'
  <2>1. CASE SysOther(t) \/ AllocProcFull(t) \/ CreateFull(t)
    BY Zenon, <2>1, ReturnStep
  <2>2. CASE \E n \in 1 .. MaxTid : JoinFails(t, n)
    BY Zenon, <2>2, ReturnStep
  <2>3. CASE \E n \in 1 .. MaxTid : Join(t, n)
    BY Zenon, <2>3, JoinStep
  <2>4. CASE \E n \in KillPids : Kill(t, n)
    BY Zenon, <2>4, KillStep
  <2>5. CASE AllocProc(t) \/ CreatePick(t)
    BY Zenon, <2>5, AllocProcStep, CreatePickStep
  <2>6. CASE SysExit(t) \/ SysKthreadExit(t)
    BY Zenon, <2>6, SysExitStep
  <2>7. CASE ExecAsk(t)
    BY Zenon, <2>7, AskStep
  <2> QED
    BY Zenon, <1>4, <2>1, <2>2, <2>3, <2>4, <2>5, <2>6, <2>7 DEF Dispatch
<1>5. ASSUME NEW t \in Thread, Kernel(t) PROVE TableInv'
  <2>1. CASE TrapReturn(t) \/ FaultPeek(t) \/ FaultPoke(t)
    BY Zenon, <2>1, TrapStep, NoFaultStep
  <2>2. CASE ForkKalloc(t) \/ ForkCopy(t) \/ ForkCopyFails(t) \/ ForkUndo(t) \/ ForkPublish(t)
    BY Zenon, <2>2, ForkKallocStep, ForkCopyStep, ForkCopyFailsStep, ForkUndoStep, ForkPublishStep
  <2>3. CASE Exit(t) \/ ExitFinal(t)
    BY Zenon, <2>3, AskStep, ExitFinalStep
  <2>4. CASE WaitReap(t) \/ WaitSleep(t)
    BY Zenon, <2>4, WaitReapStep, WaitSleepStep
  <2>5. CASE WaitFails(t) \/ CreateTf(t) \/ ExecReturn(t)
    BY Zenon, <2>5, ReturnStep
  <2>6. CASE CreateKalloc(t) \/ CreatePublish(t)
    BY Zenon, <2>6, CreateKallocStep, CreatePublishStep
  <2>7. CASE KthreadExitLast(t) \/ KthreadExit(t)
    BY Zenon, <2>7, KthreadExitLastStep, KthreadExitStep
  <2>8. CASE JoinResume(t)
    BY Zenon, <2>8, JoinStep
  <2> QED
    BY Zenon, <1>4, <1>5, <2>1, <2>2, <2>3, <2>4, <2>5, <2>6, <2>7, <2>8 DEF Kernel
<1>6. CASE UNCHANGED vars
  <2>1. /\ pstate' = pstate /\ pid' = pid /\ parent' = parent /\ killed' = killed
        /\ state' = state /\ tid' = tid /\ exitRequest' = exitRequest /\ kstack' = kstack
        /\ stackPages' = stackPages /\ chan' = chan /\ tfReady' = tfReady /\ pc' = pc
        /\ slot' = slot /\ back' = back /\ cpu' = cpu /\ lock' = lock
        /\ nextpid' = nextpid /\ nexttid' = nexttid
    BY Zenon, <1>6 DEF vars, procVars, stackVars, runVars, idVars
  <2>2. TypeOK' /\ CpusRight'
    BY Zenon, <2>1 DEF TableInv, TypeOK, CpusRight, OneCpu, Running
  <2>3. PlacesRight' /\ SlotsRight' /\ ExitsRight'
    BY Zenon, <2>1 DEF TableInv, PlacesRight, SlotsRight, ExitsRight, LiveOthers, Threads, Live
  <2>4. InitRight' /\ ForksRight'
    BY Zenon, <2>1 DEF TableInv, InitRight, ForksRight
  <2>5. CreatesRight' /\ StacksRight'
    BY Zenon, <2>1 DEF TableInv, CreatesRight, StacksRight, StacksAccounted, New
  <2>6. FamilyRight' /\ SleepersRight' /\ EmbryosRight'
    BY <2>1 DEF TableInv, FamilyRight, ParentAlive, UsedHasThread, Threads, Live, SleepersRight,
                JoinNotMissed, WaitNotMissed, Zombies, Children, EmbryosRight, EmbryoOwned
  <2> QED
    BY Zenon, <2>2, <2>3, <2>4, <2>5, <2>6 DEF TableInv
<1> QED
  BY Zenon, <1>1, <1>2, <1>3, <1>5, <1>6 DEF Next

\* TableInv holds in every state that disciplined programs can reach.
THEOREM TableInvariant ==
    ASSUME Disciplined
    PROVE  Spec => []TableInv
BY TableInvInit, TableInvStep, PTL DEF Spec

\* OneCpu: a thread runs on at most one CPU, and a CPU runs exactly the threads
\* that are RUNNING, whatever scheduler, sched, sleep, wakeup1, exit and
\* kthread_exit do to the states.
THEOREM OneThreadOneCpu ==
    ASSUME Disciplined
    PROVE  Spec => []OneCpu
<1>1. TableInv => OneCpu
  BY Zenon DEF TableInv, CpusRight
<1> QED
  BY <1>1, TableInvariant, PTL

\* TableSound: live threads are in processes in use, and exit, kthread_exit,
\* kthread_join and wait reach none of their panics.
THEOREM TableConsistent ==
    ASSUME Disciplined
    PROVE  Spec => []TableSound
<1>1. TableInv => TableSound
  <2> SUFFICES ASSUME TableInv PROVE TableSound
    BY Zenon
  <2>1. LiveInUsed
    BY Zenon, WhoRuns DEF LiveInUsed
  <2>2. NoPanic
    BY Zenon, WhoRuns DEF NoPanic
  <2> QED
    BY Zenon, <2>1, <2>2 DEF TableSound, TableInv
<1> QED
  BY <1>1, TableInvariant, PTL

\* StacksAccounted: as many pages are allocated as kernel stacks as there are
\* thread slots with a stack, and every thread that exists has one: none is
\* lost or freed twice by fork, kthread_create, kthread_join and wait.
THEOREM NoStackLost ==
    ASSUME Disciplined
    PROVE  Spec => []StacksAccounted
<1>1. TableInv => StacksAccounted
  BY Zenon DEF TableInv, StacksRight
<1> QED
  BY <1>1, TableInvariant, PTL

\* JoinNotMissed: nobody sleeps in kthread_join for a thread that has terminated.
THEOREM NoJoinMissed ==
    ASSUME Disciplined
    PROVE  Spec => []JoinNotMissed
<1>1. TableInv => JoinNotMissed
  BY Zenon DEF TableInv, SleepersRight
<1> QED
  BY <1>1, TableInvariant, PTL

\* WaitNotMissed: nobody sleeps in wait while a child is a zombie, inherited
\* children included.
THEOREM NoWaitMissed ==
    ASSUME Disciplined
    PROVE  Spec => []WaitNotMissed
<1>1. TableInv => WaitNotMissed
  BY Zenon DEF TableInv, SleepersRight
<1> QED
  BY <1>1, TableInvariant, PTL

\* FamilySound: every process in use has a thread and a parent that can wait for
\* it, and, where memory does not run out, every slot that fork has taken
\* belongs to a fork that is still running.
THEOREM FamilyHolds ==
    ASSUME Disciplined, ~MemoryFails
    PROVE  Spec => []FamilySound
<1>1. TableInv => FamilySound
  BY Zenon DEF TableInv, FamilyRight, EmbryosRight, FamilySound
<1> QED
  BY <1>1, TableInvariant, PTL
=============================================================================
