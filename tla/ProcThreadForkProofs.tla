------------------------ MODULE ProcThreadForkProofs ------------------------
(***************************************************************************)
(* fork and kthread_create preserve the invariant of ProcThreadInvariant.  *)
(***************************************************************************)
EXTENDS ProcThreadInvariant

-----------------------------------------------------------------------------
(***************************************************************************)
(* fork.                                                                   *)
(***************************************************************************)
\* allocproc takes a free slot, which has no thread and no stack.
LEMMA AllocProcStep ==
    ASSUME TableInv, Disciplined, NEW t \in Thread, AllocProc(t)
    PROVE  TableInv'
<1> USE DEF TableInv
<1>1. PICK p \in Proc :
        /\ pstate[p] = "UNUSED"
        /\ pstate' = [pstate EXCEPT ![p] = "EMBRYO"]
        /\ pid' = [pid EXCEPT ![p] = nextpid]
        /\ state' = [u \in Thread |-> IF u[1] = p THEN "UNINIT" ELSE state[u]]
        /\ tid' = [tid EXCEPT ![<<p, 0>>] = nexttid]
        /\ exitRequest' = [exitRequest EXCEPT ![<<p, 0>>] = FALSE]
        /\ slot' = [slot EXCEPT ![t] = p]
  BY Zenon DEF AllocProc, FirstUnused
<1>2. /\ state[t] = "RUNNING" /\ pc[t] = "dispatch" /\ MayCall(t, "fork")
      /\ pc' = [pc EXCEPT ![t] = "fork_kalloc"]
      /\ parent' = parent /\ killed' = killed /\ kstack' = kstack /\ stackPages' = stackPages
      /\ chan' = chan /\ tfReady' = tfReady /\ back' = back /\ cpu' = cpu /\ lock' = lock
      /\ nextpid' = nextpid + 1 /\ nexttid' = nexttid + 1
  BY Zenon, WhoRuns DEF AllocProc, At, Goto, stackVars, runVars
<1>3. /\ pc'[t] = "fork_kalloc" /\ \A u \in Thread \ {t} : pc'[u] = pc[u]
      /\ slot'[t] = p /\ \A u \in Thread \ {t} : slot'[u] = slot[u]
      /\ pstate'[p] = "EMBRYO" /\ \A q \in Proc \ {p} : pstate'[q] = pstate[q] /\ pid'[q] = pid[q]
      /\ \A u \in Thread : exitRequest'[u] => exitRequest[u]
  BY Zenon, <1>1, <1>2 DEF TypeOK
<1>4. state' = state /\ \A u \in Thread : u[1] = p => state[u] = "UNINIT" /\ pc[u] = "none"
  <2>1. \A u \in Thread : u[1] = p => state[u] = "UNINIT"
    BY Zenon, <1>1 DEF SlotsRight
  <2> QED
    BY <1>1, <2>1 DEF TypeOK, PlacesRight
<1>5. p # initproc /\ p # t[1]
  BY Zenon, <1>1, <1>2, WhoRuns DEF InitRight
<1>6. Main(p) \in Thread /\ Main(p)[1] = p /\ ~kstack[Main(p)]
  BY <1>1, <1>4, MainThread DEF StacksRight
<1>7. MemoryFails => t = InitMain
  BY Zenon, <1>2, WhoCalls DEF InitRight
<1>8. TypeOK'
  <2>1. pid' \in [Proc -> Nat] /\ tid' \in [Thread -> Nat] /\ slot' \in [Thread -> Nat]
    <3>1. p \in Nat
      BY ProcThreadAssumption DEF Proc
    <3> QED
      BY Zenon, <1>1, <3>1 DEF TypeOK
  <2>2. pstate' \in [Proc -> PState] /\ pc' \in [Thread -> PC]
    BY Zenon, <1>1, <1>2 DEF TypeOK, PState, PC
  <2>3. exitRequest' \in [Thread -> BOOLEAN]
    BY Zenon, <1>1 DEF TypeOK
  <2> QED
    BY <1>2, <1>4, <2>1, <2>2, <2>3 DEF TypeOK
<1>9. CpusRight'
  BY <1>2, <1>4 DEF CpusRight, OneCpu, Running
<1>10. PlacesRight'
  BY <1>2, <1>3, <1>4 DEF PlacesRight, Live
<1>11. SlotsRight'
  BY <1>3, <1>4, ThreadPair DEF SlotsRight, Live
<1>12. ExitsRight'
  BY <1>2, <1>3, <1>4 DEF ExitsRight, LiveOthers, Threads
<1>13. InitRight'
  BY <1>2, <1>3, <1>4, <1>5, MainThread DEF InitRight
<1>14. ForksRight'
  <2>1. \A u \in Thread \ {t} : pc[u] \in Forking => slot[u] # p
    BY Zenon, <1>1 DEF ForksRight
  <2>2. \A u \in Thread \ {t} : pc[u] # "fork_undo"
    BY Zenon, <1>7 DEF ForksRight
  <2> QED
    BY <1>2, <1>3, <1>6, <1>7, <2>1, <2>2 DEF ForksRight, Forking
<1>15. CreatesRight'
  BY <1>2, <1>3, <1>4 DEF CreatesRight, New
<1>16. StacksRight'
  BY <1>2, <1>3, <1>4, ThreadPair, MainThread DEF StacksRight, StacksAccounted, New
<1>17. FamilyRight'
  <2>1. ParentAlive'
    BY <1>1, <1>2, <1>3 DEF FamilyRight, ParentAlive
  <2>2. UsedHasThread'
    BY <1>3, <1>4 DEF FamilyRight, UsedHasThread, Threads, Live
  <2> QED
    BY Zenon, <1>2, <2>1, <2>2 DEF FamilyRight
<1>18. SleepersRight'
  BY <1>2, <1>3, <1>4 DEF SleepersRight, JoinNotMissed, WaitNotMissed, Zombies, Children
<1>19. EmbryosRight'
  BY <1>2, <1>3 DEF EmbryosRight, EmbryoOwned, Forking
<1> QED
  BY Zenon, <1>8, <1>9, <1>10, <1>11, <1>12, <1>13, <1>14, <1>15, <1>16, <1>17, <1>18, <1>19

\* allocproc gets a stack for the new thread, or fork fails.
LEMMA ForkKallocStep ==
    ASSUME TableInv, NEW t \in Thread, ForkKalloc(t)
    PROVE  TableInv'
<1> USE DEF TableInv
<1> DEFINE p == slot[t]
           m == Main(slot[t])
<1>1. /\ state[t] = "RUNNING" /\ pc[t] = "fork_kalloc" /\ p \in Proc /\ pstate[p] = "EMBRYO"
      /\ m \in Thread /\ ~kstack[m] /\ m[1] = p
  BY Zenon, WhoRuns, MainThread DEF ForkKalloc, At, ForksRight, Forking
<1>2. /\ tfReady' = [tfReady EXCEPT ![m] = FALSE]
      /\ UNCHANGED <<procVars, state, tid, exitRequest, chan, slot, back, runVars, idVars>>
      /\ \/ /\ kstack' = [kstack EXCEPT ![m] = TRUE] /\ stackPages' = stackPages + 1
            /\ Goto(t, "fork_copy")
         \/ /\ MemoryFails /\ kstack' = [kstack EXCEPT ![m] = FALSE] /\ stackPages' = stackPages
            /\ Goto(t, "sysret")
  BY Zenon DEF ForkKalloc, Kalloc, Main
<1>3. CASE MemoryFails /\ kstack' = [kstack EXCEPT ![m] = FALSE] /\ stackPages' = stackPages
           /\ Goto(t, "sysret")
  <2>1. UNCHANGED stackVars
    BY Zenon, <1>1, <1>3 DEF TypeOK, stackVars
  <2>2. "sysret" \in LocalPlaces /\ pc[t] # "create_publish"
    BY Zenon, <1>1 DEF LocalPlaces
  <2> QED
    BY Zenon, <1>1, <1>2, <1>3, <2>1, <2>2, GotoStep DEF runVars
<1>4. CASE kstack' = [kstack EXCEPT ![m] = TRUE] /\ stackPages' = stackPages + 1
           /\ Goto(t, "fork_copy")
  <2>1. /\ stackPages' = Cardinality({u \in Thread : kstack'[u]})
        /\ stackPages' \in Int /\ kstack' \in [Thread -> BOOLEAN]
        /\ kstack'[m] /\ \A u \in Thread \ {m} : kstack'[u] = kstack[u]
    BY Zenon, <1>1, <1>4, StackGained
  <2>2. /\ pc' = [pc EXCEPT ![t] = "fork_copy"]
        /\ pc'[t] = "fork_copy" /\ \A u \in Thread \ {t} : pc'[u] = pc[u]
        /\ pstate' = pstate /\ pid' = pid /\ parent' = parent /\ killed' = killed
        /\ state' = state /\ tid' = tid /\ exitRequest' = exitRequest /\ chan' = chan
        /\ slot' = slot /\ back' = back /\ cpu' = cpu /\ lock' = lock
        /\ nextpid' = nextpid /\ nexttid' = nexttid
    BY Zenon, <1>2, <1>4 DEF TypeOK, Goto, procVars, runVars, idVars
  <2>3. TypeOK'
    BY Zenon, <1>2, <2>1, <2>2 DEF TypeOK, PC
  <2>4. CpusRight' /\ PlacesRight' /\ SlotsRight' /\ ExitsRight' /\ InitRight'
    BY <1>1, <2>2 DEF CpusRight, OneCpu, Running, PlacesRight, SlotsRight, ExitsRight, InitRight,
                      Live, LiveOthers, Threads
  <2>5. ForksRight'
    <3>1. \A u \in Thread \ {t} : pc[u] \in Forking => Main(slot[u]) # m /\ Main(slot[u]) \in Thread
      BY <1>1, MainThread DEF ForksRight, Forking
    <3> QED
      BY <1>1, <2>1, <2>2, <3>1 DEF ForksRight, Forking
  <2>6. CreatesRight'
    <3>1. \A u \in Thread : pc[u] \in {"create_kalloc", "create_publish"} => New(u) # m
      <4>1. \A u \in Thread : New(u)[1] = u[1]
        BY Zenon DEF New
      <4> QED
        BY <1>1, <4>1, WhoRuns
    <3> QED
      BY <1>1, <2>1, <2>2, <3>1 DEF CreatesRight, New
  <2>7. StacksRight'
    BY <1>1, <2>1, <2>2, MainThread DEF StacksRight, StacksAccounted, New
  <2>8. FamilyRight' /\ SleepersRight'
    BY <1>1, <2>2 DEF FamilyRight, ParentAlive, UsedHasThread, Threads, Live,
                      SleepersRight, JoinNotMissed, WaitNotMissed, Zombies, Children
  <2>9. EmbryosRight'
    BY <1>1, <2>2 DEF EmbryosRight, EmbryoOwned
  <2> QED
    BY Zenon, <2>3, <2>4, <2>5, <2>6, <2>7, <2>8, <2>9
<1> QED
  BY Zenon, <1>2, <1>3, <1>4

\* fork names the parent of its slot.
LEMMA ForkCopyStep ==
    ASSUME TableInv, NEW t \in Thread, ForkCopy(t)
    PROVE  TableInv'
<1> USE DEF TableInv
<1> DEFINE p == slot[t]
<1>1. /\ state[t] = "RUNNING" /\ pc[t] = "fork_copy" /\ p \in Proc /\ pstate[p] = "EMBRYO"
      /\ t[1] \in Proc /\ pstate[t[1]] = "USED" /\ kstack[Main(p)]
  BY Zenon, WhoRuns, ThreadPair DEF ForkCopy, At, ForksRight, Forking
<1>2. /\ parent' = [parent EXCEPT ![p] = t[1]] /\ pc' = [pc EXCEPT ![t] = "fork_publish"]
      /\ tfReady' = [tfReady EXCEPT ![<<p, 0>>] = TRUE]
      /\ pstate' = pstate /\ pid' = pid /\ killed' = killed /\ state' = state /\ tid' = tid
      /\ exitRequest' = exitRequest /\ kstack' = kstack /\ stackPages' = stackPages
      /\ chan' = chan /\ slot' = slot /\ back' = back /\ cpu' = cpu /\ lock' = lock
      /\ nextpid' = nextpid /\ nexttid' = nexttid
  BY Zenon DEF ForkCopy, Goto, stackVars, runVars, idVars
<1>3. /\ pc'[t] = "fork_publish" /\ \A u \in Thread \ {t} : pc'[u] = pc[u]
      /\ parent'[p] = t[1] /\ \A q \in Proc \ {p} : parent'[q] = parent[q]
  BY Zenon, <1>1, <1>2 DEF TypeOK
<1>4. TypeOK'
  <2>1. parent' \in [Proc -> Proc \union {NoProc}] /\ pc' \in [Thread -> PC]
    BY Zenon, <1>1, <1>2 DEF TypeOK, PC
  <2> QED
    BY Zenon, <1>2, <2>1 DEF TypeOK
<1>5. CpusRight' /\ PlacesRight' /\ SlotsRight' /\ ExitsRight' /\ InitRight'
  BY <1>1, <1>2, <1>3 DEF CpusRight, OneCpu, Running, PlacesRight, SlotsRight, ExitsRight, InitRight,
                    Live, LiveOthers, Threads
<1>6. ForksRight'
  <2>1. pstate' = pstate /\ slot' = slot /\ kstack' = kstack
    BY Zenon, <1>2
  <2> QED
    BY <1>1, <1>3, <2>1 DEF ForksRight, Forking
<1>7. CreatesRight' /\ StacksRight'
  BY <1>1, <1>2, <1>3 DEF CreatesRight, New, StacksRight, StacksAccounted
<1>8. FamilyRight'
  BY <1>1, <1>2, <1>3 DEF FamilyRight, ParentAlive, UsedHasThread, Threads, Live
<1>9. SleepersRight'
  BY <1>1, <1>2, <1>3 DEF SleepersRight, JoinNotMissed, WaitNotMissed, Zombies, Children
<1>10. EmbryosRight'
  BY <1>1, <1>2, <1>3 DEF EmbryosRight, EmbryoOwned
<1> QED
  BY Zenon, <1>4, <1>5, <1>6, <1>7, <1>8, <1>9, <1>10

\* copyuvm fails: the stack and the slot are given back.
LEMMA ForkCopyFailsStep ==
    ASSUME TableInv, NEW t \in Thread, ForkCopyFails(t)
    PROVE  TableInv'
<1> USE DEF TableInv
<1> DEFINE p == slot[t]
           m == Main(slot[t])
<1>1. /\ state[t] = "RUNNING" /\ pc[t] = "fork_copy" /\ p \in Proc /\ pstate[p] = "EMBRYO"
      /\ m \in Thread /\ m[1] = p /\ kstack[m] /\ MemoryFails /\ t = InitMain /\ p # initproc
  BY WhoRuns, MainThread DEF ForkCopyFails, At, ForksRight, Forking, InitRight
<1>2. /\ kstack' = [kstack EXCEPT ![m] = FALSE] /\ stackPages' = stackPages - 1
      /\ pstate' = [pstate EXCEPT ![p] = "UNUSED"] /\ pc' = [pc EXCEPT ![t] = "fork_undo"]
      /\ pid' = pid /\ parent' = parent /\ killed' = killed /\ state' = state /\ tid' = tid
      /\ exitRequest' = exitRequest /\ tfReady' = tfReady
      /\ chan' = chan /\ slot' = slot /\ back' = back /\ cpu' = cpu /\ lock' = lock
      /\ nextpid' = nextpid /\ nexttid' = nexttid
  BY Zenon DEF ForkCopyFails, Goto, runVars, idVars, Main
<1>3. /\ pc'[t] = "fork_undo" /\ \A u \in Thread \ {t} : pc'[u] = pc[u]
      /\ pstate'[p] = "UNUSED" /\ \A q \in Proc \ {p} : pstate'[q] = pstate[q]
  BY Zenon, <1>1, <1>2 DEF TypeOK
<1>4. /\ stackPages' = Cardinality({u \in Thread : kstack'[u]})
      /\ stackPages' \in Int /\ kstack' \in [Thread -> BOOLEAN]
      /\ ~kstack'[m] /\ \A u \in Thread \ {m} : kstack'[u] = kstack[u]
  BY Zenon, <1>1, <1>2, StackLost
<1>5. TypeOK'
  <2>1. pstate' \in [Proc -> PState] /\ pc' \in [Thread -> PC]
    BY Zenon, <1>2 DEF TypeOK, PState, PC
  <2> QED
    BY Zenon, <1>2, <1>4, <2>1 DEF TypeOK
<1>6. \A u \in Thread : u[1] = p => state[u] = "UNINIT" /\ pc[u] = "none"
  BY <1>1 DEF SlotsRight, PlacesRight
<1>7. CpusRight' /\ PlacesRight' /\ SlotsRight' /\ ExitsRight' /\ InitRight'
  BY <1>1, <1>2, <1>3, <1>6, ThreadPair
  DEF CpusRight, OneCpu, Running, PlacesRight, SlotsRight, ExitsRight, InitRight, Live, LiveOthers,
      Threads
<1>8. ForksRight'
  BY SMTT(30), <1>1, <1>2, <1>3 DEF ForksRight, Forking
<1>9. CreatesRight'
  <2>1. \A u \in Thread : New(u)[1] = u[1]
    BY Zenon DEF New
  <2>2. \A u \in Thread : pc[u] \in {"create_kalloc", "create_publish"} => New(u) # m
    BY SMTT(30), <1>1, <2>1, WhoRuns
  <2> QED
    BY <1>1, <1>2, <1>3, <1>4, <2>2 DEF CreatesRight, New
<1>10. StacksRight'
  BY <1>1, <1>2, <1>3, <1>4, <1>6, ThreadPair, MainThread DEF StacksRight, StacksAccounted, New
<1>11. FamilyRight'
  BY <1>1, <1>2, <1>3 DEF FamilyRight, ParentAlive, UsedHasThread, Threads, Live
<1>12. SleepersRight'
  BY <1>1, <1>2, <1>3 DEF SleepersRight, JoinNotMissed, WaitNotMissed, Zombies, Children
<1> QED
  BY Zenon, <1>1, <1>5, <1>7, <1>8, <1>9, <1>10, <1>11, <1>12 DEF EmbryosRight

\* fork resets the thread of the slot it has given back: nobody has taken it.
LEMMA ForkUndoStep ==
    ASSUME TableInv, NEW t \in Thread, ForkUndo(t)
    PROVE  TableInv'
<1> DEFINE m == Main(slot[t])
<1>1. /\ state[t] = "RUNNING" /\ pc[t] = "fork_undo" /\ slot[t] \in Proc
      /\ pstate[slot[t]] = "UNUSED" /\ m \in Thread /\ m[1] = slot[t]
  BY Zenon, WhoRuns, MainThread DEF ForkUndo, At, TableInv, ForksRight
<1>2. /\ state' = [state EXCEPT ![m] = "UNINIT"] /\ Goto(t, "sysret")
      /\ UNCHANGED <<procVars, tid, exitRequest, stackVars, chan, tfReady, slot, back, runVars, idVars>>
  BY Zenon DEF ForkUndo, Main
<1>3. state' = state
  BY Zenon, <1>1, <1>2 DEF TableInv, TypeOK, SlotsRight
<1>4. "sysret" \in LocalPlaces /\ pc[t] # "create_publish" /\ pc[t] \notin Forking
  BY Zenon, <1>1 DEF LocalPlaces, Forking
<1> QED
  BY Zenon, <1>1, <1>2, <1>3, <1>4, GotoStep DEF runVars

\* The slot and its thread are complete: the schedulers may take the thread.
LEMMA ForkPublishStep ==
    ASSUME TableInv, NEW t \in Thread, ForkPublish(t)
    PROVE  TableInv'
<1> USE DEF TableInv
<1> DEFINE p == slot[t]
           m == Main(slot[t])
<1>1. /\ state[t] = "RUNNING" /\ pc[t] = "fork_publish" /\ p \in Proc /\ pstate[p] = "EMBRYO"
      /\ m \in Thread /\ m[1] = p /\ kstack[m] /\ p # initproc /\ p # t[1] /\ parent[p] = t[1]
      /\ t[1] \in Proc /\ pstate[t[1]] = "USED" /\ m # t /\ slot[t] = p /\ m = Main(p)
  BY WhoRuns, MainThread, ThreadPair DEF ForkPublish, At, ForksRight, Forking, InitRight
<1>2. /\ pstate' = [pstate EXCEPT ![p] = "USED"] /\ state' = [state EXCEPT ![m] = "RUNNABLE"]
      /\ pc' = [pc EXCEPT ![t] = "sysret", ![m] = "forkret"]
  BY Zenon DEF ForkPublish, Main
<1>3. /\ pid' = pid /\ parent' = parent /\ killed' = killed /\ tid' = tid
      /\ exitRequest' = exitRequest /\ kstack' = kstack /\ stackPages' = stackPages
      /\ chan' = chan /\ tfReady' = tfReady /\ slot' = slot /\ back' = back /\ cpu' = cpu
      /\ lock' = lock /\ nextpid' = nextpid /\ nexttid' = nexttid
  BY Zenon DEF ForkPublish, stackVars, runVars, idVars
<1>4. /\ pc'[t] = "sysret" /\ pc'[m] = "forkret" /\ \A u \in Thread \ {t, m} : pc'[u] = pc[u]
      /\ pstate'[p] = "USED" /\ \A q \in Proc \ {p} : pstate'[q] = pstate[q]
      /\ state'[m] = "RUNNABLE" /\ \A u \in Thread \ {m} : state'[u] = state[u]
  BY Zenon, <1>1, <1>2 DEF TypeOK
<1>5. \A u \in Thread : u[1] = p => state[u] = "UNINIT" /\ pc[u] = "none"
  BY <1>1 DEF SlotsRight, PlacesRight
<1> HIDE DEF p, m
<1>6. TypeOK'
  <2>1. /\ pstate' \in [Proc -> PState] /\ pc' \in [Thread -> PC]
        /\ state' \in [Thread -> TState]
    BY Zenon, <1>1, <1>2 DEF TypeOK, PState, PC, TState
  <2> QED
    BY Zenon, <1>2, <1>3, <2>1 DEF TypeOK
<1>7. CpusRight'
  <2>1. state[m] = "UNINIT"
    BY Zenon, <1>1, <1>5
  <2>2. \A u \in Thread : state'[u] = "RUNNING" <=> state[u] = "RUNNING"
    BY Zenon, <1>1, <1>4, <2>1
  <2> QED
    BY Zenon, <1>3, <2>2, CpusKept
<1>8. PlacesRight'
  BY <1>1, <1>3, <1>4 DEF PlacesRight, Live
<1>9. SlotsRight'
  BY <1>1, <1>4, <1>5, ThreadPair DEF SlotsRight, Live
<1>10. ExitsRight'
  <2>1. \A u \in Thread \ {t, m} : pc[u] \in {"exit_close", "exit"} => u[1] # p
    BY Zenon, <1>1, WhoRuns
  <2> QED
    BY SMTT(30), <1>1, <1>3, <1>4, <2>1 DEF ExitsRight, LiveOthers, Threads
<1>11. InitRight'
  BY <1>1, <1>3, <1>4, MainThread DEF InitRight
<1>12. ForksRight'
  <2>1. \A u \in Thread \ {t} : pc[u] \in Forking => slot[u] # p
    BY <1>1 DEF ForksRight, Forking
  <2>2. \A u \in Thread : pc[u] = "fork_undo" => slot[u] # p
    BY Zenon, <1>1 DEF ForksRight
  <2> QED
    <3>1. \A u \in Thread : pc'[u] \in Forking \union {"fork_undo"} =>
             u # t /\ u # m /\ pc[u] = pc'[u] /\ slot[u] \in Proc \ {p}
      BY Zenon, <1>4, <2>1, <2>2 DEF Forking, ForksRight
    <3>2. \A u \in Thread : pc'[u] \in Forking \union {"fork_undo"} =>
             /\ pc'[u] = pc[u] /\ slot'[u] = slot[u] /\ pstate'[slot[u]] = pstate[slot[u]]
             /\ parent'[slot[u]] = parent[slot[u]]
             /\ pc[u] \in Forking => kstack'[Main(slot[u])] = kstack[Main(slot[u])]
      BY Zenon, <1>3, <1>4, <3>1
    <3> QED
      BY Zenon, <3>2, ForksKept
<1>13. CreatesRight'
  <2>1. \A u \in Thread : New(u)[1] = u[1]
    BY Zenon DEF New
  <2>2. \A u \in Thread : pc[u] \in {"create_kalloc", "create_publish"} => New(u) # m
    BY <1>1, <2>1, WhoRuns
  <2> QED
    BY <1>1, <1>3, <1>4, <2>2 DEF CreatesRight, New
<1>14. StacksRight'
  <2>1. StacksAccounted'
    BY <1>1, <1>3, <1>4 DEF StacksRight, StacksAccounted
  <2>2. \A u \in Thread \ {m} : state[u] = "UNINIT" /\ kstack[u] => u[1] # p
    BY <1>1, <1>5, MainThread DEF StacksRight
  <2> QED
    BY <1>1, <1>3, <1>4, <2>1, <2>2, <1>5, MainThread, ThreadPair DEF StacksRight, New
<1>15. FamilyRight'
  <2>1. ParentAlive'
    BY <1>1, <1>3, <1>4 DEF FamilyRight, ParentAlive
  <2>2. UsedHasThread'
    BY <1>1, <1>3, <1>4 DEF FamilyRight, UsedHasThread, Threads, Live
  <2> QED
    BY Zenon, <1>3, <2>1, <2>2 DEF FamilyRight
<1>16. SleepersRight'
  <2>1. \A u \in Thread : Zombies(u)' = Zombies(u)
    BY <1>1, <1>3, <1>4 DEF Zombies, Children
  <2>2. \A u \in Thread : /\ state'[u] = "SLEEPING" => state[u] = "SLEEPING" /\ pc'[u] = pc[u]
                          /\ state'[u] = "TERMINATED" => state[u] = "TERMINATED"
    BY SMTT(30), <1>1, <1>4
  <2> QED
    BY Zenon, <1>3, <2>1, <2>2 DEF SleepersRight, JoinNotMissed, WaitNotMissed, PlacesRight
<1>17. EmbryosRight'
  <2>1. pc[m] \notin Forking
    BY Zenon, <1>1, <1>5 DEF Forking
  <2> QED
    BY SMTT(30), <1>1, <1>3, <1>4, <2>1 DEF EmbryosRight, EmbryoOwned, Forking
<1> QED
  BY Zenon, <1>6, <1>7, <1>8, <1>9, <1>10, <1>11, <1>12, <1>13, <1>14, <1>15, <1>16, <1>17
-----------------------------------------------------------------------------
(***************************************************************************)
(* kthread_create.                                                         *)
(***************************************************************************)
\* The new thread gets its stack, or kthread_create fails.
LEMMA CreateKallocStep ==
    ASSUME TableInv, NEW t \in Thread, CreateKalloc(t)
    PROVE  TableInv'
<1> USE DEF TableInv
<1> DEFINE m == New(t)
<1>1. /\ state[t] = "RUNNING" /\ pc[t] = "create_kalloc" /\ t = Main(t[1]) /\ m \in Thread
      /\ ~kstack[m] /\ state[m] = "UNINIT" /\ m[1] = t[1] /\ pstate[t[1]] = "USED" /\ m # t
      /\ t[1] # initproc
  BY Zenon, WhoRuns, NewThreads DEF CreateKalloc, At, CreatesRight, InitRight
<1>2. /\ tfReady' = [tfReady EXCEPT ![m] = FALSE]
      /\ UNCHANGED <<procVars, state, tid, exitRequest, chan, slot, back, runVars, idVars>>
      /\ \/ /\ kstack' = [kstack EXCEPT ![m] = TRUE] /\ stackPages' = stackPages + 1
            /\ Goto(t, "create_publish")
         \/ /\ MemoryFails /\ kstack' = [kstack EXCEPT ![m] = FALSE] /\ stackPages' = stackPages
            /\ Goto(t, "sysret")
  BY Zenon DEF CreateKalloc, Kalloc
<1>3. New(t)' = m /\ \A u \in Thread : New(u)' = New(u)
  BY Zenon, <1>2 DEF New
<1> HIDE DEF m
<1>4. CASE kstack' = [kstack EXCEPT ![m] = FALSE] /\ stackPages' = stackPages /\ Goto(t, "sysret")
  <2>1. UNCHANGED stackVars
    BY Zenon, <1>1, <1>4 DEF TypeOK, stackVars
  <2>2. "sysret" \in LocalPlaces /\ pc[t] \notin Forking /\ pc[t] # "create_publish"
    BY Zenon, <1>1 DEF LocalPlaces, Forking
  <2> QED
    BY Zenon, <1>1, <1>2, <1>4, <2>1, <2>2, GotoStep DEF runVars
<1>5. CASE kstack' = [kstack EXCEPT ![m] = TRUE] /\ stackPages' = stackPages + 1
           /\ Goto(t, "create_publish")
  <2>1. /\ stackPages' = Cardinality({u \in Thread : kstack'[u]})
        /\ stackPages' \in Int /\ kstack' \in [Thread -> BOOLEAN]
        /\ kstack'[m] /\ \A u \in Thread \ {m} : kstack'[u] = kstack[u]
    BY Zenon, <1>1, <1>5, StackGained
  <2>2. /\ pc' = [pc EXCEPT ![t] = "create_publish"]
        /\ pc'[t] = "create_publish" /\ \A u \in Thread \ {t} : pc'[u] = pc[u]
        /\ pstate' = pstate /\ pid' = pid /\ parent' = parent /\ killed' = killed
        /\ state' = state /\ tid' = tid /\ exitRequest' = exitRequest /\ chan' = chan
        /\ slot' = slot /\ back' = back /\ cpu' = cpu /\ lock' = lock
        /\ nextpid' = nextpid /\ nexttid' = nexttid
    BY Zenon, <1>2, <1>5 DEF TypeOK, Goto, procVars, runVars, idVars
  <2>3. TypeOK'
    BY Zenon, <1>2, <2>1, <2>2 DEF TypeOK, PC
  <2>4. CpusRight' /\ PlacesRight' /\ SlotsRight' /\ ExitsRight' /\ InitRight'
    <3>1. CpusRight'
      BY Zenon, <2>2, CpusKept
    <3>2. PlacesRight' /\ SlotsRight'
      BY <1>1, <2>2 DEF PlacesRight, SlotsRight, Live
    <3>3. ExitsRight'
      BY <2>2 DEF ExitsRight, Live, LiveOthers, Threads
    <3>4. InitRight'
      BY <1>1, <2>2 DEF InitRight
    <3> QED
      BY Zenon, <3>1, <3>2, <3>3, <3>4
  <2>5. ForksRight'
    <3>1. \A u \in Thread : pc[u] \in Forking => Main(slot[u]) # m /\ Main(slot[u]) \in Thread
      BY SMTT(30), <1>1, MainThread DEF ForksRight
    <3> QED
      <4>1. \A u \in Thread : pc'[u] \in Forking \union {"fork_undo"} =>
               /\ pc'[u] = pc[u] /\ slot'[u] = slot[u] /\ pstate'[slot[u]] = pstate[slot[u]]
               /\ parent'[slot[u]] = parent[slot[u]]
               /\ pc[u] \in Forking => kstack'[Main(slot[u])] = kstack[Main(slot[u])]
        BY Zenon, <2>1, <2>2, <3>1 DEF Forking
      <4> QED
        BY Zenon, <4>1, ForksKept
  <2>6. CreatesRight'
    <3>1. \A u \in Thread \ {t} : pc[u] \in {"create_kalloc", "create_publish"} => New(u) # m
      BY Zenon, <1>1, NewThreads DEF m
    <3> QED
      BY <1>1, <1>3, <2>1, <2>2, <3>1 DEF CreatesRight
  <2>7. StacksRight'
    BY <1>1, <1>3, <2>1, <2>2, MainThread, ThreadPair DEF StacksRight, StacksAccounted
  <2>8. FamilyRight' /\ SleepersRight'
    BY <1>1, <2>2 DEF FamilyRight, ParentAlive, UsedHasThread, Threads, Live,
                      SleepersRight, JoinNotMissed, WaitNotMissed, Zombies, Children
  <2>9. EmbryosRight'
    <3>1. \A u \in Thread : pc[u] \in Forking => pc'[u] \in Forking /\ slot'[u] = slot[u]
      BY Zenon, <1>1, <2>2 DEF Forking
    <3> QED
      BY Zenon, <2>2, <3>1, EmbryosKept
  <2> QED
    BY Zenon, <2>3, <2>4, <2>5, <2>6, <2>7, <2>8, <2>9
<1> QED
  BY Zenon, <1>2, <1>4, <1>5

\* The thread is published: it was not running, and its main thread lives.
LEMMA CreatePublishStep ==
    ASSUME TableInv, NEW t \in Thread, CreatePublish(t)
    PROVE  TableInv'
<1> USE DEF TableInv
<1> DEFINE m == New(t)
<1>1. /\ state[t] = "RUNNING" /\ pc[t] = "create_publish" /\ t = Main(t[1]) /\ m \in Thread
      /\ kstack[m] /\ state[m] = "UNINIT" /\ m[1] = t[1] /\ pstate[t[1]] = "USED" /\ m # t
      /\ t[1] # initproc /\ pc[m] = "none" /\ ~Running(m)
  BY Zenon, WhoRuns, NewThreads DEF CreatePublish, At, CreatesRight, InitRight, PlacesRight
<1>2. /\ exitRequest' = [exitRequest EXCEPT ![m] = FALSE]
      /\ state' = [state EXCEPT ![m] = "RUNNABLE"]
      /\ pc' = [pc EXCEPT ![t] = "create_tf", ![m] = "forkret"]
  BY Zenon, <1>1 DEF CreatePublish
<1>3. /\ pstate' = pstate /\ pid' = pid /\ parent' = parent /\ killed' = killed /\ tid' = tid
      /\ kstack' = kstack /\ stackPages' = stackPages /\ chan' = chan /\ tfReady' = tfReady
      /\ slot' = slot /\ back' = back /\ cpu' = cpu /\ lock' = lock
      /\ nextpid' = nextpid /\ nexttid' = nexttid
      /\ \A u \in Thread : New(u)' = New(u)
  BY Zenon DEF CreatePublish, procVars, stackVars, runVars, idVars, New
<1>4. \A u \in Thread \ {t} : pc[u] \in {"create_kalloc", "create_publish"} => New(u) # m
  BY Zenon, <1>1, NewThreads
<1>5. New(t) = m
  BY Zenon
<1> HIDE DEF m
<1>6. /\ pc'[t] = "create_tf" /\ pc'[m] = "forkret" /\ \A u \in Thread \ {t, m} : pc'[u] = pc[u]
      /\ state'[m] = "RUNNABLE" /\ \A u \in Thread \ {m} : state'[u] = state[u]
      /\ \A u \in Thread : exitRequest'[u] => exitRequest[u]
  BY Zenon, <1>1, <1>2 DEF TypeOK
<1>7. TypeOK'
  <2>1. /\ exitRequest' \in [Thread -> BOOLEAN] /\ pc' \in [Thread -> PC]
        /\ state' \in [Thread -> TState]
    BY Zenon, <1>1, <1>2 DEF TypeOK, PC, TState
  <2> QED
    BY Zenon, <1>3, <2>1 DEF TypeOK
<1>8. CpusRight'
  BY Zenon, <1>1, <1>3, <1>6, CpusKept
<1>9. PlacesRight'
  BY <1>1, <1>3, <1>6 DEF PlacesRight, Live
<1>10. SlotsRight'
  BY <1>1, <1>3, <1>6 DEF SlotsRight, Live
<1>11. ExitsRight'
  <2>1. \A u \in Thread \ {t} : LiveOthers(u) = {} => u[1] # t[1]
    BY Zenon, <1>1 DEF LiveOthers, Threads
  <2> QED
    BY <1>1, <1>3, <1>6, <2>1 DEF ExitsRight, LiveOthers, Threads
<1>12. InitRight'
  BY <1>1, <1>3, <1>6 DEF InitRight
<1>13. ForksRight'
  <2>1. \A u \in Thread : pc'[u] \in Forking \union {"fork_undo"} =>
           /\ pc'[u] = pc[u] /\ slot'[u] = slot[u] /\ pstate'[slot[u]] = pstate[slot[u]]
           /\ parent'[slot[u]] = parent[slot[u]]
           /\ pc[u] \in Forking => kstack'[Main(slot[u])] = kstack[Main(slot[u])]
    BY Zenon, <1>3, <1>6 DEF Forking
  <2> QED
    BY Zenon, <2>1, ForksKept
<1>14. CreatesRight'
  <2>1. \A u \in Thread : pc'[u] \in {"create_kalloc", "create_publish"} =>
           /\ u # t /\ pc'[u] = pc[u] /\ New(u)' = New(u) /\ New(u) # m /\ New(u) \in Thread
    BY Zenon, <1>3, <1>4, <1>6 DEF CreatesRight
  <2> QED
    BY Zenon, <1>3, <1>6, <2>1, CreatesKept
<1>15. StacksRight'
  BY <1>1, <1>3, <1>5, <1>6, MainThread, ThreadPair DEF StacksRight, StacksAccounted
<1>16. FamilyRight'
  BY Zenon, <1>1, <1>3, <1>6 DEF FamilyRight, ParentAlive, UsedHasThread, Threads, Live
<1>17. SleepersRight'
  <2>1. \A u \in Thread : Zombies(u)' = Zombies(u)
    BY Zenon, <1>3 DEF Zombies, Children
  <2>2. \A u \in Thread : /\ state'[u] = "SLEEPING" => state[u] = "SLEEPING" /\ pc'[u] = pc[u]
                          /\ state'[u] = "TERMINATED" => state[u] = "TERMINATED"
    BY <1>1, <1>6
  <2> QED
    BY Zenon, <1>3, <2>1, <2>2 DEF SleepersRight, JoinNotMissed, WaitNotMissed, PlacesRight
<1>18. EmbryosRight'
  <2>1. \A u \in Thread : pc[u] \in Forking => pc'[u] \in Forking /\ slot'[u] = slot[u]
    BY Zenon, <1>1, <1>3, <1>6 DEF Forking
  <2> QED
    BY Zenon, <1>3, <2>1, EmbryosKept
<1> QED
  BY Zenon, <1>7, <1>8, <1>9, <1>10, <1>11, <1>12, <1>13, <1>14, <1>15, <1>16, <1>17, <1>18
=============================================================================
