------------------------ MODULE LogRefinementProofs -------------------------
(***************************************************************************)
(* What the invariant of LogProofs gives: the account of the log is exact, *)
(* begin_op misses no wakeup, and Log implements AtomicDisk.               *)
(***************************************************************************)
EXTENDS LogProofs

-----------------------------------------------------------------------------
(* The account of the log. *)

\* Between the calls the log is empty.
IdleInv == boot = "up" /\ outstanding = 0 /\ committing = 0 => lh = <<>>

\* The last call to end commits, and the commit empties the log.
LEMMA IdleStep == LogInv /\ IdleInv /\ [Next]_vars => IdleInv'
<1> SUFFICES ASSUME LogInv, IdleInv, [Next]_vars,
                    boot' = "up", outstanding' = 0, committing' = 0
             PROVE  lh' = <<>>
  BY Zenon DEF IdleInv
<1> USE DEF ondisk
<1>1. CASE UNCHANGED vars
  BY Zenon, <1>1 DEF vars, IdleInv
<1>2. ASSUME NEW p \in Proc, BeginOp(p) PROVE lh' = <<>>
  <2>1. outstanding \in Nat
    BY Zenon DEF LogInv, TypeOK
  <2> QED
    BY <1>2, <2>1 DEF BeginOp, IdleInv
<1>3. ASSUME NEW p \in Proc, boot = "up", pc[p] \in {"op", "log"}, outstanding = 0 PROVE FALSE
  <2>1. p \in Active
    BY Zenon, <1>3 DEF Active
  <2>2. IsFiniteSet(Active) /\ Cardinality(Active) = 0
    BY Zenon, <1>3 DEF LogInv, UpInv, CallInv
  <2> QED
    BY Zenon, <2>1, <2>2, FS_EmptySet
<1>8. ASSUME NEW p \in Proc, LogWrite(p) PROVE FALSE
  BY Zenon, <1>3, <1>8 DEF LogWrite
<1>9. ASSUME NEW p \in Proc, NEW b \in Block, NEW v \in Value, LogCheck(p, b, v) PROVE FALSE
  BY Zenon, <1>3, <1>9 DEF LogCheck
<1>4. ASSUME NEW p \in Proc, EndOp(p) PROVE FALSE
  BY <1>4 DEF EndOp
<1>5. ASSUME NEW p \in Proc, Commit(p) PROVE lh' = <<>>
  <2>1. UpInv /\ p \in Committers
    BY Zenon, <1>5 DEF LogInv, Commit, WriteLog, WriteHead, InstallTrans, ClearHead, EndCommit, Committers
  <2>2. committing = 1
    BY Zenon, <2>1 DEF UpInv, CommitInv
  <2>3. CASE EndCommit(p)
    <3>1. Phase("end") /\ lh' = lh
      BY Zenon, <2>3 DEF EndCommit, Phase
    <3> QED
      BY Zenon, <2>1, <3>1 DEF UpInv, PhaseInv
  <2> QED
    BY <1>5, <2>2, <2>3 DEF Commit, WriteLog, WriteHead, InstallTrans, ClearHead
<1>6. CASE \E b \in Block : Recycle(b)
  BY Zenon, <1>6 DEF Recycle, IdleInv
<1>7. CASE Crash \/ ReadHead \/ RecoverInstall \/ RecoverClear
  BY Zenon, <1>7 DEF Crash, Volatile, ReadHead, RecoverInstall, RecoverClear
<1> QED
  BY Zenon, <1>1, <1>2, <1>4, <1>5, <1>6, <1>7, <1>8, <1>9 DEF Next

\* An empty log: every buffer is what the disk has.
LEMMA IdleSynchronous == LogInv /\ IdleInv => SynchronousCommit
<1> SUFFICES ASSUME LogInv, IdleInv, boot = "up", outstanding = 0, committing = 0
             PROVE  Recovered = data
  BY Zenon DEF SynchronousCommit
<1>1. UpInv /\ TypeOK /\ lh = <<>>
  BY Zenon DEF LogInv, IdleInv
<1>2. Active = {} /\ Committers = {}
  BY SMTT(30), <1>1, FS_EmptySet DEF UpInv, CallInv, CommitInv
<1>3. head = <<>>
  BY Zenon, <1>1, <1>2, QuietPhase DEF UpInv
<1>4. dirty = {}
  BY <1>1 DEF UpInv, BufferInv, Contains
<1>5. \A q \in Proc : blk[q] = NoBlock
  BY Zenon, <1>1, <1>2 DEF UpInv, CallInv, Active
<1>6. \A b \in Block : data[b] = disk[b]
  BY Zenon, <1>1, <1>4, <1>5, LogAssumption DEF UpInv, BufferInv
<1>7. Recovered = disk
  BY <1>1, <1>3 DEF Recovered, Contains, TypeOK
<1> QED
  BY <1>1, <1>6, <1>7 DEF TypeOK

\* No log, no reservation.
LEMMA NothingPromised ==
  (\A p \in Proc : pc[p] = "out") => Cardinality(Promised) = 0
<1>1. (\A p \in Proc : pc[p] = "out") => Promised = {}
  BY Zenon DEF Promised, Active
<1> QED
  BY Zenon, <1>1, FS_EmptySet

\* The reservation outlives the panics and the crashes.
LEMMA ReservedStep == LogInv /\ SpaceReserved /\ [Next]_vars => SpaceReserved'
<1> SUFFICES ASSUME LogInv, SpaceReserved, [Next]_vars PROVE SpaceReserved'
  BY Zenon
<1>1. LogInv'
  BY Zenon, InvStep
<1>2. CASE boot' = "up"
  BY Zenon, <1>1, <1>2 DEF LogInv, UpInv, RoomInv, SpaceReserved
<1>3. CASE UNCHANGED <<pc, wrote, lh>>
  BY Zenon, <1>3 DEF SpaceReserved, Promised, Active
<1>4. ASSUME \A p \in Proc : pc'[p] = "out", lh' = <<>> \/ lh' = head PROVE SpaceReserved'
  <2> (\A p \in Proc : pc[p] = "out")'
    BY Zenon, <1>4
  <2>1. (Cardinality(Promised) = 0)'
    BY NothingPromised, PTL
  <2>2. Len(lh') \in Nat /\ Len(lh') <= LOGSIZE
    BY <1>4, LogAssumption DEF LogInv, HeadInv, TypeOK
  <2> QED
    BY <2>1, <2>2 DEF SpaceReserved
<1>5. CASE Crash
  BY Zenon, <1>4, <1>5 DEF Crash, Volatile
<1>6. CASE ReadHead
  BY Zenon, <1>4, <1>6 DEF ReadHead, LogInv, BootInv
<1>7. CASE RecoverInstall
  BY Zenon, <1>3, <1>7 DEF RecoverInstall
<1>8. ASSUME NEW p \in Proc, EndOp(p), boot' # "up" PROVE FALSE
  <2>1. boot = "up" /\ committing = 1 /\ p \in Active
    BY Zenon, <1>8 DEF EndOp, Active
  <2> QED
    BY Zenon, <2>1 DEF LogInv, UpInv, CommitInv
<1>9. ASSUME NEW p \in Proc, NEW b \in Block, NEW v \in Value, LogCheck(p, b, v), boot' # "up"
      PROVE  SpaceReserved'
  BY Zenon, <1>3, <1>9 DEF LogCheck
<1>10. ASSUME NEW p \in Proc, BeginOp(p) \/ LogWrite(p) \/ Commit(p) PROVE boot' = "up"
  BY Zenon, <1>10 DEF Commit, BeginOp, LogWrite, WriteLog, WriteHead, InstallTrans, ClearHead, EndCommit
<1>11. CASE RecoverClear \/ \E b \in Block : Recycle(b)
  BY Zenon, <1>2, <1>11 DEF RecoverClear, Recycle
<1>12. CASE UNCHANGED vars
  BY Zenon, <1>3, <1>12 DEF vars
<1> QED
  BY Zenon, <1>2, <1>5, <1>6, <1>7, <1>8, <1>9, <1>10, <1>11, <1>12 DEF Next

\* No call finds the log full, and the last call to end returns with the writes
\* of all of them on the disk.
THEOREM LogAccountExact == Spec => []LogSound
<1>1. Init => IdleInv /\ SpaceReserved
  <2> SUFFICES ASSUME Init PROVE IdleInv /\ SpaceReserved
    BY Zenon
  <2>1. Cardinality(Promised) = 0
    BY Zenon, NothingPromised DEF Init
  <2> QED
    BY <2>1, LogAssumption DEF Init, IdleInv, SpaceReserved
<1>2. LogInv /\ IdleInv /\ SpaceReserved => LogSound
  BY Zenon, IdleSynchronous DEF LogSound, LogInv
<1> QED
  BY <1>1, <1>2, LogInvariant, IdleStep, ReservedStep, PTL DEF Spec

-----------------------------------------------------------------------------
(* The sleepers in begin_op. *)

\* More calls in progress or more logged blocks leave less space.
LEMMA LessSpace ==
  ASSUME NEW m \in Nat, NEW n \in Nat, NEW k \in Nat, NEW l \in Nat, m <= n, k <= l
  PROVE  /\ (m + 1) * MAXOPBLOCKS \in Nat /\ (n + 1) * MAXOPBLOCKS \in Nat
         /\ k + (m + 1) * MAXOPBLOCKS <= l + (n + 1) * MAXOPBLOCKS
<1>1. PICK d \in Nat : n = m + d
  <2>1. n - m \in Nat /\ n = m + (n - m)
    OBVIOUS
  <2> QED
    BY Zenon, <2>1
<1>2. (n + 1) * MAXOPBLOCKS = (m + 1) * MAXOPBLOCKS + d * MAXOPBLOCKS
  BY <1>1, LogAssumption
<1>3. d * MAXOPBLOCKS \in Nat /\ (m + 1) * MAXOPBLOCKS \in Nat /\ (n + 1) * MAXOPBLOCKS \in Nat
  BY <1>1, LogAssumption
<1> QED
  BY <1>2, <1>3

\* A sleeper stays where the test fails: no step gives it space or ends the
\* commit without waking it.
LEMMA SleeperStep == LogInv /\ BeginNotMissed /\ [Next]_vars => BeginNotMissed'
<1> SUFFICES ASSUME LogInv, BeginNotMissed, [Next]_vars, NEW p \in Proc, pc'[p] = "wait"
             PROVE  MustWait'
  BY Zenon DEF BeginNotMissed
<1>1. TypeOK /\ TypeOK'
  BY Zenon, TypeStep DEF LogInv
<1> USE LogAssumption DEF Goto, ondisk
<1>2. ASSUME pc[p] = "wait", committing' = committing,
             outstanding <= outstanding', Len(lh) <= Len(lh')
      PROVE  MustWait'
  <2>1. MustWait
    BY Zenon, <1>2 DEF BeginNotMissed
  <2>2. /\ outstanding \in Nat /\ outstanding' \in Nat
        /\ Len(lh) \in Nat /\ Len(lh') \in Nat
    BY <1>1 DEF TypeOK
  <2>3. /\ (outstanding + 1) * MAXOPBLOCKS \in Nat /\ (outstanding' + 1) * MAXOPBLOCKS \in Nat
        /\ Len(lh) + (outstanding + 1) * MAXOPBLOCKS <= Len(lh') + (outstanding' + 1) * MAXOPBLOCKS
    BY <1>2, <2>2, LessSpace, ZenonT(30)
  <2> QED
    BY SMTT(30), <1>2, <2>1, <2>2, <2>3 DEF MustWait
<1>3. ASSUME NEW q \in Proc, BeginOp(q) PROVE MustWait'
  <2>1. CASE MustWait
    BY Zenon, <1>3, <2>1 DEF BeginOp, MustWait
  <2>2. CASE ~ MustWait
    <3>1. pc[p] = "wait" /\ outstanding' = outstanding + 1 /\ UNCHANGED <<committing, lh>>
      BY Zenon, <1>1, <1>3, <2>2 DEF BeginOp, TypeOK
    <3> QED
      BY <1>1, <1>2, <3>1 DEF TypeOK
  <2> QED
    BY Zenon, <2>1, <2>2
<1>4. ASSUME NEW q \in Proc, LogWrite(q) PROVE MustWait'
  <2>1. pc[p] = "wait" /\ UNCHANGED <<committing, outstanding>>
    BY Zenon, <1>1, <1>4 DEF LogWrite, TypeOK
  <2>2. Len(lh) <= Len(lh')
    BY SMTT(30), <1>1, <1>4 DEF LogWrite, TypeOK
  <2> QED
    BY <1>1, <1>2, <2>1, <2>2 DEF TypeOK
<1>5. ASSUME NEW q \in Proc, EndOp(q) PROVE MustWait'
  <2>1. committing = 0
    BY Zenon, <1>1, <1>5 DEF EndOp, Active, LogInv, UpInv, CommitInv, TypeOK
  <2>2. committing' = 1
    BY <1>1, <1>5, <2>1 DEF EndOp, Woken, TypeOK
  <2> QED
    BY Zenon, <2>2 DEF MustWait
<1>6. ASSUME NEW q \in Proc, Commit(q) PROVE MustWait'
  <2>1. committing = 1
    BY Zenon, <1>6 DEF Commit, WriteLog, WriteHead, InstallTrans, ClearHead, EndCommit,
       LogInv, UpInv, CommitInv, Committers
  <2>2. ~ EndCommit(q)
    BY <1>1 DEF EndCommit, Woken, TypeOK
  <2>3. committing' = 1
    BY Zenon, <1>6, <2>1, <2>2 DEF Commit, WriteLog, WriteHead, InstallTrans, ClearHead
  <2> QED
    BY Zenon, <2>3 DEF MustWait
<1>7. ASSUME UNCHANGED <<pc, committing, outstanding, lh>> PROVE MustWait'
  BY SMTT(30), <1>1, <1>2, <1>7 DEF TypeOK
<1>8. ASSUME NEW q \in Proc, NEW b \in Block, NEW v \in Value, LogCheck(q, b, v) PROVE MustWait'
  <2>1. pc[p] = "wait" /\ UNCHANGED <<committing, outstanding, lh>>
    BY Zenon, <1>1, <1>8 DEF LogCheck, TypeOK
  <2> QED
    BY SMTT(30), <1>1, <1>2, <2>1 DEF TypeOK
<1>9. ASSUME NEW b \in Block, Recycle(b) PROVE MustWait'
  BY Zenon, <1>7, <1>9 DEF Recycle
<1>10. ~ Crash
  BY Zenon DEF Crash, Volatile
<1>11. ~ (ReadHead \/ RecoverInstall \/ RecoverClear)
  <2>1. ASSUME ReadHead \/ RecoverInstall \/ RecoverClear PROVE FALSE
    <3>1. BootInv /\ pc' = pc
      BY Zenon, <2>1 DEF ReadHead, RecoverInstall, RecoverClear, LogInv
    <3> QED
      BY Zenon, <3>1 DEF BootInv
  <2> QED
    BY Zenon, <2>1
<1>12. CASE UNCHANGED vars
  BY Zenon, <1>7, <1>12 DEF vars
<1> QED
  BY Zenon, <1>3, <1>4, <1>5, <1>6, <1>8, <1>9, <1>10, <1>11, <1>12 DEF Next

\* No lost wakeup in begin_op, for any number of processes and any size of the
\* log: end_op wakes the sleepers whenever it frees the space or ends the
\* commit they wait for.
THEOREM NoLostBegin == Spec => []BeginNotMissed
<1>1. Init => BeginNotMissed
  BY Zenon DEF Init, BeginNotMissed
<1>2. LogInv /\ BeginNotMissed /\ [Next]_vars => BeginNotMissed'
  BY Zenon, SleeperStep
<1> QED
  BY <1>1, <1>2, LogInvariant, PTL DEF Spec

-----------------------------------------------------------------------------
(* The refinement. *)

\* An empty log, or one that is installed, adds nothing to the disk.
LEMMA RecoveredDisk ==
  TypeOK /\ HeadInv /\ (\A i \in 1 .. Len(head) : disk[head[i]] = body[i]) => Recovered = disk
<1> SUFFICES ASSUME TypeOK, HeadInv, \A i \in 1 .. Len(head) : disk[head[i]] = body[i]
             PROVE  Recovered = disk
  BY Zenon
<1>1. ASSUME NEW b \in Block PROVE Recovered[b] = disk[b]
  <2>1. CASE Contains(head, b)
    <3> DEFINE i == CHOOSE j \in 1 .. Len(head) : head[j] = b
    <3>1. i \in 1 .. Len(head) /\ head[i] = b
      BY Zenon, <2>1 DEF Contains
    <3> QED
      BY Zenon, <2>1, <3>1 DEF Recovered
  <2>2. CASE ~ Contains(head, b)
    BY Zenon, <2>2 DEF Recovered
  <2> QED
    BY Zenon, <2>1, <2>2
<1> QED
  BY Zenon, <1>1 DEF Recovered, TypeOK

\* Nothing is lost by installing a block of the log.
LEMMA RecoveredInstall ==
  ASSUME TypeOK, HeadInv, NEW k \in 1 .. Len(head),
         disk' = [disk EXCEPT ![head[k]] = body[k]], head' = head, body' = body
  PROVE  Recovered' = Recovered
<1>1. ASSUME NEW b \in Block PROVE Recovered'[b] = Recovered[b]
  <2>1. CASE Contains(head, b)
    BY Zenon, <2>1 DEF Recovered, Contains
  <2>2. CASE ~ Contains(head, b)
    <3>1. b # head[k]
      BY Zenon, <2>2 DEF Contains
    <3> QED
      BY Zenon, <2>2, <3>1 DEF Recovered, Contains, TypeOK
  <2> QED
    BY Zenon, <2>1, <2>2
<1> QED
  BY Zenon, <1>1 DEF Recovered

\* With the header written the log and the disk hold what is in memory.
LEMMA RecoveredCommit ==
  ASSUME TypeOK, UpInv, NEW p \in Proc, WriteHead(p)
  PROVE  Recovered' = data
<1>1. /\ pc[p] = "write_head" /\ head' = lh /\ disk' = disk /\ body' = body
  BY Zenon DEF WriteHead
<1>2. \A i \in 1 .. Len(lh) : body[i] = data[lh[i]]
  BY Zenon, <1>1 DEF UpInv, PhaseInv, Phase
<1>3. \A q \in Proc : blk[q] = NoBlock
  <2>1. Active = {}
    BY Zenon, <1>1 DEF UpInv, CommitInv, Committers
  <2> QED
    BY Zenon, <2>1 DEF UpInv, CallInv, Active
<1>4. ASSUME NEW b \in Block PROVE Recovered'[b] = data[b]
  <2>1. CASE Contains(lh, b)
    <3> DEFINE i == CHOOSE j \in 1 .. Len(lh) : lh[j] = b
    <3>1. i \in 1 .. Len(lh) /\ lh[i] = b
      BY Zenon, <2>1 DEF Contains
    <3> QED
      BY Zenon, <1>1, <1>2, <2>1, <3>1 DEF Recovered
  <2>2. CASE ~ Contains(lh, b)
    <3>1. data[b] = disk[b]
      BY Zenon, <1>3, <2>2, LogAssumption DEF UpInv, BufferInv
    <3> QED
      BY Zenon, <1>1, <2>2, <3>1 DEF Recovered
  <2> QED
    BY Zenon, <2>1, <2>2
<1> QED
  BY Zenon, <1>4 DEF Recovered, TypeOK

\* The disk that mkfs makes is the first atomic disk.
LEMMA RefinementInit == Init => Abstract!Init
<1> SUFFICES ASSUME Init PROVE Abstract!Init
  BY Zenon
<1>1. TypeOK /\ HeadInv /\ head = <<>>
  BY Zenon, InvInit DEF LogInv, Init
<1>2. Recovered = disk
  BY <1>1, RecoveredDisk
<1> QED
  BY Zenon, <1>2 DEF Init, Abstract!Init

\* Every step of the log is a step of the atomic disk, or none.
LEMMA RefinementStep == LogInv /\ [Next]_vars => [Abstract!Next]_Abstract!vars
<1> SUFFICES ASSUME LogInv, [Next]_vars PROVE [Abstract!Next]_Abstract!vars
  BY Zenon
<1> USE DEF Abstract!Next, Abstract!vars, ondisk, Goto
<1> HIDE DEF Abstract!Next
<1>1. TypeOK /\ HeadInv /\ TypeOK'
  BY Zenon, TypeStep DEF LogInv
<1>2. ASSUME UNCHANGED <<disk, head, body>> PROVE Recovered' = Recovered
  BY <1>2 DEF Recovered
<1>3. ASSUME NEW p \in Proc, BeginOp(p) PROVE [Abstract!Next]_Abstract!vars
  <2>1. Recovered' = Recovered /\ data' = data /\ boot = "up" /\ boot' = "up"
    BY Zenon, <1>2, <1>3 DEF BeginOp
  <2>2. CASE MustWait
    <3>1. Active' = Active
      BY Zenon, <1>1, <1>3, <2>2 DEF BeginOp, Active, TypeOK
    <3> QED
      BY Zenon, <2>1, <3>1 DEF Active
  <2>3. CASE ~ MustWait
    <3>1. p \notin Active /\ Active' = Active \union {p}
      BY SMTT(30), <1>1, <1>3, <2>3 DEF BeginOp, Active, TypeOK
    <3>2. Abstract!BeginOp(p)
      BY Zenon, <2>1, <3>1 DEF Abstract!BeginOp, Active
    <3> QED
      BY Zenon, <3>2 DEF Abstract!Next
  <2> QED
    BY Zenon, <2>2, <2>3
<1>4. ASSUME NEW p \in Proc, NEW b \in Block, NEW v \in Value, LogCheck(p, b, v)
      PROVE  [Abstract!Next]_Abstract!vars
  <2>1. /\ Recovered' = Recovered /\ data' = [data EXCEPT ![b] = v]
        /\ boot = "up" /\ boot' \in {"up", "panic"}
    BY Zenon, <1>2, <1>4 DEF LogCheck
  <2>2. p \in Active /\ Active' = Active
    BY Zenon, <1>1, <1>4 DEF LogCheck, Active, TypeOK
  <2>3. Abstract!Write(p, b, v)
    BY Zenon, <2>1, <2>2 DEF Abstract!Write, Active
  <2> QED
    BY Zenon, <2>3 DEF Abstract!Next
<1>5. ASSUME NEW p \in Proc, LogWrite(p) PROVE [Abstract!Next]_Abstract!vars
  <2>1. Recovered' = Recovered /\ data' = data /\ boot = "up" /\ boot' = "up"
    BY Zenon, <1>2, <1>5 DEF LogWrite
  <2>2. Active' = Active
    BY Zenon, <1>1, <1>5 DEF LogWrite, Active, TypeOK
  <2> QED
    BY Zenon, <2>1, <2>2 DEF Active
<1>6. ASSUME NEW p \in Proc, EndOp(p) PROVE [Abstract!Next]_Abstract!vars
  <2>1. Recovered' = Recovered /\ data' = data /\ boot = "up" /\ boot' \in {"up", "panic"}
    BY Zenon, <1>2, <1>6 DEF EndOp
  <2>2. p \in Active /\ committing = 0
    BY Zenon, <1>1, <1>6 DEF EndOp, Active, LogInv, UpInv, CommitInv, TypeOK
  <2>3. Active' = Active \ {p}
    BY SMTT(30), <1>1, <1>6, <2>2 DEF EndOp, Active, Woken, TypeOK
  <2>4. Abstract!EndOp(p)
    BY Zenon, <2>1, <2>2, <2>3 DEF Abstract!EndOp, Active
  <2> QED
    BY Zenon, <2>4 DEF Abstract!Next
<1>7. ASSUME NEW p \in Proc, WriteHead(p) PROVE [Abstract!Next]_Abstract!vars
  <2>1. UpInv /\ boot = "up" /\ boot' = "up" /\ data' = data /\ pc[p] = "write_head"
    BY Zenon, <1>7 DEF WriteHead, LogInv
  <2>2. Recovered' = data
    BY Zenon, <1>1, <1>7, <2>1, RecoveredCommit
  <2>3. Active = {} /\ Active' = Active
    BY Zenon, <1>1, <1>7, <2>1 DEF WriteHead, Active, TypeOK, UpInv, CommitInv, Committers
  <2>4. Abstract!Commit
    BY Zenon, <2>1, <2>2, <2>3 DEF Abstract!Commit, Active
  <2> QED
    BY Zenon, <2>4 DEF Abstract!Next
<1>8. ASSUME NEW p \in Proc, WriteLog(p) \/ InstallTrans(p) \/ ClearHead(p) \/ EndCommit(p)
      PROVE  [Abstract!Next]_Abstract!vars
  <2>1. UpInv /\ boot = "up" /\ boot' = "up"
    BY Zenon, <1>8 DEF WriteLog, InstallTrans, ClearHead, EndCommit, LogInv
  <2>2. Active' = Active
    BY Zenon, <1>1, <1>8 DEF WriteLog, InstallTrans, ClearHead, EndCommit, Iterate, Woken, Active, TypeOK
  <2>3. data' = data
    BY Zenon, <1>1, <1>8, <2>1, UpInstallTrans DEF WriteLog, ClearHead, EndCommit
  <2>4. Recovered' = Recovered
    <3>1. CASE WriteLog(p)
      <4>1. head = <<>> /\ head' = head /\ disk' = disk
        <5>1. Phase("write_log") /\ ~ Phase("install") /\ ~ Phase("clear")
          BY Zenon, <3>1, <2>1 DEF WriteLog, Phase, UpInv, CommitInv, Committers
        <5> QED
          BY Zenon, <3>1, <2>1, <5>1 DEF WriteLog, UpInv, PhaseInv
      <4> QED
        BY SMTT(30), <4>1 DEF Recovered, Contains
    <3>2. CASE InstallTrans(p)
      <4>1. tail \in 1 .. Len(head) /\ lh = head
        BY Zenon, <2>1, <3>2 DEF InstallTrans, UpInv, PhaseInv, Phase
      <4> QED
        BY Zenon, <1>1, <3>2, <4>1, RecoveredInstall DEF InstallTrans, Install
    <3>3. CASE ClearHead(p)
      <4>1. \A i \in 1 .. Len(head) : disk[head[i]] = body[i]
        BY Zenon, <2>1, <3>3 DEF ClearHead, UpInv, PhaseInv, Phase
      <4>2. Recovered = disk
        BY Zenon, <1>1, <4>1, RecoveredDisk
      <4>3. Recovered' = disk'
        BY SMTT(30), <3>3, <1>1 DEF ClearHead, Recovered, Contains, TypeOK
      <4> QED
        BY Zenon, <3>3, <4>2, <4>3 DEF ClearHead
    <3>4. CASE EndCommit(p)
      BY Zenon, <1>2, <3>4 DEF EndCommit
    <3> QED
      BY Zenon, <1>8, <3>1, <3>2, <3>3, <3>4
  <2> QED
    BY Zenon, <2>1, <2>2, <2>3, <2>4 DEF Active
<1>9. ASSUME NEW b \in Block, Recycle(b) PROVE [Abstract!Next]_Abstract!vars
  <2>1. data' = data
    BY Zenon, <1>1, <1>9, UpRecycle DEF LogInv, Recycle
  <2>2. Recovered' = Recovered /\ UNCHANGED <<boot, pc>>
    BY Zenon, <1>2, <1>9 DEF Recycle
  <2> QED
    BY Zenon, <2>1, <2>2
<1>10. CASE Crash
  <2>1. Recovered' = Recovered /\ boot' = "read" /\ Active' = {}
    BY Zenon, <1>2, <1>10 DEF Crash, Volatile, Active
  <2>2. Abstract!Crash
    BY Zenon, <2>1 DEF Abstract!Crash, Active
  <2> QED
    BY Zenon, <2>2 DEF Abstract!Next
<1>11. CASE ReadHead
  <2>1. Recovered' = Recovered /\ boot = "read" /\ boot' \in {"install", "clear"} /\ pc' = pc
    BY Zenon, <1>2, <1>11 DEF ReadHead
  <2> QED
    BY Zenon, <2>1
<1>12. CASE RecoverInstall
  <2>1. boot = "install" /\ boot' \in {"install", "clear"} /\ pc' = pc
    BY Zenon, <1>12 DEF RecoverInstall
  <2>2. tail \in 1 .. Len(head) /\ lh = head
    BY Zenon, <2>1 DEF LogInv, BootInv
  <2>3. Recovered' = Recovered
    BY Zenon, <1>1, <1>12, <2>2, RecoveredInstall DEF RecoverInstall, Install
  <2> QED
    BY Zenon, <2>1, <2>3
<1>13. CASE RecoverClear
  <2>1. boot = "clear" /\ boot' = "up" /\ pc' = pc /\ data' = data /\ head' = <<>> /\ disk' = disk
    BY Zenon, <1>13 DEF RecoverClear
  <2>2. data = disk /\ Recovered = disk
    BY Zenon, <1>1, <2>1, RecoveredDisk DEF LogInv, BootInv
  <2>3. Recovered' = disk'
    BY SMTT(30), <1>1, <2>1 DEF Recovered, Contains, TypeOK
  <2> QED
    BY Zenon, <2>1, <2>2, <2>3
<1>14. CASE UNCHANGED vars
  <2>1. Recovered' = Recovered /\ UNCHANGED <<boot, pc, data>>
    BY Zenon, <1>2, <1>14 DEF vars
  <2> QED
    BY Zenon, <2>1
<1> QED
  BY Zenon, <1>3, <1>4, <1>5, <1>6, <1>7, <1>8, <1>9, <1>10, <1>11, <1>12, <1>13, <1>14 DEF Next, Commit

\* The log implements the atomic disk for any number of processes and blocks
\* and any LOGSIZE: whatever the interleaving of the calls, and
\* wherever the commit or the recovery is cut off by a crash, the writes of the
\* calls become durable all together or not at all.
THEOREM LogImplementsAtomicDisk == Spec => AtomicOps
<1>1. Init => Abstract!Init
  BY Zenon, RefinementInit
<1>2. LogInv /\ [Next]_vars => [Abstract!Next]_Abstract!vars
  BY Zenon, RefinementStep
<1> QED
  BY <1>1, <1>2, LogInvariant, PTL DEF Spec, AtomicOps, Abstract!Spec

=============================================================================
