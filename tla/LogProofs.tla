----------------------------- MODULE LogProofs ------------------------------
(***************************************************************************)
(* Log implements AtomicDisk, for any number of processes, blocks and      *)
(* values and any LOGSIZE.  The log area is taken to have LOGSIZE blocks    *)
(* for data; the one mkfs makes has one less (nlog counts the header), and  *)
(* log_write's test of log.size, made outside log.lock, is then the only    *)
(* guard of the block behind it.  What the theorems say of that disk they   *)
(* say as long as the calls in progress log at most nlog - 1 blocks.        *)
(***************************************************************************)
EXTENDS Log, FiniteSetTheorems, TLAPS

-----------------------------------------------------------------------------
(* The inductive invariant. *)

Committers == {p \in Proc : pc[p] \in {"write_log", "write_head", "install", "clear", "end"}}
Phase(label) == \E p \in Proc : pc[p] = label

\* What a call in progress has logged, and what it is about to log.
Writing(p) == wrote[p] \union {b \in Block : pc[p] = "log" /\ b = blk[p]}

CallInv ==
  /\ IsFiniteSet(Active) /\ outstanding = Cardinality(Active)
  /\ \A p \in Proc : pc[p] = "log" <=> blk[p] # NoBlock
  /\ \A p \in Active :
       /\ \A b \in wrote[p] : Contains(lh, b)
       /\ IsFiniteSet(wrote[p])
       /\ Cardinality(Writing(p)) <= MAXOPBLOCKS

CommitInv ==
  /\ committing = 1 <=> Committers # {}
  /\ \A p, q \in Committers : p = q
  /\ Committers # {} => Active = {}

RoomInv == Cardinality(Promised) + Len(lh) <= LOGSIZE

\* Blocks are logged once, and a buffer is what the disk has unless it is
\* pinned by B_DIRTY or by the process that changes it.
BufferInv ==
  /\ \A i, j \in 1 .. Len(lh) : lh[i] = lh[j] => i = j
  /\ \A b \in dirty : Contains(lh, b)
  /\ \A b \in Block : b \notin dirty /\ (\A q \in Proc : blk[q] # b) => data[b] = disk[b]

\* How far the commit has come.
PhaseInv ==
  /\ IF Phase("write_log") \/ Phase("install") THEN tail \in 1 .. Len(lh) ELSE tail = 1
  /\ IF Phase("install") \/ Phase("clear")
     THEN head = lh
     ELSE head = <<>> /\ \A i \in 1 .. Len(lh) : lh[i] \in dirty
  /\ Phase("write_log") => \A i \in 1 .. tail - 1 : body[i] = data[lh[i]]
  /\ Phase("write_head") \/ Phase("install") \/ Phase("clear") =>
       \A i \in 1 .. Len(lh) : body[i] = data[lh[i]]
  /\ Phase("install") =>
       /\ \A i \in 1 .. tail - 1 : disk[lh[i]] = body[i]
       /\ \A i \in 1 .. tail - 1 : lh[i] \notin dirty
  /\ Phase("clear") => dirty = {} /\ \A i \in 1 .. Len(lh) : disk[lh[i]] = body[i]
  /\ Phase("write_head") => lh # <<>>
  /\ Phase("end") => lh = <<>>

UpInv == CallInv /\ CommitInv /\ RoomInv /\ BufferInv /\ PhaseInv

\* The log on disk has room for its blocks and holds each once.
HeadInv ==
  /\ Len(head) <= LOGSIZE
  /\ \A i, j \in 1 .. Len(head) : head[i] = head[j] => i = j

\* How far the recovery has come.
BootInv ==
  /\ pc = [p \in Proc |-> "out"] /\ blk = [p \in Proc |-> NoBlock]
  /\ outstanding = 0 /\ committing = 0
  /\ dirty = {} /\ data = disk
  /\ boot = "read" => tail = 1
  /\ boot # "read" => lh = head
  /\ boot = "install" =>
       /\ tail \in 1 .. Len(head)
       /\ \A i \in 1 .. tail - 1 : disk[head[i]] = body[i]
  /\ boot = "clear" => tail = 1 /\ \A i \in 1 .. Len(head) : disk[head[i]] = body[i]

\* A machine that has panicked only waits for the next boot.
LogInv ==
  /\ TypeOK /\ HeadInv
  /\ boot = "up" => UpInv
  /\ boot \in {"read", "install", "clear"} => BootInv

-----------------------------------------------------------------------------
(* The invariant is inductive. *)

\* The disk that mkfs makes, and a machine that boots from it.
LEMMA InvInit == Init => LogInv
BY LogAssumption DEF Init, LogInv, TypeOK, HeadInv, BootInv, PC, Tail0

\* Every step keeps the types.
LEMMA TypeStep == LogInv /\ [Next]_vars => TypeOK'
<1> SUFFICES ASSUME LogInv, [Next]_vars PROVE TypeOK'
  BY Zenon
<1> USE LogAssumption DEF LogInv, TypeOK, PC, Goto, ondisk
<1>1. CASE UNCHANGED vars
  BY Zenon, <1>1 DEF vars
<1>2. ASSUME NEW p \in Proc, BeginOp(p) PROVE TypeOK'
  <2>1. wrote' \in [Proc -> SUBSET Block]
    BY Zenon, <1>2, {} \in SUBSET Block DEF BeginOp
  <2>2. pc' \in [Proc -> PC] /\ outstanding' \in Nat
    BY <1>2 DEF BeginOp
  <2> QED
    BY Zenon, <1>2, <2>1, <2>2 DEF BeginOp
<1>3. ASSUME NEW p \in Proc, LogWrite(p) PROVE TypeOK'
  <2>1. blk[p] \in Block
    BY Zenon, <1>3 DEF LogWrite, UpInv, CallInv
  <2> QED
    BY <1>3, <2>1 DEF LogWrite
<1>4. ASSUME NEW p \in Proc, EndOp(p) PROVE TypeOK'
  <2>1. outstanding' \in Nat
    <3>1. p \in Active /\ IsFiniteSet(Active) /\ outstanding = Cardinality(Active)
      BY Zenon, <1>4 DEF EndOp, UpInv, CallInv, Active
    <3>2. outstanding # 0
      BY Zenon, <3>1, FS_EmptySet
    <3> QED
      BY <3>2, <1>4 DEF EndOp
  <2>2. pc' \in [Proc -> PC]
    BY Zenon, <1>4 DEF EndOp, Woken
  <2> QED
    BY Zenon, <1>4, <2>1, <2>2 DEF EndOp
<1>5. ASSUME NEW p \in Proc, WriteLog(p) PROVE TypeOK'
  <2>1. tail \in 1 .. Len(lh)
    BY Zenon, <1>5 DEF WriteLog, UpInv, PhaseInv, Phase
  <2>2. data[lh[tail]] \in Value
    BY <2>1
  <2>3. body' \in [Tail0 -> Value]
    BY Zenon, <1>5, <2>2 DEF WriteLog
  <2>4. pc' \in [Proc -> PC]
    BY Zenon, <1>5 DEF WriteLog, Iterate
  <2>5. tail' \in Nat
    BY <1>5, <2>1 DEF WriteLog, Iterate
  <2> QED
    BY Zenon, <1>5, <2>3, <2>4, <2>5 DEF WriteLog
<1>6. ASSUME NEW p \in Proc, WriteHead(p) PROVE TypeOK'
  BY Zenon, <1>6 DEF WriteHead
<1>7. ASSUME NEW p \in Proc, InstallTrans(p) PROVE TypeOK'
  <2>1. tail \in 1 .. Len(lh) /\ Len(lh) <= LOGSIZE
    BY Zenon, <1>7 DEF InstallTrans, UpInv, PhaseInv, Phase, HeadInv
  <2>2. lh[tail] \in Block /\ body[tail] \in Value
    BY <2>1 DEF Tail0
  <2> QED
    BY <1>7, <2>2 DEF InstallTrans, Install, Iterate
<1>8. ASSUME NEW p \in Proc, ClearHead(p) PROVE TypeOK'
  BY <1>8 DEF ClearHead
<1>9. ASSUME NEW p \in Proc, EndCommit(p) PROVE TypeOK'
  BY Zenon, <1>9 DEF EndCommit, Woken
<1>10. ASSUME NEW p \in Proc, NEW b \in Block, NEW v \in Value, LogCheck(p, b, v) PROVE TypeOK'
  BY <1>10 DEF LogCheck
<1>11. ASSUME NEW b \in Block, Recycle(b) PROVE TypeOK'
  BY Zenon, <1>11 DEF Recycle
<1>12. CASE Crash
  BY <1>12 DEF Crash, Volatile
<1>13. CASE ReadHead
  BY Zenon, <1>13 DEF ReadHead
<1>14. CASE RecoverInstall
  <2>1. tail \in 1 .. Len(lh) /\ Len(lh) <= LOGSIZE
    BY Zenon, <1>14 DEF RecoverInstall, BootInv, HeadInv
  <2>2. lh[tail] \in Block /\ body[tail] \in Value
    BY <2>1 DEF Tail0
  <2> QED
    BY <1>14, <2>2 DEF RecoverInstall, Install
<1>15. CASE RecoverClear
  BY <1>15 DEF RecoverClear
<1> HIDE DEF LogInv, TypeOK, PC, Goto, ondisk
<1> QED
  BY Zenon, <1>1, <1>2, <1>3, <1>4, <1>5, <1>6, <1>7, <1>8, <1>9, <1>10, <1>11, <1>12, <1>13, <1>14, <1>15
     DEF Next, Commit

\* The space promised is at most MAXOPBLOCKS blocks for each call in progress.
LEMMA PromisedBound ==
  TypeOK /\ CallInv =>
    /\ IsFiniteSet(Promised)
    /\ Cardinality(Promised) \in Nat
    /\ Cardinality(Promised) <= outstanding * MAXOPBLOCKS
<1> SUFFICES ASSUME TypeOK, CallInv
             PROVE  /\ IsFiniteSet(Promised)
                    /\ Cardinality(Promised) \in Nat
                    /\ Cardinality(Promised) <= outstanding * MAXOPBLOCKS
  BY Zenon
<1> DEFINE S == Active \X (1 .. MAXOPBLOCKS)
<1>1. IsFiniteSet(1 .. MAXOPBLOCKS) /\ Cardinality(1 .. MAXOPBLOCKS) = MAXOPBLOCKS
  BY FS_Interval, LogAssumption
<1>4. IsFiniteSet(Active) /\ Cardinality(Active) = outstanding
  BY Zenon DEF CallInv
<1>2. IsFiniteSet(S) /\ Cardinality(S) = outstanding * MAXOPBLOCKS
  BY ZenonT(30), <1>1, <1>4, FS_Product
<1>3. Promised \in SUBSET S
  BY Zenon DEF Promised
<1> QED
  BY Zenon, <1>2, <1>3, FS_Subset, FS_CardinalityType

\* The reservation keeps the log within LOGSIZE blocks.
LEMMA LogFits ==
  ASSUME TypeOK, CallInv, RoomInv
  PROVE  Len(lh) <= LOGSIZE
BY PromisedBound, LogAssumption DEF RoomInv, TypeOK

\* The header on disk is only ever log.lh, or empty.
LEMMA HeadStep == LogInv /\ [Next]_vars => HeadInv'
<1> SUFFICES ASSUME LogInv, [Next]_vars PROVE HeadInv'
  BY Zenon
<1> USE DEF LogInv, HeadInv, ondisk
<1>1. ASSUME NEW p \in Proc, WriteHead(p) PROVE HeadInv'
  BY Zenon, <1>1, LogFits DEF WriteHead, UpInv, BufferInv
<1>2. CASE head' = <<>>
  BY <1>2, LogAssumption
<1>3. CASE head' = head
  BY Zenon, <1>3
<1> QED
  BY Zenon, <1>1, <1>2, <1>3 DEF Next, Commit, vars, BeginOp, LogWrite, EndOp, WriteLog, InstallTrans,
     ClearHead, EndCommit, LogCheck, Recycle, Crash, ReadHead, RecoverInstall, RecoverClear

\* While the machine recovers: the blocks installed are those of the log, and
\* a crash in the recovery begins it again.
LEMMA BootStep ==
  LogInv /\ [Next]_vars /\ boot' \in {"read", "install", "clear"} => BootInv'
<1> SUFFICES ASSUME LogInv, [Next]_vars, boot' \in {"read", "install", "clear"} PROVE BootInv'
  BY Zenon
<1> USE DEF LogInv, ondisk
<1>1. CASE UNCHANGED vars
  BY Zenon, <1>1 DEF BootInv, vars
<1>2. CASE Crash
  BY Zenon, <1>2 DEF Crash, Volatile, BootInv
<1>3. CASE ReadHead
  <2>1. boot = "read" /\ tail = 1 /\ lh' = head
    BY Zenon, <1>3 DEF ReadHead, BootInv
  <2>2. CASE head = <<>>
    BY <1>3, <2>1, <2>2 DEF ReadHead, BootInv
  <2>3. CASE head # <<>>
    <3>1. 1 \in 1 .. Len(head)
      BY <2>3 DEF TypeOK
    <3> QED
      BY <1>3, <2>1, <2>3, <3>1 DEF ReadHead, BootInv
  <2> QED
    BY Zenon, <2>2, <2>3
<1>4. CASE RecoverInstall
  <2>1. /\ boot = "install" /\ lh = head /\ head' = head /\ body' = body /\ lh' = lh
        /\ tail \in 1 .. Len(head)
    BY Zenon, <1>4 DEF RecoverInstall, BootInv
  <2>2. /\ pc' = [p \in Proc |-> "out"] /\ blk' = [p \in Proc |-> NoBlock]
        /\ outstanding' = 0 /\ committing' = 0
        /\ dirty' = {} /\ data' = disk'
    BY Zenon, <1>4 DEF RecoverInstall, Install, BootInv
  <2>3. \A i \in 1 .. tail : disk'[head[i]] = body[i]
    BY <1>4, <2>1 DEF RecoverInstall, Install, BootInv, HeadInv, TypeOK
  <2>4. CASE tail = Len(lh)
    BY Zenon, <1>4, <2>1, <2>2, <2>3, <2>4 DEF RecoverInstall, BootInv
  <2>5. CASE tail # Len(lh)
    BY <1>4, <2>1, <2>2, <2>3, <2>5 DEF RecoverInstall, BootInv, TypeOK
  <2> QED
    BY Zenon, <2>4, <2>5
<1>5. CASE boot = "up" \/ boot' = "up"
  BY Zenon, <1>2, <1>5 DEF Next, Commit, vars, BeginOp, LogWrite, EndOp, WriteLog, WriteHead, InstallTrans,
     ClearHead, EndCommit, LogCheck, Recycle, ReadHead, RecoverInstall, RecoverClear
<1> QED
  BY Zenon, <1>1, <1>2, <1>3, <1>4, <1>5 DEF Next, Commit, vars, BeginOp, LogWrite, EndOp, WriteLog,
     WriteHead, InstallTrans, ClearHead, EndCommit, LogCheck, Recycle, RecoverClear

\* The recovery ends with every block of the log installed and the log empty.
LEMMA UpAfterRecovery == LogInv /\ RecoverClear => UpInv'
<1> SUFFICES ASSUME LogInv, RecoverClear PROVE UpInv'
  BY Zenon
<1>1. /\ BootInv /\ TypeOK /\ boot = "clear" /\ lh' = <<>> /\ head' = <<>>
      /\ UNCHANGED <<disk, body, data, dirty, outstanding, committing, pc, wrote, tail, blk>>
  BY Zenon DEF LogInv, RecoverClear
<1>2. Active' = {} /\ Committers' = {}
  BY Zenon, <1>1 DEF BootInv, Active, Committers
<1>3. Promised' = {}
  BY Zenon, <1>2 DEF Promised
<1>4. CallInv'
  BY Zenon, <1>1, <1>2, FS_EmptySet DEF CallInv, BootInv
<1>5. RoomInv'
  BY <1>1, <1>3, FS_EmptySet, LogAssumption DEF RoomInv
<1>6. CommitInv' /\ BufferInv'
  BY SMTT(30), <1>1, <1>2 DEF CommitInv, BufferInv, BootInv, Contains
<1>7. PhaseInv'
  BY SMTT(30), <1>1 DEF PhaseInv, Phase, BootInv
<1> QED
  BY Zenon, <1>4, <1>5, <1>6, <1>7 DEF UpInv

\* The labels of the commit.
LEMMA NoCommitters ==
  ASSUME Committers = {}
  PROVE  /\ ~ Phase("write_log") /\ ~ Phase("write_head")
         /\ ~ Phase("install") /\ ~ Phase("clear") /\ ~ Phase("end")
BY Zenon DEF Committers, Phase

\* A step that is none of a call's keeps the account of the calls.
LEMMA CallFrame ==
  ASSUME CallInv, RoomInv, Active' = Active, UNCHANGED <<outstanding, wrote, lh, blk>>,
         \A q \in Proc : pc'[q] = "log" <=> pc[q] = "log"
  PROVE  CallInv' /\ RoomInv'
<1>1. Promised' = Promised
  BY Zenon DEF Promised
<1>2. \A q \in Active : Writing(q)' = Writing(q)
  BY Zenon DEF Writing, Active
<1> QED
  BY Zenon, <1>1, <1>2 DEF CallInv, RoomInv, Contains

\* A call that begins finds no commit in progress and its space reserved.
LEMMA UpBeginOp ==
  ASSUME TypeOK, TypeOK', UpInv, NEW p \in Proc, BeginOp(p)
  PROVE  UpInv'
<1> USE DEF UpInv, ondisk, Goto
<1>1. CASE MustWait
  <2>1. pc[p] = "out" /\ pc' = [pc EXCEPT ![p] = "wait"]
        /\ UNCHANGED <<disk, head, body, data, dirty, lh, outstanding, committing, wrote, tail, blk>>
    BY Zenon, <1>1 DEF BeginOp
  <2>2. Active' = Active /\ Committers' = Committers
    BY Zenon, <2>1 DEF Active, Committers, TypeOK
  <2>3. \A l \in PC \ {"out", "wait"} : Phase(l)' <=> Phase(l)
    BY Zenon, <2>1 DEF Phase, TypeOK
  <2>4. CallInv' /\ RoomInv'
    BY Zenon, <2>1, <2>2, CallFrame DEF TypeOK
  <2>5. CommitInv' /\ BufferInv'
    BY Zenon, <2>1, <2>2 DEF CommitInv, BufferInv
  <2>6. PhaseInv'
    BY Zenon, <2>1, <2>3 DEF PhaseInv, PC
  <2> QED
    BY Zenon, <2>4, <2>5, <2>6
<1>2. CASE ~ MustWait
  <2>1. /\ pc[p] = "out" /\ pc' = [pc EXCEPT ![p] = "op"]
        /\ outstanding' = outstanding + 1 /\ wrote' = [wrote EXCEPT ![p] = {}]
        /\ UNCHANGED <<disk, head, body, data, dirty, lh, committing, tail, blk>>
    BY Zenon, <1>2 DEF BeginOp
  <2>2. Committers = {}
    BY Zenon, <1>2 DEF MustWait, CommitInv, TypeOK
  <2>3. Active' = Active \union {p} /\ p \notin Active /\ Committers' = {}
    BY <2>1, <2>2 DEF Active, Committers, TypeOK
  <2>4. \A l \in PC \ {"out", "op"} : Phase(l)' <=> Phase(l)
    BY Zenon, <2>1 DEF Phase, TypeOK
  <2>5. CallInv'
    <3>1. IsFiniteSet(Active') /\ outstanding' = Cardinality(Active')
      BY Zenon, <2>1, <2>3, FS_AddElement DEF CallInv
    <3>2. \A q \in Proc : (pc[q] = "log" <=> blk[q] # NoBlock)'
      BY Zenon, <2>1 DEF CallInv, TypeOK
    <3>3. Writing(p)' = {} /\ wrote'[p] = {}
      BY Zenon, <2>1 DEF Writing, TypeOK
    <3>4. \A q \in Active : Writing(q)' = Writing(q) /\ wrote'[q] = wrote[q]
      BY Zenon, <2>1, <2>3 DEF Writing, TypeOK, Active
    <3>5. \A b \in wrote'[p] : Contains(lh, b)'
      BY Zenon, <3>3
    <3>6. IsFiniteSet(wrote'[p]) /\ Cardinality(Writing(p)') <= MAXOPBLOCKS
      BY <3>3, FS_EmptySet, LogAssumption
    <3>7. \A q \in Active : /\ \A b \in wrote'[q] : Contains(lh, b)'
                            /\ IsFiniteSet(wrote'[q])
                            /\ Cardinality(Writing(q)') <= MAXOPBLOCKS
      BY Zenon, <2>1, <3>4 DEF CallInv, Contains
    <3> QED
      BY Zenon, <2>3, <3>1, <3>2, <3>5, <3>6, <3>7 DEF CallInv
  <2>6. RoomInv'
    <3>1. (Cardinality(Promised) \in Nat /\ Cardinality(Promised) <= outstanding * MAXOPBLOCKS)'
      BY <2>5, PromisedBound, PTL
    <3>2. Cardinality(Promised') \in Nat /\ Cardinality(Promised') <= (outstanding + 1) * MAXOPBLOCKS
      BY Zenon, <2>1, <3>1
    <3>3. Len(lh) + (outstanding + 1) * MAXOPBLOCKS <= LOGSIZE
      BY <1>2, LogAssumption DEF MustWait, TypeOK
    <3> QED
      BY <2>1, <3>2, <3>3, LogAssumption DEF RoomInv, TypeOK
  <2>7. CommitInv' /\ BufferInv'
    BY Zenon, <2>1, <2>2, <2>3 DEF CommitInv, BufferInv
  <2>8. PhaseInv'
    BY Zenon, <2>1, <2>4 DEF PhaseInv, PC
  <2> QED
    BY Zenon, <2>5, <2>6, <2>7, <2>8
<1> QED
  BY Zenon, <1>1, <1>2

\* Between two commits nothing of the log is on the disk.
LEMMA QuietPhase ==
  Committers = {} =>
    (PhaseInv <=> head = <<>> /\ tail = 1 /\ \A i \in 1 .. Len(lh) : lh[i] \in dirty)
BY Zenon, NoCommitters DEF PhaseInv

\* A call that changes a buffer holds it until log_write has pinned it.
LEMMA UpLogCheck ==
  ASSUME TypeOK, TypeOK', UpInv, boot' = "up",
         NEW p \in Proc, NEW b \in Block, NEW v \in Value, LogCheck(p, b, v)
  PROVE  UpInv'
<1> USE DEF UpInv, ondisk, Goto
<1>1. /\ pc[p] = "op" /\ pc' = [pc EXCEPT ![p] = "log"]
      /\ blk' = [blk EXCEPT ![p] = b] /\ data' = [data EXCEPT ![b] = v]
      /\ Cardinality(wrote[p] \union {b}) <= MAXOPBLOCKS
      /\ UNCHANGED <<disk, head, body, dirty, lh, outstanding, committing, wrote, tail>>
  BY Zenon DEF LogCheck
<1>2. p \in Active /\ Active' = Active /\ Committers = {} /\ Committers' = {}
  BY <1>1 DEF Active, Committers, TypeOK, CommitInv
<1>3. CallInv'
  <2>1. \A q \in Proc : (pc[q] = "log" <=> blk[q] # NoBlock)'
    BY Zenon, <1>1, LogAssumption DEF CallInv, TypeOK
  <2>2. Writing(p)' = wrote[p] \union {b}
    BY <1>1 DEF Writing, TypeOK
  <2>3. \A q \in Active \ {p} : Writing(q)' = Writing(q)
    BY Zenon, <1>1 DEF Writing, TypeOK, Active
  <2>4. \A q \in Active : Cardinality(Writing(q)') <= MAXOPBLOCKS
    BY Zenon, <1>1, <2>2, <2>3 DEF CallInv
  <2> QED
    BY Zenon, <1>1, <1>2, <2>1, <2>4 DEF CallInv, Contains
<1>4. RoomInv' /\ CommitInv'
  BY Zenon, <1>1, <1>2 DEF RoomInv, CommitInv, Promised
<1>5. BufferInv'
  <2>1. blk[p] = NoBlock
    BY Zenon, <1>1 DEF CallInv
  <2>2. ASSUME NEW c \in Block, c \notin dirty', \A q \in Proc : blk'[q] # c
        PROVE  data'[c] = disk'[c]
    <3>1. c # b /\ \A q \in Proc : blk[q] # c
      BY <1>1, <2>1, <2>2, LogAssumption DEF TypeOK
    <3> QED
      BY Zenon, <1>1, <2>2, <3>1 DEF BufferInv, TypeOK
  <2> QED
    BY Zenon, <1>1, <2>2 DEF BufferInv, Contains
<1>6. PhaseInv'
  <2>1. (head = <<>> /\ tail = 1 /\ \A i \in 1 .. Len(lh) : lh[i] \in dirty)'
    BY Zenon, <1>1, <1>2, QuietPhase
  <2>2. (Committers = {})'
    BY Zenon, <1>2
  <2> QED
    BY <2>1, <2>2, QuietPhase, PTL
<1> QED
  BY Zenon, <1>3, <1>4, <1>5, <1>6

\* log_write uses one promised block for a block that is not in the log yet.
LEMMA UpLogWrite ==
  ASSUME TypeOK, TypeOK', UpInv, NEW p \in Proc, LogWrite(p)
  PROVE  UpInv'
<1> USE DEF UpInv, ondisk, Goto
<1> DEFINE b == blk[p]
           n == Cardinality(wrote[p])
<1>1. /\ pc[p] = "log" /\ pc' = [pc EXCEPT ![p] = "op"]
      /\ lh' = IF Contains(lh, b) THEN lh ELSE Append(lh, b)
      /\ dirty' = dirty \union {b}
      /\ wrote' = [wrote EXCEPT ![p] = @ \union {b}]
      /\ blk' = [blk EXCEPT ![p] = NoBlock]
      /\ UNCHANGED <<disk, head, body, data, outstanding, committing, tail>>
  BY Zenon DEF LogWrite
<1>2. p \in Active /\ Active' = Active /\ Committers = {} /\ Committers' = {}
  BY Zenon, <1>1 DEF Active, Committers, TypeOK, CommitInv
<1>3. b \in Block /\ wrote'[p] = wrote[p] \union {b} /\ Writing(p) = wrote[p] \union {b}
  BY Zenon, <1>1 DEF CallInv, TypeOK, Writing
<1>4. \A q \in Active \ {p} : wrote'[q] = wrote[q] /\ Writing(q)' = Writing(q)
  BY Zenon, <1>1 DEF Writing, TypeOK, Active
<1>5. Writing(p)' = wrote'[p]
  BY Zenon, <1>1 DEF Writing, TypeOK
<1>6. /\ IsFiniteSet(wrote[p]) /\ n \in Nat
      /\ IsFiniteSet(wrote'[p])
      /\ Cardinality(wrote'[p]) = IF b \in wrote[p] THEN n ELSE n + 1
  <2>1. IsFiniteSet(wrote[p])
    BY Zenon, <1>2 DEF CallInv
  <2>2. n \in Nat
    BY Zenon, <2>1, FS_CardinalityType
  <2>3. /\ IsFiniteSet(wrote[p] \union {b})
        /\ Cardinality(wrote[p] \union {b}) = IF b \in wrote[p] THEN n ELSE n + 1
    BY Zenon, <2>1, FS_AddElement
  <2> QED
    BY Zenon, <1>3, <2>1, <2>2, <2>3
<1>a. /\ lh \in Seq(Block) /\ lh' = IF Contains(lh, b) THEN lh ELSE Append(lh, b)
      /\ dirty' = dirty \union {b} /\ head' = head /\ tail' = tail
  BY Zenon, <1>1 DEF TypeOK
<1>7. \A c \in Block : Contains(lh', c) <=> Contains(lh, c) \/ c = b
  <2>1. CASE Contains(lh, b)
    BY Zenon, <1>1, <2>1
  <2>2. CASE ~ Contains(lh, b)
    <3>1. /\ Len(lh') = Len(lh) + 1 /\ lh'[Len(lh) + 1] = b
          /\ \A i \in 1 .. Len(lh) : lh'[i] = lh[i]
      BY <1>a, <1>3, <2>2
    <3>2. Len(lh) \in Nat
      BY DEF TypeOK
    <3>3. 1 .. Len(lh') = 1 .. Len(lh) \union {Len(lh) + 1}
      BY <3>1, <3>2
    <3> QED
      BY Zenon, <3>1, <3>2, <3>3 DEF Contains
  <2> QED
    BY Zenon, <2>1, <2>2
<1>8. CallInv'
  <2>1. \A q \in Proc : (pc[q] = "log" <=> blk[q] # NoBlock)'
    BY Zenon, <1>1 DEF CallInv, TypeOK
  <2>2. \A q \in Active : wrote'[q] \subseteq Block
    BY Zenon DEF Active, TypeOK
  <2>3. \A q \in Active : \A c \in wrote'[q] : Contains(lh', c)
    BY Zenon, <1>3, <1>4, <1>7, <2>2 DEF CallInv
  <2>4. \A q \in Active : IsFiniteSet(wrote'[q]) /\ Cardinality(Writing(q)') <= MAXOPBLOCKS
    BY Zenon, <1>2, <1>3, <1>4, <1>5, <1>6 DEF CallInv
  <2> QED
    BY Zenon, <1>1, <1>2, <2>1, <2>3, <2>4 DEF CallInv, Contains
<1>9. RoomInv'
  <2>1. IsFiniteSet(Promised) /\ Cardinality(Promised) \in Nat
    BY Zenon, PromisedBound
  <2>2. CASE Contains(lh, b)
    <3>1. Promised' \in SUBSET Promised
      BY SMTT(30), <1>2, <1>4, <1>6, FS_CardinalityType DEF Promised, CallInv
    <3>2. Cardinality(Promised') <= Cardinality(Promised) /\ Cardinality(Promised') \in Nat
      BY Zenon, <2>1, <3>1, FS_Subset, FS_CardinalityType
    <3> QED
      BY SMTT(30), <1>1, <2>1, <2>2, <3>2, LogAssumption DEF RoomInv, TypeOK
  <2>3. CASE ~ Contains(lh, b)
    <3>1. b \notin wrote[p]
      BY Zenon, <1>2, <2>3 DEF CallInv
    <3>2. n + 1 \in 1 .. MAXOPBLOCKS /\ Cardinality(wrote'[p]) = n + 1
      <4>1. Cardinality(wrote'[p]) = n + 1
        BY Zenon, <1>6, <3>1
      <4>2. Cardinality(wrote'[p]) <= MAXOPBLOCKS
        BY Zenon, <1>2, <1>3 DEF CallInv
      <4> QED
        BY <1>6, <4>1, <4>2, LogAssumption
    <3>3. <<p, n + 1>> \in Promised
      BY <1>2, <1>6, <3>2 DEF Promised
    <3>4. Promised' \in SUBSET (Promised \ {<<p, n + 1>>})
      BY SMTT(30), <1>2, <1>4, <1>6, <3>2, FS_CardinalityType DEF Promised, CallInv
    <3>5. Cardinality(Promised') <= Cardinality(Promised) - 1 /\ Cardinality(Promised') \in Nat
      BY <2>1, <3>3, <3>4, FS_RemoveElement, FS_Subset, FS_CardinalityType
    <3>6. Len(lh') = Len(lh) + 1
      BY <1>a, <1>3, <2>3
    <3> QED
      BY <2>1, <3>5, <3>6, LogAssumption DEF RoomInv, TypeOK
  <2> QED
    BY Zenon, <2>2, <2>3
<1>10. CommitInv'
  BY Zenon, <1>1, <1>2 DEF CommitInv
<1>11. BufferInv'
  <2>1. \A i, j \in 1 .. Len(lh') : lh'[i] = lh'[j] => i = j
    BY <1>a, <1>3, SMTT(30) DEF BufferInv, Contains
  <2>2. \A c \in dirty' : Contains(lh', c)
    BY Zenon, <1>1, <1>3, <1>7 DEF BufferInv, TypeOK
  <2>3. ASSUME NEW c \in Block, c \notin dirty', \A q \in Proc : blk'[q] # c
        PROVE  data'[c] = disk'[c]
    <3>1. c \notin dirty /\ \A q \in Proc : blk[q] # c
      BY Zenon, <1>1, <2>3 DEF TypeOK
    <3> QED
      BY Zenon, <1>1, <3>1 DEF BufferInv
  <2> QED
    BY Zenon, <2>1, <2>2, <2>3 DEF BufferInv, Contains
<1>12. PhaseInv'
  <2>1. head = <<>> /\ tail = 1 /\ \A i \in 1 .. Len(lh) : lh[i] \in dirty
    BY Zenon, <1>2, QuietPhase
  <2>2. (head = <<>> /\ tail = 1 /\ \A i \in 1 .. Len(lh) : lh[i] \in dirty)'
    BY <1>a, <1>3, <2>1, SMTT(30)
  <2>3. (Committers = {})'
    BY Zenon, <1>2
  <2> QED
    BY <2>2, <2>3, QuietPhase, PTL
<1> QED
  BY Zenon, <1>8, <1>9, <1>10, <1>11, <1>12

\* A step that leaves the log alone.
LEMMA UpStutter ==
  ASSUME UpInv,
         UNCHANGED <<disk, head, body, data, dirty, lh, outstanding, committing, pc, blk, wrote, tail>>
  PROVE  UpInv'
<1>1. CallInv'
  BY Zenon DEF UpInv, CallInv, Active, Writing, Contains
<1>2. CommitInv' /\ RoomInv'
  BY Zenon DEF UpInv, CommitInv, RoomInv, Active, Committers, Promised, Writing
<1>3. BufferInv'
  BY Zenon DEF UpInv, BufferInv, Contains
<1>4. PhaseInv'
  BY Zenon DEF UpInv, PhaseInv, Phase
<1> QED
  BY Zenon, <1>1, <1>2, <1>3, <1>4 DEF UpInv

\* The cache recycles only buffers that say what the disk says.
LEMMA UpRecycle ==
  ASSUME TypeOK, UpInv, NEW b \in Block, Recycle(b)
  PROVE  UpInv' /\ data' = data
<1>1. data' = data
  BY Zenon DEF Recycle, TypeOK, UpInv, BufferInv
<1>2. UNCHANGED <<disk, head, body, data, dirty, lh, outstanding, committing, pc, blk, wrote, tail>>
  BY Zenon, <1>1 DEF Recycle, ondisk
<1> QED
  BY Zenon, <1>1, <1>2, UpStutter

\* A call ends: the last one starts the commit, and no other is in progress.
LEMMA UpEndOp ==
  ASSUME TypeOK, TypeOK', UpInv, boot' = "up", NEW p \in Proc, EndOp(p)
  PROVE  UpInv'
<1> USE DEF UpInv, ondisk, Goto
<1>1. /\ pc[p] = "op" /\ outstanding' = outstanding - 1
      /\ wrote' = [wrote EXCEPT ![p] = {}]
      /\ UNCHANGED <<disk, head, body, data, dirty, lh, tail, blk>>
  BY Zenon DEF EndOp
<1>2. p \in Active /\ Committers = {} /\ committing = 0
  BY Zenon, <1>1 DEF Active, CommitInv, TypeOK
<1>3. /\ IsFiniteSet(Active \ {p})
      /\ Cardinality(Active \ {p}) = outstanding'
      /\ outstanding' = 0 <=> Active \ {p} = {}
  BY Zenon, <1>1, <1>2, FS_RemoveElement, FS_EmptySet DEF CallInv
<1>4. BufferInv'
  BY Zenon, <1>1 DEF BufferInv, Contains
<1>5. head = <<>> /\ tail = 1 /\ \A i \in 1 .. Len(lh) : lh[i] \in dirty
  BY Zenon, <1>2, QuietPhase
<1>6. ASSUME Active' = Active \ {p}, \A q \in Proc : pc'[q] = "log" <=> pc[q] = "log"
      PROVE  CallInv' /\ RoomInv'
  <2>1. \A q \in Active' : wrote'[q] = wrote[q] /\ Writing(q)' = Writing(q)
    BY Zenon, <1>1, <1>6 DEF Writing, TypeOK, Active
  <2>2. CallInv'
    BY SMTT(30), <1>1, <1>3, <1>6, <2>1 DEF CallInv, Contains
  <2>3. Promised' \in SUBSET Promised
    BY Zenon, <1>6, <2>1 DEF Promised
  <2>4. Cardinality(Promised') <= Cardinality(Promised)
    BY Zenon, <2>3, PromisedBound, FS_Subset
  <2>5. Cardinality(Promised') \in Nat /\ Cardinality(Promised) \in Nat
    BY Zenon, <2>3, PromisedBound, FS_Subset, FS_CardinalityType
  <2>6. RoomInv'
    BY <1>1, <2>4, <2>5, LogAssumption DEF RoomInv, TypeOK
  <2> QED
    BY Zenon, <2>2, <2>6
<1>7. CASE outstanding' = 0
  <2> DEFINE l == IF lh = <<>> THEN "end" ELSE "write_log"
  <2>1. committing' = 1 /\ pc' = [pc EXCEPT ![p] = l]
    BY Zenon, <1>2, <1>7 DEF EndOp
  <2>2. Active' = Active \ {p} /\ Active' = {} /\ Committers' = {p}
    <3>1. pc \in [Proc -> PC]
      BY Zenon DEF TypeOK
    <3> QED
      BY Zenon, <1>2, <1>3, <1>7, <2>1, <3>1 DEF Active, Committers
  <2>3. \A q \in Proc : pc'[q] = "log" <=> pc[q] = "log"
    BY Zenon, <1>1, <2>1 DEF TypeOK
  <2>4. CommitInv'
    BY Zenon, <2>1, <2>2 DEF CommitInv
  <2>5. \A k \in {"write_log", "write_head", "install", "clear", "end"} : Phase(k)' <=> k = l
    BY Zenon, <1>2, <2>1 DEF Phase, Committers, TypeOK
  <2>6. lh # <<>> => 1 \in 1 .. Len(lh)
    BY DEF TypeOK
  <2>7. PhaseInv'
    BY <1>1, <1>5, <2>5, <2>6 DEF PhaseInv
  <2> QED
    BY Zenon, <1>4, <1>6, <2>2, <2>3, <2>4, <2>7
<1>8. CASE outstanding' # 0
  <2>1. committing' = committing /\ pc' = Woken([pc EXCEPT ![p] = "out"])
    BY Zenon, <1>2, <1>8 DEF EndOp
  <2>2. Active' = Active \ {p} /\ Committers' = {}
    BY Zenon, <1>2, <2>1 DEF Active, Committers, TypeOK, Woken
  <2>3. \A q \in Proc : pc'[q] = "log" <=> pc[q] = "log"
    BY Zenon, <1>1, <2>1 DEF TypeOK, Woken
  <2>4. CommitInv'
    BY Zenon, <1>2, <2>1, <2>2 DEF CommitInv
  <2>5. (head = <<>> /\ tail = 1 /\ \A i \in 1 .. Len(lh) : lh[i] \in dirty)'
    BY Zenon, <1>1, <1>5
  <2>6. (Committers = {})'
    BY Zenon, <2>2
  <2>7. PhaseInv'
    BY <2>5, <2>6, QuietPhase, PTL
  <2> QED
    BY Zenon, <1>4, <1>6, <2>2, <2>3, <2>4, <2>7
<1> QED
  BY Zenon, <1>7, <1>8

Label == {"write_log", "write_head", "install", "clear", "end"}

\* A step of the commit: one process makes it, and no call is in progress.
LEMMA CommitFrame ==
  ASSUME TypeOK, UpInv, NEW p \in Committers, NEW l \in Label,
         pc' = [pc EXCEPT ![p] = l], UNCHANGED <<outstanding, committing, wrote, blk>>
  PROVE  /\ Active = {} /\ Active' = {} /\ CommitInv'
         /\ \A k \in Label : (Phase(k) <=> k = pc[p]) /\ (Phase(k)' <=> k = l)
         /\ lh' = lh => CallInv' /\ RoomInv'
         /\ \A q \in Proc : blk[q] = NoBlock
<1>1. Committers = {p} /\ Active = {}
  BY Zenon DEF UpInv, CommitInv
<1>2. Committers' = {p} /\ Active' = {}
  BY Zenon, <1>1 DEF Committers, Active, TypeOK, Label
<1>3. CommitInv'
  BY Zenon, <1>1, <1>2 DEF CommitInv, UpInv
<1>4. \A q \in Proc : pc[q] \in Label <=> q = p
  BY Zenon, <1>1 DEF Committers, Label
<1>5. \A k \in Label : (Phase(k) <=> k = pc[p]) /\ (Phase(k)' <=> k = l)
  <2>1. p \in Proc /\ pc[p] \in Label /\ pc'[p] = l
    BY Zenon, <1>1, <1>4 DEF Committers, TypeOK
  <2>2. \A q \in Proc : q # p => pc'[q] = pc[q]
    BY Zenon DEF TypeOK
  <2> QED
    BY Zenon, <1>4, <2>1, <2>2 DEF Phase
<1>6. \A q \in Proc : pc[q] # "log" /\ pc'[q] # "log"
  BY Zenon, <1>1, <1>2 DEF Active
<1>7. \A q \in Proc : blk[q] = NoBlock
  BY Zenon, <1>6 DEF UpInv, CallInv
<1>8. lh' = lh => CallInv' /\ RoomInv'
  BY Zenon, <1>1, <1>2, <1>6, CallFrame DEF UpInv
<1> QED
  BY Zenon, <1>1, <1>2, <1>3, <1>5, <1>7, <1>8

\* The blocks are copied to the log one after the other.
LEMMA UpWriteLog ==
  ASSUME TypeOK, TypeOK', UpInv, NEW p \in Proc, WriteLog(p)
  PROVE  UpInv'
<1> USE DEF ondisk, Goto
<1> DEFINE l == IF tail = Len(lh) THEN "write_head" ELSE "write_log"
<1>1. /\ pc[p] = "write_log" /\ pc' = [pc EXCEPT ![p] = l]
      /\ body' = [body EXCEPT ![tail] = data[lh[tail]]]
      /\ tail' = IF tail = Len(lh) THEN 1 ELSE tail + 1
      /\ UNCHANGED <<disk, head, data, dirty, lh, outstanding, committing, wrote, blk>>
  BY Zenon DEF WriteLog, Iterate, TypeOK
<1>2. p \in Committers /\ l \in Label
  BY Zenon, <1>1 DEF Committers, Label
<1>3. /\ CallInv' /\ RoomInv' /\ CommitInv'
      /\ \A k \in Label : (Phase(k) <=> k = "write_log") /\ (Phase(k)' <=> k = l)
  BY Zenon, <1>1, <1>2, CommitFrame
<1>4. BufferInv'
  BY Zenon, <1>1 DEF UpInv, BufferInv, Contains
<1>5. /\ tail \in 1 .. Len(lh) /\ head = <<>> /\ \A i \in 1 .. Len(lh) : lh[i] \in dirty
      /\ \A i \in 1 .. tail - 1 : body[i] = data[lh[i]]
  BY Zenon, <1>3 DEF UpInv, PhaseInv, Label
<1>6. Len(lh) <= LOGSIZE
  BY Zenon, LogFits DEF UpInv
<1>7. \A i \in 1 .. tail : body'[i] = data[lh[i]]
  <2>1. body \in [Tail0 -> Value] /\ tail \in Nat /\ Len(lh) \in Nat
    BY DEF TypeOK
  <2>2. tail \in Tail0 /\ 1 .. tail \subseteq Tail0
    BY <1>5, <1>6, <2>1, LogAssumption DEF Tail0
  <2>3. body'[tail] = data[lh[tail]] /\ \A i \in Tail0 \ {tail} : body'[i] = body[i]
    BY Zenon, <1>1, <2>1, <2>2
  <2> QED
    BY <1>5, <2>1, <2>2, <2>3
<1>8. PhaseInv'
  <2>1. CASE tail = Len(lh)
    <3>1. lh # <<>>
      BY <1>5
    <3> QED
      BY Zenon, <1>1, <1>3, <1>5, <1>7, <2>1, <3>1 DEF PhaseInv, Label
  <2>2. CASE tail # Len(lh)
    <3>1. tail + 1 \in 1 .. Len(lh) /\ 1 .. (tail + 1) - 1 = 1 .. tail
      BY <1>5, <2>2 DEF TypeOK
    <3> QED
      BY Zenon, <1>1, <1>3, <1>5, <1>7, <2>2, <3>1 DEF PhaseInv, Label
  <2> QED
    BY Zenon, <2>1, <2>2
<1> QED
  BY Zenon, <1>3, <1>4, <1>8 DEF UpInv

\* The write of the header is the commit.
LEMMA UpWriteHead ==
  ASSUME TypeOK, TypeOK', UpInv, NEW p \in Proc, WriteHead(p)
  PROVE  UpInv'
<1> USE DEF ondisk, Goto
<1>1. /\ pc[p] = "write_head" /\ pc' = [pc EXCEPT ![p] = "install"] /\ head' = lh
      /\ UNCHANGED <<disk, body, data, dirty, lh, outstanding, committing, wrote, tail, blk>>
  BY Zenon DEF WriteHead
<1>2. p \in Committers /\ "install" \in Label
  BY Zenon, <1>1 DEF Committers, Label
<1>3. /\ CallInv' /\ RoomInv' /\ CommitInv'
      /\ \A k \in Label : (Phase(k) <=> k = "write_head") /\ (Phase(k)' <=> k = "install")
  BY Zenon, <1>1, <1>2, CommitFrame
<1>4. BufferInv'
  BY Zenon, <1>1 DEF UpInv, BufferInv, Contains
<1>5. tail = 1 /\ \A i \in 1 .. Len(lh) : body[i] = data[lh[i]]
  BY Zenon, <1>3 DEF UpInv, PhaseInv, Label
<1>6. 1 \in 1 .. Len(lh)
  BY <1>3 DEF UpInv, PhaseInv, Label, TypeOK
<1>7. PhaseInv'
  BY SMTT(30), <1>1, <1>3, <1>5, <1>6 DEF PhaseInv, Label
<1> QED
  BY Zenon, <1>3, <1>4, <1>7 DEF UpInv

\* The blocks of the log are copied home one after the other.
LEMMA UpInstallTrans ==
  ASSUME TypeOK, TypeOK', UpInv, HeadInv, NEW p \in Proc, InstallTrans(p)
  PROVE  UpInv' /\ data' = data
<1> USE DEF ondisk, Goto
<1> DEFINE l == IF tail = Len(lh) THEN "clear" ELSE "install"
           b == lh[tail]
<1>1. /\ pc[p] = "install" /\ pc' = [pc EXCEPT ![p] = l]
      /\ data' = [data EXCEPT ![b] = body[tail]]
      /\ disk' = [disk EXCEPT ![b] = body[tail]]
      /\ dirty' = dirty \ {b}
      /\ tail' = IF tail = Len(lh) THEN 1 ELSE tail + 1
      /\ UNCHANGED <<head, body, lh, outstanding, committing, wrote, blk>>
  BY Zenon DEF InstallTrans, Install, Iterate, TypeOK
<1>2. p \in Committers /\ l \in Label
  BY Zenon, <1>1 DEF Committers, Label
<1>3. /\ CallInv' /\ RoomInv' /\ CommitInv'
      /\ \A k \in Label : (Phase(k) <=> k = "install") /\ (Phase(k)' <=> k = l)
  BY Zenon, <1>1, <1>2, CommitFrame
<1>4. /\ tail \in 1 .. Len(lh) /\ head = lh
      /\ \A i \in 1 .. Len(lh) : body[i] = data[lh[i]]
      /\ \A i \in 1 .. tail - 1 : disk[lh[i]] = body[i] /\ lh[i] \notin dirty
  BY Zenon, <1>3 DEF UpInv, PhaseInv, Label
<1>5. b \in Block /\ data' = data
  BY <1>1, <1>4 DEF TypeOK
<1>6. BufferInv'
  <2>1. \A c \in dirty' : Contains(lh', c)
    BY Zenon, <1>1 DEF UpInv, BufferInv
  <2>2. ASSUME NEW c \in Block, c \notin dirty', \A q \in Proc : blk'[q] # c
        PROVE  data'[c] = disk'[c]
    BY <1>1, <1>5, <2>2 DEF UpInv, BufferInv, TypeOK
  <2> QED
    BY <1>1, <2>1, <2>2 DEF UpInv, BufferInv, Contains
<1>7. \A i \in 1 .. tail : disk'[lh[i]] = body[i] /\ lh[i] \notin dirty'
  <2>1. /\ disk'[b] = body[tail] /\ \A c \in Block \ {b} : disk'[c] = disk[c]
        /\ \A c \in Block : c \in dirty' <=> c \in dirty /\ c # b
    BY Zenon, <1>1, <1>5 DEF TypeOK
  <2>2. tail \in Nat /\ Len(lh) \in Nat /\ \A i \in 1 .. Len(lh) : lh[i] \in Block
    BY DEF TypeOK
  <2>3. \A i \in 1 .. tail - 1 : lh[i] # b
    BY <1>4, <2>2 DEF UpInv, BufferInv
  <2> QED
    BY <1>4, <2>1, <2>2, <2>3
<1>8. PhaseInv'
  <2>1. CASE tail = Len(lh)
    <3>1. dirty' = {}
      <4>1. dirty' \subseteq dirty
        BY Zenon, <1>1
      <4> QED
        BY <1>7, <2>1, <4>1 DEF UpInv, BufferInv, Contains
    <3>2. tail' = 1 /\ head' = head /\ body' = body /\ lh' = lh /\ l = "clear"
      BY Zenon, <1>1, <2>1
    <3> QED
      BY Zenon, <1>3, <1>4, <1>5, <1>7, <2>1, <3>1, <3>2 DEF PhaseInv, Label
  <2>2. CASE tail # Len(lh)
    <3>1. tail + 1 \in 1 .. Len(lh) /\ 1 .. (tail + 1) - 1 = 1 .. tail
      BY <1>4, <2>2 DEF TypeOK
    <3>2. tail' = tail + 1 /\ head' = head /\ body' = body /\ lh' = lh /\ l = "install"
      BY Zenon, <1>1, <2>2
    <3> QED
      BY Zenon, <1>3, <1>4, <1>5, <1>7, <3>1, <3>2 DEF PhaseInv, Label
  <2> QED
    BY Zenon, <2>1, <2>2
<1> QED
  BY Zenon, <1>3, <1>5, <1>6, <1>8 DEF UpInv

\* The empty header ends the transaction.
LEMMA UpClearHead ==
  ASSUME TypeOK, TypeOK', UpInv, NEW p \in Proc, ClearHead(p)
  PROVE  UpInv'
<1> USE DEF ondisk, Goto
<1>1. /\ pc[p] = "clear" /\ pc' = [pc EXCEPT ![p] = "end"] /\ head' = <<>> /\ lh' = <<>>
      /\ UNCHANGED <<disk, body, data, dirty, outstanding, committing, wrote, tail, blk>>
  BY Zenon DEF ClearHead
<1>2. p \in Committers /\ "end" \in Label
  BY Zenon, <1>1 DEF Committers, Label
<1>3. /\ CommitInv' /\ Active = {} /\ Active' = {}
      /\ \A k \in Label : (Phase(k) <=> k = "clear") /\ (Phase(k)' <=> k = "end")
      /\ \A q \in Proc : blk[q] = NoBlock
  BY Zenon, <1>1, <1>2, CommitFrame
<1>4. CallInv'
  <2>1. outstanding = 0
    BY Zenon, <1>3, FS_EmptySet DEF UpInv, CallInv
  <2>2. \A q \in Proc : pc'[q] # "log"
    BY Zenon, <1>3 DEF Active
  <2> QED
    BY Zenon, <1>1, <1>3, <2>1, <2>2, FS_EmptySet DEF CallInv
<1>5. RoomInv'
  <2>1. Promised' = {}
    BY Zenon, <1>3 DEF Promised
  <2> QED
    BY <1>1, <2>1, FS_EmptySet, LogAssumption DEF RoomInv
<1>6. dirty = {} /\ tail = 1
  BY Zenon, <1>3 DEF UpInv, PhaseInv, Label
<1>7. BufferInv'
  BY <1>1, <1>6 DEF UpInv, BufferInv
<1>8. PhaseInv'
  BY <1>1, <1>3, <1>6 DEF PhaseInv, Label
<1> QED
  BY Zenon, <1>3, <1>4, <1>5, <1>7, <1>8 DEF UpInv

\* The commit is over, and the calls that wait go on.
LEMMA UpEndCommit ==
  ASSUME TypeOK, TypeOK', UpInv, NEW p \in Proc, EndCommit(p)
  PROVE  UpInv'
<1> USE DEF ondisk
<1>1. /\ pc[p] = "end" /\ pc' = Woken([pc EXCEPT ![p] = "out"]) /\ committing' = 0
      /\ UNCHANGED <<disk, head, body, data, dirty, lh, outstanding, wrote, tail, blk>>
  BY Zenon DEF EndCommit
<1>2. Committers = {p} /\ Active = {}
  <2>1. p \in Committers
    BY Zenon, <1>1 DEF Committers
  <2> QED
    BY Zenon, <2>1 DEF UpInv, CommitInv
<1>3. Committers' = {} /\ Active' = {}
  BY Zenon, <1>1, <1>2 DEF Committers, Active, TypeOK, Woken
<1>4. CallInv' /\ RoomInv'
  <2>1. \A q \in Proc : pc'[q] = "log" <=> pc[q] = "log"
    BY Zenon, <1>2, <1>3 DEF Active
  <2> QED
    BY Zenon, <1>1, <1>2, <1>3, <2>1, CallFrame DEF UpInv
<1>5. CommitInv'
  BY <1>1, <1>3 DEF CommitInv
<1>6. BufferInv'
  BY Zenon, <1>1 DEF UpInv, BufferInv, Contains
<1>7. lh = <<>> /\ head = <<>> /\ tail = 1
  <2>1. Phase("end") /\ ~ Phase("install") /\ ~ Phase("clear") /\ ~ Phase("write_log")
    BY Zenon, <1>1, <1>2 DEF Phase, Committers
  <2> QED
    BY Zenon, <2>1 DEF UpInv, PhaseInv
<1>8. (head = <<>> /\ tail = 1 /\ \A i \in 1 .. Len(lh) : lh[i] \in dirty)'
  BY <1>1, <1>7
<1>9. (Committers = {})'
  BY Zenon, <1>3
<1>10. PhaseInv'
  BY <1>8, <1>9, QuietPhase, PTL
<1> QED
  BY Zenon, <1>4, <1>5, <1>6, <1>10 DEF UpInv

\* The invariant is inductive.
LEMMA InvStep == LogInv /\ [Next]_vars => LogInv'
<1> SUFFICES ASSUME LogInv, [Next]_vars PROVE LogInv'
  BY Zenon
<1>1. TypeOK /\ TypeOK' /\ HeadInv /\ HeadInv'
  BY Zenon, TypeStep, HeadStep DEF LogInv
<1>2. boot' \in {"read", "install", "clear"} => BootInv'
  BY Zenon, BootStep
<1>3. ASSUME boot' = "up" PROVE UpInv'
  <2>1. CASE UNCHANGED vars
    BY Zenon, <1>3, <2>1, UpStutter DEF vars, ondisk, LogInv
  <2>2. CASE RecoverClear
    BY Zenon, <2>2, UpAfterRecovery
  <2>3. CASE Crash \/ ReadHead \/ RecoverInstall
    BY Zenon, <1>3, <2>3 DEF Crash, Volatile, ReadHead, RecoverInstall
  <2>4. ASSUME UpInv, NEW p \in Proc, BeginOp(p) \/ LogWrite(p) \/ EndOp(p) \/ Commit(p) PROVE UpInv'
    BY Zenon, <1>1, <1>3, <2>4, UpBeginOp, UpLogWrite, UpEndOp, UpWriteLog, UpWriteHead, UpInstallTrans,
       UpClearHead, UpEndCommit DEF Commit
  <2>5. ASSUME UpInv, NEW p \in Proc, NEW b \in Block, NEW v \in Value, LogCheck(p, b, v) PROVE UpInv'
    BY Zenon, <1>1, <1>3, <2>5, UpLogCheck
  <2>6. ASSUME UpInv, NEW b \in Block, Recycle(b) PROVE UpInv'
    BY Zenon, <1>1, <2>6, UpRecycle
  <2>7. CASE \E p \in Proc : BeginOp(p) \/ LogWrite(p) \/ EndOp(p) \/ Commit(p)
    <3>1. UpInv
      BY Zenon, <2>7 DEF LogInv, Commit, BeginOp, LogWrite, EndOp, WriteLog, WriteHead, InstallTrans,
         ClearHead, EndCommit
    <3> QED
      BY Zenon, <2>4, <2>7, <3>1
  <2>8. CASE \E p \in Proc, b \in Block, v \in Value : LogCheck(p, b, v)
    <3>1. UpInv
      BY Zenon, <2>8 DEF LogInv, LogCheck
    <3> QED
      BY Zenon, <2>5, <2>8, <3>1
  <2>9. CASE \E b \in Block : Recycle(b)
    <3>1. UpInv
      BY Zenon, <2>9 DEF LogInv, Recycle
    <3> QED
      BY Zenon, <2>6, <2>9, <3>1
  <2> QED
    BY Zenon, <2>1, <2>2, <2>3, <2>7, <2>8, <2>9 DEF Next
<1> QED
  BY Zenon, <1>1, <1>2, <1>3 DEF LogInv

\* The machine keeps the account of its log, whatever the calls do and wherever
\* it crashes.
THEOREM LogInvariant == Spec => []LogInv
<1>1. Init => LogInv
  BY Zenon, InvInit
<1>2. LogInv /\ [Next]_vars => LogInv'
  BY Zenon, InvStep
<1> QED
  BY <1>1, <1>2, PTL DEF Spec

=============================================================================
