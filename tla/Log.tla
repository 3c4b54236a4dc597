-------------------------------- MODULE Log ---------------------------------
(***************************************************************************)
(* The redo log of the file system (log.c) over the buffer cache and the   *)
(* disk: begin_op, log_write and end_op, the commit step by step, crashes  *)
(* at any step, and the recovery at boot, itself interrupted by crashes.   *)
(*                                                                         *)
(* A section under log.lock is one action; the commit and the recovery run *)
(* without it, and each of their disk writes is an action.  A block is     *)
(* written to the disk entirely or not at all.                             *)
(***************************************************************************)
EXTENDS Integers, Sequences, FiniteSets

CONSTANTS
  Proc, Block, NoBlock, Value, Zero,
  MAXOPBLOCKS,   \* param.h
  LOGSIZE,       \* param.h
  nlog           \* sb.nlog: the blocks of the log on disk, header included

ASSUME LogAssumption ==
  /\ Zero \in Value /\ NoBlock \notin Block
  /\ MAXOPBLOCKS \in Nat \ {0}
  /\ LOGSIZE \in Nat /\ LOGSIZE >= MAXOPBLOCKS
  /\ nlog \in Nat

Tail0 == 1 .. LOGSIZE

VARIABLES
  disk,      \* the home blocks
  head,      \* lh.block[0..n-1] of the header block on disk
  body,      \* the log blocks on disk
  data,      \* the buffer of each home block; a block not in the cache
             \* has here what a read would bring
  dirty,     \* the buffers with B_DIRTY
  lh,        \* log.lh: the logged block numbers
  outstanding, committing,
  pc,        \* where each process is
  blk,       \* the buffer a process has locked in log_write
  wrote,     \* history: the blocks its call has logged
  tail,      \* the loop variable of write_log and install_trans
  boot       \* the recovery: "read", "install", "clear", then "up" or "panic"

ondisk == <<disk, head, body>>
vars == <<ondisk, data, dirty, lh, outstanding, committing, pc, blk, wrote, tail, boot>>

PC == {"out", "wait", "op", "log", "write_log", "write_head", "install", "clear", "end"}

TypeOK ==
  /\ disk \in [Block -> Value] /\ data \in [Block -> Value]
  /\ head \in Seq(Block) /\ lh \in Seq(Block)
  /\ body \in [Tail0 -> Value]
  /\ dirty \subseteq Block
  /\ outstanding \in Nat
  /\ committing \in {0, 1}
  /\ pc \in [Proc -> PC]
  /\ blk \in [Proc -> Block \union {NoBlock}]
  /\ wrote \in [Proc -> SUBSET Block]
  /\ tail \in Nat
  /\ boot \in {"read", "install", "clear", "up", "panic"}

Volatile ==
  /\ dirty' = {}
  /\ lh' = <<>>
  /\ outstanding' = 0 /\ committing' = 0
  /\ pc' = [p \in Proc |-> "out"]
  /\ blk' = [p \in Proc |-> NoBlock]
  /\ wrote' = [p \in Proc |-> {}]
  /\ tail' = 1
  /\ boot' = "read"

\* A disk made by mkfs, and the memory of a machine that boots.
Init ==
  /\ disk = [b \in Block |-> Zero] /\ data = disk
  /\ head = <<>> /\ body = [i \in Tail0 |-> Zero]
  /\ dirty = {} /\ lh = <<>>
  /\ outstanding = 0 /\ committing = 0
  /\ pc = [p \in Proc |-> "out"]
  /\ blk = [p \in Proc |-> NoBlock]
  /\ wrote = [p \in Proc |-> {}]
  /\ tail = 1
  /\ boot = "read"

\* Block b is one of the blocks of a log header.
Contains(s, b) == \E i \in 1 .. Len(s) : s[i] = b

Goto(p, label) == pc' = [pc EXCEPT ![p] = label]

-----------------------------------------------------------------------------
(* begin_op, log_write *)

\* Fault: the space of the call that begins is not counted.
MustWaitFault == committing = 1 \/ Len(lh) + outstanding * MAXOPBLOCKS > LOGSIZE

MustWait == committing = 1 \/ Len(lh) + (outstanding + 1) * MAXOPBLOCKS > LOGSIZE

\* begin_op, from the call or from a wakeup, to its end or to the next sleep.
BeginOp(p) ==
  /\ boot = "up"
  /\ pc[p] = "out"
  /\ \/ /\ MustWait
        /\ Goto(p, "wait")
        /\ UNCHANGED <<outstanding, wrote>>
     \/ /\ ~ MustWait
        /\ outstanding' = outstanding + 1
        /\ wrote' = [wrote EXCEPT ![p] = {}]
        /\ Goto(p, "op")
  /\ UNCHANGED <<ondisk, data, dirty, lh, committing, tail, boot, blk>>

\* wakeup(&log): the sleepers go back to the test in begin_op.
Woken(pcs) == [p \in Proc |-> IF pcs[p] = "wait" THEN "out" ELSE pcs[p]]

\* A call changes the data of a buffer it has locked, and log_write tests for
\* space without log.lock.  No call logs more than MAXOPBLOCKS different blocks.
LogCheck(p, b, v) ==
  /\ boot = "up"
  /\ pc[p] = "op"
  /\ Cardinality(wrote[p] \union {b}) <= MAXOPBLOCKS
  /\ \A q \in Proc : pc[q] = "log" => blk[q] # b
  /\ data' = [data EXCEPT ![b] = v]
  /\ \/ /\ Len(lh) >= LOGSIZE \/ Len(lh) >= nlog - 1
        /\ boot' = "panic"
        /\ UNCHANGED <<pc, blk>>
     \/ /\ Len(lh) < LOGSIZE /\ Len(lh) < nlog - 1
        /\ Goto(p, "log")
        /\ blk' = [blk EXCEPT ![p] = b]
        /\ UNCHANGED boot
  /\ UNCHANGED <<ondisk, dirty, lh, outstanding, committing, wrote, tail>>

\* Fault: the buffer is not marked B_DIRTY and may be recycled.
LogWriteFault(p) ==
  /\ boot = "up"
  /\ pc[p] = "log"
  /\ lh' = IF Contains(lh, blk[p]) THEN lh ELSE Append(lh, blk[p])
  /\ wrote' = [wrote EXCEPT ![p] = @ \union {blk[p]}]
  /\ Goto(p, "op")
  /\ blk' = [blk EXCEPT ![p] = NoBlock]
  /\ UNCHANGED <<ondisk, data, dirty, outstanding, committing, tail, boot>>

\* The section of log_write under log.lock.
LogWrite(p) ==
  /\ boot = "up"
  /\ pc[p] = "log"
  /\ lh' = IF Contains(lh, blk[p]) THEN lh ELSE Append(lh, blk[p])
  /\ dirty' = dirty \union {blk[p]}
  /\ wrote' = [wrote EXCEPT ![p] = @ \union {blk[p]}]
  /\ Goto(p, "op")
  /\ blk' = [blk EXCEPT ![p] = NoBlock]
  /\ UNCHANGED <<ondisk, data, outstanding, committing, tail, boot>>

\* The buffer cache gives the buffer of a clean block to another block; the
\* next read brings the block from disk.
Recycle(b) ==
  /\ boot = "up"
  /\ b \notin dirty
  /\ \A q \in Proc : blk[q] # b
  /\ data' = [data EXCEPT ![b] = disk[b]]
  /\ UNCHANGED <<ondisk, dirty, lh, outstanding, committing, pc, wrote, tail, boot, blk>>

-----------------------------------------------------------------------------
(* end_op and commit *)

\* Fault: the processes that wait for log space are not woken.
EndOpSilent(p) ==
  /\ boot = "up"
  /\ pc[p] = "op"
  /\ outstanding' = outstanding - 1
  /\ committing' = IF outstanding = 1 THEN 1 ELSE 0
  /\ Goto(p, IF outstanding # 1 THEN "out" ELSE IF lh = <<>> THEN "end" ELSE "write_log")
  /\ wrote' = [wrote EXCEPT ![p] = {}]
  /\ UNCHANGED <<ondisk, data, dirty, lh, tail, boot, blk>>

EndOp(p) ==
  /\ boot = "up"
  /\ pc[p] = "op"
  /\ outstanding' = outstanding - 1
  /\ \/ /\ committing = 1
        /\ boot' = "panic"
        /\ UNCHANGED <<committing, pc>>
     \/ /\ committing = 0 /\ outstanding' = 0
        /\ committing' = 1
        /\ Goto(p, IF lh = <<>> THEN "end" ELSE "write_log")
        /\ UNCHANGED boot
     \/ /\ committing = 0 /\ outstanding' # 0
        /\ pc' = Woken([pc EXCEPT ![p] = "out"])
        /\ UNCHANGED <<committing, boot>>
  /\ wrote' = [wrote EXCEPT ![p] = {}]
  /\ UNCHANGED <<ondisk, data, dirty, lh, tail, blk>>

\* One iteration of a loop over log.lh; then on to the label.
Iterate(p, label) ==
  IF tail = Len(lh) THEN tail' = 1 /\ Goto(p, label) ELSE tail' = tail + 1 /\ UNCHANGED pc

WriteLog(p) ==
  /\ boot = "up"
  /\ pc[p] = "write_log"
  /\ body' = [body EXCEPT ![tail] = data[lh[tail]]]
  /\ Iterate(p, "write_head")
  /\ UNCHANGED <<disk, head, data, dirty, lh, outstanding, committing, wrote, boot, blk>>

WriteHead(p) ==
  /\ boot = "up"
  /\ pc[p] = "write_head"
  /\ head' = lh
  /\ Goto(p, "install")
  /\ UNCHANGED <<disk, body, data, dirty, lh, outstanding, committing, wrote, tail, boot, blk>>

\* The body of install_trans: the log block is copied to the buffer of its
\* home block, and bwrite writes the buffer and clears B_DIRTY.
Install ==
  LET b == lh[tail]
  IN  /\ data' = [data EXCEPT ![b] = body[tail]]
      /\ disk' = [disk EXCEPT ![b] = body[tail]]
      /\ dirty' = dirty \ {b}

InstallTrans(p) ==
  /\ boot = "up"
  /\ pc[p] = "install"
  /\ Install
  /\ Iterate(p, "clear")
  /\ UNCHANGED <<head, body, lh, outstanding, committing, wrote, boot, blk>>

ClearHead(p) ==
  /\ boot = "up"
  /\ pc[p] = "clear"
  /\ lh' = <<>>
  /\ head' = <<>>
  /\ Goto(p, "end")
  /\ UNCHANGED <<disk, body, data, dirty, outstanding, committing, wrote, tail, boot, blk>>

EndCommit(p) ==
  /\ boot = "up"
  /\ pc[p] = "end"
  /\ committing' = 0
  /\ pc' = Woken([pc EXCEPT ![p] = "out"])
  /\ UNCHANGED <<ondisk, data, dirty, lh, outstanding, wrote, tail, boot, blk>>

-----------------------------------------------------------------------------
(* Crash, and recover_from_log at the next boot *)

Crash ==
  /\ Volatile
  /\ data' = disk
  /\ UNCHANGED ondisk

ReadHead ==
  /\ boot = "read"
  /\ lh' = head
  /\ boot' = IF head = <<>> THEN "clear" ELSE "install"
  /\ UNCHANGED <<ondisk, data, dirty, outstanding, committing, pc, wrote, tail, blk>>

RecoverInstall ==
  /\ boot = "install"
  /\ Install
  /\ IF tail = Len(lh) THEN tail' = 1 /\ boot' = "clear" ELSE tail' = tail + 1 /\ UNCHANGED boot
  /\ UNCHANGED <<head, body, lh, outstanding, committing, pc, wrote, blk>>

RecoverClear ==
  /\ boot = "clear"
  /\ lh' = <<>>
  /\ head' = <<>>
  /\ boot' = "up"
  /\ UNCHANGED <<disk, body, data, dirty, outstanding, committing, pc, wrote, tail, blk>>

-----------------------------------------------------------------------------

Commit(p) == WriteLog(p) \/ WriteHead(p) \/ InstallTrans(p) \/ ClearHead(p) \/ EndCommit(p)

Next ==
  \/ \E p \in Proc : BeginOp(p) \/ LogWrite(p) \/ EndOp(p) \/ Commit(p)
  \/ \E p \in Proc, b \in Block, v \in Value : LogCheck(p, b, v)
  \/ \E b \in Block : Recycle(b)
  \/ Crash \/ ReadHead \/ RecoverInstall \/ RecoverClear

Spec == Init /\ [][Next]_vars

-----------------------------------------------------------------------------
(* Properties *)

\* What the disk holds once the log on it is installed.
Recovered ==
  [b \in Block |-> IF Contains(head, b)
                   THEN body[CHOOSE i \in 1 .. Len(head) : head[i] = b]
                   ELSE disk[b]]

Abstract == INSTANCE AtomicDisk WITH
  memory <- IF boot \in {"up", "panic"} THEN data ELSE Recovered,
  durable <- Recovered,
  active <- {p \in Proc : pc[p] \in {"op", "log"}}

\* The log implements the atomic disk: whenever the machine crashes, in a
\* commit or in a recovery, the disk comes back with the writes of whole
\* system calls, all those up to the last commit and none after it.
AtomicOps == Abstract!Spec

\* end_op of the last system call returns with its writes on the disk ("Log
\* appends are synchronous").
SynchronousCommit ==
  boot = "up" /\ outstanding = 0 /\ committing = 0 => Recovered = data

\* No lost wakeup: a process asleep in begin_op could not go on.
BeginNotMissed == \A p \in Proc : pc[p] = "wait" => MustWait

\* The calls in progress, and the log blocks that begin_op has promised to them
\* and that they have not used yet: each is a call and a number above those it
\* wrote.
Active == {p \in Proc : pc[p] \in {"op", "log"}}
Promised == {s \in Active \X (1 .. MAXOPBLOCKS) : s[2] > Cardinality(wrote[s[1]])}

\* The log never has to hold more than LOGSIZE blocks: begin_op has reserved
\* the space of the log_writes that the calls in progress still make.
SpaceReserved == Cardinality(Promised) + Len(lh) <= LOGSIZE

\* begin_op, log_write and end_op keep their account: no call finds the log
\* full, and when the last one has returned its writes are on the disk.
LogSound == TypeOK /\ SynchronousCommit /\ SpaceReserved

=============================================================================
