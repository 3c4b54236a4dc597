----------------------------- MODULE AtomicDisk -----------------------------
(***************************************************************************)
(* What the log promises to the file system calls: their writes become     *)
(* durable all together, at a moment when no call is in progress, and a    *)
(* crash takes the disk back to the last such moment.                      *)
(***************************************************************************)
CONSTANTS Proc, Block, Value, Zero

VARIABLES
  memory,    \* what a read of a block returns
  durable,   \* what a read would return after a crash
  active     \* the processes between begin_op and end_op

vars == <<memory, durable, active>>

Init ==
  /\ durable = [b \in Block |-> Zero]
  /\ memory = durable
  /\ active = {}

BeginOp(p) ==
  /\ p \notin active
  /\ active' = active \union {p}
  /\ UNCHANGED <<memory, durable>>

Write(p, b, v) ==
  /\ p \in active
  /\ memory' = [memory EXCEPT ![b] = v]
  /\ UNCHANGED <<durable, active>>

EndOp(p) ==
  /\ p \in active
  /\ active' = active \ {p}
  /\ UNCHANGED <<memory, durable>>

Commit ==
  /\ active = {}
  /\ durable' = memory
  /\ UNCHANGED <<memory, active>>

Crash ==
  /\ memory' = durable
  /\ active' = {}
  /\ UNCHANGED durable

Next ==
  \/ \E p \in Proc : BeginOp(p) \/ EndOp(p)
  \/ \E p \in Proc, b \in Block, v \in Value : Write(p, b, v)
  \/ Commit
  \/ Crash

Spec == Init /\ [][Next]_vars

=============================================================================
