---------------------------- MODULE BufferCache ----------------------------
(***************************************************************************)
(* The buffer cache (bio.c), its sleep-locks (sleeplock.c) and the disk    *)
(* driver below it (ide.c), with threads that read, change and write       *)
(* blocks and the drive that answers by interrupts.                        *)
(*                                                                         *)
(* A section under bcache.lock, under the lk of a sleep-lock or under      *)
(* idelock is one action.  A panic is a step that is not enabled.          *)
(***************************************************************************)
EXTENDS Threads, Sequences, SequencesExt, FiniteSetsExt

CONSTANTS
  BlockUser,  \* the threads that read and write blocks
  NBUF,       \* param.h
  Block,      \* block numbers; 0 is the blockno of a buffer never used
  Value       \* contents of a block

ASSUME CacheAssumption ==
  BlockUser \subseteq Thread /\ NBUF \in Nat \ {0} /\ Block \subseteq Nat \ {0}

Buf == 1 .. NBUF
NoBuf == 0

VARIABLES
  buf,        \* blockno, valid, dirty, refcnt and data of each buffer
  sleeplock,  \* locked and pid of the sleep-lock of each buffer
  lru,        \* the list of bcache.head, most recently used first
  idequeue,
  drive,      \* what the controller was told to do, or Idle
  platter,    \* the contents of the disk
  step,       \* where each thread is
  using,      \* the buffer it was given by bget
  latest,     \* history: the last contents a thread gave each block
  failed      \* history: the buffers whose last read failed

history == <<latest, failed>>
disk == <<idequeue, drive, platter>>
cacheVars == <<buf, sleeplock, lru, disk, step, using, history>>

Idle == [block |-> 0, write |-> FALSE, data |-> CHOOSE v \in Value : TRUE]
Unlocked == [locked |-> FALSE, pid |-> 0]

(* Every buffer is in the list once, and no count exceeds the threads. *)
CacheTypeOK ==
  /\ buf \in [Buf -> [blockno : Block \union {0}, valid : BOOLEAN, dirty : BOOLEAN,
                      refcnt : 0 .. Cardinality(BlockUser), data : Value]]
  /\ sleeplock \in [Buf -> [locked : BOOLEAN, pid : Process \union {0}]]
  /\ Len(lru) = Cardinality(Buf) /\ ToSet(lru) = Buf
  /\ idequeue \in Seq(Buf) /\ IsInjective(idequeue)
  /\ drive \in [block : Block \union {0}, write : BOOLEAN, data : Value]
  /\ platter \in [Block -> Value] /\ latest \in [Block -> Value]
  /\ step \in [BlockUser -> {"out", "lock", "locksleep", "rw", "iosleep", "iowoken", "use", "unref"}]
  /\ using \in [BlockUser -> Buf \union {NoBuf}]
  /\ failed \subseteq Buf

(* binit and ideinit *)
CacheInit ==
  /\ \E v \in Value :
        buf = [b \in Buf |-> [blockno |-> 0, valid |-> FALSE, dirty |-> FALSE, refcnt |-> 0, data |-> v]]
  /\ sleeplock = [b \in Buf |-> Unlocked]
  /\ lru = [i \in Buf |-> NBUF + 1 - i]
  /\ idequeue = <<>> /\ drive = Idle
  /\ platter \in [Block -> Value] /\ latest = platter
  /\ step = [t \in BlockUser |-> "out"]
  /\ using = [t \in BlockUser |-> NoBuf]
  /\ failed = {}

-----------------------------------------------------------------------------
CachedAt(blk) == {b \in Buf : buf[b].blockno = blk}

RecyclableFault == {b \in Buf : buf[b].refcnt = 0}

(* A dirty buffer is in use: log.c has changed it and not yet written it. *)
Recyclable == {b \in Buf : buf[b].refcnt = 0 /\ ~buf[b].dirty}

FirstOf(S) == lru[Min({i \in DOMAIN lru : lru[i] \in S})]
LastOf(S) == lru[Max({i \in DOMAIN lru : lru[i] \in S})]

Referenced(b) == [buf EXCEPT ![b].refcnt = @ + 1]

Recycled(b, blk) ==
  [buf EXCEPT ![b].blockno = blk, ![b].valid = FALSE, ![b].dirty = FALSE, ![b].refcnt = 1]

(* bget under bcache.lock: the cached buffer, or the least recently used   *)
(* one that can be recycled.  With none the kernel panics.                 *)
Bget(t, blk) ==
  /\ step[t] = "out"
  /\ \/ /\ CachedAt(blk) # {}
        /\ LET b == FirstOf(CachedAt(blk))
           IN /\ buf' = Referenced(b)
              /\ using' = [using EXCEPT ![t] = b]
     \/ /\ CachedAt(blk) = {} /\ Recyclable # {}
        /\ LET b == LastOf(Recyclable)
           IN /\ buf' = Recycled(b, blk)
              /\ using' = [using EXCEPT ![t] = b]
  /\ step' = [step EXCEPT ![t] = "lock"]
  /\ UNCHANGED <<sleeplock, lru, disk, history>>

MaySleepLockFault(t) == step[t] = "lock"

(* The test of the loop of acquiresleep, which a woken thread repeats. *)
MaySleepLock(t) == step[t] = "lock" /\ ~sleeplock[using[t]].locked

(* acquiresleep, and the test of B_VALID in bread *)
AcquireSleep(t) ==
  LET b == using[t]
  IN /\ MaySleepLock(t)
     /\ sleeplock' = [sleeplock EXCEPT ![b] = [locked |-> TRUE, pid |-> ProcOf[t]]]
     /\ step' = [step EXCEPT ![t] = IF buf[b].valid THEN "use" ELSE "rw"]
     /\ UNCHANGED <<buf, lru, disk, using, history>>

AcquireSleepWait(t) ==
  /\ step[t] = "lock" /\ sleeplock[using[t]].locked
  /\ step' = [step EXCEPT ![t] = "locksleep"]
  /\ UNCHANGED <<buf, sleeplock, lru, disk, using, history>>

(* holdingsleep compares pids, so that every thread of the process passes. *)
HoldingSleep(t, b) == sleeplock[b].locked /\ sleeplock[b].pid = ProcOf[t]

(* idestart: a write is given its data now, a read gets it at the end. *)
Idestart(b) ==
  [block |-> buf[b].blockno, write |-> buf[b].dirty,
   data |-> IF buf[b].dirty THEN buf[b].data ELSE Idle.data]

(* iderw up to its sleep: the buffer cannot be in order already. *)
Iderw(t) ==
  LET b == using[t]
  IN /\ step[t] = "rw" /\ HoldingSleep(t, b)
     /\ ~(buf[b].valid /\ ~buf[b].dirty)
     /\ idequeue' = Append(idequeue, b)
     /\ drive' = IF idequeue = <<>> THEN Idestart(b) ELSE drive
     /\ step' = [step EXCEPT ![t] = "iosleep"]
     /\ UNCHANGED <<buf, sleeplock, lru, platter, using, history>>

WokenFault(b, from, to) == [t \in BlockUser |-> step[t]]

(* wakeup of the threads asleep in iderw or in acquiresleep on b *)
Woken(b, from, to) ==
  [t \in BlockUser |-> IF step[t] = from /\ using[t] = b THEN to ELSE step[t]]

(* The drive finishes the request and interrupts: ideintr.  A read that    *)
(* fails leaves the data as it was, and the buffer is marked valid.        *)
Ideintr ==
  LET b == Head(idequeue)
      rest == Tail(idequeue)
  IN /\ idequeue # <<>>
     /\ idequeue' = rest
     /\ platter' = IF drive.write THEN [platter EXCEPT ![drive.block] = drive.data] ELSE platter
     /\ \E ok \in BOOLEAN :
          /\ buf' = [buf EXCEPT ![b].valid = TRUE, ![b].dirty = FALSE,
                                ![b].data = IF buf[b].dirty \/ ~ok THEN @ ELSE platter[drive.block]]
          /\ failed' = IF buf[b].dirty \/ ok THEN failed \ {b} ELSE failed \union {b}
     /\ step' = Woken(b, "iosleep", "iowoken")
     /\ drive' = IF rest = <<>> THEN Idle ELSE Idestart(Head(rest))
     /\ UNCHANGED <<sleeplock, lru, using, latest>>

(* The test of iderw's loop after the wakeup, and the return to the user. *)
IderwReturn(t) ==
  LET b == using[t]
  IN /\ step[t] = "iowoken"
     /\ step' = [step EXCEPT ![t] = IF buf[b].valid /\ ~buf[b].dirty THEN "use" ELSE "iosleep"]
     /\ UNCHANGED <<buf, sleeplock, lru, disk, using, history>>

(* The holder changes the data and calls bwrite, or log_write, which       *)
(* marks the buffer dirty and leaves the writing to the commit.            *)
Change(t, v, next) ==
  LET b == using[t]
  IN /\ step[t] = "use" /\ HoldingSleep(t, b)
     /\ buf' = [buf EXCEPT ![b].data = v, ![b].dirty = TRUE]
     /\ latest' = [latest EXCEPT ![buf[b].blockno] = v]
     /\ failed' = failed \ {b}
     /\ step' = [step EXCEPT ![t] = next]
     /\ UNCHANGED <<sleeplock, lru, disk, using>>

Bwrite(t, v) == Change(t, v, "rw")
LogWrite(t, v) == Change(t, v, "use")

(* brelse: releasesleep wakes every thread that waits for the lock. *)
Brelse(t) ==
  LET b == using[t]
  IN /\ step[t] = "use" /\ HoldingSleep(t, b)
     /\ sleeplock' = [sleeplock EXCEPT ![b] = Unlocked]
     /\ step' = [Woken(b, "locksleep", "lock") EXCEPT ![t] = "unref"]
     /\ UNCHANGED <<buf, lru, disk, using, history>>

MoveToFront(b) == <<b>> \o SelectSeq(lru, LAMBDA c : c # b)

(* brelse under bcache.lock *)
BrelseUnref(t) ==
  LET b == using[t]
  IN /\ step[t] = "unref"
     /\ buf' = [buf EXCEPT ![b].refcnt = @ - 1]
     /\ lru' = IF buf[b].refcnt = 1 THEN MoveToFront(b) ELSE lru
     /\ using' = [using EXCEPT ![t] = NoBuf]
     /\ step' = [step EXCEPT ![t] = "out"]
     /\ UNCHANGED <<sleeplock, disk, history>>

CacheNext ==
  \/ \E t \in BlockUser, blk \in Block : Bget(t, blk)
  \/ \E t \in BlockUser : AcquireSleep(t)
  \/ \E t \in BlockUser : AcquireSleepWait(t)
  \/ \E t \in BlockUser : Iderw(t)
  \/ Ideintr
  \/ \E t \in BlockUser : IderwReturn(t)
  \/ \E t \in BlockUser, v \in Value : Bwrite(t, v)
  \/ \E t \in BlockUser, v \in Value : LogWrite(t, v)
  \/ \E t \in BlockUser : Brelse(t)
  \/ \E t \in BlockUser : BrelseUnref(t)

-----------------------------------------------------------------------------
Holding(t) == step[t] \in {"rw", "iosleep", "iowoken", "use"}

(* Two threads never use one buffer at a time, not even threads of one     *)
(* process, which holdingsleep cannot tell apart; and two buffers never    *)
(* hold the same block.                                                    *)
OneUser ==
  /\ \A t, u \in BlockUser : t # u /\ Holding(t) /\ Holding(u) => using[t] # using[u]
  /\ \A b, c \in Buf : b # c /\ buf[b].blockno # 0 => buf[b].blockno # buf[c].blockno

(* bread returns the contents the last user gave the block, whoever that   *)
(* was and however often the buffer has been recycled since; only a read   *)
(* that failed returns something else.                                     *)
ReadsLatest ==
  \A t \in BlockUser :
    step[t] = "use" /\ using[t] \notin failed =>
      LET b == using[t] IN buf[b].valid /\ buf[b].data = latest[buf[b].blockno]

(* The last contents of a block are on the disk or in its dirty buffer:    *)
(* recycling never loses what log_write left in the cache.                 *)
NothingLost ==
  \A blk \in Block :
    platter[blk] = latest[blk] \/ \E b \in CachedAt(blk) : buf[b].dirty /\ buf[b].data = latest[blk]

(* A buffer is recycled, and moved in the list, only when nobody counts on *)
(* it: refcnt is the number of threads between bget and the end of brelse. *)
RefcntExact ==
  \A b \in Buf : buf[b].refcnt = Cardinality({t \in BlockUser : using[t] = b})

(* The drive works on the head of the queue and on nothing else; whoever   *)
(* sleeps in iderw has its buffer in the queue, whoever sleeps in          *)
(* acquiresleep waits for a lock that is held: no interrupt and no release *)
(* can fall between the test and the sleep.                                *)
SleepersServed ==
  /\ drive.block = IF idequeue = <<>> THEN 0 ELSE buf[Head(idequeue)].blockno
  /\ \A t \in BlockUser :
       /\ step[t] = "iosleep" => using[t] \in ToSet(idequeue)
       /\ step[t] = "locksleep" => sleeplock[using[t]].locked

(* bget gives a buffer to one thread at a time, and keeps it for that      *)
(* thread and those that wait for it until brelse.                         *)
BuffersOwned == CacheTypeOK /\ OneUser /\ RefcntExact

(* What bwrite or log_write was given for a block is what bread returns    *)
(* for it, from the cache or from the disk.                                *)
ContentsKept == ReadsLatest /\ NothingLost

=============================================================================
