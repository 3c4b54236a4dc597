-------------------------------- MODULE Pipe --------------------------------
(***************************************************************************)
(* A pipe (pipe.c) and the references to its two ends: the descriptors of  *)
(* the processes, the counts of the two struct files (file.c), the threads *)
(* that read, write and close at the same time, fork and kill.             *)
(*                                                                         *)
(* A section under p->lock, from acquire or from the return of sleep to    *)
(* the next sleep or release, is one action; so is one under ftable.lock.  *)
(* The threads of a process share its descriptors, and a call uses the     *)
(* struct file it fetched with argfd without taking a reference.           *)
(***************************************************************************)
EXTENDS Integers, Sequences, FiniteSets, FiniteSetsExt

CONSTANTS
  Process, Thread, ProcOf,
  Byte,
  PIPESIZE,   \* pipe.c
  UINT,       \* 2^w, the values of the uint counters nread and nwrite
  ReadCounts, WriteCounts   \* the n of the reads and of the writes

ASSUME PipeAssumption ==
  /\ IsFiniteSet(Process) /\ ProcOf \in [Thread -> Process]
  /\ PIPESIZE \in Nat \ {0} /\ UINT \in Nat /\ ReadCounts \union WriteCounts \subseteq Nat \ {0}
  /\ UINT > PIPESIZE /\ UINT % PIPESIZE = 0

End == {"read", "write"}
Index == 0 .. PIPESIZE - 1

VARIABLES
  live,       \* the page of the pipe is allocated
  data, nread, nwrite,
  open,       \* the ends with readopen, writeopen set
  ref,        \* ref of the struct file of each end
  ofile,      \* the ends each process has a descriptor of
  killed,     \* the killed processes
  pc,         \* where each thread is: <<step, end>>
  count,      \* n of a read, n - i of a write
  flight,     \* history: the bytes written and not yet read, oldest first
  gaveUp      \* history: a killed writer gave up, and no wakeup since

pipe == <<live, data, nread, nwrite, open, flight>>
files == <<ref, ofile>>
vars == <<pipe, files, killed, pc, count, gaveUp>>

Out == <<"out", "none">>
PC == {Out} \union ({"call", "sleep", "fileclose", "pipeclose"} \X End)

TypeOK ==
  /\ live \in BOOLEAN
  /\ data \in [Index -> Byte]
  /\ nread \in 0 .. UINT - 1 /\ nwrite \in 0 .. UINT - 1
  /\ open \subseteq End
  /\ ref \in [End -> 0 .. 2 * Cardinality(Process)]
  /\ ofile \in [Process -> SUBSET End]
  /\ killed \subseteq Process
  /\ pc \in [Thread -> PC]
  /\ count \in [Thread -> Nat]
  /\ flight \in Seq(Byte)
  /\ gaveUp \in BOOLEAN

Init ==
  /\ live = FALSE
  /\ data \in [Index -> Byte]
  /\ nread = 0 /\ nwrite = 0
  /\ open = {}
  /\ ref = [e \in End |-> 0]
  /\ ofile = [p \in Process |-> {}]
  /\ killed = {}
  /\ pc = [t \in Thread |-> Out]
  /\ count = [t \in Thread |-> 0]
  /\ flight = <<>>
  /\ gaveUp = FALSE

-----------------------------------------------------------------------------
(* The counters, in the arithmetic of uint. *)
Used == (nwrite - nread) % UINT
Full == nwrite = (nread + PIPESIZE) % UINT
Empty == nread = nwrite
Cell(n) == (n % UINT) % PIPESIZE
Content == [i \in 1 .. Used |-> data[Cell(nread + i - 1)]]

(* wakeup of the channel &p->nread or &p->nwrite; a woken thread takes     *)
(* p->lock again and continues at the test of its loop.                    *)
Wakeup(f, e) ==
  [t \in Thread |-> IF f[t] = <<"sleep", e>> THEN <<"call", e>> ELSE f[t]]

Go(t, step, e) == [pc EXCEPT ![t] = IF step = "out" THEN Out ELSE <<step, e>>]

-----------------------------------------------------------------------------
(* pipealloc and sys_pipe: two struct files and the page.  It has no       *)
(* effect when one of the three cannot be had.                             *)
PipeAlloc(t) ==
  /\ ~live /\ \A u \in Thread : pc[u] = Out
  /\ ofile[ProcOf[t]] = {} /\ ProcOf[t] \notin killed
  /\ live' = TRUE
  /\ open' = End
  /\ nread' = 0 /\ nwrite' = 0
  /\ ref' = [e \in End |-> 1]
  /\ ofile' = [ofile EXCEPT ![ProcOf[t]] = End]
  /\ flight' = <<>>
  /\ gaveUp' = FALSE
  /\ UNCHANGED <<data, killed, pc, count>>

(* fork: the child q, a process slot that was free, gets the descriptors   *)
(* of its parent, each with filedup.                                       *)
Fork(t, q) ==
  /\ pc[t] = Out /\ ProcOf[t] \notin killed
  /\ q # ProcOf[t] /\ ofile[q] = {}
  /\ \A u \in Thread : ProcOf[u] = q => pc[u] = Out
  /\ ofile[ProcOf[t]] # {}
  /\ ofile' = [ofile EXCEPT ![q] = ofile[ProcOf[t]]]
  /\ ref' = [e \in End |-> IF e \in ofile[ProcOf[t]] THEN ref[e] + 1 ELSE ref[e]]
  /\ killed' = killed \ {q}
  /\ UNCHANGED <<pipe, pc, count, gaveUp>>

(* kill sets the flag and wakes nobody. *)
Kill(q) ==
  /\ ofile[q] # {}
  /\ killed' = killed \union {q}
  /\ UNCHANGED <<pipe, files, pc, count, gaveUp>>

(* sys_read, sys_write: argfd, fileread, filewrite up to the lock. *)
Call(t, e) ==
  /\ pc[t] = Out /\ ProcOf[t] \notin killed
  /\ e \in ofile[ProcOf[t]]
  /\ \E n \in (IF e = "read" THEN ReadCounts ELSE WriteCounts) :
        count' = [count EXCEPT ![t] = n]
  /\ pc' = Go(t, "call", e)
  /\ UNCHANGED <<pipe, files, killed, gaveUp>>

StoreFault(s, n) ==
  /\ data' = [j \in Index |->
               LET at == {i \in 1 .. n : Cell(nwrite + i) = j}
               IN IF at = {} THEN data[j] ELSE s[Max(at)]]
  /\ nwrite' = (nwrite + n) % UINT
  /\ flight' = flight \o s

(* The loop of pipewrite stores one byte after the other while there is    *)
(* room; n bytes fit here.  The caller's bytes are any bytes.              *)
Store(s, n) ==
  /\ data' = [j \in Index |->
               LET at == {i \in 1 .. n : Cell(nwrite + i - 1) = j}
               IN IF at = {} THEN data[j] ELSE s[Max(at)]]
  /\ nwrite' = (nwrite + n) % UINT
  /\ flight' = flight \o s

(* pipewrite, up to its return or its sleep: it stores until the pipe is   *)
(* full.  A writer that gives up (-1) does not wake the readers.           *)
PipeWrite(t) ==
  LET n == Min({count[t], PIPESIZE - Used})
      done == n = count[t]
      giveUp == ~done /\ ("read" \notin open \/ ProcOf[t] \in killed)
  IN /\ pc[t] = <<"call", "write">>
     /\ \E s \in [1 .. n -> Byte] : Store(s, n)
     /\ count' = [count EXCEPT ![t] = IF giveUp THEN 0 ELSE @ - n]
     /\ pc' = IF done THEN Wakeup(Go(t, "out", "write"), "read")
              ELSE IF giveUp THEN Go(t, "out", "write")
              ELSE Wakeup(Go(t, "sleep", "write"), "read")
     /\ gaveUp' = giveUp
     /\ UNCHANGED <<live, nread, open, files, killed>>

(* piperead: the pipe is empty and a writer is left. *)
PipeReadSleep(t) ==
  /\ pc[t] = <<"call", "read">>
  /\ Empty /\ "write" \in open
  /\ pc' = IF ProcOf[t] \in killed THEN Go(t, "out", "read") ELSE Go(t, "sleep", "read")
  /\ count' = [count EXCEPT ![t] = IF ProcOf[t] \in killed THEN 0 ELSE count[t]]
  /\ UNCHANGED <<pipe, files, killed, gaveUp>>

PipeReadSilent(t) ==
  LET n == Min({count[t], Used})
  IN /\ pc[t] = <<"call", "read">>
     /\ ~(Empty /\ "write" \in open)
     /\ nread' = (nread + n) % UINT
     /\ flight' = SubSeq(flight, n + 1, Len(flight))
     /\ count' = [count EXCEPT ![t] = 0]
     /\ pc' = Go(t, "out", "read")
     /\ UNCHANGED <<live, data, nwrite, open, files, killed, gaveUp>>

PipeReadNoWait(t) ==
  LET n == Min({count[t], Used})
  IN /\ pc[t] = <<"call", "read">>
     /\ nread' = (nread + n) % UINT
     /\ flight' = SubSeq(flight, n + 1, Len(flight))
     /\ count' = [count EXCEPT ![t] = 0]
     /\ pc' = Wakeup(Go(t, "out", "read"), "write")
     /\ UNCHANGED <<live, data, nwrite, open, files, killed, gaveUp>>

(* piperead, the copy: at most n bytes, and none at the end of the file. *)
PipeRead(t) ==
  LET n == Min({count[t], Used})
  IN /\ pc[t] = <<"call", "read">>
     /\ ~(Empty /\ "write" \in open)
     /\ nread' = (nread + n) % UINT
     /\ flight' = SubSeq(flight, n + 1, Len(flight))
     /\ count' = [count EXCEPT ![t] = 0]
     /\ pc' = Wakeup(Go(t, "out", "read"), "write")
     /\ UNCHANGED <<live, data, nwrite, open, files, killed, gaveUp>>

-----------------------------------------------------------------------------
(* sys_close (and exit): argfd fetches the file. *)
Close(t, e) ==
  /\ pc[t] = Out /\ e \in ofile[ProcOf[t]]
  /\ pc' = Go(t, "fileclose", e)
  /\ UNCHANGED <<pipe, files, killed, count, gaveUp>>

(* sys_close clears the descriptor, fileclose drops the reference.  With   *)
(* no reference left it panics: the step is not enabled.                   *)
FileClose(t, e) ==
  /\ pc[t] = <<"fileclose", e>>
  /\ ref[e] >= 1
  /\ ofile' = [ofile EXCEPT ![ProcOf[t]] = @ \ {e}]
  /\ ref' = [ref EXCEPT ![e] = @ - 1]
  /\ pc' = IF ref[e] = 1 THEN Go(t, "pipeclose", e) ELSE Go(t, "out", e)
  /\ UNCHANGED <<pipe, killed, count, gaveUp>>

Other(e) == IF e = "read" THEN "write" ELSE "read"

PipeCloseEarly(t, e) ==
  /\ pc[t] = <<"pipeclose", e>>
  /\ open' = open \ {e}
  /\ live' = FALSE
  /\ pc' = Wakeup(Go(t, "out", e), Other(e))
  /\ UNCHANGED <<data, nread, nwrite, flight, files, killed, count, gaveUp>>

(* pipeclose: the last of the two ends frees the page. *)
PipeClose(t, e) ==
  /\ pc[t] = <<"pipeclose", e>>
  /\ open' = open \ {e}
  /\ live' = (open' # {})
  /\ pc' = Wakeup(Go(t, "out", e), Other(e))
  /\ UNCHANGED <<data, nread, nwrite, flight, files, killed, count, gaveUp>>

Next ==
  \/ \E t \in Thread : PipeAlloc(t)
  \/ \E t \in Thread, q \in Process : Fork(t, q)
  \/ \E q \in Process : Kill(q)
  \/ \E t \in Thread, e \in End : Call(t, e)
  \/ \E t \in Thread : PipeWrite(t)
  \/ \E t \in Thread : PipeReadSleep(t)
  \/ \E t \in Thread : PipeRead(t)
  \/ \E t \in Thread, e \in End : Close(t, e)
  \/ \E t \in Thread, e \in End : FileClose(t, e)
  \/ \E t \in Thread, e \in End : PipeClose(t, e)

Spec == Init /\ [][Next]_vars

-----------------------------------------------------------------------------
(* The bytes between nread and nwrite are the ones written and not yet     *)
(* read, in the order they were written, whatever the counters wrapped to: *)
(* no byte is lost, duplicated, overwritten or reordered.                  *)
InOrder == live => Content = flight

(* A thread sleeps in piperead only while the pipe is empty and in         *)
(* pipewrite only while it is full, and the other end is open.  One case   *)
(* of the code is let through: a killed writer that fills the pipe gives   *)
(* up without the wakeup of the readers, who sleep on until the next one.  *)
SleepsForAReason ==
  \A t \in Thread :
    /\ pc[t] = <<"sleep", "read">> =>
         "write" \in open /\ (Empty \/ gaveUp)
    /\ pc[t] = <<"sleep", "write">> => "read" \in open /\ Full

(* While a thread is in piperead, pipewrite or pipeclose the page of the   *)
(* pipe has not been freed.                                                *)
PageInUse ==
  (\E t \in Thread : pc[t][1] \in {"call", "sleep", "pipeclose"}) => live

(* Once the last descriptors of both ends are closed, and the pipeclose of *)
(* each is over, the page has been freed: the two closes do not leave it   *)
(* to each other.                                                          *)
PageFreed ==
  /\ \A e \in End : ref[e] = 0
  /\ \A t \in Thread : pc[t] = Out
  => ~live

(* A read that copies nothing, of a process not killed, has met the end of *)
(* the file: the write end is closed and every byte has been read.  A      *)
(* reader woken after another reader took the bytes sleeps again.          *)
EndOfFile ==
  [][\A t \in Thread :
       /\ pc[t] = <<"call", "read">> /\ pc'[t] = Out
       /\ flight' = flight /\ ProcOf[t] \notin killed
       => "write" \notin open /\ flight = <<>>]_vars

(* pipealloc, pipeclose and fileclose free the page of the pipe once, with *)
(* the last use of it, and not before.                                     *)
PageLifetime == TypeOK /\ PageInUse /\ PageFreed

=============================================================================
