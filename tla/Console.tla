------------------------------ MODULE Console ------------------------------
(***************************************************************************)
(* The console (console.c): the line editor fed by the keyboard and the    *)
(* serial line, the threads that read lines from it, and the cursor of the *)
(* screen.  A section under cons.lock is one action; consoleintr takes one *)
(* character per action, since each may come with an interrupt of its own. *)
(***************************************************************************)
EXTENDS Threads, Sequences, SequencesExt, FiniteSetsExt

CONSTANTS
  Reader,         \* the threads that read from the console
  INPUT_BUF,
  CUINT,          \* 2^w, the values of the uint indices r, w and e
  Letter,         \* the characters without a meaning of their own
  Wanted,         \* the n of the reads
  Row, Column     \* size of the screen, 25 and 80

ASSUME ConsoleAssumption ==
  /\ Reader \subseteq Thread /\ INPUT_BUF \in Nat \ {0} /\ CUINT > INPUT_BUF /\ CUINT % INPUT_BUF = 0
  /\ Row > 1 /\ Column > 0 /\ Wanted \subseteq Nat \ {0}

Control == {"newline", "return", "eof", "kill", "backspace", "nul", "procdump"}
Key == Letter \union Control
Stored == Letter \union {"newline", "eof"}
Ends == {"newline", "eof"}

VARIABLES
  ring, r, w, e,  \* struct input
  cursor,         \* the position kept in the registers of the CGA
  reader,         \* where each thread is, the n it asked for and what it has got
  killedReader,   \* the threads of killed processes
  committed, line \* history: what is to be read, and the line being edited

consoleVars == <<ring, r, w, e, cursor, reader, killedReader, committed, line>>

ConsoleTypeOK ==
  /\ ring \in [0 .. INPUT_BUF - 1 -> Stored]
  /\ r \in 0 .. CUINT - 1 /\ w \in 0 .. CUINT - 1 /\ e \in 0 .. CUINT - 1
  /\ cursor \in Nat
  /\ reader \in [Reader -> [at : {"out", "read", "sleep"}, n : Wanted \union {0}, got : Seq(Stored)]]
  /\ killedReader \subseteq Reader
  /\ committed \in Seq(Stored) /\ line \in Seq(Stored)

NoRead == [at |-> "out", n |-> 0, got |-> <<>>]

(* The indices start anywhere: they are never reset. *)
ConsoleInit ==
  /\ ring \in [0 .. INPUT_BUF - 1 -> {"eof"}]
  /\ r \in 0 .. CUINT - 1 /\ w = r /\ e = r
  /\ cursor \in 0 .. Row * Column - 1
  /\ reader = [t \in Reader |-> NoRead]
  /\ killedReader = {}
  /\ committed = <<>> /\ line = <<>>

-----------------------------------------------------------------------------
Scrolled(pos, c) == IF pos \div Column >= Row - 1 THEN pos - Column ELSE pos

(* cgaputc: where the cursor goes before a scroll, and after it. *)
Advanced(pos, c) ==
  CASE c = "newline" -> pos + (Column - (pos % Column))
    [] c = "backspace" -> IF pos > 0 THEN pos - 1 ELSE pos
    [] OTHER -> pos + 1
CgaPutc(pos, c) == Scrolled(Advanced(pos, c), c)

Echo(s) == cursor' = FoldLeft(CgaPutc, cursor, s)

Distance(from, to) == (to - from) % CUINT
Content(from, to) == [i \in 1 .. Distance(from, to) |-> ring[((from + i - 1) % CUINT) % INPUT_BUF]]

-----------------------------------------------------------------------------
(* wakeup(&input.r): the readers take the lock again and test r = w. *)
ReadersWoken ==
  [t \in Reader |-> IF reader[t].at = "sleep" THEN [reader[t] EXCEPT !.at = "read"] ELSE reader[t]]

(* consoleintr: kill line erases back to w, or to a newline after it. *)
KillLine ==
  LET s == Content(w, e)
      kept == Max({0} \union {i \in DOMAIN s : s[i] = "newline"})
  IN /\ e' = (w + kept) % CUINT /\ line' = <<>>
     /\ Echo([i \in 1 .. Len(s) - kept |-> "backspace"])
     /\ UNCHANGED <<ring, r, w, reader, killedReader, committed>>

ErasableFault == e # r
Erasable == e # w

Backspace ==
  /\ IF Erasable
       THEN e' = (e - 1) % CUINT /\ line' = (IF line = <<>> THEN line ELSE Front(line)) /\ Echo(<<"backspace">>)
       ELSE UNCHANGED <<e, line, cursor>>
  /\ UNCHANGED <<ring, r, w, reader, killedReader, committed>>

HasRoom == Distance(r, e) < INPUT_BUF

(* A line ends at a newline, at ^D and when the buffer is full. *)
EndsLine(c) == c \in Ends \/ (e + 1) % CUINT = (r + INPUT_BUF) % CUINT

Translated(c) == IF c = "return" THEN "newline" ELSE c

(* Any other character; ^P and a nul leave the buffer alone, and so does   *)
(* a character that does not fit.                                          *)
Store(c) ==
  LET d == Translated(c)
  IN /\ IF c \notin {"nul", "procdump"} /\ HasRoom
          THEN /\ ring' = [ring EXCEPT ![e % INPUT_BUF] = d]
               /\ e' = (e + 1) % CUINT
               /\ Echo(<<d>>)
               /\ IF EndsLine(d)
                    THEN /\ w' = e' /\ reader' = ReadersWoken
                         /\ committed' = committed \o Append(line, d) /\ line' = <<>>
                    ELSE /\ line' = Append(line, d)
                         /\ UNCHANGED <<w, reader, committed>>
          ELSE UNCHANGED <<ring, e, w, cursor, reader, committed, line>>
     /\ UNCHANGED <<r, killedReader>>

-----------------------------------------------------------------------------
ConsoleRead(t, n) ==
  /\ reader[t].at = "out" /\ t \notin killedReader
  /\ reader' = [reader EXCEPT ![t] = [at |-> "read", n |-> n, got |-> <<>>]]
  /\ UNCHANGED <<ring, r, w, e, cursor, killedReader, committed, line>>

Take(t, k, s, at) ==
  /\ r' = (r + k) % CUINT
  /\ committed' = SubSeq(committed, k + 1, Len(committed))
  /\ reader' = [reader EXCEPT ![t].got = @ \o s, ![t].at = at]
  /\ UNCHANGED <<ring, w, e, cursor, killedReader, line>>

(* The characters after which the read is over: a newline, ^D, the n-th. *)
StopsAt(t, s) ==
  {i \in DOMAIN s : s[i] \in Ends \/ i + Len(reader[t].got) = reader[t].n}

SavedEofFault(t, i) == FALSE

(* A ^D after other characters is left for the next read. *)
SavedEof(t, i) == i + Len(reader[t].got) > 1

(* The copying loop of consoleread up to its return ... *)
ReadReturns(t) ==
  LET s == Content(r, w)
  IN /\ reader[t].at = "read" /\ StopsAt(t, s) # {}
     /\ LET i == Min(StopsAt(t, s))
        IN IF s[i] = "eof"
             THEN Take(t, IF SavedEof(t, i) THEN i - 1 ELSE i, SubSeq(s, 1, i - 1), "out")
             ELSE Take(t, i, SubSeq(s, 1, i), "out")

(* ... or to its sleep, once all has been copied. *)
ReadSleeps(t) ==
  LET s == Content(r, w)
  IN /\ reader[t].at = "read" /\ StopsAt(t, s) = {}
     /\ Take(t, Len(s), s, IF t \in killedReader THEN "out" ELSE "sleep")

ConsoleWrite(s) ==
  /\ Echo(s)
  /\ UNCHANGED <<ring, r, w, e, reader, killedReader, committed, line>>

(* kill sets the flag of the process; a sleeper looks at it when woken. *)
KillReader(p) ==
  /\ killedReader' = killedReader \union {t \in Reader : ProcOf[t] = p}
  /\ UNCHANGED <<ring, r, w, e, cursor, reader, committed, line>>

ConsoleNext ==
  \/ KillLine
  \/ Backspace
  \/ \E c \in Key \ {"kill", "backspace"} : Store(c)
  \/ \E t \in Reader, n \in Wanted : ConsoleRead(t, n)
  \/ \E t \in Reader : ReadReturns(t)
  \/ \E t \in Reader : ReadSleeps(t)
  \/ \E s \in {<<c>> : c \in Letter \union {"newline"}} : ConsoleWrite(s)
  \/ \E p \in Process : KillReader(p)

-----------------------------------------------------------------------------
(* The buffer holds the lines to be read and then the line being edited,   *)
(* however the indices have wrapped: editing never reaches a line already  *)
(* given to the readers, and a full buffer overwrites nothing.             *)
LinesKept == Content(r, w) = committed /\ Content(w, e) = line

(* When the buffer is full there is something to read, so that typing can  *)
(* go on; and a reader sleeps only while there is nothing to read.         *)
ReaderNotStuck ==
  /\ Distance(r, e) = INPUT_BUF => w = e
  /\ \A t \in Reader : reader[t].at = "sleep" => r = w

(* A read returns at most one line: of what it copies only the last can be *)
(* a newline, and it is empty only for a ^D that it takes, or for a reader *)
(* that was killed.                                                        *)
OneLine ==
  [][\A t \in Reader :
       reader[t].at = "read" /\ reader'[t].at = "out" =>
         LET got == reader'[t].got
         IN /\ \A i \in 1 .. Len(got) - 1 : got[i] # "newline"
            /\ got = <<>> => (r' # r \/ t \in killedReader)
            /\ got # <<>> /\ t \notin killedReader /\ Last(got) # "newline"
                 => Len(got) = reader[t].n \/ (committed' # <<>> /\ Head(committed') = "eof")]_consoleVars

(* No character moves the cursor off the screen, where cgaputc panics or   *)
(* writes outside of the memory of the screen.                             *)
CursorOnScreen ==
  cursor < Row * Column /\ \A c \in Key : Advanced(cursor, c) <= Row * Column

(* consoleintr and consoleread share the ring without losing a line or     *)
(* stopping each other, and the echo stays on the screen.                  *)
InputKept == ConsoleTypeOK /\ LinesKept /\ ReaderNotStuck /\ CursorOnScreen

=============================================================================
