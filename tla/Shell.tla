------------------------------- MODULE Shell -------------------------------
(***************************************************************************)
(* The shell, src/sh.c, and the init process that keeps one running,       *)
(* src/init.c.                                                             *)
(*                                                                         *)
(* A line is a sequence of tokens: the symbols of gettoken and words.  The *)
(* positions of words inside the buffer, which nulterminate ends with a 0  *)
(* where a blank or a symbol stood, are left out.  The parser is           *)
(* translated as operators that take the tokens left and return the tree,  *)
(* the tokens left then, and the message of a panic.                       *)
(*                                                                         *)
(* The processes that runcmd forks interleave; each step ends at a system  *)
(* call that another process can notice.  A process is named by its path:  *)
(* the shell is <<>>, its k-th child <<k>>.  fork, pipe and open may fail. *)
(* A program reads its standard input to the end and writes until its      *)
(* output is taken: it waits for everyone who holds the other end of a     *)
(* pipe.  The builtin cd (src/sh.c:160-166) changes the directory of the   *)
(* shell itself and nothing else here: such a line is no line of Script.   *)
(***************************************************************************)
EXTENDS Integers, Sequences, FiniteSets, FiniteSetsExt

CONSTANTS
    MAXARGS,     \* entries of argv
    Script,      \* the sequences of lines typed
    MaxFailures  \* bound on the calls that fail

ASSUME ShellAssumption == MAXARGS \in Nat \ {0} /\ MaxFailures \in Nat

VARIABLES procs,   \* the processes, ended ones included
          typed,   \* the lines not read yet
          input,   \* the line read last
          failures \* calls that failed so far

shellVars == <<procs, typed, input, failures>>

Symbol == {"|", "&", ";", "<", ">", ">>", "(", ")"}
-----------------------------------------------------------------------------
(***************************************************************************)
(* The parser.                                                             *)
(***************************************************************************)
Peek(ts, toks) == ts # <<>> /\ Head(ts) \in toks

Parsed(cmd, rest) == [cmd |-> cmd, rest |-> rest, panic |-> ""]
Panic(message) == [cmd |-> [type |-> "NONE"], rest |-> <<>>, panic |-> message]

execcmd(argv) == [type |-> "EXEC", argv |-> argv]
redircmd(cmd, file, fd) ==
    [type |-> "REDIR", cmd |-> cmd, file |-> file, fd |-> fd]
pipecmd(left, right) == [type |-> "PIPE", left |-> left, right |-> right]
listcmd(left, right) == [type |-> "LIST", left |-> left, right |-> right]
backcmd(cmd) == [type |-> "BACK", cmd |-> cmd]

RECURSIVE AddArg(_, _)
\* The execcmd under the redirections gets one more argument.
AddArg(cmd, w) ==
    IF cmd.type = "EXEC" THEN execcmd(Append(cmd.argv, w))
    ELSE redircmd(AddArg(cmd.cmd, w), cmd.file, cmd.fd)

RECURSIVE ParseRedirs(_, _), ParseArgs(_, _, _), ParseExec(_),
          ParsePipe(_), ParseBacks(_, _), ParseLine(_)

ParseRedirs(cmd, ts) ==
    IF ~Peek(ts, {"<", ">", ">>"}) THEN Parsed(cmd, ts)
    ELSE IF Len(ts) < 2 \/ ts[2] \in Symbol
         THEN Panic("missing file for redirection")
         ELSE ParseRedirs(redircmd(cmd, ts[2], IF ts[1] = "<" THEN 0 ELSE 1),
                          SubSeq(ts, 3, Len(ts)))

\* The loop of parseexec, after argc arguments.
ParseArgs(cmd, ts, argc) ==
    LET r == ParseRedirs(cmd, ts)
    IN  IF r.panic # "" \/ r.rest = <<>> \/ Peek(r.rest, {"|", ")", "&", ";"})
        THEN r
        ELSE IF Head(r.rest) \in Symbol THEN Panic("syntax")
        ELSE IF argc + 1 >= MAXARGS THEN Panic("too many args")
        ELSE ParseArgs(AddArg(r.cmd, Head(r.rest)), Tail(r.rest), argc + 1)

ParseBlock(ts) ==
    LET r == ParseLine(Tail(ts))
    IN  IF r.panic # "" THEN r
        ELSE IF ~Peek(r.rest, {")"}) THEN Panic("syntax - missing )")
        ELSE ParseRedirs(r.cmd, Tail(r.rest))

ParseExec(ts) ==
    IF Peek(ts, {"("}) THEN ParseBlock(ts) ELSE ParseArgs(execcmd(<<>>), ts, 0)

ParsePipe(ts) ==
    LET r == ParseExec(ts)
        next == ParsePipe(Tail(r.rest))
    IN  IF r.panic # "" \/ ~Peek(r.rest, {"|"}) THEN r
        ELSE [next EXCEPT !.cmd = pipecmd(r.cmd, next.cmd)]

ParseBacks(cmd, ts) ==
    IF Peek(ts, {"&"}) THEN ParseBacks(backcmd(cmd), Tail(ts))
    ELSE Parsed(cmd, ts)

ParseLine(ts) ==
    LET p == ParsePipe(ts)
        r == ParseBacks(p.cmd, p.rest)
        next == ParseLine(Tail(r.rest))
    IN  IF p.panic # "" THEN p
        ELSE IF ~Peek(r.rest, {";"}) THEN r
        ELSE [next EXCEPT !.cmd = listcmd(r.cmd, next.cmd)]

LeftoversFault(r) == FALSE

Leftovers(r) == r.rest # <<>>

ParseCmd(ts) ==
    LET r == ParseLine(ts)
    IN  IF r.panic = "" /\ Leftovers(r) THEN Panic("syntax") ELSE r
-----------------------------------------------------------------------------
(***************************************************************************)
(* What each program of a line should get as its standard input and        *)
(* output, written into the tree: the inner of two redirections of the     *)
(* same descriptor, which stands first in the line, decides.  at is the    *)
(* place of a node in the tree, and names the pipe of a PIPE node.         *)
(***************************************************************************)
Terminal == <<"console">>
None == <<"none">>
ReadEnd(at) == <<"r", at>>
WriteEnd(at) == <<"w", at>>
File(name) == <<"file", name>>

RECURSIVE Wired(_, _, _, _)
Wired(cmd, in, out, at) ==
    CASE cmd.type = "EXEC" -> [type |-> "EXEC", argv |-> cmd.argv,
                               want |-> <<in, out>>]
      [] cmd.type = "REDIR" ->
            [cmd EXCEPT !.cmd =
                Wired(@, IF cmd.fd = 0 THEN File(cmd.file) ELSE in,
                      IF cmd.fd = 1 THEN File(cmd.file) ELSE out, at)]
      [] cmd.type = "PIPE" ->
            [type |-> "PIPE", at |-> at,
             left |-> Wired(cmd.left, in, WriteEnd(at), Append(at, 1)),
             right |-> Wired(cmd.right, ReadEnd(at), out, Append(at, 2))]
      [] cmd.type = "LIST" ->
            [cmd EXCEPT !.left = Wired(@, in, out, Append(at, 1)),
                        !.right = Wired(@, in, out, Append(at, 2))]
      [] cmd.type = "BACK" -> [cmd EXCEPT !.cmd = Wired(@, in, out, at)]
-----------------------------------------------------------------------------
(***************************************************************************)
(* Processes.  pc says where a process is in runcmd or main; p holds the   *)
(* two descriptors pipe returned.                                          *)
(***************************************************************************)
Descriptor == 0..5
NoCmd == [type |-> "NONE"]
ShellPid == <<>>
InitPid == <<0>>

Fds(stdin, stdout) ==
    [d \in Descriptor |-> CASE d = 0 -> stdin [] d = 1 -> stdout
                            [] d = 2 -> Terminal [] OTHER -> None]

NewProc(parent, pc, cmd, fds, p, bg) ==
    [parent |-> parent, pc |-> pc, cmd |-> cmd, fds |-> fds, p |-> p,
     bg |-> bg]

NewShell == NewProc(InitPid, "prompt", NoCmd, Fds(Terminal, Terminal),
                    <<0, 0>>, FALSE)

ShellInit ==
    /\ procs = [q \in {ShellPid} |-> NewShell]
    /\ typed \in Script
    /\ input = <<>>
    /\ failures = 0

Children(q) == {c \in DOMAIN procs : procs[c].parent = q}
Ended == {"zombie", "gone"}
Alive(q) == procs[q].pc \notin Ended

LowestFree(fds) == Min({d \in Descriptor : fds[d] = None})
CloseFds(fds, ds) == [d \in Descriptor |-> IF d \in ds THEN None ELSE fds[d]]
Dup(fds, d) == [fds EXCEPT ![LowestFree(fds)] = fds[d]]

\* fork: a child at childPc with cmd, while the parent goes on at pc.
Child(q) == Append(q, 1 + Cardinality({c \in DOMAIN procs :
                                          /\ Len(c) = Len(q) + 1
                                          /\ SubSeq(c, 1, Len(q)) = q}))

Forked(q, parentRec, childPc, cmd, bg) ==
    [c \in DOMAIN procs \cup {Child(q)} |->
        CASE c = q -> parentRec
          [] c = Child(q) -> NewProc(q, childPc, cmd, parentRec.fds,
                                     parentRec.p, bg)
          [] OTHER -> procs[c]]

\* exit: the descriptors close, the children go to init, which reaps them.
Exited(q) ==
    [c \in DOMAIN procs |->
        IF c = q THEN [procs[q] EXCEPT !.fds = CloseFds(@, Descriptor),
                           !.cmd = NoCmd,
                           !.pc = IF procs[q].parent = InitPid
                                  THEN "gone" ELSE "zombie"]
        ELSE IF procs[c].parent = q
             THEN [procs[c] EXCEPT !.parent = InitPid,
                                   !.pc = IF @ = "zombie" THEN "gone" ELSE @]
             ELSE procs[c]]

Exit(q) == procs' = Exited(q)

Fails == /\ failures < MaxFailures
         /\ failures' = failures + 1

\* A system call of q that fails, with a panic or an exit for answer.
CallFails(q) ==
    /\ \/ procs[q].pc \in {"fork2", "fork"}
       \/ procs[q].pc = "run" /\ procs[q].cmd.type \in {"REDIR", "PIPE",
                                                        "LIST", "BACK"}
    /\ Fails
    /\ Exit(q)
    /\ UNCHANGED <<typed, input>>

Step == UNCHANGED <<typed, input, failures>>
At(q, pc) == procs[q].pc = pc
Runs(q, type) == At(q, "run") /\ procs[q].cmd.type = type

\* main: getcmd, and the child that parses and runs the line.
GetCmd ==
    /\ At(ShellPid, "prompt") /\ typed # <<>>
    /\ input' = Head(typed)
    /\ typed' = Tail(typed)
    /\ procs' = [procs EXCEPT ![ShellPid].pc = "fork"]
    /\ UNCHANGED failures

ForkLine ==
    /\ At(ShellPid, "fork")
    /\ procs' = Forked(ShellPid, [procs[ShellPid] EXCEPT !.pc = "wait1"],
                       "parse", NoCmd, FALSE)
    /\ Step

RunLine(q) ==
    /\ At(q, "parse")
    /\ \E r \in {ParseCmd(input)} :
          IF r.panic # "" THEN Exit(q)
          ELSE procs' = [procs EXCEPT ![q].pc = "run",
                            ![q].cmd = Wired(r.cmd, Terminal, Terminal, q)]
    /\ Step

\* The end of the input: the shell exits and init starts another.
EndOfInput ==
    /\ At(ShellPid, "prompt") /\ typed = <<>>
    /\ Exit(ShellPid)
    /\ Step

Restart ==
    /\ At(ShellPid, "gone") /\ typed # <<>>
    /\ procs' = [procs EXCEPT ![ShellPid] = NewShell]
    /\ Step

\* wait: one child that ended is reaped; without children wait returns at
\* once.
WaitDone(q) ==
    LET next == IF At(q, "wait2") THEN "wait1"
                ELSE IF q = ShellPid THEN "prompt"
                ELSE IF procs[q].cmd.type = "LIST" THEN "next" ELSE "exit"
    IN  /\ procs[q].pc \in {"wait1", "wait2"}
        /\ \/ /\ \A c \in Children(q) : At(c, "gone")
              /\ procs' = [procs EXCEPT ![q].pc = next]
           \/ \E c \in Children(q) :
                 /\ At(c, "zombie")
                 /\ procs' = [procs EXCEPT ![q].pc = next, ![c].pc = "gone"]
        /\ Step

RunExec(q) ==
    /\ Runs(q, "EXEC")
    /\ \/ Exit(q)
       \/ /\ procs[q].cmd.argv # <<>>
          /\ procs' = [procs EXCEPT ![q].pc = "program"]
    /\ Step

RunRedir(q) ==
    LET fds == CloseFds(procs[q].fds, {procs[q].cmd.fd})
    IN  /\ Runs(q, "REDIR")
        /\ procs' = [procs EXCEPT
                        ![q].fds = [fds EXCEPT ![LowestFree(fds)] =
                                       File(procs[q].cmd.file)],
                        ![q].cmd = procs[q].cmd.cmd]
        /\ Step

\* LIST: the left command in a child, then the right one in its place.
RunList(q) ==
    /\ Runs(q, "LIST")
    /\ procs' = Forked(q, [procs[q] EXCEPT !.pc = "wait1"], "run",
                       procs[q].cmd.left, procs[q].bg)
    /\ Step

NextInList(q) ==
    /\ At(q, "next")
    /\ procs' = [procs EXCEPT ![q].pc = "run", ![q].cmd = procs[q].cmd.right]
    /\ Step

RunBack(q) ==
    /\ Runs(q, "BACK")
    /\ procs' = Forked(q, [procs[q] EXCEPT !.pc = "exit"], "run",
                       procs[q].cmd.cmd, TRUE)
    /\ Step

\* PIPE: pipe and the first fork; the second fork; and the parent's closes.
RunPipe(q) ==
    LET cmd == procs[q].cmd
        r == LowestFree(procs[q].fds)
        fds == [procs[q].fds EXCEPT ![r] = ReadEnd(cmd.at)]
        w == LowestFree(fds)
    IN  /\ Runs(q, "PIPE")
        /\ procs' = Forked(q, [procs[q] EXCEPT
                                  !.fds = [fds EXCEPT ![w] = WriteEnd(cmd.at)],
                                  !.p = <<r, w>>, !.pc = "fork2"],
                           "left", cmd.left, procs[q].bg)
        /\ Step

ForkRight(q) ==
    /\ At(q, "fork2")
    /\ procs' = Forked(q, [procs[q] EXCEPT !.pc = "close"], "right",
                       procs[q].cmd.right, procs[q].bg)
    /\ Step

PipeEnds(q) == {procs[q].p[1], procs[q].p[2]}

ParentClosesFault(q) == {procs[q].p[1]}

ParentCloses(q) == PipeEnds(q)

\* The parent of a pipe waits twice.
Waits == "wait2"

ClosePipe(q) ==
    /\ At(q, "close")
    /\ procs' = [procs EXCEPT ![q].fds = CloseFds(@, ParentCloses(q)),
                              ![q].pc = Waits]
    /\ Step

\* close(1); dup(p[1])
DupLeft(q) == Dup(CloseFds(procs[q].fds, {1}), procs[q].p[2])

\* close(0); dup(p[0])
DupRight(q) == Dup(CloseFds(procs[q].fds, {0}), procs[q].p[1])

WirePipe(q) ==
    /\ procs[q].pc \in {"left", "right"}
    /\ procs' = [procs EXCEPT
                    ![q].fds = CloseFds(IF At(q, "left") THEN DupLeft(q)
                                        ELSE DupRight(q), PipeEnds(q)),
                    ![q].pc = "run"]
    /\ Step

\* The exit() at the end of runcmd.
RunExit(q) == /\ At(q, "exit")
              /\ Exit(q)
              /\ Step

\* The program ends: its input is at its end and its output is taken.
Holds(q, handle) == \E d \in Descriptor : procs[q].fds[d] = handle
Peer(handle) == <<IF handle[1] = "r" THEN "w" ELSE "r", handle[2]>>
Reading(handle) == \E c \in DOMAIN procs :
                      At(c, "program") /\ procs[c].fds[0] = handle

Stalled(q) ==
    LET in == procs[q].fds[0]
        out == procs[q].fds[1]
    IN  \/ in[1] = "r" /\ \E c \in DOMAIN procs : Holds(c, Peer(in))
        \/ /\ out[1] = "w" /\ ~Reading(Peer(out))
           /\ \E c \in DOMAIN procs : Holds(c, Peer(out))

ProgramEnds(q) ==
    /\ At(q, "program") /\ ~Stalled(q)
    /\ Exit(q)
    /\ Step

ShellNext ==
    \/ GetCmd \/ ForkLine \/ EndOfInput \/ Restart
    \/ \E q \in DOMAIN procs :
          \/ RunLine(q) \/ RunExec(q) \/ RunRedir(q) \/ RunList(q)
          \/ NextInList(q) \/ RunBack(q) \/ RunPipe(q) \/ ForkRight(q)
          \/ ClosePipe(q) \/ WirePipe(q) \/ RunExit(q) \/ WaitDone(q)
          \/ ProgramEnds(q) \/ CallFails(q)

ShellSpec == ShellInit /\ [][ShellNext]_shellVars
-----------------------------------------------------------------------------
(***************************************************************************)
(* Properties.                                                             *)
(***************************************************************************)
(***************************************************************************)
(* The grammar of a line, without the order of a parser: all trees of a    *)
(* sequence of tokens, by all ways to split it.                            *)
(***************************************************************************)
Before(ts, i) == SubSeq(ts, 1, i - 1)
After(ts, i) == SubSeq(ts, i + 1, Len(ts))
Places(ts, tok) == {i \in 1..Len(ts) : ts[i] = tok}

RECURSIVE Redirected(_, _), SimpleTrees(_), LineTrees(_)
\* The tree cmd under the redirections ts.
Redirected(cmd, ts) ==
    IF ts = <<>> THEN {cmd}
    ELSE IF Len(ts) = 1 \/ ts[1] \notin {"<", ">", ">>"} \/ ts[2] \in Symbol
         THEN {}
         ELSE Redirected(redircmd(cmd, ts[2], IF ts[1] = "<" THEN 0 ELSE 1),
                         After(ts, 2))

SimpleTrees(ts) ==
    LET n == Len(ts)
    IN  IF n = 0 THEN {execcmd(<<>>)}
        ELSE IF ts[n] \in Symbol THEN {}
        ELSE IF n > 1 /\ ts[n - 1] \in {"<", ">", ">>"}
        THEN UNION {Redirected(t, SubSeq(ts, n - 1, n)) :
                       t \in SimpleTrees(Before(ts, n - 1))}
        ELSE {AddArg(t, ts[n]) : t \in SimpleTrees(Before(ts, n))}

BlockTrees(ts) ==
    IF ts = <<>> \/ Head(ts) # "(" THEN {}
    ELSE UNION {UNION {Redirected(t, After(ts, i)) :
                          t \in LineTrees(SubSeq(ts, 2, i - 1))} :
                   i \in Places(ts, ")")}

RECURSIVE PipeTrees(_), BackTrees(_)
PipeTrees(ts) ==
    LET execTrees(us) == SimpleTrees(us) \cup BlockTrees(us)
    IN  execTrees(ts) \cup
        UNION {{pipecmd(l, r) : l \in execTrees(Before(ts, i)),
                                r \in PipeTrees(After(ts, i))} :
                  i \in Places(ts, "|")}

BackTrees(ts) ==
    PipeTrees(ts) \cup
    (IF ts # <<>> /\ ts[Len(ts)] = "&"
     THEN {backcmd(t) : t \in BackTrees(Before(ts, Len(ts)))} ELSE {})

LineTrees(ts) ==
    BackTrees(ts) \cup
    UNION {{listcmd(l, r) : l \in BackTrees(Before(ts, i)),
                            r \in LineTrees(After(ts, i))} :
              i \in Places(ts, ";")}

RECURSIVE MaxArgc(_)
MaxArgc(cmd) ==
    CASE cmd.type = "EXEC" -> Len(cmd.argv)
      [] cmd.type \in {"REDIR", "BACK"} -> MaxArgc(cmd.cmd)
      [] cmd.type \in {"PIPE", "LIST"} ->
            Max({MaxArgc(cmd.left), MaxArgc(cmd.right)})

\* parsecmd, which looks one token ahead and never goes back, accepts
\* exactly the lines that the grammar derives with fewer than MAXARGS
\* arguments for each command, and the grammar derives the tree parsecmd
\* returns and no other.
ParserExact ==
    LET r == ParseCmd(input)
        trees == {t \in LineTrees(input) : MaxArgc(t) < MAXARGS}
    IN  trees = IF r.panic = "" THEN {r.cmd} ELSE {}

\* A program that runcmd executes has the standard input and output its
\* place in the line gives it, the console as descriptor 2, and no other
\* descriptor open: no end of a pipe is left over in it, whichever forks
\* and failures came before.
WiredRight ==
    \A q \in DOMAIN procs :
        At(q, "program") =>
            procs[q].fds = Fds(procs[q].cmd.want[1], procs[q].cmd.want[2])

\* When the shell shows its prompt again, every process of the lines before
\* has ended, except the ones started with &; runcmd never takes the end of
\* another child for the one it waits for.  (A fork that failed in a
\* pipe leaves the left side running.)
ForegroundDone ==
    At(ShellPid, "prompt") /\ failures = 0 =>
        \A q \in DOMAIN procs \ {ShellPid} : Alive(q) => procs[q].bg

Waiting(q) == /\ procs[q].pc \in {"wait1", "wait2"}
              /\ \E c \in Children(q) : Alive(c)
              /\ ~\E c \in Children(q) : At(c, "zombie")

\* The processes of a line never wait for each other in a circle: while
\* some are left, one of them can move.  A descriptor of a pipe that the
\* parent or a child forgot to close would keep a reader from the end of
\* its input, or a writer from its error, for ever.
NoHang ==
    LET left == {q \in DOMAIN procs \ {ShellPid} : Alive(q)}
    IN  left # {} => \E q \in left :
                        ~Waiting(q) /\ ~(At(q, "program") /\ Stalled(q))

\* runcmd runs a line as it is written: each program with its own input and
\* output, to the end, and before the next prompt.
LineRuns == WiredRight /\ ForegroundDone /\ NoHang

=============================================================================
