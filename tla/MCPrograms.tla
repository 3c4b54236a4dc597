----------------------------- MODULE MCPrograms -----------------------------
(* Spin locks, the contents of files, malloc and the shell for TLC.  They  *)
(* share no state: in each behaviour one of them moves, and the others     *)
(* stay in one of their initial states.                                    *)
EXTENDS SpinLock, FileContent, Malloc, Shell

(* One program on the disk, or a root directory that is almost full. *)
MCImages == {<< <<7, 8, 9>> >>, << <<7>>, <<>>, <<>>, <<>>, <<>> >>}
MCPayload == {[k \in 1 .. 3 |-> 20 + k], [k \in 1 .. 8 |-> 30 + k]}

(* Every line of at most three tokens, and longer ones. *)
Token == {"a", "|", "&", ";", ">", "(", ")"}
NoLine == << <<>> >>
MCScript ==
  {<<l>> : l \in UNION {[1 .. n -> Token] : n \in 0 .. 3}} \cup
  {<< <<"a", "|", "b", "|", "c", "&">>, <<"a">> >>,
   << <<"(", "a", ";", "b", ")", "|", "c", "<", "f", ">", "g">> >>,
   << <<"a", "|", "(", "b", "&", ";", "c", ")">> >>,
   << <<"a", "a", "a", "a">> >>, << <<"(", "a", ")", "a">> >>, << <<"a", "&", ";", "a">> >>}

Symmetry == Permutations(Cpu) \cup Permutations(Kthread)

VARIABLE moving

Init ==
  /\ moving \in {"locks", "content", "malloc", "shell"}
  /\ SpinInit
  /\ ContentInit /\ (moving = "content" \/ content[2] = <<7>>)
  /\ MallocInit
  /\ ShellInit /\ (moving = "shell" \/ typed = NoLine)

Next ==
  \/ moving = "locks" /\ SpinNext /\ UNCHANGED <<moving, contentVars, mallocVars, shellVars>>
  \/ moving = "content" /\ ContentNext /\ UNCHANGED <<moving, lockVars, mallocVars, shellVars>>
  \/ moving = "malloc" /\ MallocNext /\ UNCHANGED <<moving, lockVars, contentVars, shellVars>>
  \/ moving = "shell" /\ ShellNext /\ UNCHANGED <<moving, lockVars, contentVars, mallocVars>>

Spec == Init /\ [][Next]_<<moving, lockVars, contentVars, mallocVars, shellVars>>

=============================================================================
