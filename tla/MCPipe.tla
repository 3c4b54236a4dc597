------------------------------- MODULE MCPipe -------------------------------
(* Pipe for TLC: one thread per process, so a process is its thread. *)
EXTENDS Pipe, TLC

OneThread == [t \in Thread |-> t]
Symmetry == Permutations(Process) \union Permutations(Byte)

=============================================================================
