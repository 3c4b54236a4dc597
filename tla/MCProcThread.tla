---------------------------- MODULE MCProcThread ----------------------------
(* ProcThread for TLC: the programs that the runs let the processes execute. *)
EXTENDS ProcThread, TLC

CONSTANTS InitCalls, MainCalls, WorkerCalls

MCCalls == [r \in Roles |-> CASE r = "init" -> InitCalls
                              [] r = "main" -> MainCalls
                              [] OTHER -> WorkerCalls]

Symmetry == Permutations(CPU)

=============================================================================
