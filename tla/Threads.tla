------------------------------ MODULE Threads ------------------------------
(***************************************************************************)
(* The threads that call into the kernel and the processes they belong to. *)
(* As in struct proc a process is known by its pid, and 0 is no pid.       *)
(***************************************************************************)
EXTENDS Integers, FiniteSets

CONSTANTS Process, Thread, ProcOf

ASSUME ThreadsAssumption ==
  /\ IsFiniteSet(Process) /\ Process \subseteq Nat \ {0}
  /\ IsFiniteSet(Thread) /\ ProcOf \in [Thread -> Process]

=============================================================================
