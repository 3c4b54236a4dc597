------------------------------ MODULE MCKMutex ------------------------------
(* KMutex for TLC: the threads are interchangeable. *)
EXTENDS KMutex, TLC

Symmetry == Permutations(Thread)

=============================================================================
