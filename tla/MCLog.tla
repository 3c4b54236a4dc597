------------------------------- MODULE MCLog --------------------------------
(* Log for TLC: the processes and the blocks are interchangeable. *)
EXTENDS Log, TLC

Symmetry == Permutations(Proc) \union Permutations(Block)

=============================================================================
