-------------------------- MODULE MCTournamentTree --------------------------
(* TournamentTree for TLC. *)
EXTENDS TournamentTree, TLC

Symmetry == Permutations(Thread)

=============================================================================
