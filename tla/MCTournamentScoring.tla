------------------------ MODULE MCTournamentScoring ------------------------
(***************************************************************************)
(* Tournaments that share their games.                                     *)
(***************************************************************************)
EXTENDS TournamentScoring, TLC

CONSTANTS t1, t2, g1, g2, a, b

Symmetry == Permutations(Tournaments) \cup Permutations(Games) \cup Permutations(Teams)

=============================================================================
