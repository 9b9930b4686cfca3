----------------------------- MODULE MCGamePlay -----------------------------
(***************************************************************************)
(* Small games for TLC.  The levels l1 and l2 are in the game from the     *)
(* start, at the positions 1 and 2; the third can be added.                *)
(***************************************************************************)
EXTENDS GamePlay, TLC

CONSTANTS l1, l2, l3

MCPositions == [l \in Levels |-> CASE l = l1 -> 1 [] l = l2 -> 2 [] OTHER -> 0]

\* Teams and sweepers are interchangeable.
Symmetry == Permutations(Teams) \cup Permutations(Sweepers)

=============================================================================
