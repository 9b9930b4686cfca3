-------------------------- MODULE MCGameCompletion --------------------------
(***************************************************************************)
(* The author plays in all three teams, another player in one of them; the *)
(* other two teams can be exchanged.                                       *)
(***************************************************************************)
EXTENDS GameCompletion

CONSTANTS a, b, c, x, y, e1

MCMembersOf == [t \in Teams |-> IF t = a THEN {x, y} ELSE {y}]
MCPointsFor == [pl \in 0 .. Cardinality(Teams) |->
                   IF pl = 1 THEN 10 ELSE IF pl = 2 THEN 7 ELSE IF pl = 3 THEN 5 ELSE 2]
MCSymmetry == Permutations({b, c})

=============================================================================
