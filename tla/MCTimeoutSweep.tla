--------------------------- MODULE MCTimeoutSweep ---------------------------
(***************************************************************************)
(* A game with a time limit and one without, two teams in the first and    *)
(* one in the second.                                                      *)
(***************************************************************************)
EXTENDS TimeoutSweep

CONSTANTS timed, untimed, p1, p2, q1

MCGameOf == [p \in Passings |-> IF p = q1 THEN untimed ELSE timed]

=============================================================================
