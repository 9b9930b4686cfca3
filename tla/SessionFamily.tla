--------------------------- MODULE SessionFamily ---------------------------
(***************************************************************************)
(* What a family of refresh tokens promises, without the requests, the     *)
(* statements and the transactions: a login starts it, one token of it is  *)
(* good at a time, a rotation replaces the good token by a new one, and a  *)
(* family that has no good token never has one again.                      *)
(***************************************************************************)
EXTENDS Naturals

CONSTANT Families

VARIABLES
    last,       \* family -> tokens issued so far
    head        \* family -> the good token, 0 when there is none

vars == <<last, head>>

Init ==
    /\ last = [f \in Families |-> 0]
    /\ head = [f \in Families |-> 0]

Start(f) ==
    /\ last[f] = 0
    /\ last' = [last EXCEPT ![f] = 1]
    /\ head' = [head EXCEPT ![f] = 1]

Rotate(f) ==
    /\ head[f] # 0
    /\ last' = [last EXCEPT ![f] = last[f] + 1]
    /\ head' = [head EXCEPT ![f] = last[f] + 1]

End(S) ==
    /\ head' = [f \in Families |-> IF f \in S THEN 0 ELSE head[f]]
    /\ UNCHANGED last

Next ==
    \/ \E f \in Families : Start(f) \/ Rotate(f)
    \/ \E S \in SUBSET Families : End(S)

Spec == Init /\ [][Next]_vars
=============================================================================
