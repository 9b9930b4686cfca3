------------------------------ MODULE MCTeams ------------------------------
(* Two concurrent requests on two teams.  Both users are administrators, so *)
(* that either may do whatever the code lets anyone do.                     *)
EXTENDS Teams, TLC

\* Calls are interchangeable, and so are users as long as all are
\* administrators.
Symmetry == Permutations(Calls) \cup Permutations(Users)
=============================================================================
