---------------------------- MODULE PassingLife ----------------------------
(***************************************************************************)
(* What a game promises to those who play it, without the handlers, the    *)
(* transactions, the sweeps and their locks: a passing is applied for,     *)
(* begins on one level, goes from a level it is on to one it has not       *)
(* played, and ends once.  Levels come and go while it lasts; only the     *)
(* deletion of a level takes something away from it, and it takes nothing  *)
(* but what was of that level.                                             *)
(***************************************************************************)
CONSTANTS Passings, Levels

VARIABLES
    levels,     \* the levels that exist
    stage,      \* how far a passing has come
    at,         \* the level it is on, as a set: empty before and after the game
    done        \* the levels it has finished

vars == <<levels, stage, at, done>>

Stage == {"none", "pending", "accepted", "rejected", "started", "finished",
          "disqualified", "testing"}

Init ==
    /\ levels \in SUBSET Levels
    /\ stage = [p \in Passings |-> "none"]
    /\ at = [p \in Passings |-> {}]
    /\ done = [p \in Passings |-> {}]

\* A team applies and is accepted or rejected.
Enters(p) ==
    /\ \/ stage[p] = "none" /\ stage'[p] = "pending"
       \/ stage[p] = "pending" /\ stage'[p] \in {"accepted", "rejected"}
    /\ at'[p] = at[p] /\ done'[p] = done[p]

Begins(p) ==
    /\ \/ stage[p] = "accepted" /\ stage'[p] = "started"
       \/ stage[p] = "none" /\ stage'[p] = "testing"
    /\ \E l \in levels' : at'[p] = {l}
    /\ done'[p] = done[p]

\* It is done with the level it is on and goes to another, which it has not
\* played; the one it leaves may be deleted at the same moment.
GoesOn(p) ==
    /\ stage'[p] = stage[p]
    /\ \E k \in at[p] :
          /\ \E l \in levels' \ (done[p] \cup {k}) : at'[p] = {l}
          /\ done'[p] = (done[p] \cup {k}) \cap levels'

\* A test passing has seen the last level, and stays for the next test.
TestsToTheEnd(p) ==
    /\ stage[p] = "testing" /\ stage'[p] = "testing"
    /\ at[p] # {} /\ at'[p] = {}
    /\ done'[p] = (done[p] \cup at[p]) \cap levels'

Ends(p) ==
    /\ stage[p] = "started" /\ stage'[p] \in {"finished", "disqualified"}
    /\ at'[p] = {}
    /\ done'[p] = (done[p] \cup at[p]) \cap levels'

\* Nothing happens to it, but that a level may be deleted.
Stays(p) ==
    /\ stage'[p] = stage[p]
    /\ at'[p] = at[p] \cap levels' /\ done'[p] = done[p] \cap levels'

Lives(p) ==
    Enters(p) \/ Begins(p) \/ GoesOn(p) \/ TestsToTheEnd(p) \/ Ends(p) \/ Stays(p)

\* One step may move several: a batch, a forced finish, an automatic start.
Next ==
    /\ levels' \in SUBSET Levels
    /\ stage' \in [Passings -> Stage]
    /\ at' \in [Passings -> SUBSET Levels]
    /\ done' \in [Passings -> SUBSET Levels]
    /\ \A p \in Passings : Lives(p)

Spec == Init /\ [][Next]_vars

=============================================================================
