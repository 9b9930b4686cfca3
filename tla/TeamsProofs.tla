---------------------------- MODULE TeamsProofs ----------------------------
(***************************************************************************)
(* What is said of teams and invitations, for any number of users, calls,  *)
(* teams and invitations.  The properties are about single steps, and what *)
(* a step writes was read earlier: IInv says what a call still knows when  *)
(* it writes, and Seen what may have changed under a change of captain.    *)
(* MembersInv is what OnlyInvitedAreStranded needs: who is a member of a   *)
(* team without an invitation is so of one that no call takes back.        *)
(***************************************************************************)
EXTENDS Teams, TLAPS

\* The rows a call is about were there when it read them, and none goes.
Rows ==
    \A c \in Calls :
       /\ cpc[c] # "idle" => cuser[c] \in Users
       /\ cpc[c] \in {"join", "undo", "adminJoin", "delete", "uninvited", "invite"} =>
             cteam[c] \in 1..nteams
       /\ cpc[c] \in {"member", "other", "promote"} => cteam[c] \in Teams
       /\ cpc[c] \in {"accept", "decline"} => cinv[c] \in 1..ninvs
       /\ cpc[c] = "accept" => cuser[c] = iuser[cinv[c]] /\ cteam[c] = iteam[cinv[c]]

\* A removal has read another captain; a new captain is a member, or takes
\* the team over, or its row was deleted after the call had seen it.
Seen ==
    \A c \in Calls :
       /\ cpc[c] = "delete" => cwho[c] # cuser[c]
       /\ cpc[c] \in {"other", "promote"} =>
             cuser[c] = cwho[c] \/ c \in left \/ teamOf[cuser[c]] = cteam[c]

IInv == TypeOK /\ Rows /\ Seen

LEMMA InitHolds == Init => IInv
BY UsersAssumption, BoundsAssumption
   DEF Init, IInv, TypeOK, Rows, Seen, Teams, Invs, NoTeam, NoInv, Steps

LEMMA UndoneTeam ==
    ASSUME IInv, NEW c \in Calls, UndoTeam(c)
    PROVE  gone' \in SUBSET Teams /\ gone' \subseteq 1..nteams'
<1>1. cteam[c] \in 1..nteams /\ gone \subseteq 1..nteams /\ nteams \in 0..MaxTeams
  BY DEF IInv, TypeOK, Rows, UndoTeam
<1>2. 1..nteams \subseteq Teams
  BY <1>1, BoundsAssumption DEF Teams
<1>3. gone' = gone \cup {cteam[c]} /\ nteams' = nteams
  BY DEF UndoTeam
<1> QED
  BY <1>1, <1>2, <1>3

LEMMA CreateTeamKeeps == ASSUME IInv, NEW c \in Calls, NEW u \in Users, CreateTeam(c, u) PROVE IInv'
<1> USE UsersAssumption, BoundsAssumption
    DEF IInv, TypeOK, Teams, Invs, NoTeam, NoInv, Steps, CreateTeam, Begin, teams, invitations, calls
<1>1. TypeOK'
  BY DEF Rows
<1>2. Rows'
  BY DEF Rows
<1>3. Seen'
  BY DEF Rows, Seen
<1> QED
  BY <1>1, <1>2, <1>3

LEMMA AdminCreateTeamKeeps == ASSUME IInv, NEW c \in Calls, NEW u \in Users, AdminCreateTeam(c, u) PROVE IInv'
<1> USE UsersAssumption, BoundsAssumption
    DEF IInv, TypeOK, Teams, Invs, NoTeam, NoInv, Steps, AdminCreateTeam, Begin, NewTeam, teams, invitations, calls
<1>1. TypeOK'
  BY DEF Rows
<1>2. Rows'
  BY DEF Rows
<1>3. Seen'
  BY DEF Rows, Seen
<1> QED
  BY <1>1, <1>2, <1>3

LEMMA InsertTeamKeeps == ASSUME IInv, NEW c \in Calls, InsertTeam(c) PROVE IInv'
<1> USE UsersAssumption, BoundsAssumption
    DEF IInv, TypeOK, Teams, Invs, NoTeam, NoInv, Steps, InsertTeam, NewTeam, teams, invitations, calls
<1>1. TypeOK'
  BY DEF Rows
<1>2. Rows'
  BY DEF Rows
<1>3. Seen'
  BY DEF Rows, Seen
<1> QED
  BY <1>1, <1>2, <1>3

LEMMA JoinOwnTeamKeeps == ASSUME IInv, NEW c \in Calls, JoinOwnTeam(c) PROVE IInv'
<1> USE UsersAssumption, BoundsAssumption
    DEF IInv, TypeOK, Teams, Invs, NoTeam, NoInv, Steps, JoinOwnTeam, InsertMember, End, Goto, teams, invitations, calls
<1>1. CASE InsertMember(cuser[c], cteam[c]) /\ End(c)
  <2>1. TypeOK'
    BY <1>1 DEF Rows
  <2>2. Rows'
    BY <1>1 DEF Rows
  <2>3. Seen'
    BY <1>1 DEF Rows, Seen
  <2> QED
    BY <2>1, <2>2, <2>3
<1>2. CASE Goto(c, "undo") /\ UNCHANGED teamOf
  <2>1. TypeOK'
    BY <1>2 DEF Rows
  <2>2. Rows' /\ Seen'
    BY <1>2 DEF Rows, Seen
  <2> QED
    BY <2>1, <2>2
<1> QED
  BY <1>1, <1>2

LEMMA UndoTeamKeeps == ASSUME IInv, NEW c \in Calls, UndoTeam(c) PROVE IInv'
<1> USE UsersAssumption, BoundsAssumption
    DEF IInv, TypeOK, Teams, Invs, NoTeam, NoInv, Steps, UndoTeam, End, teams, invitations, calls
<1>1. gone' \in SUBSET Teams /\ gone' \subseteq 1..nteams'
  BY UndoneTeam
<1>2. TypeOK'
  BY <1>1
<1>3. Rows' /\ Seen'
  BY DEF Rows, Seen
<1> QED
  BY <1>2, <1>3

LEMMA AdminJoinTeamKeeps == ASSUME IInv, NEW c \in Calls, AdminJoinTeam(c) PROVE IInv'
<1> USE UsersAssumption, BoundsAssumption
    DEF IInv, TypeOK, Teams, Invs, NoTeam, NoInv, Steps, AdminJoinTeam, InsertMember, End, teams, invitations, calls
<1>1. TypeOK'
  BY DEF Rows
<1>2. Rows'
  BY DEF Rows
<1>3. Seen'
  BY DEF Rows, Seen
<1> QED
  BY <1>1, <1>2, <1>3

LEMMA GiveUpKeeps == ASSUME IInv, NEW c \in Calls, GiveUp(c) PROVE IInv'
<1> USE UsersAssumption, BoundsAssumption
    DEF IInv, TypeOK, Teams, Invs, NoTeam, NoInv, Steps, GiveUp, End, teams, invitations, calls
<1>1. TypeOK'
  BY DEF Rows
<1>2. Rows'
  BY DEF Rows
<1>3. Seen'
  BY DEF Rows, Seen
<1> QED
  BY <1>1, <1>2, <1>3

LEMMA StartTestingKeeps == ASSUME IInv, NEW u \in Users, StartTesting(u) PROVE IInv'
<1> USE UsersAssumption, BoundsAssumption
    DEF IInv, TypeOK, Teams, Invs, NoTeam, NoInv, Steps, StartTesting, NewTeam, teams, invitations, calls
<1>1. TypeOK'
  BY DEF Rows
<1>2. Rows'
  BY DEF Rows
<1>3. Seen'
  BY DEF Rows, Seen
<1> QED
  BY <1>1, <1>2, <1>3

LEMMA LeaveMemberKeeps == ASSUME IInv, NEW c \in Calls, NEW t \in Teams, NEW u \in Users, LeaveMember(c, t, u) PROVE IInv'
<1> USE UsersAssumption, BoundsAssumption
    DEF IInv, TypeOK, Teams, Invs, NoTeam, NoInv, Steps, LeaveMember, Begin, Live, teams, invitations, calls
<1>1. TypeOK'
  BY DEF Rows
<1>2. Rows'
  BY DEF Rows
<1>3. Seen'
  BY DEF Rows, Seen
<1> QED
  BY <1>1, <1>2, <1>3

LEMMA ChangeCaptainKeeps == ASSUME IInv, NEW c \in Calls, NEW t \in Teams, NEW u \in Users, ChangeCaptain(c, t, u) PROVE IInv'
<1> USE UsersAssumption, BoundsAssumption
    DEF IInv, TypeOK, Teams, Invs, NoTeam, NoInv, Steps, ChangeCaptain, Begin, teams, invitations, calls
<1>1. CASE Begin(c, "member", u, t, NoInv, NoUser)
  <2>1. TypeOK'
    BY <1>1
  <2>2. Rows' /\ Seen'
    BY <1>1 DEF Rows, Seen
  <2> QED
    BY <2>1, <2>2
<1>2. CASE Begin(c, "other", u, t, NoInv, u)
  <2>1. TypeOK'
    BY <1>2
  <2>2. Rows' /\ Seen'
    BY <1>2 DEF Rows, Seen
  <2> QED
    BY <2>1, <2>2
<1> QED
  BY <1>1, <1>2

LEMMA CreateInvitationKeeps == ASSUME IInv, NEW c \in Calls, NEW t \in Teams, NEW u \in Users, CreateInvitation(c, t, u) PROVE IInv'
<1> USE UsersAssumption, BoundsAssumption
    DEF IInv, TypeOK, Teams, Invs, NoTeam, NoInv, Steps, CreateInvitation, Begin, Live, teams, invitations, calls
<1>1. TypeOK'
  BY DEF Rows
<1>2. Rows'
  BY DEF Rows
<1>3. Seen'
  BY DEF Rows, Seen
<1> QED
  BY <1>1, <1>2, <1>3

LEMMA DeleteMemberKeeps == ASSUME IInv, NEW c \in Calls, DeleteMember(c) PROVE IInv'
<1> USE UsersAssumption, BoundsAssumption
    DEF IInv, TypeOK, Teams, Invs, NoTeam, NoInv, Steps, DeleteMember, End, teams, invitations, calls
<1>1. TypeOK'
  BY DEF Rows
<1>2. Rows'
  BY DEF Rows
<1>3. Seen'
  BY DEF Rows, Seen
<1> QED
  BY <1>1, <1>2, <1>3

LEMMA CheckMemberKeeps == ASSUME IInv, NEW c \in Calls, CheckMember(c) PROVE IInv'
<1> USE UsersAssumption, BoundsAssumption
    DEF IInv, TypeOK, Teams, Invs, NoTeam, NoInv, Steps, CheckMember, Goto, teams, invitations, calls
<1>1. TypeOK'
  BY DEF Rows
<1>2. Rows'
  BY DEF Rows
<1>3. Seen'
  BY DEF Rows, Seen
<1> QED
  BY <1>1, <1>2, <1>3

LEMMA CheckOtherKeeps == ASSUME IInv, NEW c \in Calls, CheckOther(c) PROVE IInv'
<1> USE UsersAssumption, BoundsAssumption
    DEF IInv, TypeOK, Teams, Invs, NoTeam, NoInv, Steps, CheckOther, Goto, teams, invitations, calls
<1>1. TypeOK'
  BY DEF Rows
<1>2. Rows'
  BY DEF Rows
<1>3. Seen'
  BY DEF Rows, Seen
<1> QED
  BY <1>1, <1>2, <1>3

LEMMA PromoteKeeps == ASSUME IInv, NEW c \in Calls, Promote(c) PROVE IInv'
<1> USE UsersAssumption, BoundsAssumption
    DEF IInv, TypeOK, Teams, Invs, NoTeam, NoInv, Steps, Promote, End, Live, teams, invitations, calls
<1>1. TypeOK'
  BY DEF Rows
<1>2. Rows'
  BY DEF Rows
<1>3. Seen'
  BY DEF Rows, Seen
<1> QED
  BY <1>1, <1>2, <1>3

LEMMA CheckInvitedKeeps == ASSUME IInv, NEW c \in Calls, CheckInvited(c) PROVE IInv'
<1> USE UsersAssumption, BoundsAssumption
    DEF IInv, TypeOK, Teams, Invs, NoTeam, NoInv, Steps, CheckInvited, Goto, teams, invitations, calls
<1>1. TypeOK'
  BY DEF Rows
<1>2. Rows'
  BY DEF Rows
<1>3. Seen'
  BY DEF Rows, Seen
<1> QED
  BY <1>1, <1>2, <1>3

LEMMA InsertInvitationKeeps == ASSUME IInv, NEW c \in Calls, InsertInvitation(c) PROVE IInv'
<1> USE UsersAssumption, BoundsAssumption
    DEF IInv, TypeOK, Teams, Invs, NoTeam, NoInv, Steps, InsertInvitation, End, teams, invitations, calls
<1>1. TypeOK'
  BY DEF Rows
<1>2. Rows'
  BY DEF Rows
<1>3. Seen'
  BY DEF Rows, Seen
<1> QED
  BY <1>1, <1>2, <1>3

LEMMA AcceptInvitationKeeps == ASSUME IInv, NEW c \in Calls, NEW i \in Invs, AcceptInvitation(c, i) PROVE IInv'
<1> USE UsersAssumption, BoundsAssumption
    DEF IInv, TypeOK, Teams, Invs, NoTeam, NoInv, Steps, AcceptInvitation, Begin, teams, invitations, calls
<1>1. TypeOK'
  BY DEF Rows
<1>2. Rows'
  BY DEF Rows
<1>3. Seen'
  BY DEF Rows, Seen
<1> QED
  BY <1>1, <1>2, <1>3

LEMMA DeclineInvitationKeeps == ASSUME IInv, NEW c \in Calls, NEW i \in Invs, DeclineInvitation(c, i) PROVE IInv'
<1> USE UsersAssumption, BoundsAssumption
    DEF IInv, TypeOK, Teams, Invs, NoTeam, NoInv, Steps, DeclineInvitation, Begin, teams, invitations, calls
<1>1. TypeOK'
  BY DEF Rows
<1>2. Rows'
  BY DEF Rows
<1>3. Seen'
  BY DEF Rows, Seen
<1> QED
  BY <1>1, <1>2, <1>3

LEMMA CommitAcceptKeeps == ASSUME IInv, NEW c \in Calls, CommitAccept(c) PROVE IInv'
<1> USE UsersAssumption, BoundsAssumption
    DEF IInv, TypeOK, Teams, Invs, NoTeam, NoInv, Steps, CommitAccept, InsertMember, End, teams, invitations, calls
<1>1. TypeOK'
  BY DEF Rows
<1>2. Rows'
  BY DEF Rows
<1>3. Seen'
  BY DEF Rows, Seen
<1> QED
  BY <1>1, <1>2, <1>3

LEMMA WriteDeclineKeeps == ASSUME IInv, NEW c \in Calls, WriteDecline(c) PROVE IInv'
<1> USE UsersAssumption, BoundsAssumption
    DEF IInv, TypeOK, Teams, Invs, NoTeam, NoInv, Steps, WriteDecline, End, teams, invitations, calls
<1>1. TypeOK'
  BY DEF Rows
<1>2. Rows'
  BY DEF Rows
<1>3. Seen'
  BY DEF Rows, Seen
<1> QED
  BY <1>1, <1>2, <1>3

LEMMA StepKeeps == ASSUME IInv, [Next]_vars PROVE IInv'
<1>1. CASE \E c \in Calls, u \in Users : CreateTeam(c, u)
  BY <1>1, CreateTeamKeeps
<1>2. CASE \E c \in Calls, u \in Users : AdminCreateTeam(c, u)
  BY <1>2, AdminCreateTeamKeeps
<1>3. CASE \E c \in Calls : InsertTeam(c)
  BY <1>3, InsertTeamKeeps
<1>4. CASE \E c \in Calls : JoinOwnTeam(c)
  BY <1>4, JoinOwnTeamKeeps
<1>5. CASE \E c \in Calls : UndoTeam(c)
  BY <1>5, UndoTeamKeeps
<1>6. CASE \E c \in Calls : AdminJoinTeam(c)
  BY <1>6, AdminJoinTeamKeeps
<1>7. CASE \E c \in Calls : GiveUp(c)
  BY <1>7, GiveUpKeeps
<1>8. CASE \E u \in Users : StartTesting(u)
  BY <1>8, StartTestingKeeps
<1>9. CASE \E c \in Calls, t \in Teams, u \in Users : LeaveMember(c, t, u)
  BY <1>9, LeaveMemberKeeps
<1>10. CASE \E c \in Calls, t \in Teams, u \in Users : ChangeCaptain(c, t, u)
  BY <1>10, ChangeCaptainKeeps
<1>11. CASE \E c \in Calls, t \in Teams, u \in Users : CreateInvitation(c, t, u)
  BY <1>11, CreateInvitationKeeps
<1>12. CASE \E c \in Calls : DeleteMember(c)
  BY <1>12, DeleteMemberKeeps
<1>13. CASE \E c \in Calls : CheckMember(c)
  BY <1>13, CheckMemberKeeps
<1>14. CASE \E c \in Calls : CheckOther(c)
  BY <1>14, CheckOtherKeeps
<1>15. CASE \E c \in Calls : Promote(c)
  BY <1>15, PromoteKeeps
<1>16. CASE \E c \in Calls : CheckInvited(c)
  BY <1>16, CheckInvitedKeeps
<1>17. CASE \E c \in Calls : InsertInvitation(c)
  BY <1>17, InsertInvitationKeeps
<1>18. CASE \E c \in Calls, i \in Invs : AcceptInvitation(c, i)
  BY <1>18, AcceptInvitationKeeps
<1>19. CASE \E c \in Calls, i \in Invs : DeclineInvitation(c, i)
  BY <1>19, DeclineInvitationKeeps
<1>20. CASE \E c \in Calls : CommitAccept(c)
  BY <1>20, CommitAcceptKeeps
<1>21. CASE \E c \in Calls : WriteDecline(c)
  BY <1>21, WriteDeclineKeeps
<1>22. CASE UNCHANGED vars
  BY <1>22 DEF IInv, TypeOK, Rows, Seen, vars, teams, invitations, calls
<1> QED
  BY <1>1, <1>2, <1>3, <1>4, <1>5, <1>6, <1>7, <1>8, <1>9, <1>10, <1>11, <1>12, <1>13, <1>14, <1>15, <1>16, <1>17, <1>18, <1>19, <1>20, <1>21, <1>22 DEF Next

\* The invariant of the specification.
THEOREM Invariance == Spec => []IInv
<1> QED
  BY InitHolds, StepKeeps, PTL DEF Spec

\* Every reachable state has the types of the tables' columns, and rows that
\* exist are complete (Teams.TypeOK).
THEOREM TypeCorrect == Spec => []TypeOK
<1>1. IInv => TypeOK
  BY DEF IInv
<1> QED
  BY Invariance, <1>1, PTL

-----------------------------------------------------------------------------
\* The steps that get a user into a team, or answer an invitation.

LEMMA QuietAdmitsOnce == ASSUME UNCHANGED <<teamOf, istatus>> PROVE AdmitsOnce
BY DEF AdmitsOnce

LEMMA JoinAdmitsOnce ==
    ASSUME IInv, NEW c \in Calls, cpc[c] \in {"join", "adminJoin"},
           InsertMember(cuser[c], cteam[c]), UNCHANGED istatus
    PROVE  AdmitsOnce
BY DEF IInv, TypeOK, AdmitsOnce, InsertMember

LEMMA AcceptAdmitsOnce ==
    ASSUME IInv, NEW c \in Calls, CommitAccept(c) PROVE AdmitsOnce
<1> USE DEF IInv, TypeOK, CommitAccept, InsertMember, Admits
<1>1. /\ cinv[c] \in Invs /\ cuser[c] \in Users /\ cuser[c] = iuser[cinv[c]]
      /\ cteam[c] = iteam[cinv[c]] /\ cteam[c] \in Teams
  BY BoundsAssumption DEF Rows, Invs, Teams, NoTeam
<1>2. \A j \in Invs : istatus[j] # "accepted" /\ istatus'[j] = "accepted" => j = cinv[c]
  BY <1>1
<1>3. Admits(cinv[c]) /\ teamOf'[cuser[c]] = cteam[c] /\ teamOf[cuser[c]] = NoTeam
  BY <1>1
<1>4. \A u \in Users : u # cuser[c] => teamOf'[u] = teamOf[u]
  OBVIOUS
<1>5. \A j \in Invs : Admits(j) => j = cinv[c]
  BY <1>2
<1> QED
  BY <1>1, <1>2, <1>3, <1>4, <1>5 DEF AdmitsOnce

LEMMA OtherAdmitsOnce ==
    ASSUME IInv, NEW c \in Calls, DeleteMember(c) \/ InsertInvitation(c) \/ WriteDecline(c)
    PROVE  AdmitsOnce
BY DEF IInv, TypeOK, AdmitsOnce, DeleteMember, InsertInvitation, WriteDecline, invitations, Rows

\* Whatever races, a user gets into a team once per open invitation, from no
\* team, or by making the team (Teams.AdmittedOnce; AcceptInvitation,
\* CreateTeam).
THEOREM AdmittedCorrect == Spec => AdmittedOnce
<1>1. ASSUME IInv, [Next]_vars PROVE AdmitsOnce
  <2>1. CASE \E c \in Calls : JoinOwnTeam(c)
    BY <1>1, <2>1, JoinAdmitsOnce, QuietAdmitsOnce DEF JoinOwnTeam, invitations
  <2>2. CASE \E c \in Calls : AdminJoinTeam(c)
    BY <1>1, <2>2, JoinAdmitsOnce DEF AdminJoinTeam, invitations
  <2>3. CASE \E c \in Calls : DeleteMember(c)
    BY <1>1, <2>3, OtherAdmitsOnce
  <2>4. CASE \E c \in Calls : InsertInvitation(c)
    BY <1>1, <2>4, OtherAdmitsOnce
  <2>5. CASE \E c \in Calls : CommitAccept(c)
    BY <1>1, <2>5, AcceptAdmitsOnce
  <2>6. CASE \E c \in Calls : WriteDecline(c)
    BY <1>1, <2>6, OtherAdmitsOnce
  <2>7. CASE UNCHANGED <<teamOf, istatus>>
    BY <2>7, QuietAdmitsOnce
  <2> QED
    BY <1>1, <2>1, <2>2, <2>3, <2>4, <2>5, <2>6, <2>7 DEF Next, vars, teams, invitations, calls,
       CreateTeam, AdminCreateTeam, InsertTeam, UndoTeam, GiveUp, StartTesting, LeaveMember, ChangeCaptain, CreateInvitation, CheckMember, CheckOther, Promote, CheckInvited, AcceptInvitation, DeclineInvitation
<1> QED
  BY <1>1, Invariance, PTL DEF Spec, AdmittedOnce

-----------------------------------------------------------------------------
\* The steps that change a captain or delete a row.

LEMMA QuietKeepsRow == ASSUME UNCHANGED <<teamOf, captain>> PROVE KeepsRow
BY DEF KeepsRow, HasOwnRow

LEMMA NewTeamKeepsRow ==
    ASSUME IInv, NEW u \in Users, NewTeam(u), UNCHANGED teamOf PROVE KeepsRow
<1> USE UsersAssumption, BoundsAssumption DEF IInv, TypeOK, Teams, NewTeam, KeepsRow, HasOwnRow
<1>1. ASSUME NEW t \in Teams, captain[t] \in Users PROVE captain'[t] = captain[t]
  BY <1>1
<1> QED
  BY <1>1

LEMMA InsertKeepsRow ==
    ASSUME IInv, NEW c \in Calls, InsertMember(cuser[c], cteam[c]), UNCHANGED captain
    PROVE  KeepsRow
BY DEF IInv, TypeOK, Teams, NoTeam, InsertMember, KeepsRow, HasOwnRow

LEMMA DeleteKeepsRow == ASSUME IInv, NEW c \in Calls, DeleteMember(c) PROVE KeepsRow
<1> USE DEF IInv, TypeOK, DeleteMember, End, HasOwnRow
<1>1. cuser[c] \in Users /\ cwho[c] # cuser[c] /\ UNCHANGED captain
  BY DEF Rows, Seen, teams
<1>2. ASSUME NEW t \in Teams, HasOwnRow(t), ~HasOwnRow(t)'
      PROVE  captain[t] = cuser[c] /\ cteam[c] = t /\ cpc'[c] = "idle"
  BY <1>1, <1>2
<1> QED
  BY <1>1, <1>2 DEF KeepsRow

LEMMA PromoteKeepsRow == ASSUME IInv, NEW c \in Calls, Promote(c) PROVE KeepsRow
<1> USE DEF IInv, TypeOK, Promote, End, HasOwnRow
<1>1. /\ cuser[c] \in Users
      /\ cuser[c] = cwho[c] \/ c \in left \/ teamOf[cuser[c]] = cteam[c]
  BY DEF Rows, Seen
<1>2. ASSUME NEW t \in Teams, HasOwnRow(t), ~HasOwnRow(t)'
      PROVE  /\ cteam[c] = t /\ cpc'[c] = "idle"
             /\ c \in left \/ cuser[c] = cwho[c]
  BY <1>1, <1>2
<1> QED
  BY <1>1, <1>2 DEF KeepsRow

\* A captain with a row in its team keeps it but for the races and the
\* takeover that Teams.CaptainKeepsRow names (LeaveMember, RemoveMember,
\* ChangeCaptain).
THEOREM CaptainCorrect == Spec => CaptainKeepsRow
<1>1. ASSUME IInv, [Next]_vars PROVE KeepsRow
  <2>1. CASE \E c \in Calls, u \in Users : AdminCreateTeam(c, u)
    BY <1>1, <2>1, NewTeamKeepsRow DEF AdminCreateTeam
  <2>2. CASE \E c \in Calls : InsertTeam(c)
    BY <1>1, <2>2, NewTeamKeepsRow DEF InsertTeam, IInv, Rows
  <2>3. CASE \E c \in Calls : JoinOwnTeam(c)
    BY <1>1, <2>3, InsertKeepsRow, QuietKeepsRow DEF JoinOwnTeam, teams
  <2>4. CASE \E c \in Calls : AdminJoinTeam(c)
    BY <1>1, <2>4, InsertKeepsRow DEF AdminJoinTeam, teams
  <2>5. CASE \E u \in Users : StartTesting(u)
    BY <1>1, <2>5, NewTeamKeepsRow DEF StartTesting
  <2>6. CASE \E c \in Calls : DeleteMember(c)
    BY <1>1, <2>6, DeleteKeepsRow
  <2>7. CASE \E c \in Calls : Promote(c)
    BY <1>1, <2>7, PromoteKeepsRow
  <2>8. CASE \E c \in Calls : CommitAccept(c)
    BY <1>1, <2>8, InsertKeepsRow DEF CommitAccept, teams
  <2>9. CASE UNCHANGED <<teamOf, captain>>
    BY <2>9, QuietKeepsRow
  <2> QED
    BY <1>1, <2>1, <2>2, <2>3, <2>4, <2>5, <2>6, <2>7, <2>8, <2>9 DEF Next, vars, teams, invitations, calls,
       CreateTeam, UndoTeam, GiveUp, LeaveMember, ChangeCaptain, CreateInvitation, CheckMember, CheckOther, CheckInvited, InsertInvitation, AcceptInvitation, DeclineInvitation, WriteDecline
<1> QED
  BY <1>1, Invariance, PTL DEF Spec, CaptainKeepsRow

-----------------------------------------------------------------------------
\* Who is in a team that is taken back.

\* A call has made a team and is not done with it.
Making(c) == cpc[c] \in {"join", "undo", "adminJoin"}

\* Its team is not gone, and no other call has made it.
MakesItsOwn ==
    \A c \in Calls : Making(c) =>
        /\ cteam[c] \notin gone
        /\ \A d \in Calls : Making(d) /\ cteam[d] = cteam[c] => d = c

\* The user has answered an invitation of the team it is in.
Invited(u) ==
    \E i \in 1..ninvs : iuser[i] = u /\ iteam[i] = teamOf[u] /\ istatus[i] # "pending"

\* The team of the user is there, and no call will take it back.
Settled(u) ==
    /\ teamOf[u] \in 1..nteams /\ teamOf[u] \notin gone
    /\ \A c \in Calls : cpc[c] \in {"join", "undo"} => cteam[c] # teamOf[u]

MembersInv ==
    /\ MakesItsOwn
    /\ \A u \in Users : teamOf[u] # NoTeam => Invited(u) \/ Settled(u)

\* No call starts to make or to take back a team in this step.
NoNewMaker ==
    \A c \in Calls :
        /\ Making(c)' => Making(c) /\ cteam'[c] = cteam[c]
        /\ cpc'[c] \in {"join", "undo"} => cpc[c] \in {"join", "undo"}

\* Invitations stay, and none is opened again.
AnswersStay ==
    \A i \in 1..ninvs :
        /\ i \in 1..ninvs' /\ iuser'[i] = iuser[i] /\ iteam'[i] = iteam[i]
        /\ istatus[i] # "pending" => istatus'[i] # "pending"

LEMMA InitMembers == Init => MembersInv
BY DEF Init, MembersInv, MakesItsOwn, Making

\* Nobody gets a row, no team goes, and no call has made one.
LEMMA QuietMembers ==
    ASSUME IInv, MembersInv, NoNewMaker, AnswersStay, gone' = gone,
           nteams' \in Nat, nteams <= nteams',
           \A u \in Users : teamOf'[u] \in {teamOf[u], NoTeam}
    PROVE  MembersInv'
<1>1. MakesItsOwn'
  BY DEF MembersInv, MakesItsOwn, NoNewMaker
<1>2. ASSUME NEW u \in Users, teamOf'[u] # NoTeam PROVE Invited(u)' \/ Settled(u)'
  <2>1. teamOf'[u] = teamOf[u] /\ teamOf[u] # NoTeam
    BY <1>2
  <2>2. CASE Invited(u)
    BY <2>1, <2>2 DEF Invited, AnswersStay
  <2>3. CASE Settled(u)
    BY <2>1, <2>3 DEF Settled, NoNewMaker, Making, IInv, TypeOK
  <2> QED
    BY <2>1, <2>2, <2>3 DEF MembersInv
<1> QED
  BY <1>1, <1>2 DEF MembersInv

\* The team of a call that is done with it is settled.
LEMMA JoinedMembers ==
    ASSUME IInv, MembersInv, NEW c \in Calls, cpc[c] \in {"join", "adminJoin"},
           InsertMember(cuser[c], cteam[c]), End(c), UNCHANGED <<teams, invitations>>
    PROVE  MembersInv'
<1> USE UsersAssumption, BoundsAssumption DEF IInv, TypeOK, Teams, Invs, NoTeam, NoInv, Steps,
    InsertMember, End, teams, invitations
<1>1. MakesItsOwn'
  BY DEF MembersInv, MakesItsOwn, Making
<1>2. cuser[c] \in Users /\ cteam[c] \in 1..nteams /\ cteam[c] \notin gone
  BY DEF Rows, MembersInv, MakesItsOwn, Making
<1>3. \A d \in Calls : cpc'[d] \in {"join", "undo"} => /\ cpc[d] \in {"join", "undo"}
                                                       /\ cteam'[d] = cteam[d] /\ d # c
  OBVIOUS
<1>4. \A d \in Calls : cpc'[d] \in {"join", "undo"} => cteam'[d] # cteam[c]
  BY <1>3 DEF MembersInv, MakesItsOwn, Making
<1>5. teamOf'[cuser[c]] = cteam[c]
  BY <1>2
<1>6. ASSUME NEW u \in Users, u = cuser[c] PROVE Settled(u)'
  BY <1>2, <1>4, <1>5, <1>6 DEF Settled
<1>7. ASSUME NEW u \in Users, u # cuser[c], teamOf'[u] # NoTeam PROVE Invited(u)' \/ Settled(u)'
  <2>1. teamOf'[u] = teamOf[u]
    BY <1>7
  <2>2. Invited(u) \/ Settled(u)
    BY <1>7, <2>1 DEF MembersInv
  <2>3. Invited(u) => Invited(u)'
    BY <2>1 DEF Invited
  <2>4. Settled(u) => Settled(u)'
    BY <2>1, <1>3 DEF Settled
  <2> QED
    BY <2>2, <2>3, <2>4
<1> QED
  BY <1>1, <1>6, <1>7 DEF MembersInv

\* A team made by call c is a new one.
LEMMA MadeMembers ==
    ASSUME IInv, MembersInv, NEW c \in Calls, nteams < MaxTeams, nteams' = nteams + 1,
           Making(c)', cteam'[c] = nteams + 1,
           \A d \in Calls \ {c} : cpc'[d] = cpc[d] /\ cteam'[d] = cteam[d],
           UNCHANGED <<gone, teamOf, invitations>>
    PROVE  MembersInv'
<1> USE UsersAssumption, BoundsAssumption DEF IInv, TypeOK, Teams, Invs, NoTeam, Steps, invitations
<1>1. nteams + 1 \notin gone /\ \A d \in Calls : Making(d) => cteam[d] # nteams + 1
  BY DEF Rows, Making
<1>2. MakesItsOwn'
  BY <1>1 DEF MembersInv, MakesItsOwn, Making
<1>3. ASSUME NEW u \in Users, teamOf'[u] # NoTeam PROVE Invited(u)' \/ Settled(u)'
  <2>1. Invited(u) \/ Settled(u)
    BY <1>3 DEF MembersInv
  <2>2. Invited(u) => Invited(u)'
    BY DEF Invited
  <2>3. Settled(u) => Settled(u)'
    BY <1>1 DEF Settled, Making
  <2> QED
    BY <2>1, <2>2, <2>3
<1> QED
  BY <1>2, <1>3 DEF MembersInv

\* The team that is taken back is no member's but through an invitation.
LEMMA UndoneMembers == ASSUME IInv, MembersInv, NEW c \in Calls, UndoTeam(c) PROVE MembersInv'
<1> USE DEF IInv, TypeOK, Steps, UndoTeam, End, invitations
<1>1. MakesItsOwn'
  BY DEF MembersInv, MakesItsOwn, Making
<1>2. ASSUME NEW u \in Users, teamOf'[u] # NoTeam PROVE Invited(u)' \/ Settled(u)'
  <2>1. Invited(u) \/ Settled(u)
    BY <1>2 DEF MembersInv
  <2>2. Invited(u) => Invited(u)'
    BY DEF Invited
  <2>3. Settled(u) => Settled(u)'
    BY DEF Settled
  <2> QED
    BY <2>1, <2>2, <2>3
<1> QED
  BY <1>1, <1>2 DEF MembersInv

\* Who accepts an invitation has answered it.
LEMMA AcceptedMembers == ASSUME IInv, MembersInv, NEW c \in Calls, CommitAccept(c) PROVE MembersInv'
<1> USE UsersAssumption, BoundsAssumption DEF IInv, TypeOK, Teams, Invs, NoTeam, NoInv, Steps,
    CommitAccept, InsertMember, End, teams
<1>1. MakesItsOwn'
  BY DEF MembersInv, MakesItsOwn, Making
<1>2. /\ cinv[c] \in 1..ninvs /\ cuser[c] = iuser[cinv[c]] /\ cteam[c] = iteam[cinv[c]]
      /\ cuser[c] \in Users
  BY DEF Rows
<1>3. teamOf'[cuser[c]] = cteam[c] /\ istatus'[cinv[c]] = "accepted"
  BY <1>2
<1>4. ASSUME NEW u \in Users, u = cuser[c] PROVE Invited(u)'
  BY <1>2, <1>3, <1>4 DEF Invited
<1>5. ASSUME NEW u \in Users, u # cuser[c], teamOf'[u] # NoTeam PROVE Invited(u)' \/ Settled(u)'
  <2>1. teamOf'[u] = teamOf[u]
    BY <1>5
  <2>2. Invited(u) \/ Settled(u)
    BY <1>5, <2>1 DEF MembersInv
  <2>3. Invited(u) => Invited(u)'
    BY <2>1 DEF Invited
  <2>4. Settled(u) => Settled(u)'
    BY <2>1 DEF Settled
  <2> QED
    BY <2>2, <2>3, <2>4
<1> QED
  BY <1>1, <1>4, <1>5 DEF MembersInv

LEMMA BegunMembers ==
    ASSUME IInv, MembersInv, NEW c \in Calls, NEW pc \in Steps \ {"join", "undo", "adminJoin"},
           NEW u, NEW t, NEW i, NEW a, Begin(c, pc, u, t, i, a),
           UNCHANGED <<teams, teamOf, invitations>>
    PROVE  MembersInv'
<1> USE DEF IInv, TypeOK, teams, invitations
<1>1. NoNewMaker
  BY DEF NoNewMaker, Making, Begin
<1>2. AnswersStay /\ nteams \in Nat
  BY BoundsAssumption DEF AnswersStay
<1> QED
  BY <1>1, <1>2, QuietMembers

LEMMA AnsweredMembers ==
    ASSUME IInv, MembersInv, NEW c \in Calls,
           End(c) \/ (\E pc \in Steps \ {"join", "undo", "adminJoin"} : Goto(c, pc)),
           AnswersStay, UNCHANGED <<nteams, gone>>,
           \A u \in Users : teamOf'[u] \in {teamOf[u], NoTeam}
    PROVE  MembersInv'
<1> USE DEF IInv, TypeOK
<1>1. NoNewMaker
  BY DEF NoNewMaker, Making, End, Goto
<1>2. nteams \in Nat
  BY BoundsAssumption
<1> QED
  BY <1>1, <1>2, QuietMembers

LEMMA SameAnswers == ASSUME UNCHANGED invitations PROVE AnswersStay
BY DEF AnswersStay, invitations

LEMMA JoinOwnTeamMembers == ASSUME IInv, MembersInv, NEW c \in Calls, JoinOwnTeam(c) PROVE MembersInv'
<1> USE DEF JoinOwnTeam
<1>1. CASE InsertMember(cuser[c], cteam[c]) /\ End(c)
  BY <1>1, JoinedMembers
<1>2. CASE Goto(c, "undo") /\ UNCHANGED teamOf
  <2>1. NoNewMaker
    BY <1>2 DEF NoNewMaker, Making, Goto, IInv, TypeOK
  <2>2. AnswersStay /\ nteams \in Nat
    BY SameAnswers, BoundsAssumption DEF IInv, TypeOK
  <2> QED
    BY <1>2, <2>1, <2>2, QuietMembers DEF teams
<1> QED
  BY <1>1, <1>2

LEMMA WrittenMembers ==
    ASSUME IInv, MembersInv, NEW c \in Calls,
           DeleteMember(c) \/ InsertInvitation(c) \/ WriteDecline(c)
    PROVE  MembersInv'
<1> USE UsersAssumption, BoundsAssumption DEF IInv, TypeOK, Invs, Teams, NoTeam
<1>1. CASE DeleteMember(c)
  <2>1. AnswersStay
    BY <1>1, SameAnswers DEF DeleteMember
  <2>2. \A u \in Users : teamOf'[u] \in {teamOf[u], NoTeam}
    BY <1>1 DEF DeleteMember
  <2> QED
    BY <1>1, <2>1, <2>2, AnsweredMembers DEF DeleteMember, teams
<1>2. CASE InsertInvitation(c)
  <2>1. AnswersStay
    BY <1>2 DEF InsertInvitation, AnswersStay
  <2> QED
    BY <1>2, <2>1, AnsweredMembers DEF InsertInvitation, teams
<1>3. CASE WriteDecline(c)
  <2>1. AnswersStay
    BY <1>3 DEF WriteDecline, AnswersStay, Rows
  <2> QED
    BY <1>3, <2>1, AnsweredMembers DEF WriteDecline, teams
<1> QED
  BY <1>1, <1>2, <1>3

LEMMA StepMembers == ASSUME IInv, MembersInv, [Next]_vars PROVE MembersInv'
<1> USE DEF Steps
<1>1. CASE \E c \in Calls, u \in Users : CreateTeam(c, u)
  BY <1>1, BegunMembers DEF CreateTeam
<1>2. CASE \E c \in Calls, u \in Users : AdminCreateTeam(c, u)
  <2>1. PICK c \in Calls, u \in Users : AdminCreateTeam(c, u)
    BY <1>2
  <2>2. /\ Making(c)' /\ cteam'[c] = nteams + 1
        /\ \A d \in Calls \ {c} : cpc'[d] = cpc[d] /\ cteam'[d] = cteam[d]
    BY <2>1 DEF AdminCreateTeam, Begin, Making, IInv, TypeOK
  <2> QED
    BY <2>1, <2>2, MadeMembers DEF AdminCreateTeam, NewTeam
<1>3. CASE \E c \in Calls : InsertTeam(c)
  <2>1. PICK c \in Calls : InsertTeam(c)
    BY <1>3
  <2>2. /\ Making(c)' /\ cteam'[c] = nteams + 1
        /\ \A d \in Calls \ {c} : cpc'[d] = cpc[d] /\ cteam'[d] = cteam[d]
    BY <2>1 DEF InsertTeam, Making, IInv, TypeOK
  <2> QED
    BY <2>1, <2>2, MadeMembers DEF InsertTeam, NewTeam
<1>4. CASE \E c \in Calls : JoinOwnTeam(c)
  BY <1>4, JoinOwnTeamMembers
<1>5. CASE \E c \in Calls : UndoTeam(c)
  BY <1>5, UndoneMembers
<1>6. CASE \E c \in Calls : AdminJoinTeam(c)
  BY <1>6, JoinedMembers DEF AdminJoinTeam
<1>7. CASE \E c \in Calls : GiveUp(c)
  BY <1>7, AnsweredMembers, SameAnswers DEF GiveUp, teams
<1>8. CASE \E u \in Users : StartTesting(u)
  <2>1. NoNewMaker /\ nteams' = nteams + 1 /\ UNCHANGED <<gone, teamOf>> /\ AnswersStay
    BY <1>8, SameAnswers DEF StartTesting, NewTeam, NoNewMaker, Making, calls
  <2> QED
    BY <2>1, QuietMembers, BoundsAssumption DEF IInv, TypeOK
<1>9. CASE \E c \in Calls, t \in Teams, u \in Users : LeaveMember(c, t, u)
  BY <1>9, BegunMembers DEF LeaveMember
<1>10. CASE \E c \in Calls, t \in Teams, u \in Users : ChangeCaptain(c, t, u)
  BY <1>10, BegunMembers DEF ChangeCaptain
<1>11. CASE \E c \in Calls, t \in Teams, u \in Users : CreateInvitation(c, t, u)
  BY <1>11, BegunMembers DEF CreateInvitation
<1>12. CASE \E c \in Calls : DeleteMember(c) \/ InsertInvitation(c) \/ WriteDecline(c)
  BY <1>12, WrittenMembers
<1>13. CASE \E c \in Calls : CheckMember(c)
  BY <1>13, AnsweredMembers, SameAnswers DEF CheckMember, teams
<1>14. CASE \E c \in Calls : CheckOther(c)
  BY <1>14, AnsweredMembers, SameAnswers DEF CheckOther, teams
<1>15. CASE \E c \in Calls : Promote(c)
  BY <1>15, AnsweredMembers, SameAnswers DEF Promote
<1>16. CASE \E c \in Calls : CheckInvited(c)
  BY <1>16, AnsweredMembers, SameAnswers DEF CheckInvited, teams
<1>17. CASE \E c \in Calls, i \in Invs : AcceptInvitation(c, i)
  BY <1>17, BegunMembers DEF AcceptInvitation
<1>18. CASE \E c \in Calls, i \in Invs : DeclineInvitation(c, i)
  BY <1>18, BegunMembers DEF DeclineInvitation
<1>19. CASE \E c \in Calls : CommitAccept(c)
  BY <1>19, AcceptedMembers
<1>20. CASE UNCHANGED vars
  BY <1>20 DEF MembersInv, MakesItsOwn, Making, Invited, Settled, vars, teams, invitations, calls
<1> QED
  BY <1>1, <1>2, <1>3, <1>4, <1>5, <1>6, <1>7, <1>8, <1>9, <1>10, <1>11, <1>12, <1>13, <1>14, <1>15, <1>16, <1>17, <1>18, <1>19, <1>20 DEF Next

\* A team that is taken back (CreateTeam, service.go:157) keeps nobody in it
\* but who has answered its invitation (Teams.OnlyInvitedAreStranded).
THEOREM StrandedCorrect == Spec => []OnlyInvitedAreStranded
<1>1. IInv /\ MembersInv => OnlyInvitedAreStranded
  BY BoundsAssumption DEF IInv, TypeOK, MembersInv, Invited, Settled, OnlyInvitedAreStranded, Teams, NoTeam
<1>2. IInv /\ MembersInv /\ [Next]_vars => MembersInv'
  BY StepMembers
<1> QED
  BY InitMembers, Invariance, <1>1, <1>2, PTL DEF Spec
=============================================================================
