------------------------------- MODULE Teams -------------------------------
(***************************************************************************)
(* Teams, their captains and members, and invitations                      *)
(* (src/internal/domain/team).  Every operation reads first and writes     *)
(* later, in separate statements: a call is cut at each of them, and the   *)
(* only transaction is the one that accepts an invitation.  A call may end *)
(* after any statement: a statement fails, the client goes away and the    *)
(* request's context is cancelled, or the process stops.                   *)
(*                                                                         *)
(* The unique index on team_members.user_id (migrations/000061) is in the  *)
(* shape of the state: a user has one row at most, so teamOf is a          *)
(* function.  A team row is deleted softly; its members' rows stay.        *)
(***************************************************************************)
EXTENDS Naturals

CONSTANTS
    Users,
    Admins,     \* users with the role "admin": they manage every team
    NoUser,
    Calls,      \* requests that are handled at the same time
    MaxTeams,   \* bound: team rows
    MaxInvs     \* bound: invitation rows

ASSUME UsersAssumption == Admins \subseteq Users /\ NoUser \notin Users
ASSUME BoundsAssumption == MaxTeams \in Nat /\ MaxInvs \in Nat

Teams == 1..MaxTeams
Invs == 1..MaxInvs
NoTeam == 0
NoInv == 0

VARIABLES
    nteams,     \* team rows inserted so far
    captain,    \* team -> teams.captain_id
    gone,       \* teams deleted softly
    teamOf,     \* user -> the team of its row in team_members
    ninvs,      \* invitation rows inserted so far
    iteam,      \* invitation -> its team
    iuser,      \* invitation -> its user
    istatus,    \* invitation -> its status
    cpc,        \* call -> what it does next
    cuser,      \* call -> the user it is about
    cteam,      \* call -> the team it is about
    cinv,       \* call -> the invitation it is about
    cwho,       \* call -> the captain a removal read; who takes a team over
    left        \* history: changes of captain whose new captain lost its row
                \* after the call had seen it

teams == <<nteams, captain, gone>>
invitations == <<ninvs, iteam, iuser, istatus>>
calls == <<cpc, cuser, cteam, cinv, cwho>>
vars == <<teams, teamOf, invitations, calls, left>>

Steps == {"idle", "insertTeam", "join", "undo", "adminJoin", "delete",
          "member", "other", "promote", "uninvited", "invite",
          "accept", "decline"}

TypeOK ==
    /\ nteams \in 0..MaxTeams
    /\ captain \in [Teams -> Users \cup {NoUser}]
    /\ gone \in SUBSET Teams
    /\ teamOf \in [Users -> Teams \cup {NoTeam}]
    /\ ninvs \in 0..MaxInvs
    /\ iteam \in [Invs -> Teams \cup {NoTeam}]
    /\ iuser \in [Invs -> Users \cup {NoUser}]
    /\ istatus \in [Invs -> {"none", "pending", "accepted", "declined"}]
    /\ cpc \in [Calls -> Steps]
    /\ cuser \in [Calls -> Users \cup {NoUser}]
    /\ cteam \in [Calls -> Teams \cup {NoTeam}]
    /\ cinv \in [Calls -> Invs \cup {NoInv}]
    /\ cwho \in [Calls -> Users \cup {NoUser}]
    /\ left \in SUBSET Calls
    /\ gone \subseteq 1..nteams
    /\ \A t \in Teams : t <= nteams <=> captain[t] \in Users
    /\ \A i \in Invs : /\ i <= ninvs <=> istatus[i] # "none"
                       /\ i <= ninvs => iuser[i] \in Users /\ iteam[i] \in 1..nteams

Init ==
    /\ nteams = 0 /\ gone = {} /\ ninvs = 0 /\ left = {}
    /\ captain = [t \in Teams |-> NoUser]
    /\ teamOf = [u \in Users |-> NoTeam]
    /\ iteam = [i \in Invs |-> NoTeam]
    /\ iuser = [i \in Invs |-> NoUser]
    /\ istatus = [i \in Invs |-> "none"]
    /\ cpc = [c \in Calls |-> "idle"]
    /\ cuser = [c \in Calls |-> NoUser]
    /\ cteam = [c \in Calls |-> NoTeam]
    /\ cinv = [c \in Calls |-> NoInv]
    /\ cwho = [c \in Calls |-> NoUser]

-----------------------------------------------------------------------------
\* What the statements read.

Live(t) == t \in 1..nteams /\ t \notin gone

\* GetTeamsByUserID: live teams the user is captain or member of.
TeamsOf(u) == {t \in Teams : Live(t) /\ (captain[t] = u \/ teamOf[u] = t)}

\* userInOtherTeam.
InOtherTeam(u, t) == TeamsOf(u) \ {t} # {}

\* CanManageTeam.
CanManage(t, a) == a \in Admins \/ (Live(t) /\ captain[t] = a)

\* GetByTeamAndUser: the first row there is, whatever its status.
FirstInv(t, u) ==
    {i \in 1..ninvs : /\ iteam[i] = t /\ iuser[i] = u
                      /\ \A j \in 1..(i - 1) : ~(iteam[j] = t /\ iuser[j] = u)}

-----------------------------------------------------------------------------
\* How a call goes on.

Begin(c, pc, u, t, i, a) ==
    /\ cpc[c] = "idle"
    /\ cpc' = [cpc EXCEPT ![c] = pc]
    /\ cuser' = [cuser EXCEPT ![c] = u]
    /\ cteam' = [cteam EXCEPT ![c] = t]
    /\ cinv' = [cinv EXCEPT ![c] = i]
    /\ cwho' = [cwho EXCEPT ![c] = a]

Goto(c, pc) ==
    /\ cpc' = [cpc EXCEPT ![c] = pc]
    /\ UNCHANGED <<cuser, cteam, cinv, cwho>>

\* The call is answered; what it knew is gone.
End(c) ==
    /\ cpc' = [cpc EXCEPT ![c] = "idle"]
    /\ cuser' = [cuser EXCEPT ![c] = NoUser]
    /\ cteam' = [cteam EXCEPT ![c] = NoTeam]
    /\ cinv' = [cinv EXCEPT ![c] = NoInv]
    /\ cwho' = [cwho EXCEPT ![c] = NoUser]

\* A statement fails or refuses, or the request is cut off.
GiveUp(c) ==
    /\ cpc[c] # "idle"
    /\ End(c)
    /\ left' = left \ {c}
    /\ UNCHANGED <<teams, teamOf, invitations>>

-----------------------------------------------------------------------------
\* A new team.

\* The insertion of a team row with captain u.
NewTeam(u) ==
    /\ nteams < MaxTeams
    /\ nteams' = nteams + 1
    /\ captain' = [captain EXCEPT ![nteams + 1] = u]
    /\ UNCHANGED gone

\* CreateTeam looks whether the captain-to-be is in a team.
CreateTeam(c, u) ==
    /\ nteams < MaxTeams
    /\ ~InOtherTeam(u, NoTeam)
    /\ Begin(c, "insertTeam", u, NoTeam, NoInv, NoUser)
    /\ UNCHANGED <<teams, teamOf, invitations, left>>

InsertTeam(c) ==
    /\ cpc[c] = "insertTeam"
    /\ NewTeam(cuser[c])
    /\ cpc' = [cpc EXCEPT ![c] = "join"]
    /\ cteam' = [cteam EXCEPT ![c] = nteams + 1]
    /\ UNCHANGED <<cuser, cinv, cwho, teamOf, invitations, left>>

\* INSERT INTO team_members ... ON CONFLICT (user_id) DO NOTHING, for the
\* case that a row is inserted.
InsertMember(u, t) ==
    /\ teamOf[u] = NoTeam
    /\ teamOf' = [teamOf EXCEPT ![u] = t]

\* Mutant: the team is taken back after its captain has joined it, too.
JoinOwnTeam_AlsoUndone(c) ==
    /\ cpc[c] = "join"
    /\ InsertMember(cuser[c], cteam[c]) \/ UNCHANGED teamOf
    /\ Goto(c, "undo")
    /\ UNCHANGED <<teams, invitations, left>>

\* The captain's own row; without it the new team is taken back.
JoinOwnTeam(c) ==
    /\ cpc[c] = "join"
    /\ \/ InsertMember(cuser[c], cteam[c]) /\ End(c)
       \/ Goto(c, "undo") /\ UNCHANGED teamOf
    /\ UNCHANGED <<teams, invitations, left>>

UndoTeam(c) ==
    /\ cpc[c] = "undo"
    /\ gone' = gone \cup {cteam[c]}
    /\ End(c)
    /\ UNCHANGED <<nteams, captain, teamOf, invitations, left>>

\* The administrators' CreateTeam looks at nothing ...
AdminCreateTeam(c, u) ==
    /\ NewTeam(u)
    /\ Begin(c, "adminJoin", u, nteams + 1, NoInv, NoUser)
    /\ UNCHANGED <<teamOf, invitations, left>>

\* ... and keeps the team when its captain cannot join it (GiveUp).
AdminJoinTeam(c) ==
    /\ cpc[c] = "adminJoin"
    /\ InsertMember(cuser[c], cteam[c])
    /\ End(c)
    /\ UNCHANGED <<teams, invitations, left>>

\* The test run of a game makes a team whose captain has no row.
StartTesting(u) ==
    /\ NewTeam(u)
    /\ UNCHANGED <<teamOf, invitations, calls, left>>

-----------------------------------------------------------------------------
\* Members that leave, captains that change.

\* Mutant: the captain may leave as well.
LeaveMember_Captain(c, t, u) ==
    /\ Live(t)
    /\ Begin(c, "delete", u, t, NoInv, captain[t])
    /\ UNCHANGED <<teams, teamOf, invitations, left>>

\* LeaveMember, and RemoveMember by one who manages the team, up to the
\* last read of the captain.
LeaveMember(c, t, u) ==
    /\ Live(t) /\ captain[t] # u
    /\ Begin(c, "delete", u, t, NoInv, captain[t])
    /\ UNCHANGED <<teams, teamOf, invitations, left>>

\* DELETE FROM team_members WHERE team_id = ? AND user_id = ?.
DeleteMember(c) ==
    /\ cpc[c] = "delete"
    /\ teamOf' = IF teamOf[cuser[c]] = cteam[c]
                 THEN [teamOf EXCEPT ![cuser[c]] = NoTeam] ELSE teamOf
    /\ left' = IF teamOf[cuser[c]] = cteam[c]
               THEN left \cup {d \in Calls : /\ cpc[d] \in {"other", "promote"}
                                             /\ cuser[d] = cuser[c]
                                             /\ cteam[d] = cteam[c]}
               ELSE left
    /\ End(c)
    /\ UNCHANGED <<teams, invitations>>

\* ChangeCaptain by one who manages the team; an actor that takes it over is
\* not asked to be a member.
ChangeCaptain(c, t, u) ==
    /\ \/ /\ \E a \in Users \ {u} : CanManage(t, a)
          /\ Begin(c, "member", u, t, NoInv, NoUser)
       \/ CanManage(t, u) /\ Begin(c, "other", u, t, NoInv, u)
    /\ UNCHANGED <<teams, teamOf, invitations, left>>

\* IsMember.
CheckMember(c) ==
    /\ cpc[c] = "member"
    /\ teamOf[cuser[c]] = cteam[c]
    /\ Goto(c, "other")
    /\ UNCHANGED <<teams, teamOf, invitations, left>>

CheckOther(c) ==
    /\ cpc[c] = "other"
    /\ ~InOtherTeam(cuser[c], cteam[c])
    /\ Goto(c, "promote")
    /\ UNCHANGED <<teams, teamOf, invitations, left>>

\* The update changes a live row, whoever its captain is by now.
Promote(c) ==
    /\ cpc[c] = "promote"
    /\ captain' = IF Live(cteam[c]) THEN [captain EXCEPT ![cteam[c]] = cuser[c]]
                  ELSE captain
    /\ End(c)
    /\ left' = left \ {c}
    /\ UNCHANGED <<nteams, gone, teamOf, invitations>>

-----------------------------------------------------------------------------
\* Invitations.

\* CreateInvitation is for the captain of a live team, and not to itself.
CreateInvitation(c, t, u) ==
    /\ ninvs < MaxInvs
    /\ Live(t) /\ captain[t] # u
    /\ Begin(c, "uninvited", u, t, NoInv, NoUser)
    /\ UNCHANGED <<teams, teamOf, invitations, left>>

\* Not a member, and the first invitation there was is no longer open.
CheckInvited(c) ==
    /\ cpc[c] = "uninvited"
    /\ teamOf[cuser[c]] # cteam[c]
    /\ \A i \in FirstInv(cteam[c], cuser[c]) : istatus[i] # "pending"
    /\ Goto(c, "invite")
    /\ UNCHANGED <<teams, teamOf, invitations, left>>

InsertInvitation(c) ==
    /\ cpc[c] = "invite"
    /\ ninvs < MaxInvs
    /\ ninvs' = ninvs + 1
    /\ iteam' = [iteam EXCEPT ![ninvs + 1] = cteam[c]]
    /\ iuser' = [iuser EXCEPT ![ninvs + 1] = cuser[c]]
    /\ istatus' = [istatus EXCEPT ![ninvs + 1] = "pending"]
    /\ End(c)
    /\ UNCHANGED <<teams, teamOf, left>>

\* AcceptInvitation of an open invitation by its user, who is in no other
\* team. The two reads are one step: an invitation that is closed between
\* them is not open again, and the transaction will see that.
AcceptInvitation(c, i) ==
    /\ istatus[i] = "pending"
    /\ ~InOtherTeam(iuser[i], iteam[i])
    /\ Begin(c, "accept", iuser[i], iteam[i], i, NoUser)
    /\ UNCHANGED <<teams, teamOf, invitations, left>>

\* Mutant: the transaction does not look at the status again.
CommitAccept_Unclaimed(c) ==
    /\ cpc[c] = "accept"
    /\ istatus' = [istatus EXCEPT ![cinv[c]] = "accepted"]
    /\ InsertMember(cuser[c], cteam[c])
    /\ End(c)
    /\ UNCHANGED <<teams, ninvs, iteam, iuser, left>>

\* The transaction: the invitation is claimed while it is open and
\* the row is inserted, or neither.
CommitAccept(c) ==
    /\ cpc[c] = "accept"
    /\ istatus[cinv[c]] = "pending"
    /\ istatus' = [istatus EXCEPT ![cinv[c]] = "accepted"]
    /\ InsertMember(cuser[c], cteam[c])
    /\ End(c)
    /\ UNCHANGED <<teams, ninvs, iteam, iuser, left>>

DeclineInvitation(c, i) ==
    /\ istatus[i] = "pending"
    /\ Begin(c, "decline", iuser[i], iteam[i], i, NoUser)
    /\ UNCHANGED <<teams, teamOf, invitations, left>>

\* UpdateStatus looks at the status no more.
WriteDecline(c) ==
    /\ cpc[c] = "decline"
    /\ istatus' = [istatus EXCEPT ![cinv[c]] = "declined"]
    /\ End(c)
    /\ UNCHANGED <<teams, teamOf, ninvs, iteam, iuser, left>>

-----------------------------------------------------------------------------
Next ==
    \/ \E c \in Calls, u \in Users : CreateTeam(c, u) \/ AdminCreateTeam(c, u)
    \/ \E c \in Calls : \/ InsertTeam(c) \/ JoinOwnTeam(c) \/ UndoTeam(c)
                        \/ AdminJoinTeam(c) \/ GiveUp(c)
    \/ \E u \in Users : StartTesting(u)
    \/ \E c \in Calls, t \in Teams, u \in Users :
          LeaveMember(c, t, u) \/ ChangeCaptain(c, t, u) \/ CreateInvitation(c, t, u)
    \/ \E c \in Calls : \/ DeleteMember(c) \/ CheckMember(c) \/ CheckOther(c)
                        \/ Promote(c)
    \/ \E c \in Calls : CheckInvited(c) \/ InsertInvitation(c)
    \/ \E c \in Calls, i \in Invs : AcceptInvitation(c, i) \/ DeclineInvitation(c, i)
    \/ \E c \in Calls : CommitAccept(c) \/ WriteDecline(c)

Spec == Init /\ [][Next]_vars

-----------------------------------------------------------------------------
\* Properties.

\* Invitation i lets its user in: it is closed as accepted in this step.
Admits(i) == istatus[i] = "pending" /\ istatus'[i] = "accepted"

\* A user gets into a team from no team only, and through one open invitation
\* of that team to that user, used up by the same step, or as the captain of
\* the team a call has just made; and no invitation is accepted otherwise,
\* however the acceptances of one invitation, of two, and a creation race
\* (AcceptInvitation, CreateTeam).
AdmitsOnce ==
    /\ \A i \in Invs : istatus[i] # "accepted" /\ istatus'[i] = "accepted" =>
          Admits(i) /\ teamOf'[iuser[i]] = iteam[i] /\ teamOf[iuser[i]] = NoTeam
    /\ \A u \in Users : teamOf'[u] \notin {teamOf[u], NoTeam} =>
          /\ teamOf[u] = NoTeam
          /\ \/ \E i \in Invs : /\ Admits(i) /\ iuser[i] = u /\ iteam[i] = teamOf'[u]
                                /\ \A j \in Invs : Admits(j) => j = i
             \/ \E c \in Calls : /\ cpc[c] \in {"join", "adminJoin"}
                                 /\ cuser[c] = u /\ cteam[c] = teamOf'[u]

AdmittedOnce == [][AdmitsOnce]_vars

HasOwnRow(t) == captain[t] \in Users /\ teamOf[captain[t]] = t

\* A live team whose captain is its member stays so, and with it the captain
\* stays out of every other team (one row per user), but for two races and a
\* takeover: a removal that had read another captain deletes the row of the
\* new one, a change of captain promotes a member whose row was deleted after
\* it had looked, and an actor takes a team over that it is no member of
\* (LeaveMember, RemoveMember, ChangeCaptain).
KeepsRow ==
    \A t \in Teams : HasOwnRow(t) /\ t \notin gone' /\ ~HasOwnRow(t)' =>
        \E c \in Calls :
           /\ cteam[c] = t /\ cpc'[c] = "idle"
           /\ \/ cpc[c] = "delete" /\ cuser[c] = captain[t] /\ cwho[c] # captain[t]
              \/ cpc[c] = "promote" /\ (c \in left \/ cuser[c] = cwho[c])

CaptainKeepsRow == [][KeepsRow]_vars

\* Taking a new team back (CreateTeam, service.go:157) strands nobody but a
\* user whose invitation by that team was answered: neither the one the team
\* was made for, nor a captain who was made its captain meanwhile, nor anybody
\* of a team that an administrator or a test run has made.
OnlyInvitedAreStranded ==
    \A u \in Users : teamOf[u] \in gone =>
        \E i \in 1..ninvs : /\ iuser[i] = u /\ iteam[i] = teamOf[u]
                            /\ istatus[i] # "pending"

\* What the comments at service.go:132 and :344 are about: a captain is in no
\* other team. A test run and an administrator break it at once, and so do
\* calls that overlap.
CaptainInNoOtherTeam ==
    \A t \in Teams : Live(t) => teamOf[captain[t]] \in {t, NoTeam}

\* What migrations/000061:7 relies on when it calls the index safe: nobody
\* keeps a row of a deleted team, which no operation removes any more. A team
\* that is taken back after it has invited somebody breaks it.
NobodyIsStranded == \A u \in Users : teamOf[u] \notin gone
=============================================================================
