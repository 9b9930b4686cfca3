------------------------------ MODULE GamePlay ------------------------------
(***************************************************************************)
(* One game from the application to the result (internal/domain/game): the *)
(* passings of its teams, their rows of level_progresses, the order of its *)
(* levels, and everybody who writes them: captains and moderators, the     *)
(* players' requests, the timeout sweeps of every instance of the server,  *)
(* the automatic start, and the editor who changes levels during the game. *)
(*                                                                         *)
(* PostgreSQL runs every handler in a READ COMMITTED transaction.  One     *)
(* that takes the row locks of all it reads and writes is a single step.   *)
(* The sweep and the deletion of a level are several, because what they    *)
(* read first is not locked, or not all of it; the rows they have locked   *)
(* are closed to the others in between.  A transaction that fails, or that *)
(* PostgreSQL aborts to break a deadlock, changes nothing.                 *)
(*                                                                         *)
(* Permissions are not modelled: an action is one whose caller was allowed *)
(* it.  A wrong code leaves no trace that any handler reads.               *)
(***************************************************************************)
EXTENDS Naturals, FiniteSets

CONSTANTS
    Teams,          \* teams: UNIQUE(game_id, team_id) makes a passing one of these
    Testers,        \* moderators' test teams, a passing of each
    Levels,         \* level identifiers
    Blackbox,       \* levels whose answers a moderator accepts
    FileUpload,     \* levels that expect a file
    MaxTeamNumber,  \* games.max_team_number
    Sweepers,       \* instances of the server that run CheckTimeouts
    BatchSize,      \* levelProgressBatchSize
    MaxPosition,    \* bound: the highest position of a level
    NoLevel,        \* not a level
    InitialPosition \* the initial order: position of each level, 0 for none

Passings == Teams \cup Testers

ASSUME LevelsAssumption ==
    /\ NoLevel \notin Levels
    /\ Blackbox \cap FileUpload = {}
    /\ Teams \cap Testers = {}
    /\ MaxPosition \in Nat
    /\ InitialPosition \in [Levels -> 0 .. MaxPosition]

VARIABLES
    status,     \* game_passings.status, "none" without a row
    progress,   \* level_progresses: the state of the row of a passing and a level
    position,   \* levels.position, 0 without a row
    reported,   \* passings whose finish a completion callback has followed
    starting,   \* CheckAutoStartGames has seen that no passing is started
    scanned,    \* rows a sweep found timed out, not yet locked
    plan,       \* what a sweep will do with the rows it has finished and locked
    deleting    \* the deletion in progress: its level and the passings it locked

vars == <<status, progress, position, reported, starting, scanned, plan, deleting>>

Status == {"none", "pending", "accepted", "rejected", "started", "finished",
           "disqualified", "testing"}

\* "answered" is an open row with an attempt that waits for a moderator.
Row == {"none", "open", "answered", "done"}

\* A planned step of a sweep: next is the level to open, or NoLevel.
Step == [passing : Passings, level : Levels, next : Levels \cup {NoLevel}]

Idle == [level |-> NoLevel, locked |-> {}]

TypeOK ==
    /\ status \in [Passings -> Status]
    /\ progress \in [Passings -> [Levels -> Row]]
    /\ position \in [Levels -> 0 .. MaxPosition]
    /\ reported \subseteq Passings
    /\ starting \in BOOLEAN
    /\ scanned \in [Sweepers -> SUBSET (Passings \X Levels)]
    /\ plan \in [Sweepers -> SUBSET Step]
    /\ deleting \in [level : Levels \cup {NoLevel}, locked : SUBSET Passings]

Init ==
    /\ status = [p \in Passings |-> "none"]
    /\ progress = [p \in Passings |-> [l \in Levels |-> "none"]]
    /\ position = InitialPosition
    /\ reported = {}
    /\ starting = FALSE
    /\ scanned = [w \in Sweepers |-> {}]
    /\ plan = [w \in Sweepers |-> {}]
    /\ deleting = Idle

-----------------------------------------------------------------------------
(***************************************************************************)
(* What the queries read.                                                  *)
(***************************************************************************)

InOrder == {l \in Levels : position[l] > 0}

\* The level with the lowest position among ls, NoLevel if there is none.
Lowest(ls) ==
    IF ls = {} THEN NoLevel
               ELSE CHOOSE l \in ls : \A m \in ls : position[l] <= position[m]

\* ORDER BY position ASC LIMIT 1
FirstLevel == Lowest(InOrder)

\* position > (SELECT position FROM levels WHERE id = completed)
NextLevel(l) == Lowest({m \in InOrder : position[m] > position[l]})

IsOpen(p, l) == progress[p][l] \in {"open", "answered"}

OpenLevels(p) == {l \in Levels : IsOpen(p, l)}

InStatus(s) == {p \in Passings : status[p] = s}

\* Nobody else holds the row of p and l, or the row of p itself.
RowIsFree(p, l) ==
    /\ p \notin deleting.locked
    /\ \A w \in Sweepers : \A s \in plan[w] : s.passing = p => s.level # l

PassingIsFree(p) ==
    /\ p \notin deleting.locked
    /\ \A l \in OpenLevels(p) : RowIsFree(p, l)

\* CompleteLevel and AdvanceToNextLevel as values: the rows of a passing when
\* its level l is done and next opens.
Advanced(rows, l, next) ==
    [m \in Levels |-> IF m = l THEN "done" ELSE IF m = next THEN "open" ELSE rows[m]]

\* The unique index on (game_passing_id, level_id) refuses a second row.
CanOpen(p, next) == next # NoLevel => progress[p][next] = "none"

\* The rows of a passing when all that is open is closed.
Closed(rows) == [m \in Levels |-> IF rows[m] = "none" THEN "none" ELSE "done"]

\* A completion callback runs CalculateResults for all that are finished.
ReportFinish == reported' = {p \in Passings : status'[p] = "finished"}

-----------------------------------------------------------------------------
(***************************************************************************)
(* Applications and starts.                                                *)
(***************************************************************************)

\* The game's row is locked: the count cannot change before the insert.
Apply(p) ==
    /\ p \in Teams
    /\ status[p] = "none"
    /\ Cardinality({q \in Teams : status[q] \in {"pending", "accepted", "started"}})
         < MaxTeamNumber
    /\ status' = [status EXCEPT ![p] = "pending"]
    /\ UNCHANGED <<progress, position, reported, starting, scanned, plan, deleting>>

\* Mutant: the form's value is stored as it came.
Review_AnyValue(p) ==
    /\ status[p] = "pending"
    /\ \E s \in {"approved", "accepted", "rejected"} : status' = [status EXCEPT ![p] = s]
    /\ UNCHANGED <<progress, position, reported, starting, scanned, plan, deleting>>

\* UpdateStatus, for the two values its handler lets through.
Review(p) ==
    /\ status[p] = "pending"
    /\ \E s \in {"accepted", "rejected"} : status' = [status EXCEPT ![p] = s]
    /\ UNCHANGED <<progress, position, reported, starting, scanned, plan, deleting>>

StartGame(p) ==
    /\ status[p] = "accepted"
    /\ FirstLevel # NoLevel
    /\ CanOpen(p, FirstLevel)
    /\ status' = [status EXCEPT ![p] = "started"]
    /\ progress' = [progress EXCEPT ![p][FirstLevel] = "open"]
    /\ UNCHANGED <<position, reported, starting, scanned, plan, deleting>>

\* CheckAutoStartGames counts the started passings before its transaction.
AutoStartCount ==
    /\ ~starting
    /\ InStatus("started") = {}
    /\ starting' = TRUE
    /\ UNCHANGED <<status, progress, position, reported, scanned, plan, deleting>>

\* Mutant: the passings are started that were not when they were counted.
AutoStart_AlsoStarted ==
    /\ starting
    /\ starting' = FALSE
    /\ FirstLevel # NoLevel
    /\ status' = [p \in Passings |-> IF status[p] = "accepted" THEN "started" ELSE status[p]]
    /\ progress' = [p \in Passings |->
                      IF status[p] \in {"accepted", "started"} /\ progress[p][FirstLevel] = "none"
                      THEN [progress[p] EXCEPT ![FirstLevel] = "open"]
                      ELSE progress[p]]
    /\ UNCHANGED <<position, reported, scanned, plan, deleting>>

\* Its transaction locks the accepted passings and starts them all; a row that
\* exists stays (ON CONFLICT DO NOTHING).
AutoStart ==
    /\ starting
    /\ starting' = FALSE
    /\ IF InStatus("accepted") = {} \/ FirstLevel = NoLevel
       THEN UNCHANGED <<status, progress>>
       ELSE /\ status' = [p \in Passings |->
                            IF status[p] = "accepted" THEN "started" ELSE status[p]]
            /\ progress' = [p \in Passings |->
                              IF status[p] = "accepted" /\ progress[p][FirstLevel] = "none"
                              THEN [progress[p] EXCEPT ![FirstLevel] = "open"]
                              ELSE progress[p]]
    /\ UNCHANGED <<position, reported, scanned, plan, deleting>>

\* A test passing is made with its first level, once for a moderator.
StartTesting(p) ==
    /\ p \in Testers
    /\ status[p] = "none"
    /\ FirstLevel # NoLevel
    /\ status' = [status EXCEPT ![p] = "testing"]
    /\ progress' = [progress EXCEPT ![p][FirstLevel] = "open"]
    /\ UNCHANGED <<position, reported, starting, scanned, plan, deleting>>

-----------------------------------------------------------------------------
(***************************************************************************)
(* Play.  Every handler locks the open progress row first and the passing  *)
(* second; none of those for players looks at the passing's status.        *)
(***************************************************************************)

\* Mutant: the next level's row is written over one that exists.
Complete_Overwrites(p, l) ==
    /\ progress' = [progress EXCEPT ![p] = Advanced(@, l, NextLevel(l))]
    /\ IF NextLevel(l) = NoLevel /\ status[p] # "testing"
       THEN status' = [status EXCEPT ![p] = "finished"] /\ ReportFinish
       ELSE UNCHANGED <<status, reported>>

\* CompleteLevel, then AdvanceToNextLevel: open the next level, or finish the
\* passing after the last one.
Complete(p, l) ==
    /\ CanOpen(p, NextLevel(l))
    /\ progress' = [progress EXCEPT ![p] = Advanced(@, l, NextLevel(l))]
    /\ IF NextLevel(l) = NoLevel /\ status[p] # "testing"
       THEN status' = [status EXCEPT ![p] = "finished"] /\ ReportFinish
       ELSE UNCHANGED <<status, reported>>

\* The right code of an ordinary level; an answer to a black box waits.
SubmitCode(p, l) ==
    /\ IsOpen(p, l)
    /\ RowIsFree(p, l)
    /\ l \notin FileUpload
    /\ IF l \in Blackbox
       THEN /\ progress' = [progress EXCEPT ![p][l] = "answered"]
            /\ UNCHANGED <<status, reported>>
       ELSE Complete(p, l)
    /\ UNCHANGED <<position, starting, scanned, plan, deleting>>

SubmitFile(p, l) ==
    /\ IsOpen(p, l)
    /\ RowIsFree(p, l)
    /\ l \in FileUpload
    /\ progress' = [progress EXCEPT ![p][l] = "answered"]
    /\ UNCHANGED <<status, position, reported, starting, scanned, plan, deleting>>

AcceptBlackboxAnswer(p, l) ==
    /\ progress[p][l] = "answered"
    /\ RowIsFree(p, l)
    /\ l \in Blackbox
    /\ Complete(p, l)
    /\ UNCHANGED <<position, starting, scanned, plan, deleting>>

\* SubmitTestCode and SkipLevelTest: any level of a test passing.
TestLevel(p, l) ==
    /\ IsOpen(p, l)
    /\ RowIsFree(p, l)
    /\ status[p] = "testing"
    /\ Complete(p, l)
    /\ UNCHANGED <<position, starting, scanned, plan, deleting>>

-----------------------------------------------------------------------------
(***************************************************************************)
(* Moderation.                                                             *)
(***************************************************************************)

ForceFinishGame ==
    /\ InStatus("started") # {}
    /\ \A p \in InStatus("started") : PassingIsFree(p)
    /\ status' = [p \in Passings |-> IF status[p] = "started" THEN "finished" ELSE status[p]]
    /\ progress' = [p \in Passings |->
                      IF status[p] = "started" THEN Closed(progress[p]) ELSE progress[p]]
    /\ ReportFinish
    /\ UNCHANGED <<position, starting, scanned, plan, deleting>>

\* Mutant: the status changes without a look at the passing's progress rows.
DisqualifyTeam_KeepsProgress(p) ==
    /\ status[p] = "started"
    /\ p \notin deleting.locked
    /\ status' = [status EXCEPT ![p] = "disqualified"]
    /\ UNCHANGED <<progress, position, reported, starting, scanned, plan, deleting>>

DisqualifyTeam(p) ==
    /\ status[p] = "started"
    /\ PassingIsFree(p)
    /\ status' = [status EXCEPT ![p] = "disqualified"]
    /\ progress' = [progress EXCEPT ![p] = Closed(@)]
    /\ UNCHANGED <<position, reported, starting, scanned, plan, deleting>>

\* DeleteLevelFromActiveGame locks the started passings and their open rows;
\* it gives up if one of them has none.
DeleteLevelLock(l) ==
    /\ deleting = Idle
    /\ position[l] > 0
    /\ \A p \in InStatus("started") : PassingIsFree(p) /\ OpenLevels(p) # {}
    /\ deleting' = [level |-> l, locked |-> InStatus("started")]
    /\ UNCHANGED <<status, progress, position, reported, starting, scanned, plan>>

\* The passings that a deletion moves off its level.
Moved == {p \in deleting.locked : IsOpen(p, deleting.level)}

\* Then it moves those that are on the level to the next one and deletes every
\* row of the level, also those made since.  No completion callback runs.
DeleteLevel ==
    LET l    == deleting.level
        next == NextLevel(l)
    IN  /\ l # NoLevel
        /\ \A p \in Moved : CanOpen(p, next)
        /\ \A w \in Sweepers : \A s \in plan[w] : s.level # l
        /\ progress' = [p \in Passings |->
              [(IF p \in Moved THEN Advanced(progress[p], l, next) ELSE progress[p])
                 EXCEPT ![l] = "none"]]
        /\ status' = [p \in Passings |->
              IF p \in Moved /\ next = NoLevel THEN "finished" ELSE status[p]]
        /\ position' = [position EXCEPT ![l] = 0]
        /\ deleting' = Idle
        /\ UNCHANGED <<reported, starting, scanned, plan>>

DeleteLevelRollback ==
    /\ deleting # Idle
    /\ deleting' = Idle
    /\ UNCHANGED <<status, progress, position, reported, starting, scanned, plan>>

-----------------------------------------------------------------------------
(***************************************************************************)
(* The editor.  Nothing stops it while the game is played.                 *)
(***************************************************************************)

\* Create: a new level, at the end or at a position that is free.
CreateLevel(l, pos) ==
    /\ position[l] = 0
    /\ \A m \in Levels : position[m] # pos
    /\ position' = [position EXCEPT ![l] = pos]
    /\ UNCHANGED <<status, progress, reported, starting, scanned, plan, deleting>>

\* Update: another position that is free.
UpdateLevel(l, pos) ==
    /\ position[l] > 0
    /\ \A m \in Levels : position[m] # pos
    /\ position' = [position EXCEPT ![l] = pos]
    /\ UNCHANGED <<status, progress, reported, starting, scanned, plan, deleting>>

\* Move: change places with the next level ("up" of one is "down" of the other).
MoveLevel(l) ==
    /\ position[l] > 0
    /\ NextLevel(l) # NoLevel
    /\ position' = [position EXCEPT ![l] = position[NextLevel(l)], ![NextLevel(l)] = position[l]]
    /\ UNCHANGED <<status, progress, reported, starting, scanned, plan, deleting>>

\* Duplicate: the levels behind l make room for its copy m.
DuplicateLevel(l, m) ==
    /\ position[l] > 0
    /\ position[m] = 0
    /\ \A k \in Levels : position[k] < MaxPosition
    /\ position' = [k \in Levels |->
                      IF k = m THEN position[l] + 1
                      ELSE IF position[k] > position[l] THEN position[k] + 1
                      ELSE position[k]]
    /\ UNCHANGED <<status, progress, reported, starting, scanned, plan, deleting>>

-----------------------------------------------------------------------------
(***************************************************************************)
(* checkTimeoutsImpl on one instance.                                      *)
(***************************************************************************)

\* Read, without locks, a batch of open rows whose time is up; the passing's
\* status plays no part.
SweepScan(w) ==
    /\ scanned[w] = {} /\ plan[w] = {}
    /\ \E rows \in SUBSET {r \in Passings \X Levels : IsOpen(r[1], r[2])} :
          /\ rows # {}
          /\ Cardinality(rows) <= BatchSize
          /\ scanned' = [scanned EXCEPT ![w] = rows]
    /\ UNCHANGED <<status, progress, position, reported, starting, plan, deleting>>

\* Mutant: the rows scanned are taken as they are, not those still open.
SweepUpdate_Unchecked(w) ==
    /\ scanned[w] # {}
    /\ \A r \in scanned[w] : RowIsFree(r[1], r[2])
    /\ scanned' = [scanned EXCEPT ![w] = {}]
    /\ plan' = [plan EXCEPT ![w] =
                  {[passing |-> r[1], level |-> r[2], next |-> NextLevel(r[2])] : r \in scanned[w]}]
    /\ UNCHANGED <<status, progress, position, reported, starting, deleting>>

\* Mutant: the rows are read, not locked, so that two sweeps plan the same one.
SweepUpdate_Unlocked(w) ==
    LET rows == {r \in scanned[w] : IsOpen(r[1], r[2])}
    IN  /\ scanned[w] # {}
        /\ scanned' = [scanned EXCEPT ![w] = {}]
        /\ plan' = [plan EXCEPT ![w] =
                      {[passing |-> r[1], level |-> r[2], next |-> NextLevel(r[2])] : r \in rows}]
        /\ UNCHANGED <<status, progress, position, reported, starting, deleting>>

\* UPDATE ... WHERE finished_at IS NULL waits for the rows others hold and
\* keeps those still open; then the levels decide where each passing goes.
SweepUpdate(w) ==
    LET rows == {r \in scanned[w] : IsOpen(r[1], r[2])}
    IN  /\ scanned[w] # {}
        /\ \A r \in rows : RowIsFree(r[1], r[2])
        /\ scanned' = [scanned EXCEPT ![w] = {}]
        /\ plan' = [plan EXCEPT ![w] =
                      {[passing |-> r[1], level |-> r[2], next |-> NextLevel(r[2])] : r \in rows}]
        /\ UNCHANGED <<status, progress, position, reported, starting, deleting>>

\* The step planned for p, if any.
Planned(w, p) == {s \in plan[w] : s.passing = p}

\* Mutant: a passing whose next level cannot be opened is left behind.
SweepCommit_SkipsConflicts(w) ==
    /\ plan[w] # {}
    /\ progress' = [p \in Passings |->
          IF Planned(w, p) = {} THEN progress[p]
          ELSE LET s == CHOOSE s \in Planned(w, p) : TRUE
               IN  Advanced(progress[p], s.level, IF CanOpen(p, s.next) THEN s.next ELSE NoLevel)]
    /\ status' = [p \in Passings |->
          IF status[p] # "testing" /\ \E s \in Planned(w, p) : s.next = NoLevel
          THEN "finished" ELSE status[p]]
    /\ ReportFinish
    /\ plan' = [plan EXCEPT ![w] = {}]
    /\ UNCHANGED <<position, starting, scanned, deleting>>

\* Open the next levels, save the passings that finish, commit.  One next level
\* that is gone, or whose row exists, fails the whole batch.
SweepCommit(w) ==
    /\ plan[w] # {}
    /\ \A s \in plan[w] : /\ CanOpen(s.passing, s.next)
                          /\ s.next # NoLevel => position[s.next] > 0
    /\ progress' = [p \in Passings |->
          IF Planned(w, p) = {} THEN progress[p]
          ELSE LET s == CHOOSE s \in Planned(w, p) : TRUE
               IN  Advanced(progress[p], s.level, s.next)]
    /\ status' = [p \in Passings |->
          IF status[p] # "testing" /\ \E s \in Planned(w, p) : s.next = NoLevel
          THEN "finished" ELSE status[p]]
    /\ IF \E s \in plan[w] : s.next = NoLevel /\ status[s.passing] # "testing"
       THEN ReportFinish
       ELSE UNCHANGED reported
    /\ plan' = [plan EXCEPT ![w] = {}]
    /\ UNCHANGED <<position, starting, scanned, deleting>>

SweepRollback(w) ==
    /\ plan[w] # {}
    /\ plan' = [plan EXCEPT ![w] = {}]
    /\ UNCHANGED <<status, progress, position, reported, starting, scanned, deleting>>

-----------------------------------------------------------------------------

Play ==
    \E p \in Passings, l \in Levels :
        \/ SubmitCode(p, l)
        \/ SubmitFile(p, l)
        \/ AcceptBlackboxAnswer(p, l)
        \/ TestLevel(p, l)

Edit ==
    \/ \E l \in Levels, pos \in 1 .. MaxPosition : CreateLevel(l, pos) \/ UpdateLevel(l, pos)
    \/ \E l \in Levels : MoveLevel(l)
    \/ \E l, m \in Levels : DuplicateLevel(l, m)

Next ==
    \/ \E p \in Passings : Apply(p) \/ Review(p) \/ StartGame(p) \/ StartTesting(p)
                           \/ DisqualifyTeam(p)
    \/ AutoStartCount \/ AutoStart
    \/ Play
    \/ ForceFinishGame
    \/ \E l \in Levels : DeleteLevelLock(l)
    \/ DeleteLevel \/ DeleteLevelRollback
    \/ Edit
    \/ \E w \in Sweepers :
          SweepScan(w) \/ SweepUpdate(w) \/ SweepCommit(w) \/ SweepRollback(w)

Spec == Init /\ [][Next]_vars

-----------------------------------------------------------------------------
(***************************************************************************)
(* Properties.                                                             *)
(***************************************************************************)

\* A team is on one level at a time, whoever advances it: a player's code, a
\* moderator, two sweeps of two instances or the deletion of a level
\* (GetCurrentProgressForUpdate, svc_progress.go:100, and the batch UPDATE, :299).
AtMostOneOpen == \A p \in Passings : Cardinality(OpenLevels(p)) <= 1

\* What a transaction has locked is its own: two sweeps never advance the same
\* passing, the rows they advance are still open, and no sweep advances a passing
\* that a deletion of a level has locked, nor does such a passing leave the game
\* before the deletion ends (svc_progress.go:302-333, svc_admin.go:207-231).
LocksAreExclusive ==
    /\ \A w, v \in Sweepers : \A s \in plan[w], t \in plan[v] :
          s.passing = t.passing => w = v /\ s = t
    /\ \A w \in Sweepers : \A s \in plan[w] :
          IsOpen(s.passing, s.level) /\ s.passing \notin deleting.locked
    /\ \A p \in deleting.locked : status[p] = "started"

\* No level is open in a passing that is not being played: one that is finished
\* or disqualified accepts no code any more, although SubmitCode never looks at
\* the status (svc_play.go:143-192, helpers.go:52).
OpenOnlyInPlay ==
    \A p \in Passings : OpenLevels(p) # {} => status[p] \in {"started", "testing"}

MovesForward(p) ==
    \/ status[p] = "none" /\ status'[p] \in {"pending", "testing"}
    \/ status[p] = "pending" /\ status'[p] \in {"accepted", "rejected"}
    \/ status[p] = "accepted" /\ status'[p] = "started"
    \/ status[p] = "started" /\ status'[p] \in {"finished", "disqualified"}

\* A passing changes its status only as validTransitions has it, so that what
\* was finished, rejected or disqualified stays so; in particular the sweep,
\* which saves a passing it read without a lock, does not bring one back
\* (svc_passing.go:222-230, svc_progress.go:345-456).
StatusMovesForward ==
    [][\A p \in Passings : status'[p] # status[p] => MovesForward(p)]_vars

\* What a team has done stays done, as long as the level exists: nobody plays a
\* level twice, whatever happens to the order of the levels (svc_progress.go:147).
DoneStaysDone ==
    [][\A p \in Passings, l \in Levels :
          progress[p][l] = "done" /\ position'[l] > 0 => progress'[p][l] = "done"]_vars

KeepsOrLosesItsLevel(p) ==
    \/ OpenLevels(p)' # {}
    \/ \E l \in OpenLevels(p) : position'[l] = 0

\* A team that plays loses its level only for the next one, or to the deletion
\* of the level: no step, and no failure in a sweep's batch, leaves it without
\* one (svc_progress.go:336-338).
KeepsALevel ==
    [][\A p \in Passings :
          status[p] = "started" /\ status'[p] = "started" /\ OpenLevels(p) # {}
             => KeepsOrLosesItsLevel(p)]_vars

\* The levels of a passing that are open, and those it has finished.
openLevels == [p \in Passings |-> OpenLevels(p)]
doneLevels == [p \in Passings |-> {l \in Levels : progress[p][l] = "done"}]

Life == INSTANCE PassingLife
          WITH levels <- InOrder, stage <- status, at <- openLevels, done <- doneLevels

\* The game keeps what it promises to every passing: from one level at a time
\* to one not played yet, from the application to one end, whoever writes its
\* rows and whatever they read before (svc_progress.go:100-183, 299-456;
\* svc_passing.go:222-230; svc_admin.go:207-286).
FollowsLife == Life!Spec

\* What the comment at svc_admin.go:237-238 says a deletion sees to: no started
\* passing is left without progress.
StartedHasALevel == \A p \in InStatus("started") : OpenLevels(p) # {}

\* What ProcessSnapshot assumes of a game without active passings
\* (svc_play.go:718-719): the callback of the finish has calculated its results.
FinishIsReported == InStatus("finished") \subseteq reported

=============================================================================
