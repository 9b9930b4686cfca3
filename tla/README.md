# Gengine-0: models, checks and proofs

Gengine-0 is a server for urban quest games, written in Go. Teams apply for a
game, play its levels one after another, run out of time, get a place,
tournament points and a rating; moderators and authors step in while they do.
Around the game there are teams with invitations, payments through YooKassa,
sessions with refresh tokens, and WebSocket rooms that show what happens.
This directory holds TLA+ models of the parts of the server where several
actors write the same rows, TLC configurations that check them on small
instances, and TLAPS proofs of the invariants that matter most.

Paths below are relative to `src/`; `game/` is `internal/domain/game/`,
`tournament/` is `internal/domain/tournament/`, and `payment/`, `team/`, `user/`
are the directories beside it.

1. [The system](#1-the-system)
2. [The modules](#2-the-modules)
3. [The runs](#3-the-runs)
4. [The proofs](#4-the-proofs)
5. [Where code and comments disagree](#5-where-code-and-comments-disagree)
6. [What is not modelled](#6-what-is-not-modelled)
7. [What could come next](#7-what-could-come-next)

How to run (inside this directory):

    tlc -workers 2 -config MCGamePlay.cfg MCGamePlay.tla    # one run
    tlapm GamePlayProofs.tla                                # one module's proofs

`PROJECT.json` lists the components, the runs with their properties, for every
property a mutated definition that breaks it, the source lines of every
definition, the findings, the hazards and the theorems.

## 1. The system

One process serves HTTP; several may run against one PostgreSQL database and,
optionally, one Valkey. Transactions run at the default isolation level, READ
COMMITTED, and protect themselves by `SELECT ... FOR UPDATE`, conditional
UPDATEs, unique indexes and an advisory lock per game. Besides the requests,
four kinds of work run in the background: tickers (timeout sweep, automatic
start, cleanup of dead connections), the goroutines that follow the finish of a
game, debounced recomputations of the monitoring snapshot, and the goroutines
of the WebSocket hub.

### Components that are modelled

| Component | State | Operations | Hard because |
|---|---|---|---|
| Passings (`game/svc_passing.go`) | `game_passings.status` | apply, review, start by captain, automatic start | the automatic start counts before its transaction; the form's statuses |
| Gameplay (`game/svc_play.go`, `svc_attempt.go`, `helpers.go`) | `level_progresses`, `attempts` | right code, file, accepted black-box answer, test code, skipped test level | the handlers look for an open progress row and never at the passing's status |
| Progress and timeouts (`game/svc_progress.go`) | `level_progresses` | complete a level, open the next, sweep in batches | rows are read without a lock, saved later; a batch is committed or rolled back as a whole; several instances sweep |
| Moderation (`game/svc_admin.go`) | passings, progress, levels | force finish, disqualify, delete a level of a running game | locks in different orders; a team may start between the lock and the deletion |
| Level editor (`internal/domain/level/service.go`) | `levels.position` | create, reposition, move, duplicate | nothing stops it while the game is played |
| Tournaments (`tournament/service.go`, `repository.go`) | `tournament_games`, entered teams, `tournament_results`, the arrays `tournament_scored_ids` and `tournament_scored_points` of a passing | add and remove a game, enter a team, award points | checks before the lock, two arrays that must stay parallel, several callbacks for the same passings, tournaments that share a game |
| Completion (`cmd/server/main.go` `onGameFinished`, `game/svc_monitor.go` `CalculateResults`, `game/svc_rating.go`; the edits in `svc_crud.go`, `svc_cover.go`) | `game_passings.place`, the tournament's awards, `games.rating_scored`, `player_ratings` | places, tournament points, ratings, in that order, per callback; edits that save the whole row of a game | one callback per team that finishes, steps that fail alone, contexts that are cancelled, snapshot workers that compute places too, a flag that an edit puts down |
| Snapshot dispatcher (`game/svc_snapshot.go`) | a timer and a version per game | schedule, expiry, flush, close | a timer that has fired cannot be stopped; versions start again after a flush; every event starts the delay anew |
| Snapshot cache (`game/svc_monitor.go`) | LRU entry, singleflight group, epoch | fetch, fetch the JSON, invalidate | every step takes another lock, so invalidations fall between them |
| WebSocket rooms (`internal/pkg/websocket/`) | rooms with their members, cached slices, a queue and a worker per room, the counter of connections | connect, unregister, broadcast, cleanup, stop | one mutex, released between the sections of every operation; three paths take a client out of a room, two unregister it; the callback of the loop writes to a channel only the loop reads |
| Payments (`payment/`) | `payments` rows of one user and amount, the payments at YooKassa | create, webhook, expiry | the row comes before the request; answers and notifications are late, lost or repeated |
| Refresh tokens (`user/refresh_token_service.go`, `user/repository.go`) | `refresh_tokens` | login, rotation, logout, reuse | one token presented by several requests at once; an UPDATE of a family does not see an uncommitted token |
| Teams (`team/`) | `teams.captain_id`, `team_members` with one row per user, invitations | create, leave and remove, change captain, invite, accept, decline | each call reads in one statement and writes in another, outside a transaction but for the acceptance |

### How they interact

- A player's request or the sweep writes passings and progress (**GamePlay**),
  then schedules a recomputation (**SnapshotDispatcher**) whose worker
  invalidates the cache and computes a new snapshot (**MonitorSnapshot**) and,
  while teams are still playing, new places (**GameCompletion**).
- When a passing finishes, `onGameFinished` starts a goroutine that computes
  the places, awards the tournaments' points (**TournamentScoring**) and pays
  the players' ratings (**GameCompletion**).
- The editor changes the order of the levels that the play and the sweep read
  (**GamePlay**, **TimeoutSweep**).
- Pages and pollers read the snapshot cache; authors and administrators change
  the games of a tournament while its callbacks run.
- Messages about a game go through the rooms of the hub (**RoomHub**), from this
  instance or over the bus from another; the hub tells nothing back to the
  game but who is present.
- Games and tournaments are entered by teams (**Teams**): what GamePlay calls a
  passing belongs to one, and a test run makes a team of its own.
- A payment (**Payments**) and a session (**RefreshTokens**, which implements
  **SessionFamily**) belong to one user; no other component waits for them.

### What makes them correct

A team is on one level at a time; a passing that has ended is not played; what
is done stays done; a status only goes forward; time that is up is enforced; an
event leads to a recomputation when no other follows it; the leaderboard is the
sum of what was awarded and a passing is awarded once; places are a ranking;
players are paid once for each time the flag goes up; an entry computed before
an invalidation is not cached after it; a message that is queued has a reader,
and a stop ends; a user has one payment to pay, and what is paid stays
recorded; one token of a family is good, and a family that ended stays ended;
nobody gets into a second team. `PROJECT.json` lists the hazards behind these,
each at its line.

## 2. The modules

Each module models one component, one action per handler or per step between
which others may run. A handler that locks all it reads and writes is one
action. Names follow the source.

### SnapshotDispatcher
`Schedule`, `Fire`, `FlushCurrent` / `FlushOutdated`, `Close`.
The maps `timers` and `versions` are functions with a zero value for a missing
entry, as Go's maps read. `Fire` moves a timer into `fired`: its goroutine
waits for the mutex, and `Schedule`, `Close` or another flush may go first.
`dirty` is a history variable: the game has an event that no worker started
after. Events may come for ever: the name of a timer that is gone is used again
(`NewId`), and so are versions, which the code counts to 2^64
(`NextVersion`, `VersionIsFree`). *Bounds*: `MaxTimers` timers alive at a time,
`MaxVersion`. Both only delay an event until a timer or a goroutine is through;
neither ends the events. `DispatcherInit`, `DispatcherNext` and so on carry
a prefix, as `SweepInit` does in TimeoutSweep: each of the two modules has its
proofs together with another's.

### GamePlay
One game. `status` and `progress` are the passings and their progress rows, an
open row being `open` or, with an attempt that waits for a moderator,
`answered`. `position` is the order of the levels.

| Actions | Code |
|---|---|
| `Apply`, `Review`, `StartGame`, `StartTesting` | `svc_passing.go`, `hnd_passing.go`, `svc_play.go` |
| `AutoStartCount`, `AutoStart` | `svc_progress.go` `CheckAutoStartGames`: the count before the transaction is a step of its own |
| `SubmitCode`, `SubmitFile`, `AcceptBlackboxAnswer`, `TestLevel` | `svc_play.go`, `svc_attempt.go`; all complete a level through `Complete` = `CompleteLevel` then `AdvanceToNextLevel` |
| `ForceFinishGame`, `DisqualifyTeam` | `svc_admin.go` |
| `DeleteLevelLock`, `DeleteLevel`, `DeleteLevelRollback` | `svc_admin.go` `DeleteLevelFromActiveGame`: which passings it locked is fixed at the first step |
| `CreateLevel`, `UpdateLevel`, `MoveLevel`, `DuplicateLevel` | `internal/domain/level/service.go` |
| `SweepScan`, `SweepUpdate`, `SweepCommit`, `SweepRollback` | `svc_progress.go` `checkTimeoutsImpl` |

`plan[w]` and `deleting` are the row locks a transaction in progress holds;
`RowIsFree` and `PassingIsFree` are the waits of the others. A transaction that
PostgreSQL aborts to break a deadlock has no effect and needs no action.
Time is left out here: any open row may be found timed out. Permissions are
left out: an action is one whose caller was allowed it. *Bound*: `MaxPosition`.

### PassingLife
What all of these handlers, sweeps and locks are for: a passing `Enters`,
`Begins` on one level, `GoesOn` from a level it is on to one it has not played,
`Ends` once (or `TestsToTheEnd`); it `Stays` but for what was of a level that is
deleted. GamePlay implements it (`FollowsLife`, with the levels in the order,
`status`, the open levels and the finished ones for its variables). One step may
move several passings: a batch of the sweep, a forced finish, an automatic
start, a deletion. PassingLife moves each of them by one of these; `Ends`
covers the moderator's end, the timeout of the last level, its right code and
its deletion.

### TimeoutSweep
Over all games: the queue of open rows by age, of which a cycle sees the oldest
`BatchSize`. A cycle is one step here, because the interleavings inside it are
GamePlay's subject and the queue is this one's. `Stuck(p)` holds if the next
level of `p` was played already, so that the unique index refuses its row and
the whole batch is rolled back. `Advance` and `Start` leave the rows that stay in
the order they had (`Older`) and put a new one anywhere between them
(`Queues`): `started_at` is the application's clock before the commit
(`svc_progress.go:85, 155, 433`), so that a slower transaction, or an instance
with another clock, commits a row in front of one that waits already. *Bounds*:
`LastLevel`, `MaxMoves` for each game.

### TournamentScoring
`AddGame`, `ApplyRead` / `ApplyCommit`, `JoinGame`, `Finish`, `ScoreRead` /
`ScoreTx`, `RemoveCheck` / `RemoveTx`: each call that reads before it locks is
two steps. `ids` and `points` are the two arrays of a passing, `total` its
`tournament_points`. The NOT NULL column and the unique index of the migrations
are part of the model (`RemoveFails`, the guard of `AddGame`). A place's points
are any of `Points`, which covers every configuration of a tournament and every
order in which places and points are computed. `ApplyRead` lists removed games
too, as `ListGames` does (`repository.go:132-143`). `Only` is the filter by which
rows are cut (`array_remove`) and extended. *Bound*: `MaxCalls` calls under
way.

### GameCompletion
One game in one tournament. `pc` is how far the goroutine of each callback is
(one per team, and `ForceCall` for a forced finish); `lost` the steps of it that
have failed. `StepFails` is a step that fails alone and is logged, after which
the next one goes on (`main.go:357-371`); `Cancel`, which makes all that is still
to come fail, may happen at any time, because the deferred `bgCancel` runs when
`onGameFinished` returns. `SnapshotCalculate` is `CalculateResults` run by the
snapshot worker. `ReadGame` and `SaveGame` are an edit of the game
(`svc_crud.go:67-99`, `svc_cover.go:82-126`): it reads the row without a lock and
saves every column, `rating_scored` among them, as it was (`repository.go:135`);
`Undone` are the edits that have put the flag down in this way. *Bounds*:
`Edits`, `MaxTroubled` callbacks that lose a step. `PlacesIn` is the ranking with
equal times, over every order that the sort may leave equal elements in.

### MonitorSnapshot
One game's entry. A snapshot is the version of the game (`db`) it was computed
from. Every call on the LRU, on the singleflight group and on the epoch's mutex
is a step of process `p`; `pc[p]` is where it is. `cap[p]` is the epoch it read,
`got[p]` the version it loaded, `leader[p]` whose call it waits for. The patch
of the JSON bytes is two calls on the LRU, `PatchPeek` and `PatchEntry`: between
them `peeked[p]` is the entry that `p` puts back with its own bytes and the
entry's old timestamp. `Expire` therefore ages entries wherever they are. A load
that fails ends the call for its followers too (`LoadFails`), be it only that the
leader's request is over. What a call has in its locals is dropped when it ends.
`floor` is
a history variable: the version at the start of the last complete invalidation.
*Bounds*: `MaxChanges`, and `JsonProcs`, the goroutines that ask for the bytes.

### RoomHub

| Actions | Code |
|---|---|
| `Connect`, `RegisterRefused`, `HandlerCloses`, `HandlerUnregisters`, `Disconnect`, `PumpEnds` | the handler and the write pump of a connection (`client.go`, `internal/domain/monitor/handler.go`) |
| `TakeRegister`, `AddClient`, `TakeUnregister`, `Announce`, `TakeBroadcast`, `CreateQueue`, `SendToQueue`, `LoopEnds` | `runLoop`; between two of them it holds no lock |
| `WorkerStarts`, `WorkerTakes`, `WorkerPasses`, `WorkerRemoves`, `WorkerFinishes`, `WorkerEnds` | `roomWorker` and `dispatchToRoom`, one client of its copied slice at a time |
| `CleanupCollects`, `CleanupApplies`, `CleanerEnds` | `cleanup.go`: collected under one lock, removed under the next |
| `BroadcastToRoom`, `StopBegins`, `StopFinishes` | senders, and `Stop`, which waits for loop, workers and cleanup |

`members`, `cache` and `queue` are the three maps, `registered` and `total` the
flag of a client and the counter it is counted in. Send buffers drop and are
left out. *Bounds*: `MaxWorkers` queues made, `MaxBroadcasts` messages sent.

### Payments
One user and one amount. A row, its idempotency key and YooKassa's payment have
the same number. `CreatePayment` is cut at each statement and request
(`FindPending`, `ExpireStale`, `InsertRow`, `Reread`, `AskYooKassa`,
`UpdateAfterCreate`), the webhook at each of its own (`HookArrives`,
`ApplyHook`, `NotifyPaid`, `HookAnswers`). Every one of them may fail; a request
may arrive without an answer; `Crash` ends all calls at once; a notification is
repeated until it is answered, or given up. `remote` and `notices` are YooKassa,
as the code relies on it. The partial unique index is `IndexAllows`.
*Bound*: `MaxRows`.

### SessionFamily and RefreshTokens
`SessionFamily` is the promise: a family starts with a good token, a rotation
replaces the good token by a new one, an end leaves none, and nothing follows
an end. `RefreshTokens` is the code: requests cut at each statement, the
rotation a transaction that holds its row's lock (`Locked`) until `Commit`, and
UPDATEs of many rows that change what their snapshot showed (`ReadLive`, then
`RevokeSeen`). The refinement maps `last` to the number issued and `head` to the
good token. *Bound*: `MaxTokens`.

### Teams
`captain` and `gone` are `teams`, `teamOf` is `team_members` under its unique
index on the user, `iuser`, `iteam` and `istatus` the invitations. A call is a
process with a program counter: `CreateTeam`, `InsertTeam`, `JoinOwnTeam`,
`UndoTeam`; `AdminCreateTeam`, `AdminJoinTeam`; `LeaveMember`, `DeleteMember`;
`ChangeCaptain`, `CheckMember`, `CheckOther`, `Promote`; `CreateInvitation`,
`CheckInvited`, `InsertInvitation`; `AcceptInvitation`, `CommitAccept`;
`DeclineInvitation`, `WriteDecline`. `GiveUp` is a statement that fails.
`StartTesting` makes a test team in one transaction. `left` is a history
variable: the changes of captain during which their member lost its row.
*Bounds*: `MaxTeams`, `MaxInvs`.

## 3. The runs

### Runs that pass

| Run | Instance | What it shows |
|---|---|---|
| `snapshot_dispatcher` | 2 games, 4 timers alive, any number of events (75,697 states) | `PendingIsCovered`: while the dispatcher is open, a game with an event has a timer whose flush will find its version current; `EventIsProcessed`: the event is followed by a recomputation, unless another event of the game starts the delay anew, or the close. |
| `gameplay` | 2 teams, 2 levels, 2 sweeps, the editor, a deletion | `AtMostOneOpen`, `LocksAreExclusive`; `FollowsLife`: the refinement of `PassingLife`, which contains `OpenOnlyInPlay` and `StatusMovesForward`. |
| `game_editing` | 1 team, 1 tester, levels of three kinds, 3 positions | `DoneStaysDone` and `KeepsALevel` while levels are added, moved, copied and deleted. |
| `timeout_sweep` | 2 passings of a limited game, 1 of an unlimited one, 2 moves a game, batch of 2 (15,495 states) | `OneRowPerPassing`; `OnlyMovedGamesAreStuck`: the row that rolls a batch back is of a game whose levels were moved; `EnforcedWithRoom`: if in the end the batch has room beyond rows without a limit and no row is stuck, every timeout is enforced, although new rows may stand in front. |
| `tournament_scoring` | 2 tournaments, 1 game, 2 teams, places worth 2 or 3, 2 calls under way (259,699 states) | `AwardsStay`: what a tournament has awarded to a passing stays beside its identifier, whatever the other one appends or cuts; `TotalsMatch`: score and number of games of every team are what its passings say. |
| `game_completion` | 3 teams with a player in common, who is the author, equal times possible, 1 callback that loses steps, 1 edit (1,377,269 states, over a minute) | `PlacesRank`, `AwardedOnce`; `PaidOncePerFlag`: author and players are paid once, and once more at most for an edit that has put the flag down; `LostOnlyByFailure`: a team lacks its place, its points or its players' rating only where that step of its callback has failed. |
| `room_hub` | 2 connections, 1 room, queues of 1, 2 queues, 2 messages | `CountIsExact`, `QueueHasWorker`, `CacheHasEveryMember`; `PlacesAreGivenBack`: a place among the connections that is still held, once the connection's handler has left, has an unregistration waiting that gives it back; `StopIsNotStuck`: as long as `Stop` waits, one of those it waits for can go on. |
| `payments` | 2 calls, 2 webhooks, 2 rows (503,569 states) | `OnePayable`, `SucceededIsPaid`; `OnlyLateAnswerUndoes`: of all the writes only that of an answer read before the payment takes a paid row back; `AnsweredIsRecorded`: a notification that is answered with 200, and so never repeated, leaves its row settled, but for the one overwritten while it notified. |
| `refresh_tokens` | 2 families, 3 requests, 4 tokens (588,005 states) | `OnlyNewestIsLive`; `KeepsFamilies`: the refinement of `SessionFamily`; `NoneComesBack`: a family left without a good token never has one again, and no token that was replaced or revoked is good again. |
| `teams` | 2 users, 2 calls, 2 teams, 2 invitations (2,063,189 states, two minutes) | `AdmittedOnce`: a user gets into a team from none, through one open invitation or by making it; `CaptainKeepsRow`: a captain keeps its membership but for two races and a takeover that the property names; `OnlyInvitedAreStranded`: only a user whose invitation by that team was answered can be a member of a deleted team. |
| `monitor_snapshot` | 3 goroutines, one of which asks for the bytes, 2 changes (441,046 states, over a minute) | `WaitsForLiveCall`; `RegisteredLoadIsFresh`: a call that can still be joined has not loaded from the database before the last invalidation (what it finds in the cache is another matter, section 5); `WrittenInItsEpoch`, and `StaleEndsWithTtl`: whatever stale entry a race leaves, it is gone for good after its TTL; `CurrentStays`: once all that is served, or on its way to being served, is current, it stays so until the game changes. |

`snapshot_dispatcher`, `gameplay`, `tournament_scoring` and `game_completion`
also check the type invariant of their module. For the other modules it is
proved (`TypeCorrect`, `SweepTypeCorrect` in section 4), from the same inductive
invariant as the rest.

### The run that ends in a counterexample

`succeeded_undone` checks one statement of a comment that the code does not
keep; it is explained in section 5, with the others that were met on the way.

### The bounds, and why they are enough

- *Timers*: three timers of one game alive at a time give a fired goroutine, a
  flush that starts the versions again and a newer timer with the same version;
  the fourth is for the other game. How many come one after another is not
  bounded, so that the starvation of section 5 is among the behaviours.
- *Two teams and two sweeps* give each pair of writers of one passing, and a
  batch in which one passing's failure takes the other with it. Two levels give
  both a next level and none. What needs a third level (a copy or an insertion
  between two others, a level played before one that is now ahead of it) is in
  `game_editing`, with one of each kind of level, a team and a tester; that run
  has one sweep, because the two-sweep races do not depend on the order of the
  levels.
- *Sweep*: a batch of two with one unlimited passing leaves room for exactly one
  limited row; the second limited one has to wait its turn.
- *Tournaments*: the sum over several games does not enter the interleavings,
  since every transaction is under the lock of one game and a leaderboard row is
  changed by increments; one game is therefore run. Two tournaments make arrays
  of length two, the shortest in which a position matters; with two points values
  a cut at the wrong position shows. A team's row that stays with less, because
  it has played another game, is left to the proofs. Two calls under way are enough
  for each pair of (application, removal) to meet, and callbacks are not
  bounded but by the number of teams.
- *Completion*: three teams give a tie with a team behind it, and a callback
  between two others. One callback that fails meets three that do not, and each
  of the four can be it; with two that fail the run passes as well, in four
  minutes and 5,099,174 states. One edit is enough to read the flag before a
  payment and save it after. The proofs bound none of these.
- *Rooms*: two connections make the last that leaves and the first that comes;
  a second queue for the same room is the next generation, whose worker starts
  while the first one ends; queues of one message are full at once. The rooms
  share only the loop, which the second connection and message keep busy.
- *Payments*: two rows are one that has expired and the one after it; two calls
  and two webhooks give each pair that meets on a row.
- *Tokens*: a family of four tokens has a newest, one that was just replaced and
  older ones; three requests are a rotation, a reuse and a logout at once.
- *Teams*: two calls are every pair of them. Both users are administrators,
  which only adds behaviour: permissions are guards (`CanManage`), and the
  safety properties hold of the greater set. The counterexamples in section 5
  need no more than two calls either.
- *Cache*: two computations side by side (after a `Forget`) and one more
  goroutine that waits or invalidates; two changes, so that two invalidations
  overlap. One goroutine asks for the bytes: the others do all that its patch can
  meet.

Deadlock is checked in the cache's run, where polls never end, and in that of
the teams, whose calls can always begin again. The others may stop: a game
ends, a dispatcher or a hub is closed, rows and tokens are used up.

### Fairness

- *SnapshotDispatcher*: weak fairness, for each timer, of `Fire` (the runtime
  fires timers) and of the flush (a goroutine gets a mutex that is held for a few
  map operations). A timer that is stopped need not fire. Nothing is assumed of
  events: they may stop, or go on for ever.
- *TimeoutSweep*: weak fairness of `Sweep` (`runPeriodic` ticks as long as the
  server runs) and of `Expire` (time passes). Nobody has to play or to edit.
- *GameCompletion*: weak fairness of each goroutine's next transaction, which may
  fail, in `FairSpec`, which only `FinisherIsScored` (section 5) needs.
- *RoomHub*: the Go scheduler runs every goroutine that can run, a connection
  that is closed unregisters, the cleanup finds it. Nothing makes a peer come,
  leave or send. Of the properties only `ChangeIsAnnounced` (section 5) uses it.
- *MonitorSnapshot*: calls that have begun go on, to a result or an error; a change is followed by an
  invalidation (the dispatcher, or the handlers that call it); TTLs expire.
- *GamePlay*, *TournamentScoring*, *Payments*, *RefreshTokens* and *Teams* have
  safety properties only.

## 4. The proofs

| Theorem | Statement |
|---|---|
| `SnapshotProofs!DispatcherTypeCorrect`, `NoEventIsLost` | `DispatcherTypeOK`, `PendingIsCovered` |
| `GamePlayProofs!TypeCorrect`, `OneLevelAtATime`, `OnlyInPlay`, `ExclusiveLocks` | `TypeOK`, `AtMostOneOpen`, `OpenOnlyInPlay`, `LocksAreExclusive` |
| `GamePlayProofs!EveryPassingLives` | `FollowsLife`: `GamePlay` implements `PassingLife` |
| `GamePlayProofs!NoStatusGoesBack`, `NobodyLosesItsLevel`, `NobodyPlaysTwice` | `StatusMovesForward`, `KeepsALevel`, `DoneStaysDone` (action properties) |
| `GameCompletionProofs!PaidOncePerFlagUp`, `TypeCorrect`, `PlacesAreARanking`, `PointsAreAwardedOnce`, `OnlyFailuresLose` | `PaidOncePerFlag`, `TypeOK`, `PlacesRank`, `AwardedOnce`, `LostOnlyByFailure` |
| `GameCompletionProofs!SetPlacesRanks` | what `CalculateResults` computes is a competition ranking, whatever the order of equal times |
| `GameCompletionProofs!SweepTypeCorrect`, `OneOpenRow` | `SweepTypeOK`, `OneRowPerPassing` |
| `GameCompletionProofs!StuckOnlyWhereMoved` | `OnlyMovedGamesAreStuck` |
| `GameCompletionProofs!LimitedRowsAreSeen` | `LimitedIsSeen`: where there is room, a row of a limited game is in the batch or behind one that is |
| `TournamentScoringProofs!TypeCorrect`, `RowsStayParallel` | `TypeOK`; `ArraysParallel`: the two arrays are equally long, and `tournament_points` is the sum of the second |
| `TournamentScoringProofs!AwardsAreKept` | `AwardsStay` (action property): an award changes only by the removal of its game from its tournament |
| `TournamentScoringProofs!LeaderboardIsTheSum` | `TotalsMatch`, if no place is worth 0 |
| `TournamentScoringProofs!ScoresAreTheSum` | the part of `TotalsMatch` that holds whatever the places are worth: the score is the sum, `games_played` is not too small |
| `SnapshotProofs!TypeCorrect`, `NobodyWaitsForNothing`, `RegisteredLoadsAreFresh`, `EpochHolds` | `TypeOK`, `WaitsForLiveCall`, `RegisteredLoadIsFresh`, `WrittenInItsEpoch` (action property) |
| `SnapshotProofs!CurrentIsKept` | `CurrentStays` (action property): the safety half of `StaleEndsWithTtl` |
| `RoomHubProofs!TypeCorrect`, `CountCorrect`, `QueueCorrect`, `CacheCorrect`, `PlacesCorrect` | `TypeOK`, `CountIsExact`, `QueueHasWorker`, `CacheHasEveryMember`, `PlacesAreGivenBack` |
| `RoomHubProofs!LoopNeverWaits`, `StopNeverHangs` | `StopIsNotStuck` with the guards of the steps in the place of ENABLED |
| `PaymentsProofs!TypeCorrect`, `OnePayableCorrect`, `SucceededCorrect`, `UndoneOnlyByLateAnswer`, `AnsweredCorrect` | `TypeOK`, `OnePayable`, `SucceededIsPaid`; `OnlyLateAnswerUndoes`, `AnsweredIsRecorded` (action properties) |
| `RefreshTokensProofs!TypeCorrect`, `NewestCorrect`, `Refinement` | `TypeOK`, `OnlyNewestIsLive`, `KeepsFamilies`: `RefreshTokens` implements `SessionFamily` |
| `RefreshTokensProofs!EndedForGood` | `NoneComesBack` (action property) |
| `TeamsProofs!TypeCorrect`, `AdmittedCorrect`, `CaptainCorrect`, `StrandedCorrect` | `TypeOK`, `OnlyInvitedAreStranded`; `AdmittedOnce`, `CaptainKeepsRow` (action properties) |

They hold for every value of the constants that satisfies the assumptions the
modules state by name (`MaxTimersAssumption`, `LevelsAssumption`,
`RoomOfAssumption` and so on), each of which TLC evaluates in a run.

**Dispatcher.** `PendingIsCovered` is not inductive: a flush might remove the
version a pending event relies on. `DispatcherInv` adds that no two timers alive
have one id, that the timer a map entry names is live and captured
the entry's version, that a pending game has an entry, and that a closed
dispatcher has none. Then a flush with a current version leaves no event
pending, and every other step keeps the entry's timer.

**GamePlay.** `IInv` is `TypeOK`, `OpenIsUnique` (`AtMostOneOpen` without a
cardinality), `OpenIsPlayed` and `LocksAreExclusive`. They need each other: the
commit of a sweep finishes one row and opens another, which keeps the open row
unique only if the row it planned is still the open one; that follows from the
locks; and that two sweeps cannot plan different rows of one passing follows
from uniqueness. `LowestType` shows that `ORDER BY position LIMIT 1` yields a
level, by the well-foundedness of the natural numbers. Steps of the same shape
share a lemma (`CompletePreservesIInv`, `OpeningPreservesIInv`,
`ClosingPreservesIInv`).

**The life of a passing.** Every step of GamePlay is, for each passing, one of
PassingLife (`NextLives`). `IInv` is what makes it one: a sweep may advance a
passing it read without a lock because its row is still the open one, which is
in `LocksAreExclusive`, and what it leaves is the whole of `at` because of
`OpenIsUnique`. Two facts about the rows are needed besides (`LifeInv`).
`EmptyBeforeStart`: a test run opens its first level without looking at the
rows, so a passing that has not begun must have none. `RowsHaveLevels`: a row
is of a level that exists, so that a level added later is not one already
played. Completing a level by a code, by the sweep and by a deletion is one
lemma (`AdvancesLives`), as are beginning and being ended. The three action
properties are read off the steps of PassingLife: no status goes back, nobody
who plays loses its level but by its deletion, and nothing done is undone.

**GameCompletion.** `RatingInv` counts the flag: `Flags` is the number of edits
that have put it down, and one more while it is up, and nobody has got more than
so many shares, a share (`Share`) being at most one place's points, and the
author's. A payment finds the flag down and puts it up, an edit that puts it down
is counted from then on, and a share only grows. `CompletionInv` holds the rest.
`PlacesRank` is about the moments between computations and needs
`PlacedIsFinished`. `LostOnlyByFailure` says of each callback and each step of it
what the teams that it answers for have; a team that finishes later has a
callback of its own, which has done nothing yet (`OwnCallback`), and no step
takes back what another has given (`NothingIsTakenBack`). That a computation yields a ranking is `SetPlacesRanks`: the list
is sorted (`SortedList`), the recursion over it gives each entry the position
of the first one with its time (`ClimbRanks`), and this position is one more
than the number of teams that were faster.

**TimeoutSweep.** The two invariants are inductive together.
`NextLevelIsAnother` rests on the order of a game's levels being a permutation,
which each move of the editor keeps; a passing that goes on has its row
replaced, and `QueueEnumerates` says that the new queue, wherever its new rows
stand, names everybody once. `OnlyMovedGamesAreStuck` needs `PlayedInOrder`: in a
game whose levels were not moved, the levels done are those in front of the
current one (`OrderInv`), so that the next is none of them. `LimitedInBatch` is a
pigeonhole: were a row that is not looked at behind unlimited rows only, they
would fill the batch, which has more places than there are of them.

**TournamentScoring.** A passing's row is followed without its positions: which
tournaments stand in it (`InRow`) and what stands beside each (`Beside`).
`ScoringInv` adds to the types that rows are duplicate-free and parallel, that
only finished passings of entered teams are scored (`IdsAreEarned`), and that
each row of the leaderboard balances (`Ledger`). The types alone are not
inductive: a removal subtracts, and only `Ledger` says that there is enough.
`IdsAreEarned` is what makes a removal, which cuts the passings of the teams
that are entered, cut all that it takes from the leaderboard. A place worth
nothing is left in `games_played` by a removal, because 0 stands for "not
awarded" (`tournament/service.go:231-237`): `LeaderboardIsTheSum` supposes that
there is none, `ScoresAreTheSum` does not. `AwardsStay` is read off the same
lemmas (`RowAfterScore`, `RowAfterRemoval`): the points beside an identifier
stay beside it when another one is cut out of the arrays or appended to them.

**Sums, filters and sorting without induction.** The provers cannot instantiate
the library's induction theorems. These two modules look at a least
counterexample instead (`NatMinimum`, from the well-foundedness of `<`): the
first position at which a filtered prefix, or the place in a sorted list, is
not what it should be, or the smallest set whose fold is not its sum. A sum of
naturals is the number of units in it, `Weight(f, S)`, so that moving and
splitting sums are facts about cardinalities.

**MonitorSnapshot.** `IInv` adds that what is loaded or cached is of the past,
that a computation whose captured epoch is current has loaded a version not
older than `floor`, and that the group names only a call under way. The
invalidation increments the epoch and raises `floor` in one step, so that every
computation under way drops out of the premise. `RegisteredLoadIsFresh` needs more: an
invalidation has forgotten the calls before it raises `floor`, so that a call
still in the group when it does has loaded after the entry was removed
(`LoadedAfterForget`), and this holds of each of several invalidations under
way at once. `Current` is a statement on everything an old version could come
from: the entry served, a version in a process's hands, an entry peeked and not
yet put back. It is kept step by step; `PutHolds` and `EntriesArePast` are what
the late patch of the bytes needs.

**RoomHub.** `IInv` adds `Shape`: whoever is registered has connected, the
client the loop has counted and not yet added is not registered, the room and
the queue a case of the loop is about belong together, a worker serves the room
of the clients it visits, and everybody is in the room it asked for. A worker
that ends has emptied the map's entry before, and a queue is made again only
after the loop has seen that it is missing, under the same lock: this keeps
`QueueHasWorker`. That the counter is exact is a statement on cardinalities of
finite sets, step by step. `StopNeverHangs` says which guard holds while Stop
waits, place by place of the loop, the workers and the cleanup. Only one of them
can fail: the making of a queue needs an unused one. `MadeForMessages` counts
queues against messages, so that `MaxBroadcasts <= MaxWorkers` is enough.
`PlacesAreGivenBack` is proved on the channel of unregistrations: one that is
appended keeps those before it (`WaitsAppended`), and one that is taken leaves
all others (`WaitsTaken`), while after it its own client holds no place, whether
the loop has just freed it or a worker or the cleanup had done so before.

**Payments.** `OnePayable` speaks of YooKassa and the code writes only its own
rows. The link is `OpenIsPending`: a payment that can still be paid has a row
that is pending, or one that was given up as old; and the partial index allows
one pending row (`OnePending`). `AnswerSound`: an answer in hand says what
YooKassa says, or "pending". `HooksKnowRow`: who notifies has seen it paid.
`AnsweredIsRecorded` needs to know what a row can still become once YooKassa is
done with it (`NoticeInv`): a row that is cancelled was cancelled there or
expired here, and YooKassa notifies only of a payment that is settled, which it
stays.

**RefreshTokens.** A rotation must still find its token good when it commits.
`ClaimedIsLive` says so, and it holds because the row's lock keeps revocations
away (`Locked`) and `OneClaimer` other rotations. With `OnlyNewestIsLive`, a
commit is then a `Rotate` of `SessionFamily`, a login a `Start`, every
revocation an `End` of the families it leaves without a token, and all other
steps stutter. This is the refinement, proved for every number of families,
requests and tokens. `NoneComesBack` is read off it: a good token is replaced
by a new number only, and an ended family takes no further step.

**Teams.** `Rows`: what a call remembers is a row that exists, with the columns
it was read with. `Seen`: a removal about to delete has read another captain,
and a change of captain has seen its member, which is still one unless its row
was deleted since (`left`) or the actor takes the team over. The last is what
limits the ways in which a captain loses its row to those the property names.
`MembersInv`: a team that a call is still making is its own, and not taken back
yet; and every member either has answered an invitation of its team, or is in a
team that is there and that no call will take back. A user who joins the team
that its call makes is of the second kind, because that call ends with the join.

### Only model-checked

Every invariant and action property of the passing runs is proved, except
`StopIsNotStuck`, which is about ENABLED: that the guards of `StopNeverHangs`
are those of the actions is left to the reader, and to TLC. Liveness
(`EventIsProcessed`, `EnforcedWithRoom`, `StaleEndsWithTtl`) is out of the
prover's reach too; of the last the safety half is proved: no order of steps
makes what is current stale. Besides what `FollowsLife` contains and what is said
of Stop, two proved invariants are in no run, `ArraysParallel` and
`LimitedIsSeen`; TLC finds no violation of them either when they are added to
MCTournamentScoring.cfg and MCTimeoutSweep.cfg.

## 5. Where code and comments disagree

### Shown by a run

- `succeeded_undone` (`payment/service.go:422`). Two calls ask YooKassa for the
  same pending row. The user pays on the answer of the first; the answer of the
  second was read before and is written after the webhook, without a guard: the
  paid row is pending again, the notification is answered and not repeated. The
  comment at :587-589 says a payment is never taken back from succeeded.

### Stated in the modules, without a run

These definitions say what a comment, a test or a migration promises, and TLC
refutes each when it is the only INVARIANT (or PROPERTY, for those that are
temporal) of the configuration named here. They are kept next to the properties
that do hold.

| Definition | Configuration | What happens |
|---|---|---|
| `TimeoutIsEnforced` | MCTimeoutSweep | The editor moves a level, so that the next level of a team is one it has played. The insert of its row fails and rolls back the batch (`game/svc_progress.go:440`), which is found again, the same, in every later cycle: timed-out rows of all games in it are never ended. The comment (:338) takes the rollback for temporary. |
| `TimeoutIsEnforced` | MCTimeoutSweep with `BatchSize = 1`, `MaxMoves = 0` | The oldest open row belongs to a game without a limit and fills the batch (`svc_progress.go:244`; comment :241-243). A row that is committed late, with an earlier `started_at`, pushes a waiting one out of the batch in the same way. |
| `AdminCanRemove` | MCTournamentScoring | The expression that cuts the points of a passing is NULL if the tournament has not scored it, or is the only one that has (`tournament/service.go:274`), and the column is NOT NULL (migration 000065). The test that says an administrator may remove (`service_test.go:235`) runs on a schema without NOT NULL. |
| `EveryEventIsProcessed` | MCSnapshotDispatcher | Every event stops the timer and starts the delay anew (`svc_snapshot.go:53-60`), and there is no maximum: while events of a game come closer together than the delay, it is never recomputed (comment :10-12: many attempts in a short time become one recomputation). |
| `PaidOnce` | MCGameCompletion | An edit of the game reads `rating_scored` before a callback sets it and saves the whole row after (`svc_crud.go:68, 99`, or `svc_cover.go:83, 126`; `repository.go:136`): the flag is down again, and the next callback pays author and players a second time. `svc_rating.go:74` says the author is paid once for a game, `model.go:44-45` that the flag makes the payment idempotent. `Update` refuses a game that is being played, when it reads, and no longer when it saves; `UpdateGameWithCover` does not ask. |
| `FinisherIsScored` | MCGameCompletion without SYMMETRY, `SPECIFICATION FairSpec` | `defer bgCancel()` is in the function that starts the goroutine, not in the goroutine (`cmd/server/main.go:353`): the context is cancelled as soon as the callback returns, and what the goroutine has not done by then fails. The comment (:348) promises that it is done. |
| `PlayersArePaid` | MCGameCompletion | The first team's callback sets the game's flag (`game/svc_rating.go:66`); the players of the teams behind it are never paid (comment `main.go:365-366`). |
| `NoStaleEntry` | MCMonitorSnapshot | The epoch is compared, then the entry written (`game/svc_monitor.go:129`); an invalidation whose removal came before the write, and whose increment comes after the comparison, leaves an entry from before the change until its TTL ends (comment :39-43). So does the patch of the bytes, which puts an entry back that it peeked before the removal (:218-223). |
| `PeekIsFresh` | MCMonitorSnapshot | Such an entry may also be written after the invalidation is complete: a call that has begun since finds it by `cache.Peek` (`game/svc_monitor.go:111-113`) and gives it to everyone who has joined. |
| `ChangeIsAnnounced` | MCRoomHub without SYMMETRY | A worker takes a closed client out of its room and resets its flag; the unregistration that follows returns early (`room_hub.go:243`), before the callback that is to follow every removal (comment :57-59). |
| `ReuseEndsFamily` | MCRefreshTokens | A family is revoked because a token was reused; a rotation that has not committed yet keeps its new token, which the UPDATE does not see (`user/refresh_token_service.go:130`; comment `user/repository.go:177`). |
| `CaptainInNoOtherTeam` | MCTeams | A test run or an administrator makes a captain of somebody who is in another team; two creations, or changes of captain, that overlap do so without either (`team/service.go`, comments :132, :344). |
| `NobodyIsStranded` | MCTeams | `CreateTeam` inserts the team, its captain starts an invitation, the compensation deletes the team softly (`team/service.go:157`), the invitation is inserted and accepted: the user's row belongs to a deleted team. The unique index keeps the user out of every other team, and `LeaveMember` does not find the deleted one. Migration 000061:7-8 calls the index safe. `OnlyInvitedAreStranded` holds: nobody else is left behind. |
| `FlushRemovesOwnTimer` | MCSnapshotDispatcher | A timer with version 1 fires and waits for the mutex; a second one is scheduled and flushed, which deletes the version (`svc_snapshot.go:77`); a third gets version 1 again, and the first goroutine removes its entry (comment :22-25). No event is lost, the recomputation is only early. |
| `StartedHasALevel` | GameEditing | A team starts after a deletion has locked the started passings (`svc_admin.go:207`); the deletion removes its only row (comment :237-238). |
| `FinishIsReported` | GameEditing | The last level is deleted under a team: its passing finishes, and no callback runs (`svc_admin.go:252`; comment `svc_play.go:718-719`). |
| `CanBeAddedAgain` | MCTournamentScoring | The removed game's row is deleted softly, and the unique index still refuses it (`tournament/service.go:150`; comment :264-265). |
| `AuthorKeepsScores` | MCTournamentScoring without SYMMETRY | The author's removal checks that nothing is scored (`:195`) before it takes the lock (`:209`); the passings are scored in between (comment :191-192). |
| `EnteredHasPassing` | MCTournamentScoring | An application lists the games before its transaction (`:338`) while a game is added for the teams entered so far (comment :155-156). |
| `AwardIsForPlace` | MCGameCompletion | A callback scores a team that has finished but has no place yet (`:506`), with the points of no place (comment :625). |
| `JsonIsOfData` | MCMonitorSnapshot | Bytes marshalled from one snapshot are put into the entry of a newer one (`svc_monitor.go:219`; comment :178-179). |

## 6. What is not modelled

`PROJECT.json` lists the remaining parts of the server with a reason each. In
short: accounts, permissions, notes, exports, pages and middleware keep no
state that several actors write at once, or are input and output; level
contents and imports are data; a vote and the close of a voting do all they do
under one row's lock; a worker of the letter queue claims a letter by one
conditional UPDATE; a role in the role cache lives five seconds and nothing
waits for it. By far the most lines of the repository are of this kind:
generated API documentation, translations, handlers that parse a form and
render a page, templates' helpers, mocks. What is modelled is what several
actors write.

Within the modelled parts: hints and penalties (they change no state that the
properties read, except the durations, which `GameCompletion` takes as given),
notifications, logging, permission checks, the computation of a snapshot and of
its suspicions, the leaderboards' caches, the wording of answers. `GamePlay` has
no clock: that a level's time is up is a choice of `SweepScan`. `GameCompletion` has of an
edit only the flag it writes back. Loss of the
process is modelled in Payments (`Crash`) and elsewhere as a transaction that is
rolled back or a call that gives up; that nothing repeats a completion callback
after a restart is a hazard in `PROJECT.json` without a property. Teams leaves
out roles and groups of members, the deletion of users, and
`TeamService.AddMember`, which no route reaches. A decline that has read an
invitation open overwrites an acceptance that came between
(`team/service.go:530`); the model has it, and `AdmittedOnce` holds in spite of
it. Payments leaves out the checks of a webhook's sender and amount.

## 7. What could come next

In the order of what it would add:

1. **An editor module** that splits `Update` of a level into its read and its
   save: two levels at one position is what the unique index has to stop.
2. **Compositions**: SnapshotDispatcher with MonitorSnapshot (an event is
   followed by a snapshot at least as new); GamePlay with GameCompletion (a
   passing that finishes on any path has its place).
3. **Abstract specifications** in the manner of `SessionFamily` and
   `PassingLife`: a cache that returns some past version, implemented by
   MonitorSnapshot.
4. **The letter queue** across two instances and a restart, and the **voting**.
5. **Proofs** of such refinements.
