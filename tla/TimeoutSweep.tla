---------------------------- MODULE TimeoutSweep ----------------------------
(***************************************************************************)
(* Whether a level that has run out of time is ended: CheckTimeouts over   *)
(* all games (internal/domain/game/svc_progress.go).  Each cycle reads the *)
(* oldest open progress rows, of any game, advances in one transaction the *)
(* passings among them whose time is up, and rolls all of them back if one *)
(* cannot be advanced.                                                     *)
(*                                                                         *)
(* GamePlay has the interleavings of one game; here a cycle is one step,   *)
(* and the queue of rows is what matters.  Every game has the levels       *)
(* 1 .. LastLevel, which its editor may put in another order.              *)
(*                                                                         *)
(* The usual names carry the prefix Sweep because GameCompletionProofs     *)
(* extends this module together with GameCompletion.                       *)
(***************************************************************************)
EXTENDS Naturals, Sequences, FiniteSets, SequencesExt

CONSTANTS
    Games,
    Passings,
    GameOf,      \* the game of a passing
    Limited,     \* games with game_settings.per_level_time_limit > 0
    LastLevel,   \* bound: the number of levels of a game
    BatchSize,   \* levelProgressBatchSize
    MaxMoves     \* bound: how often the levels of a game are moved

ASSUME SweepAssumption ==
    /\ IsFiniteSet(Passings)
    /\ GameOf \in [Passings -> Games]
    /\ Limited \subseteq Games
    /\ LastLevel \in Nat \ {0}
    /\ BatchSize \in Nat \ {0}
    /\ MaxMoves \in Nat

VARIABLES
    rows,      \* passings with an open progress row, by started_at
    level,     \* the level that row is for, 0 before the start and after the end
    done,      \* levels whose row is finished
    expired,   \* passings whose open row has used up its time
    order,     \* the levels of a game by position
    moves      \* how often the levels of a game were moved

sweepVars == <<rows, level, done, expired, order, moves>>

Levels == 1 .. LastLevel

SweepTypeOK ==
    /\ rows \in Seq(Passings) /\ IsInjective(rows)
    /\ level \in [Passings -> 0 .. LastLevel]
    /\ done \in [Passings -> SUBSET Levels]
    /\ expired \subseteq ToSet(rows)
    /\ order \in [Games -> SetToSeqs(Levels)]
    /\ moves \in [Games -> 0 .. MaxMoves]

SweepInit ==
    /\ rows = <<>>
    /\ level = [p \in Passings |-> 0]
    /\ done = [p \in Passings |-> {}]
    /\ expired = {}
    /\ order = [g \in Games |-> [i \in Levels |-> i]]
    /\ moves = [g \in Games |-> 0]

\* Mutant: behind the last level the first one is found.
NextLevel_Wraps(p) ==
    LET seq == order[GameOf[p]]
        i   == CHOOSE j \in Levels : seq[j] = level[p]
    IN  IF i = LastLevel THEN seq[1] ELSE seq[i + 1]

\* The level behind the current one, 0 if it is the last.
NextLevel(p) ==
    LET seq == order[GameOf[p]]
        i   == CHOOSE j \in Levels : seq[j] = level[p]
    IN  IF i = LastLevel THEN 0 ELSE seq[i + 1]

\* Mutant: only the row that is open counts.
Stuck_OpenOnly(p) == NextLevel(p) = level[p]

\* The unique index refuses a second row for a level that was played.
Stuck(p) == NextLevel(p) \in done[p]

Before(queue, p, q) == \E i, j \in DOMAIN queue : i < j /\ queue[i] = p /\ queue[j] = q

Older(p, q) == Before(rows, p, q)

\* The queue of the rows that are kept and of those that are opened.  started_at
\* is the application's clock before the transaction commits (svc_progress.go:85,
\* 155, 433), so that a new row may stand in front of any that is there already.
Queues(kept, opened) ==
    {queue \in SetToSeqs(kept \cup opened) :
        \A p, q \in kept : Older(p, q) => Before(queue, p, q)}

\* The passings of ps go on: their rows are finished, and a new one is opened for
\* those that have a next level.
Advance(ps) ==
    LET on == {p \in ps : NextLevel(p) # 0}
    IN  /\ level' = [p \in Passings |-> IF p \in ps THEN NextLevel(p) ELSE level[p]]
        /\ done' = [p \in Passings |-> IF p \in ps THEN done[p] \cup {level[p]} ELSE done[p]]
        /\ expired' = expired \ ps
        /\ rows' \in Queues(ToSet(rows) \ ps, on)

-----------------------------------------------------------------------------

\* A team starts: InitFirstLevel.
Start(p) ==
    /\ level[p] = 0 /\ done[p] = {}
    /\ level' = [level EXCEPT ![p] = order[GameOf[p]][1]]
    /\ rows' \in Queues(ToSet(rows), {p})
    /\ UNCHANGED <<done, expired, order, moves>>

\* A player's code, which fails like the sweep does when the next row exists.
Solve(p) ==
    /\ level[p] # 0
    /\ ~Stuck(p)
    /\ Advance({p})
    /\ UNCHANGED <<order, moves>>

\* Time passes: the limit of the game has run out for a row.
Expire(p) ==
    /\ level[p] # 0
    /\ GameOf[p] \in Limited
    /\ expired' = expired \cup {p}
    /\ UNCHANGED <<rows, level, done, order, moves>>

\* The editor moves a level down.
MoveLevel(g, i) ==
    /\ moves[g] < MaxMoves
    /\ i < LastLevel
    /\ moves' = [moves EXCEPT ![g] = @ + 1]
    /\ order' = [order EXCEPT ![g] = [@ EXCEPT ![i] = order[g][i + 1], ![i + 1] = order[g][i]]]
    /\ UNCHANGED <<rows, level, done, expired>>

\* Mutant: one row less than the batch holds is looked at.
Batch_OffByOne ==
    ToSet(SubSeq(rows, 1, IF BatchSize <= Len(rows) THEN BatchSize - 1 ELSE Len(rows)))

\* ORDER BY started_at ASC LIMIT BatchSize over the open rows.
Batch == ToSet(SubSeq(rows, 1, IF BatchSize < Len(rows) THEN BatchSize ELSE Len(rows)))

TimedOut == Batch \cap expired

\* One cycle that has something to do.  A transaction that fails changes
\* nothing, so that only the others are steps.
Sweep ==
    /\ TimedOut # {}
    /\ \A p \in TimedOut : ~Stuck(p)
    /\ Advance(TimedOut)
    /\ UNCHANGED <<order, moves>>

-----------------------------------------------------------------------------

SweepNext ==
    \/ \E p \in Passings : Start(p) \/ Solve(p) \/ Expire(p)
    \/ \E g \in Games, i \in Levels : MoveLevel(g, i)
    \/ Sweep

\* The ticker of an instance that runs calls the sweep for ever (runPeriodic);
\* time passes; nobody has to play or to edit.
SweepFairness ==
    /\ WF_sweepVars(Sweep)
    /\ \A p \in Passings : WF_sweepVars(Expire(p))

SweepSpec == SweepInit /\ [][SweepNext]_sweepVars /\ SweepFairness

-----------------------------------------------------------------------------

\* Every level that has run out of time is ended at last: what the comments at
\* svc_progress.go:241-243 and 336-338 say, no row starves and a batch that was
\* rolled back is repeated.
TimeoutIsEnforced == \A p \in Passings : p \in expired ~> p \notin expired

\* The rows of games without a time limit, which no sweep ever takes out.
Unlimited == {p \in ToSet(rows) : GameOf[p] \notin Limited}

\* What does hold.  If from some time on there is room in the batch for more
\* than the rows without a limit, and no row of a limited game is stuck, every
\* timeout is enforced, however small the batch and however the levels were
\* moved before (checkTimeoutsImpl, svc_progress.go:219-471).
EnforcedWithRoom ==
    <>[](/\ Cardinality(Unlimited) < BatchSize
         /\ \A p \in ToSet(rows) \ Unlimited : ~Stuck(p))
        => TimeoutIsEnforced

\* A passing is on a level exactly as long as it has one open row, and never
\* goes back to a level it has finished (svc_progress.go:152-159).
OneRowPerPassing ==
    \A p \in Passings : /\ p \in ToSet(rows) <=> level[p] # 0
                        /\ level[p] \notin done[p]

\* Why a row of a limited game is not starved by the rows no sweep takes out,
\* where the batch has room for more than those: one that is not looked at has
\* an older one of a limited game before it that is (svc_progress.go:240-246).
LimitedIsSeen ==
    Cardinality(Unlimited) < BatchSize =>
        \A p \in ToSet(rows) \ Unlimited :
            p \in Batch \/ \E q \in Batch \ Unlimited : Older(q, p)

\* A batch is rolled back, and a code refused, for a level that was played only in
\* games whose levels have changed places while they were played: nextLevelFor
\* and the unique index agree as long as the editor leaves the order alone
\* (svc_progress.go:367-390, 438-443).
OnlyMovedGamesAreStuck ==
    \A p \in ToSet(rows) : moves[GameOf[p]] = 0 => ~Stuck(p)

=============================================================================
