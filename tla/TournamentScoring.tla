------------------------- MODULE TournamentScoring -------------------------
(***************************************************************************)
(* Tournament points (internal/domain/tournament/service.go): which games  *)
(* a tournament has, which teams are entered, what a finished passing has  *)
(* earned in which tournament, and the leaderboard that sums it.           *)
(*                                                                         *)
(* A transaction is one step; what a call reads before it is a step of its *)
(* own.  UpdateScoresForGame reads the tournaments of the game and takes   *)
(* the game's advisory lock only then; RemoveGame checks that nothing is   *)
(* scored and takes the lock only then; Apply lists the games of the       *)
(* tournament outside its transaction.  The schema is the migrated one:    *)
(* tournament_scored_points is NOT NULL (migrations/000065), and           *)
(* tournament_games is unique on (tournament_id, game_id) although the     *)
(* rows are deleted softly.                                                *)
(***************************************************************************)
EXTENDS Naturals, Sequences, FiniteSets, SequencesExt, FiniteSetsExt

CONSTANTS
    Tournaments,
    Games,
    Teams,
    Points,      \* what a place can be worth, under any configuration
    MaxCalls     \* bound: applications and removals under way at a time

ASSUME ScoringAssumption ==
    /\ IsFiniteSet(Tournaments)
    /\ IsFiniteSet(Games)
    /\ Points \subseteq Nat
    /\ MaxCalls \in Nat

VARIABLES
    tgame,       \* the tournament_games row of a tournament and a game
    entered,     \* the teams entered in a tournament
    passing,     \* the status of a team's passing of a game
    ids,         \* game_passings.tournament_scored_ids
    points,      \* game_passings.tournament_scored_points
    total,       \* game_passings.tournament_points
    results,     \* tournament_results; played = 0 stands for no row
    applying,    \* applications that have listed the games
    removing,    \* removals that have passed the check for scores
    due,         \* finished passings whose completion callback has not run
    scoring      \* callbacks that have read the game's tournaments

passings == <<passing, ids, points, total>>
vars == <<tgame, entered, passings, results, applying, removing, due, scoring>>

Application == [t : Tournaments, team : Teams, games : SUBSET Games]
Removal     == [t : Tournaments, g : Games, admin : BOOLEAN]
Callback    == [g : Games, team : Teams, ts : SUBSET Tournaments]

NoResult == [score |-> 0, played |-> 0]

TypeOK ==
    /\ tgame \in [Tournaments -> [Games -> {"none", "in", "deleted"}]]
    /\ entered \in [Tournaments -> SUBSET Teams]
    /\ passing \in [Games -> [Teams -> {"none", "open", "finished"}]]
    /\ \A g \in Games, team \in Teams :
          /\ ids[g][team] \in Seq(Tournaments) /\ IsInjective(ids[g][team])
          /\ points[g][team] \in Seq(Points)
          /\ total[g][team] \in Nat
    /\ results \in [Tournaments -> [Teams -> [score : Nat, played : Nat]]]
    /\ applying \subseteq Application
    /\ removing \subseteq Removal
    /\ due \subseteq Games \X Teams
    /\ scoring \subseteq Callback

\* The elements of seq that are in S, in their order.
Only(seq, S) == FoldLeft(LAMBDA kept, x : IF x \in S THEN Append(kept, x) ELSE kept, <<>>, seq)

Each(S, T, v) == [x \in S |-> [y \in T |-> v]]

Init ==
    /\ tgame = Each(Tournaments, Games, "none")
    /\ entered = [t \in Tournaments |-> {}]
    /\ passing = Each(Games, Teams, "none")
    /\ ids = Each(Games, Teams, <<>>)
    /\ points = Each(Games, Teams, <<>>)
    /\ total = Each(Games, Teams, 0)
    /\ results = Each(Tournaments, Teams, NoResult)
    /\ applying = {}
    /\ removing = {}
    /\ due = {}
    /\ scoring = {}

-----------------------------------------------------------------------------
(* The games and the teams of a tournament.                                *)

\* INSERT ... ON CONFLICT DO NOTHING of pending passings.
WithPassings(rows) ==
    [g \in Games |-> [team \in Teams |->
        IF <<g, team>> \in rows /\ passing[g][team] = "none" THEN "open" ELSE passing[g][team]]]

\* A game that is in the tournament is refused; the row of a game that was
\* removed is still there for the unique index, and the insert fails.
AddGame(t, g) ==
    /\ tgame[t][g] = "none"
    /\ tgame' = [tgame EXCEPT ![t][g] = "in"]
    /\ passing' = WithPassings({g} \X entered[t])
    /\ UNCHANGED <<entered, ids, points, total, results, applying, removing, due, scoring>>

CallAdmitted == Cardinality(applying) + Cardinality(removing) < MaxCalls

\* Apply up to its transaction.  ListGames joins tournament_games without asking
\* whether the row is deleted.
ApplyRead(t, team) ==
    /\ CallAdmitted
    /\ team \notin entered[t]
    /\ applying' = applying \cup
          {[t |-> t, team |-> team, games |-> {g \in Games : tgame[t][g] # "none"}]}
    /\ UNCHANGED <<tgame, entered, passings, results, removing, due, scoring>>

\* The transaction of Apply: the listed games get a passing.
ApplyCommit(a) ==
    /\ applying' = applying \ {a}
    /\ entered' = [entered EXCEPT ![a.t] = @ \cup {a.team}]
    /\ passing' = IF a.team \in entered[a.t] THEN passing ELSE WithPassings(a.games \X {a.team})
    /\ UNCHANGED <<tgame, ids, points, total, results, removing, due, scoring>>

-----------------------------------------------------------------------------
(* The game domain: a team applies for a game, a passing finishes.         *)

JoinGame(g, team) ==
    /\ passing[g][team] = "none"
    /\ passing' = WithPassings({<<g, team>>})
    /\ UNCHANGED <<tgame, entered, ids, points, total, results, applying, removing, due, scoring>>

Finish(g, team) ==
    /\ passing[g][team] = "open"
    /\ passing' = [passing EXCEPT ![g][team] = "finished"]
    /\ due' = due \cup {<<g, team>>}
    /\ UNCHANGED <<tgame, entered, ids, points, total, results, applying, removing, scoring>>

-----------------------------------------------------------------------------
(* Scoring.                                                                *)

\* UpdateScoresForGame up to its transaction.
ScoreRead(g, team) ==
    LET ts == {t \in Tournaments : tgame[t][g] = "in"}
    IN  /\ <<g, team>> \in due
        /\ due' = due \ {<<g, team>>}
        /\ scoring' = IF ts = {} THEN scoring ELSE scoring \cup {[g |-> g, team |-> team, ts |-> ts]}
        /\ UNCHANGED <<tgame, entered, passings, results, applying, removing>>

\* Mutant: passings that were scored for the tournament are read again.
Earns_Again(t, g, team) == passing[g][team] = "finished" /\ team \in entered[t]

\* A finished passing of an entered team that t has not scored yet.
Earns(t, g, team) ==
    /\ passing[g][team] = "finished"
    /\ team \in entered[t]
    /\ t \notin ToSet(ids[g][team])

\* What the step adds to a row of the leaderboard: UpsertMany.
Plus(r, score) == [score |-> r.score + score, played |-> r.played + 1]

\* The transaction of UpdateScoresForGame under the game's lock: every
\* tournament that was read, in the order the query returned them.
ScoreTx(s) ==
    \E order \in SetToSeqs(s.ts), award \in [{x \in s.ts \X Teams : Earns(x[1], s.g, x[2])} -> Points] :
        LET new(team) == Only(order, {t \in s.ts : <<t, team>> \in DOMAIN award})
            pts(team) == [i \in DOMAIN new(team) |-> award[<<new(team)[i], team>>]]
            add(team) == MapThenSumSet(LAMBDA i : pts(team)[i], DOMAIN new(team))
        IN  /\ ids' = [ids EXCEPT ![s.g] = [team \in Teams |-> @[team] \o new(team)]]
            /\ points' = [points EXCEPT ![s.g] = [team \in Teams |-> @[team] \o pts(team)]]
            /\ total' = [total EXCEPT ![s.g] = [team \in Teams |-> @[team] + add(team)]]
            /\ results' = [t \in Tournaments |-> [team \in Teams |->
                  IF <<t, team>> \in DOMAIN award
                  THEN Plus(results[t][team], award[<<t, team>>])
                  ELSE results[t][team]]]
            /\ scoring' = scoring \ {s}
            /\ UNCHANGED <<tgame, entered, passing, applying, removing, due>>

-----------------------------------------------------------------------------
(* Removal of a game.                                                      *)

IsScored(t, g) == \E team \in entered[t] : t \in ToSet(ids[g][team])

\* RemoveGame up to the advisory lock.  Whether the game is in the
\* tournament is not asked.
RemoveCheck(t, g, admin) ==
    /\ CallAdmitted
    /\ admin \/ ~IsScored(t, g)
    /\ removing' = removing \cup {[t |-> t, g |-> g, admin |-> admin]}
    /\ UNCHANGED <<tgame, entered, passings, results, applying, due, scoring>>

\* The position of t in the row's array, 0 if it is not there.
Position(t, g, team) == SelectInSeq(ids[g][team], LAMBDA x : x = t)

Scored(t, g, team) ==
    IF Position(t, g, team) = 0 THEN 0 ELSE points[g][team][Position(t, g, team)]

\* pointsRemoveExpr is NULL where t is not in the array or where nothing is
\* left, and the column does not take NULL.
RemoveFails(t, g) ==
    \E team \in entered[t] :
        /\ passing[g][team] # "none"
        /\ \/ Position(t, g, team) = 0
           \/ Len(ids[g][team]) = 1

\* Mutant: what was appended last is cut.
WithoutPoints_Last(t, g, team) == Front(points[g][team])

WithoutPoints(t, g, team) == RemoveAt(points[g][team], Position(t, g, team))

\* Mutant: games_played is forgotten.
Minus_KeepsPlayed(r, score) == [r EXCEPT !.score = @ - Min({@, score})]

\* A row of the leaderboard less what the game gave it; it is deleted with
\* the last game.
Minus(r, score) ==
    IF r.played = 1 THEN NoResult
    ELSE [score |-> r.score - Min({r.score, score}), played |-> r.played - 1]

\* The transaction of RemoveGame under the game's lock.
RemoveTx(r) ==
    LET cut(team) == team \in entered[r.t] /\ passing[r.g][team] # "none"
    IN  /\ removing' = removing \ {r}
        /\ IF RemoveFails(r.t, r.g) THEN UNCHANGED <<tgame, passings, results>>
           ELSE /\ tgame' = [tgame EXCEPT ![r.t][r.g] = IF @ = "in" THEN "deleted" ELSE @]
                /\ results' = [results EXCEPT ![r.t] = [team \in Teams |->
                      IF passing[r.g][team] = "finished" /\ Scored(r.t, r.g, team) > 0 /\ @[team].played > 0
                      THEN Minus(@[team], Scored(r.t, r.g, team))
                      ELSE @[team]]]
                /\ ids' = [ids EXCEPT ![r.g] = [team \in Teams |->
                      IF cut(team) THEN Only(@[team], Tournaments \ {r.t}) ELSE @[team]]]
                /\ points' = [points EXCEPT ![r.g] = [team \in Teams |->
                      IF cut(team) THEN WithoutPoints(r.t, r.g, team) ELSE @[team]]]
                /\ total' = [total EXCEPT ![r.g] = [team \in Teams |->
                      IF cut(team) THEN SumFunction(points'[r.g][team]) ELSE @[team]]]
                /\ UNCHANGED passing
        /\ UNCHANGED <<entered, applying, due, scoring>>

-----------------------------------------------------------------------------

Next ==
    \/ \E t \in Tournaments, g \in Games : AddGame(t, g)
    \/ \E t \in Tournaments, team \in Teams : ApplyRead(t, team)
    \/ \E a \in applying : ApplyCommit(a)
    \/ \E g \in Games, team \in Teams : JoinGame(g, team)
    \/ \E g \in Games, team \in Teams : Finish(g, team)
    \/ \E g \in Games, team \in Teams : ScoreRead(g, team)
    \/ \E s \in scoring : ScoreTx(s)
    \/ \E t \in Tournaments, g \in Games, admin \in BOOLEAN : RemoveCheck(t, g, admin)
    \/ \E r \in removing : RemoveTx(r)

Spec == Init /\ [][Next]_vars

-----------------------------------------------------------------------------

\* The leaderboard is what the passings say: a team's score in a tournament
\* is the sum of the points the tournament's id stands beside, over all
\* games, and games_played the number of games it stands in, through any
\* interleaving of callbacks, repeated callbacks, removals and tournaments
\* that share a game, as long as every place is worth something
\* (scoreTournamentInTx, UpsertMany, RemoveGame).
TotalsMatch ==
    \A t \in Tournaments, team \in Teams :
        /\ results[t][team].score = MapThenSumSet(LAMBDA g : Scored(t, g, team), Games)
        /\ results[t][team].played =
               Cardinality({g \in Games : t \in ToSet(ids[g][team])})

\* What a tournament has awarded to a passing stays what it was, at whatever
\* position other tournaments of the same game are scored or cut, until the
\* game is removed from this one.  Scoring appends to two arrays in two UPDATEs,
\* removal cuts each of them with an expression of its own (service.go:264-284,
\* 500-600).
AwardsStay ==
    [][\A t \in Tournaments, g \in Games, team \in Teams :
          t \in ToSet(ids[g][team]) =>
             \/ t \in ToSet(ids'[g][team]) /\ Scored(t, g, team)' = Scored(t, g, team)
             \/ \E r \in removing \ removing' : r.t = t /\ r.g = g]_vars

\* The two arrays of a passing are equally long, and tournament_points is the sum
\* of the second (service.go:274-300, 536-623).
ArraysParallel ==
    \A g \in Games, team \in Teams :
        /\ Len(ids[g][team]) = Len(points[g][team])
        /\ total[g][team] = SumFunction(points[g][team])

\* «Админу разрешено (поддержка/исправление) — очки списываются»
\* (service_test.go:235): a removal by an administrator removes the game.
AdminCanRemove ==
    [][\A r \in removing \ removing' : r.admin => tgame'[r.t][r.g] # "in"]_vars

\* «если игру пере-добавят, команды смогут пройти её заново и будут
\* начислены» (service.go:264-265): a game that was removed can be added.
CanBeAddedAgain ==
    \A t \in Tournaments, g \in Games : tgame[t][g] # "in" => ENABLED AddGame(t, g)

\* «запрещаем автору удаление игры, если очки за неё УЖЕ начислены»
\* (service.go:191-192): no removal by the author takes points from a team.
AuthorKeepsScores ==
    [][\A r \in removing \ removing' : ~r.admin => results' = results]_vars

\* «команды, зарегистрированные до добавления игры, не получат passing и не
\* будут начислены очки в новой игре» is what AddGame's loop prevents
\* (service.go:155-156): every entered team has a passing of every game.
EnteredHasPassing ==
    \A t \in Tournaments, g \in Games :
        tgame[t][g] = "in" => \A team \in entered[t] : passing[g][team] # "none"

=============================================================================
