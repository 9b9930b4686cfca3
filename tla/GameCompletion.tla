--------------------------- MODULE GameCompletion ---------------------------
(***************************************************************************)
(* What happens when a team of a game finishes: onGameFinished             *)
(* (cmd/server/main.go) starts a goroutine that computes the places,       *)
(* awards the tournament's points and then the players' rating, each in a  *)
(* transaction under the game's advisory lock and all under one context.   *)
(* A step that fails is logged and the next one goes on.  The callback     *)
(* itself returns at once, and its deferred bgCancel cancels the context:  *)
(* what the goroutine has not done by then fails.  Places are also         *)
(* computed by the snapshot worker as long as a team is playing, and an    *)
(* edit of the game saves all columns of a row it read before, the flag    *)
(* that guards the rating among them.                                      *)
(*                                                                         *)
(* One game, in one tournament in which all its teams are entered.  How a  *)
(* team comes to finish is in GamePlay, removal from the tournament in     *)
(* TournamentScoring.                                                      *)
(***************************************************************************)
EXTENDS Naturals, Sequences, FiniteSets, SequencesExt, FiniteSetsExt

CONSTANTS
    Teams,
    Players,
    MembersOf,     \* the members of a team, with its captain
    Author,        \* the author of the game, who may be a player
    Durations,     \* what a team's levels and penalties can add up to
    PointsFor      \* the tournament's points for place 1, 2, ...; at 0 for no place

ASSUME CompletionAssumption ==
    /\ IsFiniteSet(Teams)
    /\ MembersOf \in [Teams -> SUBSET Players]
    /\ Durations \subseteq Nat
    /\ PointsFor \in [0 .. Cardinality(Teams) -> Nat]

CONSTANTS
    ForceCall,     \* the callback of ForceFinishGame; a team's own is named by the team
    Edits,         \* bound: the edits of the game
    MaxTroubled    \* bound: how many callbacks lose a step

ASSUME ForceAssumption == ForceCall \notin Teams
ASSUME EditsAssumption == IsFiniteSet(Edits)

Callbacks == Teams \cup {ForceCall}

VARIABLES
    finished,      \* teams whose passing is finished; the others are playing
    duration,      \* the sum over the level_progresses of a finished team
    place,         \* game_passings.place, 0 for NULL
    scored,        \* teams in whose tournament_scored_ids the tournament is
    award,         \* tournament_points of a team
    rated,         \* games.rating_scored
    rating,        \* player_ratings.score
    pc,            \* how far the goroutine of a callback is
    lost,          \* the steps of a callback that have failed
    edit           \* an edit: what it has read of the flag, or how it ended

vars == <<finished, duration, place, scored, award, rated, rating, pc, lost, edit>>

Steps == {"calculate", "score", "rate"}

TypeOK ==
    /\ finished \subseteq Teams
    /\ duration \in [Teams -> Durations \cup {0}]
    /\ place \in [Teams -> 0 .. Cardinality(Teams)]
    /\ scored \subseteq finished
    /\ award \in [Teams -> Nat]
    /\ rated \in BOOLEAN
    /\ rating \in [Players -> Nat]
    /\ pc \in [Callbacks -> {"idle", "calculate", "score", "rate", "done"}]
    /\ lost \in [Callbacks -> SUBSET Steps]
    /\ edit \in [Edits -> {"new", "up", "down", "saved", "undid"}]

Init ==
    /\ finished = {}
    /\ duration = [t \in Teams |-> 0]
    /\ place = [t \in Teams |-> 0]
    /\ scored = {}
    /\ award = [t \in Teams |-> 0]
    /\ rated = FALSE
    /\ rating = [p \in Players |-> 0]
    /\ pc = [c \in Callbacks |-> "idle"]
    /\ lost = [c \in Callbacks |-> {}]
    /\ edit = [e \in Edits |-> "new"]

-----------------------------------------------------------------------------
(* Teams finish.                                                           *)

\* The last level of a team is completed, by an answer or by the sweep.
Finish(t, d) ==
    /\ t \notin finished
    /\ finished' = finished \cup {t}
    /\ duration' = [duration EXCEPT ![t] = d]
    /\ pc' = [pc EXCEPT ![t] = "calculate"]
    /\ UNCHANGED <<place, scored, award, rated, rating, lost, edit>>

\* ForceFinishGame: one callback for all teams still playing.
ForceFinish(ds) ==
    /\ finished # Teams
    /\ finished' = Teams
    /\ duration' = [t \in Teams |-> IF t \in finished THEN duration[t] ELSE ds[t]]
    /\ pc' = [pc EXCEPT ![ForceCall] = "calculate"]
    /\ UNCHANGED <<place, scored, award, rated, rating, lost, edit>>

-----------------------------------------------------------------------------
(* The goroutine of a callback goes through its steps.                     *)

\* What comes behind a step, and what is still to come with it.
Behind(step) == CASE step = "calculate" -> "score" [] step = "score" -> "rate" [] OTHER -> "done"
From(step) == CASE step = "calculate" -> Steps [] step = "score" -> {"score", "rate"}
                [] OTHER -> {"rate"}

Goes(c, step) == pc[c] = step /\ pc' = [pc EXCEPT ![c] = Behind(step)]

MayFail(c) == \/ lost[c] # {}
              \/ Cardinality({b \in Callbacks : lost[b] # {}}) < MaxTroubled

\* The transaction of one step fails and is rolled back; the error is logged.
StepFails(c) ==
    /\ MayFail(c)
    /\ \E step \in Steps : Goes(c, step) /\ lost' = [lost EXCEPT ![c] = @ \cup {step}]
    /\ UNCHANGED <<finished, duration, place, scored, award, rated, rating, edit>>

\* onGameFinished returns, or 30 seconds have passed: none of the steps still to
\* come does anything but fail.
Cancel(c) ==
    /\ MayFail(c)
    /\ pc[c] \in Steps
    /\ pc' = [pc EXCEPT ![c] = "done"]
    /\ lost' = [lost EXCEPT ![c] = @ \cup From(pc[c])]
    /\ UNCHANGED <<finished, duration, place, scored, award, rated, rating, edit>>

-----------------------------------------------------------------------------
(* CalculateResults.                                                       *)

\* Mutant: the counter is advanced before it is used.
PlacesIn_FromTwo(seq) == [i \in DOMAIN seq |-> i + 1]

\* The places along a sorted list of teams; equal times share a place.
PlacesIn(seq) ==
    LET at[i \in DOMAIN seq] ==
            IF i > 1 /\ duration[seq[i]] = duration[seq[i - 1]] THEN at[i - 1] ELSE i
    IN  at

\* Mutant: a team that has its place keeps it.
SetPlaces_OnlyNew ==
    \E seq \in SetToSeqs(finished) :
        /\ \A i \in DOMAIN seq \ {1} : duration[seq[i - 1]] <= duration[seq[i]]
        /\ place' = [t \in Teams |->
              IF t \in finished /\ place[t] = 0
              THEN PlacesIn(seq)[CHOOSE i \in DOMAIN seq : seq[i] = t] ELSE place[t]]

\* The order of equal elements is the sort's own.
SetPlaces ==
    \E seq \in SetToSeqs(finished) :
        /\ \A i \in DOMAIN seq \ {1} : duration[seq[i - 1]] <= duration[seq[i]]
        /\ place' = [t \in Teams |->
              IF t \in finished
              THEN PlacesIn(seq)[CHOOSE i \in DOMAIN seq : seq[i] = t] ELSE place[t]]

Calculate(c) ==
    /\ Goes(c, "calculate")
    /\ SetPlaces
    /\ UNCHANGED <<finished, duration, scored, award, rated, rating, lost, edit>>

\* ProcessSnapshot, in the snapshot worker: places are computed while a team
\* is playing and left to the callback otherwise.
SnapshotCalculate ==
    /\ finished # Teams
    /\ finished # {}
    /\ SetPlaces
    /\ UNCHANGED <<finished, duration, scored, award, rated, rating, pc, lost, edit>>

-----------------------------------------------------------------------------
(* UpdateScoresForGame and UpdateRatingsForGame.                           *)

\* Mutant: the teams that were scored are forgotten.
Unscored_All == finished

\* Finished passings the tournament has not scored, with or without a place.
Unscored == finished \ scored

Score(c) ==
    /\ Goes(c, "score")
    /\ award' = [t \in Teams |->
                    IF t \in Unscored THEN award[t] + PointsFor[place[t]] ELSE award[t]]
    /\ scored' = scored \cup finished
    /\ UNCHANGED <<finished, duration, place, rated, rating, lost, edit>>

\* The base points of a place.
BasePoints(pl) == CASE pl = 1 -> 10 [] pl = 2 -> 7 [] pl = 3 -> 5 [] OTHER -> 2

AuthorPoints == 5

\* Mutant: every call pays.
MayRate_Always == TRUE

\* Mutant: the players are paid when nobody is playing any more.
MayRate_WhenOver == ~rated /\ finished = Teams

\* A call pays while the flag of the game is down, and puts it up.
MayRate == ~rated

\* The author is paid, and everyone in a finished team, for any one of their teams.
Pay ==
    \E teamOf \in [Players -> Teams] :
        LET paid == {p \in Players : \E t \in finished : p \in MembersOf[t]}
        IN  /\ \A p \in paid : teamOf[p] \in finished /\ p \in MembersOf[teamOf[p]]
            /\ rated' = TRUE
            /\ rating' = [p \in Players |->
                  rating[p] + (IF p = Author THEN AuthorPoints ELSE 0)
                            + (IF p \in paid THEN BasePoints(place[teamOf[p]]) ELSE 0)]

Rate(c) ==
    /\ Goes(c, "rate")
    /\ IF MayRate THEN Pay ELSE UNCHANGED <<rated, rating>>
    /\ UNCHANGED <<finished, duration, place, scored, award, lost, edit>>

-----------------------------------------------------------------------------
(* An edit of the game: GameCRUDService.Update and UpdateGameWithCover.    *)

\* The row is read without a lock.  Only Update asks whether a team is playing,
\* and no longer when it saves.
ReadGame(e) ==
    /\ edit[e] = "new"
    /\ edit' = [edit EXCEPT ![e] = IF rated THEN "up" ELSE "down"]
    /\ UNCHANGED <<finished, duration, place, scored, award, rated, rating, pc, lost>>

\* Save writes every column, rating_scored as it was read.
SaveGame(e) ==
    /\ edit[e] \in {"up", "down"}
    /\ rated' = (edit[e] = "up")
    /\ edit' = [edit EXCEPT ![e] = IF rated /\ edit[e] = "down" THEN "undid" ELSE "saved"]
    /\ UNCHANGED <<finished, duration, place, scored, award, rating, pc, lost>>

-----------------------------------------------------------------------------

Next ==
    \/ \E t \in Teams, d \in Durations : Finish(t, d)
    \/ \E ds \in [Teams -> Durations] : ForceFinish(ds)
    \/ \E c \in Callbacks : StepFails(c) \/ Cancel(c)
    \/ \E c \in Callbacks : Calculate(c) \/ Score(c) \/ Rate(c)
    \/ SnapshotCalculate
    \/ \E e \in Edits : ReadGame(e) \/ SaveGame(e)

Spec == Init /\ [][Next]_vars

\* A goroutine that was started runs on: it waits for nothing but the
\* advisory lock, which every transaction gives back.
Fairness == \A c \in Callbacks : WF_vars(Calculate(c) \/ Score(c) \/ Rate(c) \/ StepFails(c))

FairSpec == Spec /\ Fairness

-----------------------------------------------------------------------------

\* The places are a competition ranking at any time: a placed team is one
\* behind the number of placed teams that were faster, teams with equal times
\* share their place, and a place is never left over from an earlier
\* computation (CalculateResults, run by callbacks and the snapshot worker).
PlacesRank ==
    \A t \in Teams : place[t] # 0 =>
        place[t] = 1 + Cardinality({u \in Teams : place[u] # 0 /\ duration[u] < duration[t]})

\* The edits that have put the flag down after it was up.
Undone == {e \in Edits : edit[e] = "undid"}

Share(p) == (IF p = Author THEN AuthorPoints ELSE 0)
              + (IF \E t \in finished : p \in MembersOf[t] THEN 10 ELSE 0)

\* However many teams finish, callbacks run and steps fail, the author is paid
\* once for the game and a player once, even one who is in several of its teams,
\* but for one more time for each edit that has saved an old row over the flag
\* (svc_rating.go:50-180, svc_crud.go:68-99, svc_cover.go:82-126).
PaidOncePerFlag == \A p \in Players : rating[p] <= (1 + Cardinality(Undone)) * Share(p)

\* «Авторские очки начисляются один раз за игру» (svc_rating.go:74), «очки рейтинга
\* за эту игру уже начислены (идемпотентность)» (model.go:44-45).
PaidOnce == \A p \in Players : rating[p] <= Share(p)

\* A team is awarded the tournament's points once: never more than its best
\* place is worth (scoreTournamentInTx under the advisory lock).
AwardedOnce ==
    \A t \in Teams :
        /\ t \notin scored => award[t] = 0
        /\ t \in scored => \E pl \in DOMAIN PointsFor : award[t] = PointsFor[pl]

\* A team is left without its place, its points or its players' rating only by
\* the failure of that very step in the callbacks that ran for it: whatever one
\* of them has done is not undone, skipped or left half done by the others, by
\* those whose steps fail or whose context is cancelled, or by the snapshot worker.
\* Only an edit takes the flag back (main.go:351-372).
LostOnlyByFailure ==
    \A t \in finished : \A c \in {t, ForceCall} :
        /\ pc[c] \in {"score", "rate", "done"} /\ "calculate" \notin lost[c] => place[t] # 0
        /\ pc[c] \in {"rate", "done"} /\ "score" \notin lost[c] => t \in scored
        /\ pc[c] = "done" /\ "rate" \notin lost[c] => rated \/ Undone # {}

\* «чтобы начисление очков завершилось даже при отмене контекста запроса»
\* (svc_play.go:131-132): a team that finishes is scored.
FinisherIsScored == \A t \in Teams : t \in finished ~> t \in scored

\* The game is over, and no callback has lost anything.
AllDone ==
    /\ finished = Teams
    /\ \A c \in Callbacks : pc[c] \in {"idle", "done"} /\ lost[c] = {}

\* «возвращает очки за место по правилам турнира» (tournament/service.go:625):
\* when the game is over and no step has failed, a team has the points of its
\* place.
AwardIsForPlace == AllDone => \A t \in Teams : award[t] = PointsFor[place[t]]

\* «раньше UpdateRatingsForGame не вызывался в проде — игроки не получали
\* очки за игры» (main.go:365-366): when the game is over and no step has failed,
\* every player of it has been paid.
PlayersArePaid == AllDone => \A t \in Teams : \A p \in MembersOf[t] : rating[p] > 0

=============================================================================
