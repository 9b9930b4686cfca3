--------------------------- MODULE GamePlayProofs ---------------------------
(***************************************************************************)
(* A team is on one level at a time, nobody plays a passing that has ended *)
(* and no status goes back, for every number of teams, levels, sweeps and  *)
(* every initial order.  The properties hold each other up: that a started *)
(* team has one open row needs that the sweeps own what they have planned, *)
(* and that needs that only one row of a passing is open.  On top of this  *)
(* the game implements PassingLife, from which follows what a single step  *)
(* may do to a passing.                                                    *)
(***************************************************************************)
EXTENDS GamePlay, FiniteSetTheorems, WellFoundedInduction, TLAPS

\* AtMostOneOpen without the cardinality.
OpenIsUnique ==
    \A p \in Passings : \A l, m \in Levels : IsOpen(p, l) /\ IsOpen(p, m) => l = m

OpenIsPlayed ==
    \A p \in Passings : \A l \in Levels :
        IsOpen(p, l) => status[p] \in {"started", "testing"}

IInv == TypeOK /\ OpenIsUnique /\ OpenIsPlayed /\ LocksAreExclusive

-----------------------------------------------------------------------------
(***************************************************************************)
(* The operators of the model.                                             *)
(***************************************************************************)

\* The lowest level of a set is in the set: positions are natural numbers.
LEMMA LowestType ==
    ASSUME NEW ls \in SUBSET Levels, TypeOK
    PROVE  Lowest(ls) \in ls \cup {NoLevel}
<1>1. CASE ls = {}
    BY <1>1 DEF Lowest
<1>2. CASE ls # {}
  <2> DEFINE P == {position[l] : l \in ls}
  <2>1. position \in [Levels -> Nat]
      BY LevelsAssumption DEF TypeOK
  <2>2. P \subseteq Nat /\ P # {}
      BY <2>1, <1>2
  <2>3. PICK x \in P : \A y \in P : ~ (<<y, x>> \in OpToRel(<, Nat))
    <3> HIDE DEF P
    <3> QED
      BY <2>2, NatLessThanWellFounded, WFMin, Zenon
  <2>4. \A y \in P : x <= y
    <3> HIDE DEF P
    <3>1. SUFFICES ASSUME NEW y \in P, y < x PROVE FALSE
        BY <2>2
    <3>2. <<y, x>> \in OpToRel(<, Nat)
        BY <2>2, <3>1 DEF OpToRel
    <3>3. QED
        BY <2>3, <3>2
  <2>5. \E l \in ls : \A m \in ls : position[l] <= position[m]
      BY <2>4
  <2>6. QED
      BY <1>2, <2>5 DEF Lowest
<1>3. QED
    BY <1>1, <1>2

LEMMA NextLevelType ==
    ASSUME TypeOK, NEW l \in Levels
    PROVE  NextLevel(l) \in Levels \cup {NoLevel}
<1> DEFINE ls == {m \in InOrder : position[m] > position[l]}
<1>1. ls \in SUBSET Levels
    BY DEF InOrder
<1>2. Lowest(ls) \in ls \cup {NoLevel}
    BY <1>1, LowestType
<1>3. QED
    BY <1>1, <1>2 DEF NextLevel

LEMMA FirstLevelType ==
    ASSUME TypeOK
    PROVE  FirstLevel \in Levels \cup {NoLevel}
<1>1. InOrder \in SUBSET Levels
    BY DEF InOrder
<1>2. QED
    BY <1>1, LowestType DEF FirstLevel

-----------------------------------------------------------------------------

LEMMA InitIInv == Init => IInv
<1> SUFFICES ASSUME Init PROVE IInv
    OBVIOUS
<1> USE DEF Init
<1>1. TypeOK
  <2>1. status \in [Passings -> Status] /\ reported \subseteq Passings
      BY DEF Status
  <2>2. progress \in [Passings -> [Levels -> Row]]
      BY DEF Row
  <2>3. position \in [Levels -> 0 .. MaxPosition] /\ starting \in BOOLEAN
      BY LevelsAssumption
  <2>4. scanned \in [Sweepers -> SUBSET (Passings \X Levels)]
      OBVIOUS
  <2>5. plan \in [Sweepers -> SUBSET Step]
      OBVIOUS
  <2>6. deleting \in [level : Levels \cup {NoLevel}, locked : SUBSET Passings]
      BY DEF Idle
  <2>7. QED
      BY <2>1, <2>2, <2>3, <2>4, <2>5, <2>6 DEF TypeOK
<1>2. OpenIsUnique /\ OpenIsPlayed
    BY DEF OpenIsUnique, OpenIsPlayed, IsOpen
<1>3. LocksAreExclusive
    BY DEF LocksAreExclusive, Idle
<1>4. QED
    BY <1>1, <1>2, <1>3 DEF IInv

\* What the steps that complete a level have in common: they change the row
\* of one passing that nobody else holds, and leave the plans alone.
LEMMA CompletePreservesIInv ==
    ASSUME IInv, NEW p \in Passings, NEW l \in Levels,
           IsOpen(p, l), RowIsFree(p, l), Complete(p, l),
           UNCHANGED <<position, starting, scanned, plan, deleting>>
    PROVE  IInv'
<1> DEFINE next == NextLevel(l)
<1> USE DEF IInv
<1>1. next \in Levels \cup {NoLevel}
    BY NextLevelType
<1>2. progress' = [progress EXCEPT ![p] = Advanced(@, l, next)]
    BY DEF Complete
<1>3. /\ progress \in [Passings -> [Levels -> Row]]
      /\ status \in [Passings -> Status]
      /\ plan \in [Sweepers -> SUBSET Step]
    BY DEF TypeOK
<1>4. /\ progress'[p] = [m \in Levels |->
                           IF m = l THEN "done" ELSE IF m = next THEN "open" ELSE progress[p][m]]
      /\ \A q \in Passings \ {p} : progress'[q] = progress[q]
    BY <1>2, <1>3 DEF Advanced
<1>5. /\ \A m \in Levels : IsOpen(p, m)' => m = next /\ m # l
      /\ \A q \in Passings \ {p} : \A m \in Levels : IsOpen(q, m)' <=> IsOpen(q, m)
    BY <1>4 DEF IsOpen, OpenIsUnique
<1>6. /\ \A q \in Passings \ {p} : status'[q] = status[q]
      /\ status[p] # "testing" /\ next = NoLevel => status'[p] = "finished"
      /\ status[p] = "testing" \/ next # NoLevel => status'[p] = status[p]
    BY <1>3 DEF Complete
<1>7. TypeOK'
  <2>1. progress' \in [Passings -> [Levels -> Row]]
    <3>1. progress'[p] \in [Levels -> Row]
        BY <1>3, <1>4 DEF Row
    <3>2. QED
        BY <1>2, <1>3, <3>1
  <2>2. status' \in [Passings -> Status] /\ reported' \subseteq Passings
      BY DEF Complete, ReportFinish, TypeOK, Status
  <2>3. QED
      BY <2>1, <2>2 DEF TypeOK
<1>8. OpenIsUnique'
    BY <1>5 DEF OpenIsUnique
<1>9. OpenIsPlayed'
    BY <1>1, <1>5, <1>6, LevelsAssumption DEF OpenIsPlayed
<1>10. LocksAreExclusive'
  <2>1. \A w \in Sweepers : \A s \in plan[w] : s.passing # p
    <3>1. SUFFICES ASSUME NEW w \in Sweepers, NEW s \in plan[w], s.passing = p
                   PROVE  FALSE
        OBVIOUS
    <3>2. s.level \in Levels
        BY <1>3 DEF Step
    <3>3. s.level = l
        BY <3>1, <3>2 DEF LocksAreExclusive, OpenIsUnique
    <3>4. QED
        BY <3>1, <3>3 DEF RowIsFree
  <2>2. \A w \in Sweepers : \A s \in plan[w] : s.passing \in Passings /\ s.level \in Levels
      BY <1>3 DEF Step
  <2>3. p \notin deleting.locked /\ deleting.locked \subseteq Passings
      BY DEF RowIsFree, TypeOK
  <2>4. \A w \in Sweepers : \A s \in plan[w] : IsOpen(s.passing, s.level)'
      BY <1>5, <2>1, <2>2 DEF LocksAreExclusive
  <2>5. QED
      BY <1>6, <2>3, <2>4 DEF LocksAreExclusive
<1>11. QED
    BY <1>7, <1>8, <1>9, <1>10

\* The passings of S, which have not been played, open the first level at most.
LEMMA OpeningPreservesIInv ==
    ASSUME IInv, NEW S \in SUBSET Passings,
           \A p \in S : /\ status[p] \notin {"started", "testing"}
                         /\ status'[p] \in {"started", "testing"}
                         /\ \A m \in Levels : m # FirstLevel => progress'[p][m] = progress[p][m],
           \A p \in Passings \ S : status'[p] = status[p] /\ progress'[p] = progress[p],
           status' \in [Passings -> Status],
           progress' \in [Passings -> [Levels -> Row]],
           starting' \in BOOLEAN,
           UNCHANGED <<position, reported, scanned, plan, deleting>>
    PROVE  IInv'
<1> USE DEF IInv
<1>1. \A p \in S : \A m \in Levels : ~IsOpen(p, m)
    BY DEF OpenIsPlayed
<1>2. \A p \in S : \A m \in Levels : IsOpen(p, m)' => m = FirstLevel
    BY <1>1 DEF IsOpen
<1>3. \A p \in Passings \ S : \A m \in Levels : IsOpen(p, m)' <=> IsOpen(p, m)
    BY DEF IsOpen
<1>4. TypeOK'
    BY DEF TypeOK
<1>5. OpenIsUnique'
    BY <1>2, <1>3 DEF OpenIsUnique
<1>6. OpenIsPlayed'
    BY <1>3 DEF OpenIsPlayed
<1>7. LocksAreExclusive'
  <2>1. \A w \in Sweepers : \A s \in plan[w] : s.passing \in Passings \ S /\ s.level \in Levels
    <3>1. \A w \in Sweepers : \A s \in plan[w] : s.passing \in Passings /\ s.level \in Levels
        BY DEF TypeOK, Step
    <3>2. QED
        BY <1>1, <3>1 DEF LocksAreExclusive
  <2>2. deleting.locked \subseteq Passings \ S
      BY DEF LocksAreExclusive, TypeOK
  <2>3. QED
      BY <1>3, <2>1, <2>2 DEF LocksAreExclusive
<1>8. QED
    BY <1>4, <1>5, <1>6, <1>7

\* The passings of S, played and locked by nobody, lose all their open rows.
LEMMA ClosingPreservesIInv ==
    ASSUME IInv, NEW S \in SUBSET Passings,
           \A p \in S : PassingIsFree(p),
           status' \in [Passings -> Status],
           \A p \in Passings \ S : status'[p] = status[p],
           progress' = [p \in Passings |-> IF p \in S THEN Closed(progress[p]) ELSE progress[p]],
           reported' \subseteq Passings,
           UNCHANGED <<position, starting, scanned, plan, deleting>>
    PROVE  IInv'
<1> USE DEF IInv
<1>1. progress \in [Passings -> [Levels -> Row]]
    BY DEF TypeOK
<1>2. \A p \in S : \A m \in Levels : ~IsOpen(p, m)'
    BY <1>1 DEF IsOpen, Closed
<1>3. \A p \in Passings \ S : \A m \in Levels : IsOpen(p, m)' <=> IsOpen(p, m)
    BY <1>1 DEF IsOpen
<1>4. TypeOK'
  <2>1. progress' \in [Passings -> [Levels -> Row]]
    <3>1. \A p \in Passings : Closed(progress[p]) \in [Levels -> Row]
        BY <1>1 DEF Closed, Row
    <3>2. QED
        BY <1>1, <3>1
  <2>2. QED
      BY <2>1 DEF TypeOK
<1>5. OpenIsUnique' /\ OpenIsPlayed'
    BY <1>2, <1>3 DEF OpenIsUnique, OpenIsPlayed
<1>6. LocksAreExclusive'
  <2>1. \A w \in Sweepers : \A s \in plan[w] : s.passing \in Passings /\ s.level \in Levels
      BY DEF TypeOK, Step
  <2>2. \A w \in Sweepers : \A s \in plan[w] : s.passing \notin S
    <3>1. SUFFICES ASSUME NEW w \in Sweepers, NEW s \in plan[w], s.passing \in S
                   PROVE  FALSE
        OBVIOUS
    <3>2. s.level \in OpenLevels(s.passing)
        BY <2>1 DEF LocksAreExclusive, OpenLevels
    <3>3. RowIsFree(s.passing, s.level)
        BY <3>1, <3>2 DEF PassingIsFree
    <3>4. QED
        BY <3>3 DEF RowIsFree
  <2>3. deleting.locked \subseteq Passings \ S
      BY DEF PassingIsFree, TypeOK
  <2>4. QED
      BY <1>3, <2>1, <2>2, <2>3 DEF LocksAreExclusive
<1>7. QED
    BY <1>4, <1>5, <1>6

-----------------------------------------------------------------------------
(***************************************************************************)
(* The actions.                                                            *)
(***************************************************************************)

LEMMA StartsPreserveIInv ==
    ASSUME IInv,
           \/ AutoStart
           \/ \E p \in Passings : StartGame(p) \/ StartTesting(p)
    PROVE  IInv'
<1> USE DEF IInv
<1>1. /\ progress \in [Passings -> [Levels -> Row]]
      /\ status \in [Passings -> Status]
      /\ starting \in BOOLEAN
    BY DEF TypeOK
<1>2. ASSUME NEW p \in Passings, StartGame(p) \/ StartTesting(p) PROVE IInv'
  <2>1. /\ status[p] \notin {"started", "testing"}
        /\ \E s \in {"started", "testing"} : status' = [status EXCEPT ![p] = s]
        /\ progress' = [progress EXCEPT ![p][FirstLevel] = "open"]
        /\ UNCHANGED <<position, reported, starting, scanned, plan, deleting>>
      BY <1>2 DEF StartGame, StartTesting
  <2>2. status' \in [Passings -> Status] /\ status'[p] \in {"started", "testing"}
      BY <1>1, <2>1 DEF Status
  <2>3. progress' \in [Passings -> [Levels -> Row]]
      BY <1>1, <2>1 DEF Row
  <2>4. \A m \in Levels : m # FirstLevel => progress'[p][m] = progress[p][m]
      BY <1>1, <2>1
  <2>5. \A q \in Passings \ {p} : status'[q] = status[q] /\ progress'[q] = progress[q]
      BY <1>1, <2>1
  <2>6. QED
    <3>1. {p} \in SUBSET Passings
        OBVIOUS
    <3>2. starting' \in BOOLEAN
        BY <1>1, <2>1, Zenon
    <3>3. \A q \in {p} : /\ status[q] \notin {"started", "testing"}
                         /\ status'[q] \in {"started", "testing"}
                         /\ \A m \in Levels : m # FirstLevel => progress'[q][m] = progress[q][m]
        BY <2>1, <2>2, <2>4
    <3>4. UNCHANGED <<position, reported, scanned, plan, deleting>>
        BY <2>1
    <3> HIDE DEF IInv
    <3>5. QED
        BY <2>2, <2>3, <2>5, <3>1, <3>2, <3>3, <3>4, OpeningPreservesIInv
<1>3. CASE AutoStart
  <2> DEFINE S == IF InStatus("accepted") = {} \/ FirstLevel = NoLevel
                  THEN {} ELSE InStatus("accepted")
  <2>1. S \in SUBSET Passings /\ \A p \in S : status[p] = "accepted"
      BY DEF InStatus
  <2>2. starting' \in BOOLEAN /\ UNCHANGED <<position, reported, scanned, plan, deleting>>
      BY <1>3 DEF AutoStart
  <2>3. CASE S = {}
    <3>1. status' = status /\ progress' = progress
        BY <1>3, <2>3 DEF AutoStart
    <3>2. QED
        BY <1>1, <2>1, <2>2, <2>3, <3>1, OpeningPreservesIInv
  <2>4. CASE S # {}
    <3>1. /\ status' = [p \in Passings |->
                          IF status[p] = "accepted" THEN "started" ELSE status[p]]
          /\ progress' = [p \in Passings |->
                            IF status[p] = "accepted" /\ progress[p][FirstLevel] = "none"
                            THEN [progress[p] EXCEPT ![FirstLevel] = "open"]
                            ELSE progress[p]]
          /\ S = InStatus("accepted")
        BY <1>3, <2>4 DEF AutoStart
    <3>2. status' \in [Passings -> Status]
        BY <1>1, <3>1 DEF Status
    <3>3. progress' \in [Passings -> [Levels -> Row]]
        BY <1>1, <3>1 DEF Row
    <3>4. \A p \in S : /\ status[p] \notin {"started", "testing"}
                        /\ status'[p] \in {"started", "testing"}
                        /\ \A m \in Levels : m # FirstLevel => progress'[p][m] = progress[p][m]
        BY <1>1, <2>1, <3>1
    <3>5. \A p \in Passings \ S : status'[p] = status[p] /\ progress'[p] = progress[p]
        BY <1>1, <3>1 DEF InStatus
    <3> HIDE DEF IInv, S
    <3>6. QED
        BY <2>1, <2>2, <3>2, <3>3, <3>4, <3>5, OpeningPreservesIInv
  <2>5. QED
      BY <2>3, <2>4
<1>4. QED
    BY <1>2, <1>3

\* An answer that waits for a moderator keeps its row open.
LEMMA AnswerPreservesIInv ==
    ASSUME IInv, NEW p \in Passings, NEW l \in Levels, IsOpen(p, l),
           progress' = [progress EXCEPT ![p][l] = "answered"],
           UNCHANGED <<status, position, reported, starting, scanned, plan, deleting>>
    PROVE  IInv'
<1> USE DEF IInv
<1>1. progress \in [Passings -> [Levels -> Row]]
    BY DEF TypeOK
<1>2. progress' \in [Passings -> [Levels -> Row]]
    BY <1>1 DEF Row
<1>3. \A q \in Passings : \A m \in Levels : IsOpen(q, m)' <=> IsOpen(q, m)
    BY <1>1 DEF IsOpen
<1>4. \A w \in Sweepers : \A s \in plan[w] : s.passing \in Passings /\ s.level \in Levels
    BY DEF TypeOK, Step
<1>5. TypeOK'
    BY <1>2 DEF TypeOK
<1>6. QED
    BY <1>3, <1>4, <1>5 DEF OpenIsUnique, OpenIsPlayed, LocksAreExclusive

LEMMA PlayPreservesIInv ==
    ASSUME IInv, Play PROVE IInv'
<1>1. PICK p \in Passings, l \in Levels :
        \/ SubmitCode(p, l) \/ SubmitFile(p, l) \/ AcceptBlackboxAnswer(p, l) \/ TestLevel(p, l)
    BY DEF Play
<1>2. CASE SubmitCode(p, l) /\ l \in Blackbox
    BY <1>2, AnswerPreservesIInv DEF SubmitCode
<1>3. CASE SubmitCode(p, l) /\ l \notin Blackbox
    BY <1>3, CompletePreservesIInv DEF SubmitCode
<1>4. CASE SubmitFile(p, l)
    BY <1>4, AnswerPreservesIInv DEF SubmitFile
<1>5. CASE AcceptBlackboxAnswer(p, l)
    BY <1>5, CompletePreservesIInv DEF AcceptBlackboxAnswer, IsOpen
<1>6. CASE TestLevel(p, l)
    BY <1>6, CompletePreservesIInv DEF TestLevel
<1>7. QED
    BY <1>1, <1>2, <1>3, <1>4, <1>5, <1>6

LEMMA EditPreservesIInv ==
    ASSUME IInv, Edit PROVE IInv'
<1> USE DEF IInv
<1>1. /\ position \in [Levels -> 0 .. MaxPosition]
      /\ MaxPosition \in Nat
    BY LevelsAssumption DEF TypeOK
<1>2. ASSUME position' \in [Levels -> 0 .. MaxPosition],
             UNCHANGED <<status, progress, reported, starting, scanned, plan, deleting>>
      PROVE  IInv'
    BY <1>2 DEF TypeOK, OpenIsUnique, OpenIsPlayed, LocksAreExclusive, IsOpen
<1>3. ASSUME NEW l \in Levels, NEW pos \in 1 .. MaxPosition,
             CreateLevel(l, pos) \/ UpdateLevel(l, pos)
      PROVE  IInv'
    BY <1>1, <1>2, <1>3 DEF CreateLevel, UpdateLevel
<1>4. ASSUME NEW l \in Levels, MoveLevel(l) PROVE IInv'
    BY <1>1, <1>2, <1>4, NextLevelType DEF MoveLevel
<1>5. ASSUME NEW l \in Levels, NEW m \in Levels, DuplicateLevel(l, m) PROVE IInv'
  <2>1. /\ \A k \in Levels : position[k] + 1 \in 0 .. MaxPosition
        /\ position' = [k \in Levels |->
                          IF k = m THEN position[l] + 1
                          ELSE IF position[k] > position[l] THEN position[k] + 1
                          ELSE position[k]]
      BY <1>1, <1>5 DEF DuplicateLevel
  <2>2. QED
      BY <1>1, <1>2, <1>5, <2>1 DEF DuplicateLevel
<1>6. QED
    BY <1>3, <1>4, <1>5 DEF Edit

\* A finish, by force or by disqualification, holds the rows it closes.
LEMMA ModerationPreservesIInv ==
    ASSUME IInv, ForceFinishGame \/ \E p \in Passings : DisqualifyTeam(p)
    PROVE  IInv'
<1>1. /\ status \in [Passings -> Status] /\ progress \in [Passings -> [Levels -> Row]]
      /\ reported \subseteq Passings
    BY DEF IInv, TypeOK
<1>2. CASE ForceFinishGame
  <2> DEFINE S == InStatus("started")
  <2>1. S \in SUBSET Passings /\ \A p \in S : PassingIsFree(p)
      BY <1>2 DEF ForceFinishGame, InStatus
  <2>2. /\ status' \in [Passings -> Status]
        /\ \A p \in Passings \ S : status'[p] = status[p]
      BY <1>1, <1>2 DEF ForceFinishGame, InStatus, Status
  <2>3. progress' = [p \in Passings |-> IF p \in S THEN Closed(progress[p]) ELSE progress[p]]
      BY <1>2 DEF ForceFinishGame, InStatus
  <2>4. reported' \subseteq Passings
      BY <1>2 DEF ForceFinishGame, ReportFinish
  <2>5. UNCHANGED <<position, starting, scanned, plan, deleting>>
      BY <1>2 DEF ForceFinishGame
  <2> HIDE DEF S
  <2>6. QED
      BY <2>1, <2>2, <2>3, <2>4, <2>5, ClosingPreservesIInv
<1>3. ASSUME NEW p \in Passings, DisqualifyTeam(p) PROVE IInv'
  <2>1. {p} \in SUBSET Passings /\ \A q \in {p} : PassingIsFree(q)
      BY <1>3 DEF DisqualifyTeam
  <2>2. /\ status' \in [Passings -> Status]
        /\ \A q \in Passings \ {p} : status'[q] = status[q]
      BY <1>1, <1>3 DEF DisqualifyTeam, Status
  <2>3. progress' = [q \in Passings |-> IF q \in {p} THEN Closed(progress[q]) ELSE progress[q]]
      BY <1>1, <1>3 DEF DisqualifyTeam
  <2>4. reported' \subseteq Passings
      BY <1>1, <1>3 DEF DisqualifyTeam
  <2>5. UNCHANGED <<position, starting, scanned, plan, deleting>>
      BY <1>3 DEF DisqualifyTeam
  <2>6. QED
      BY <2>1, <2>2, <2>3, <2>4, <2>5, ClosingPreservesIInv
<1>4. QED
    BY <1>2, <1>3

LEMMA LockPreservesIInv ==
    ASSUME IInv, NEW l \in Levels, DeleteLevelLock(l) PROVE IInv'
<1> USE DEF IInv
<1>1. UNCHANGED <<status, progress, position, reported, starting, scanned, plan>>
    BY DEF DeleteLevelLock
<1>2. deleting' = [level |-> l, locked |-> InStatus("started")]
    BY DEF DeleteLevelLock
<1>3. TypeOK'
    BY <1>1, <1>2 DEF TypeOK, InStatus
<1>4. OpenIsUnique' /\ OpenIsPlayed'
    BY <1>1 DEF OpenIsUnique, OpenIsPlayed, IsOpen
<1>5. \A w \in Sweepers : \A s \in plan[w] : s.passing \notin InStatus("started")
  <2>1. SUFFICES ASSUME NEW w \in Sweepers, NEW s \in plan[w], s.passing \in InStatus("started")
                 PROVE  FALSE
      OBVIOUS
  <2>2. s.passing \in Passings /\ s.level \in Levels
      BY DEF TypeOK, Step
  <2>3. s.level \in OpenLevels(s.passing)
      BY <2>2 DEF LocksAreExclusive, OpenLevels
  <2>4. RowIsFree(s.passing, s.level)
      BY <2>1, <2>3 DEF DeleteLevelLock, PassingIsFree
  <2>5. QED
      BY <2>4 DEF RowIsFree
<1>6. LocksAreExclusive'
    BY <1>1, <1>2, <1>5 DEF LocksAreExclusive, InStatus, IsOpen
<1>7. QED
    BY <1>3, <1>4, <1>6

LEMMA DeletePreservesIInv ==
    ASSUME IInv, DeleteLevel PROVE IInv'
<1> USE DEF IInv
<1> DEFINE l    == deleting.level
           next == NextLevel(l)
<1>1. /\ l \in Levels
      /\ \A p \in Moved : CanOpen(p, next)
      /\ \A w \in Sweepers : \A s \in plan[w] : s.level # l
      /\ progress' = [p \in Passings |->
            [(IF p \in Moved THEN Advanced(progress[p], l, next) ELSE progress[p])
               EXCEPT ![l] = "none"]]
      /\ status' = [p \in Passings |->
            IF p \in Moved /\ next = NoLevel THEN "finished" ELSE status[p]]
      /\ position' = [position EXCEPT ![l] = 0]
      /\ deleting' = Idle
      /\ UNCHANGED <<reported, starting, scanned, plan>>
    BY DEF DeleteLevel, TypeOK
<1>2. /\ progress \in [Passings -> [Levels -> Row]]
      /\ status \in [Passings -> Status]
      /\ plan \in [Sweepers -> SUBSET Step]
      /\ Moved \subseteq Passings
      /\ next \in Levels \cup {NoLevel}
    BY <1>1, NextLevelType DEF TypeOK, Moved
<1> HIDE DEF l, next
<1>3. \A p \in Moved : /\ IsOpen(p, l)
                        /\ \A m \in Levels : IsOpen(p, m)' => m = next /\ m # l
    <2>1. SUFFICES ASSUME NEW p \in Moved, NEW m \in Levels
                   PROVE  IsOpen(p, l) /\ (IsOpen(p, m)' => m = next /\ m # l)
        BY <1>1
    <2>2. IsOpen(p, l)
        BY DEF Moved, l
    <2>3. /\ m = l => progress'[p][m] = "none"
          /\ m = next /\ m # l => progress'[p][m] = "open"
          /\ m # next /\ m # l => progress'[p][m] = progress[p][m]
        BY <1>1, <1>2 DEF Advanced
    <2>4. m # l => ~IsOpen(p, m)
        BY <1>1, <1>2, <2>2 DEF OpenIsUnique
    <2>5. QED
        BY <2>2, <2>3, <2>4 DEF IsOpen
<1>4. \A p \in Passings \ Moved : \A m \in Levels : IsOpen(p, m)' <=> m # l /\ IsOpen(p, m)
    BY <1>1, <1>2 DEF IsOpen
<1>5. TypeOK'
  <2>1. progress' \in [Passings -> [Levels -> Row]]
    <3>1. \A p \in Passings : Advanced(progress[p], l, next) \in [Levels -> Row]
        BY <1>2 DEF Advanced, Row
    <3>2. \A p \in Passings : progress'[p] \in [Levels -> Row]
        BY <1>1, <1>2, <3>1 DEF Row
    <3>3. QED
        BY <1>1, <3>2
  <2>2. status' \in [Passings -> Status]
      BY <1>1, <1>2 DEF Status
  <2>3. position' \in [Levels -> 0 .. MaxPosition]
      BY <1>1, LevelsAssumption DEF TypeOK
  <2>4. QED
      BY <1>1, <2>1, <2>2, <2>3 DEF TypeOK, Idle
<1>6. OpenIsUnique'
    BY <1>3, <1>4 DEF OpenIsUnique
<1>7. OpenIsPlayed'
  <2>1. SUFFICES ASSUME NEW p \in Passings, NEW m \in Levels, IsOpen(p, m)'
                 PROVE  status'[p] \in {"started", "testing"}
      BY DEF OpenIsPlayed
  <2>2. CASE p \in Moved
      BY <1>1, <1>2, <1>3, <2>1, <2>2, LevelsAssumption DEF OpenIsPlayed
  <2>3. CASE p \notin Moved
      BY <1>1, <1>4, <2>1, <2>3 DEF OpenIsPlayed
  <2>4. QED
      BY <2>2, <2>3
<1>8. LocksAreExclusive'
  <2>1. \A w \in Sweepers : \A s \in plan[w] :
            s.passing \in Passings \ Moved /\ s.level \in Levels /\ s.level # l
      BY <1>1, <1>2 DEF LocksAreExclusive, Step, Moved
  <2>2. \A w \in Sweepers : \A s \in plan[w] : IsOpen(s.passing, s.level)'
      BY <1>4, <2>1 DEF LocksAreExclusive
  <2>3. QED
      BY <1>1, <2>2 DEF LocksAreExclusive, Idle
<1>9. QED
    BY <1>5, <1>6, <1>7, <1>8

LEMMA SweepUpdatePreservesIInv ==
    ASSUME IInv, NEW w \in Sweepers, SweepUpdate(w) PROVE IInv'
<1> USE DEF IInv
<1> DEFINE rows    == {r \in scanned[w] : IsOpen(r[1], r[2])}
           step(r) == [passing |-> r[1], level |-> r[2], next |-> NextLevel(r[2])]
<1>1. /\ \A r \in rows : RowIsFree(r[1], r[2])
      /\ scanned' = [scanned EXCEPT ![w] = {}]
      /\ plan' = [plan EXCEPT ![w] = {step(r) : r \in rows}]
      /\ UNCHANGED <<status, progress, position, reported, starting, deleting>>
    BY DEF SweepUpdate
<1>2. /\ scanned \in [Sweepers -> SUBSET (Passings \X Levels)]
      /\ plan \in [Sweepers -> SUBSET Step]
    BY DEF TypeOK
<1>3. \A r \in rows : r[1] \in Passings /\ r[2] \in Levels /\ IsOpen(r[1], r[2])
    BY <1>2
<1>4. \A r \in rows : step(r) \in Step
    BY <1>3, NextLevelType DEF Step
<1>5. TypeOK'
  <2>1. scanned' \in [Sweepers -> SUBSET (Passings \X Levels)]
      BY <1>1, <1>2
  <2>2. plan' \in [Sweepers -> SUBSET Step]
      BY <1>1, <1>2, <1>4
  <2>3. QED
      BY <1>1, <2>1, <2>2 DEF TypeOK
<1>6. OpenIsUnique' /\ OpenIsPlayed'
    BY <1>1 DEF OpenIsUnique, OpenIsPlayed, IsOpen
<1>7. \A p \in Passings : \A l \in Levels : IsOpen(p, l)' <=> IsOpen(p, l)
    BY <1>1 DEF IsOpen
<1>8. \A s \in plan'[w] : \E r \in rows : s = step(r)
    BY <1>1, <1>2
<1>9. \A v \in Sweepers \ {w} : plan'[v] = plan[v]
    BY <1>1, <1>2
<1>10. \A v \in Sweepers : \A t \in plan[v] :
          /\ t.passing \in Passings /\ t.level \in Levels
          /\ IsOpen(t.passing, t.level) /\ t.passing \notin deleting.locked
    BY <1>2 DEF LocksAreExclusive, Step
<1>11. \A r \in rows : \A v \in Sweepers : \A t \in plan[v] : t.passing # r[1]
  <2>1. SUFFICES ASSUME NEW r \in rows, NEW v \in Sweepers, NEW t \in plan[v], t.passing = r[1]
                 PROVE  FALSE
      OBVIOUS
  <2>2. t.level = r[2]
      BY <1>3, <1>10, <2>1 DEF OpenIsUnique
  <2>3. RowIsFree(r[1], r[2])
      BY <1>1
  <2>4. QED
      BY <2>1, <2>2, <2>3 DEF RowIsFree
<1>12. \A r, q \in rows : r[1] = q[1] => step(r) = step(q)
    BY <1>3 DEF OpenIsUnique
<1>13. \A s \in plan'[w] : /\ s.passing \in Passings /\ s.level \in Levels
                           /\ IsOpen(s.passing, s.level) /\ s.passing \notin deleting.locked
    BY <1>1, <1>3, <1>8 DEF RowIsFree
<1>14. \A s, t \in plan'[w] : s.passing = t.passing => s = t
  <2>1. SUFFICES ASSUME NEW s \in plan'[w], NEW t \in plan'[w], s.passing = t.passing
                 PROVE  s = t
      OBVIOUS
  <2>2. PICK r \in rows : s = step(r)
      BY <1>8
  <2>3. PICK q \in rows : t = step(q)
      BY <1>8
  <2>4. r[1] = q[1]
      BY <2>1, <2>2, <2>3
  <2>5. QED
      BY <1>12, <2>2, <2>3, <2>4
<1>15. \A s \in plan'[w] : \A v \in Sweepers : \A t \in plan[v] : t.passing # s.passing
    BY <1>8, <1>11
<1> HIDE DEF rows, step
<1>16. LocksAreExclusive'
  <2>1. ASSUME NEW u \in Sweepers, NEW v \in Sweepers, NEW s \in plan'[u], NEW t \in plan'[v],
               s.passing = t.passing
        PROVE  u = v /\ s = t
    <3>1. CASE u = w /\ v = w
        BY <1>14, <2>1, <3>1
    <3>2. CASE u = w /\ v # w
        BY <1>9, <1>15, <2>1, <3>2
    <3>3. CASE u # w /\ v = w
        BY <1>9, <1>15, <2>1, <3>3
    <3>4. CASE u # w /\ v # w
        BY <1>9, <2>1, <3>4 DEF LocksAreExclusive
    <3>5. QED
        BY <3>1, <3>2, <3>3, <3>4
  <2>2. ASSUME NEW v \in Sweepers, NEW t \in plan'[v]
        PROVE  IsOpen(t.passing, t.level)' /\ t.passing \notin deleting.locked
      BY <1>7, <1>9, <1>10, <1>13, <2>2
  <2>3. QED
      BY <1>1, <2>1, <2>2 DEF LocksAreExclusive
<1>17. QED
    BY <1>5, <1>6, <1>16

LEMMA SweepCommitPreservesIInv ==
    ASSUME IInv, NEW w \in Sweepers, SweepCommit(w) PROVE IInv'
<1> USE DEF IInv
<1>1. /\ \A s \in plan[w] : CanOpen(s.passing, s.next)
      /\ progress' = [p \in Passings |->
            IF Planned(w, p) = {} THEN progress[p]
            ELSE LET s == CHOOSE s \in Planned(w, p) : TRUE
                 IN  Advanced(progress[p], s.level, s.next)]
      /\ status' = [p \in Passings |->
            IF status[p] # "testing" /\ \E s \in Planned(w, p) : s.next = NoLevel
            THEN "finished" ELSE status[p]]
      /\ plan' = [plan EXCEPT ![w] = {}]
      /\ UNCHANGED <<position, starting, scanned, deleting>>
    BY DEF SweepCommit
<1>2. /\ progress \in [Passings -> [Levels -> Row]]
      /\ status \in [Passings -> Status]
      /\ plan \in [Sweepers -> SUBSET Step]
      /\ \A v \in Sweepers : \A s \in plan[v] :
            s.passing \in Passings /\ s.level \in Levels /\ s.next \in Levels \cup {NoLevel}
    BY DEF TypeOK, Step
<1>3. \A s \in plan[w] : Planned(w, s.passing) = {s}
    BY DEF Planned, LocksAreExclusive
<1>4. \A s \in plan[w] :
          /\ progress'[s.passing] = Advanced(progress[s.passing], s.level, s.next)
          /\ status'[s.passing] = IF status[s.passing] # "testing" /\ s.next = NoLevel
                                  THEN "finished" ELSE status[s.passing]
    BY <1>1, <1>2, <1>3
<1> DEFINE Rest == {p \in Passings : Planned(w, p) = {}}
<1>5. \A p \in Rest : progress'[p] = progress[p] /\ status'[p] = status[p]
    BY <1>1
<1>6. \A p \in Passings \ Rest : \E s \in plan[w] : s.passing = p
    BY DEF Planned
<1>7. \A s \in plan[w] : \A m \in Levels :
          IsOpen(s.passing, m)' => m = s.next /\ m # s.level
  <2>1. SUFFICES ASSUME NEW s \in plan[w], NEW m \in Levels
                 PROVE  IsOpen(s.passing, m)' => m = s.next /\ m # s.level
      OBVIOUS
  <2>2. progress'[s.passing][m] = IF m = s.level THEN "done"
                                  ELSE IF m = s.next THEN "open" ELSE progress[s.passing][m]
      BY <1>4 DEF Advanced
  <2>3. m # s.level => ~IsOpen(s.passing, m)
      BY <1>2 DEF LocksAreExclusive, OpenIsUnique
  <2>4. QED
      BY <2>2, <2>3 DEF IsOpen
<1>8. \A p \in Rest : \A m \in Levels : IsOpen(p, m)' <=> IsOpen(p, m)
    BY <1>5 DEF IsOpen
<1>9. TypeOK'
  <2>1. progress' \in [Passings -> [Levels -> Row]]
    <3>1. \A s \in plan[w] : Advanced(progress[s.passing], s.level, s.next) \in [Levels -> Row]
        BY <1>2 DEF Advanced, Row
    <3>2. \A p \in Passings : progress'[p] \in [Levels -> Row]
        BY <1>2, <1>4, <1>5, <1>6, <3>1
    <3>3. QED
        BY <1>1, <3>2
  <2>2. status' \in [Passings -> Status]
      BY <1>1, <1>2 DEF Status
  <2>3. reported' \subseteq Passings
      BY DEF SweepCommit, ReportFinish, TypeOK
  <2>4. plan' \in [Sweepers -> SUBSET Step]
      BY <1>1, <1>2
  <2>5. QED
      BY <1>1, <2>1, <2>2, <2>3, <2>4 DEF TypeOK
<1>10. OpenIsUnique' /\ OpenIsPlayed'
  <2>1. \A p \in Passings \ Rest :
            /\ \A l, m \in Levels : IsOpen(p, l)' /\ IsOpen(p, m)' => l = m
            /\ \A m \in Levels : IsOpen(p, m)' => status'[p] \in {"started", "testing"}
    <3>1. SUFFICES ASSUME NEW s \in plan[w]
                   PROVE  \A m \in Levels :
                             IsOpen(s.passing, m)' => status'[s.passing] \in {"started", "testing"}
        BY <1>6, <1>7
    <3>2. status[s.passing] \in {"started", "testing"}
        BY <1>2 DEF LocksAreExclusive, OpenIsPlayed
    <3>3. QED
        BY <1>4, <1>7, <3>2, LevelsAssumption
  <2>2. QED
      BY <1>5, <1>8, <2>1 DEF OpenIsUnique, OpenIsPlayed
<1>11. LocksAreExclusive'
  <2>1. plan'[w] = {} /\ \A v \in Sweepers \ {w} : plan'[v] = plan[v]
      BY <1>1, <1>2
  <2>2. \A v \in Sweepers \ {w} : \A t \in plan[v] : t.passing \in Rest
      BY <1>2 DEF LocksAreExclusive, Planned
  <2>3. \A v \in Sweepers \ {w} : \A t \in plan[v] : IsOpen(t.passing, t.level)'
      BY <1>2, <1>8, <2>2 DEF LocksAreExclusive
  <2>4. deleting.locked \subseteq Rest
      BY DEF LocksAreExclusive, Planned, TypeOK
  <2>5. QED
      BY <1>1, <1>5, <2>1, <2>3, <2>4 DEF LocksAreExclusive
<1>12. QED
    BY <1>9, <1>10, <1>11

-----------------------------------------------------------------------------

LEMMA NextPreservesIInv == IInv /\ [Next]_vars => IInv'
<1> SUFFICES ASSUME IInv, [Next]_vars PROVE IInv'
    OBVIOUS
<1>1. CASE UNCHANGED vars
    BY <1>1 DEF vars, IInv, TypeOK, OpenIsUnique, OpenIsPlayed, LocksAreExclusive, IsOpen
<1>2. ASSUME NEW p \in Passings, Apply(p) \/ Review(p) PROVE IInv'
  <2> USE DEF IInv
  <2>1. status \in [Passings -> Status]
      BY DEF TypeOK
  <2>2. /\ status[p] \in {"none", "pending"}
        /\ \E s \in {"pending", "accepted", "rejected"} : status' = [status EXCEPT ![p] = s]
        /\ UNCHANGED <<progress, position, reported, starting, scanned, plan, deleting>>
      BY <1>2 DEF Apply, Review
  <2>3. status' \in [Passings -> Status]
      BY <2>1, <2>2 DEF Status
  <2>4. \A q \in Passings \ {p} : status'[q] = status[q]
      BY <2>1, <2>2
  <2>5. \A l \in Levels : ~IsOpen(p, l)
      BY <2>2 DEF OpenIsPlayed
  <2>6. TypeOK'
      BY <2>2, <2>3 DEF TypeOK
  <2>7. OpenIsUnique' /\ OpenIsPlayed'
      BY <2>2, <2>4, <2>5 DEF OpenIsUnique, OpenIsPlayed, IsOpen
  <2>8. p \notin deleting.locked /\ deleting.locked \subseteq Passings
      BY <2>2 DEF LocksAreExclusive, TypeOK
  <2>9. LocksAreExclusive'
      BY <2>2, <2>4, <2>8 DEF LocksAreExclusive, IsOpen
  <2>10. QED
      BY <2>6, <2>7, <2>9
<1>3. CASE AutoStart \/ \E p \in Passings : StartGame(p) \/ StartTesting(p)
    BY <1>3, StartsPreserveIInv
<1>4. CASE AutoStartCount
    BY <1>4 DEF AutoStartCount, IInv, TypeOK, OpenIsUnique, OpenIsPlayed, LocksAreExclusive, IsOpen
<1>5. CASE ForceFinishGame \/ \E p \in Passings : DisqualifyTeam(p)
    BY <1>5, ModerationPreservesIInv
<1>6. CASE \E l \in Levels : DeleteLevelLock(l)
    BY <1>6, LockPreservesIInv
<1>7. CASE DeleteLevelRollback
    BY <1>7 DEF DeleteLevelRollback, Idle, IInv, TypeOK, OpenIsUnique, OpenIsPlayed,
                LocksAreExclusive, IsOpen
<1>8. ASSUME NEW w \in Sweepers, SweepScan(w) PROVE IInv'
  <2>1. scanned' \in [Sweepers -> SUBSET (Passings \X Levels)]
      BY <1>8 DEF SweepScan, IInv, TypeOK
  <2>2. UNCHANGED <<status, progress, position, reported, starting, plan, deleting>>
      BY <1>8 DEF SweepScan
  <2>3. QED
      BY <2>1, <2>2 DEF IInv, TypeOK, OpenIsUnique, OpenIsPlayed, LocksAreExclusive, IsOpen
<1>9. ASSUME NEW w \in Sweepers, SweepRollback(w) PROVE IInv'
  <2>1. plan' = [plan EXCEPT ![w] = {}] /\ plan \in [Sweepers -> SUBSET Step]
      BY <1>9 DEF SweepRollback, IInv, TypeOK
  <2>2. UNCHANGED <<status, progress, position, reported, starting, scanned, deleting>>
      BY <1>9 DEF SweepRollback
  <2>3. \A v \in Sweepers : plan'[v] \subseteq plan[v]
      BY <2>1
  <2>4. QED
      BY <2>1, <2>2, <2>3 DEF IInv, TypeOK, OpenIsUnique, OpenIsPlayed, LocksAreExclusive, IsOpen
<1>10. QED
    BY <1>1, <1>2, <1>3, <1>4, <1>5, <1>6, <1>7, <1>8, <1>9, PlayPreservesIInv, EditPreservesIInv,
       DeletePreservesIInv, SweepUpdatePreservesIInv, SweepCommitPreservesIInv DEF Next

\* The inductive invariant, type correctness and the exclusiveness of the locks
\* of sweeps and deletions among its parts.
THEOREM Invariance == Spec => []IInv
<1>1. QED
    BY InitIInv, NextPreservesIInv, PTL DEF Spec

THEOREM TypeCorrect == Spec => []TypeOK
<1>1. IInv => TypeOK
    BY DEF IInv
<1>2. QED
    BY <1>1, Invariance, PTL

\* A team is on one level at a time.
THEOREM OneLevelAtATime == Spec => []AtMostOneOpen
<1>1. IInv => AtMostOneOpen
  <2>1. SUFFICES ASSUME IInv, NEW p \in Passings PROVE Cardinality(OpenLevels(p)) <= 1
      BY DEF AtMostOneOpen
  <2>2. CASE OpenLevels(p) = {}
      BY <2>2, FS_EmptySet
  <2>3. ASSUME NEW l \in OpenLevels(p) PROVE Cardinality(OpenLevels(p)) <= 1
    <3>1. OpenLevels(p) = {l}
        BY <2>1, <2>3 DEF IInv, OpenIsUnique, OpenLevels
    <3>2. QED
        BY <3>1, FS_Singleton
  <2>4. QED
      BY <2>2, <2>3
<1>2. QED
    BY <1>1, Invariance, PTL

\* Whoever plays is in play: a finished or disqualified passing accepts no code.
THEOREM OnlyInPlay == Spec => []OpenOnlyInPlay
<1>1. IInv => OpenOnlyInPlay
    BY DEF IInv, OpenIsPlayed, OpenOnlyInPlay, OpenLevels
<1>2. QED
    BY <1>1, Invariance, PTL

\* Sweeps and the deletion of a level own what they have locked.
THEOREM ExclusiveLocks == Spec => []LocksAreExclusive
<1>1. IInv => LocksAreExclusive
    BY DEF IInv
<1>2. QED
    BY <1>1, Invariance, PTL

-----------------------------------------------------------------------------
(***************************************************************************)
(* The refinement: every step of the game is one of PassingLife for every  *)
(* passing at once.  Two facts about the rows are needed besides IInv.     *)
(* Before a passing begins it has no rows, so that the first level, which  *)
(* a test run opens without a look at them, is not one it has played; and  *)
(* a row is of a level that exists.                                        *)
(***************************************************************************)

EmptyBeforeStart ==
    \A p \in Passings : status[p] \in {"none", "pending", "accepted", "rejected"}
        => \A l \in Levels : progress[p][l] = "none"

RowsHaveLevels ==
    \A p \in Passings, l \in Levels : progress[p][l] # "none" => position[l] > 0

LifeInv == IInv /\ EmptyBeforeStart /\ RowsHaveLevels

\* What the refinement reads of a passing.
LEMMA LifeOfPassing ==
    ASSUME NEW p \in Passings
    PROVE  /\ openLevels[p] = {l \in Levels : progress[p][l] \in {"open", "answered"}}
           /\ openLevels'[p] = {l \in Levels : progress'[p][l] \in {"open", "answered"}}
           /\ doneLevels[p] = {l \in Levels : progress[p][l] = "done"}
           /\ doneLevels'[p] = {l \in Levels : progress'[p][l] = "done"}
           /\ InOrder = {l \in Levels : position[l] > 0}
           /\ InOrder' = {l \in Levels : position'[l] > 0}
    BY DEF openLevels, doneLevels, OpenLevels, IsOpen, InOrder

\* The same, one level at a time.
LEMMA LifeAtLevel ==
    ASSUME NEW p \in Passings, NEW m \in Levels
    PROVE  /\ m \in openLevels[p] <=> progress[p][m] \in {"open", "answered"}
           /\ m \in openLevels'[p] <=> progress'[p][m] \in {"open", "answered"}
           /\ m \in doneLevels[p] <=> progress[p][m] = "done"
           /\ m \in doneLevels'[p] <=> progress'[p][m] = "done"
           /\ m \in InOrder <=> position[m] > 0
           /\ m \in InOrder' <=> position'[m] > 0
    BY LifeOfPassing

LEMMA LifeOfLevels ==
    ASSUME NEW p \in Passings
    PROVE  /\ openLevels[p] \subseteq Levels /\ openLevels'[p] \subseteq Levels
           /\ doneLevels[p] \subseteq Levels /\ doneLevels'[p] \subseteq Levels
    BY LifeOfPassing

\* The row of a level that is still there keeps its state, or an answer is
\* handed in; the rows of a level that is gone are gone.
Unmoved(p) ==
    /\ status'[p] = status[p]
    /\ \A l \in Levels :
          IF position'[l] > 0
          THEN /\ progress'[p][l] = "done" <=> progress[p][l] = "done"
               /\ IsOpen(p, l)' <=> IsOpen(p, l)
          ELSE progress'[p][l] = "none"

LEMMA UnmovedStays ==
    ASSUME NEW p \in Passings, Unmoved(p)
    PROVE  Life!Lives(p)
<1>1. openLevels'[p] = openLevels[p] \cap InOrder'
    BY LifeOfPassing DEF Unmoved, IsOpen
<1>2. doneLevels'[p] = doneLevels[p] \cap InOrder'
    BY LifeOfPassing DEF Unmoved
<1>3. QED
    BY <1>1, <1>2 DEF Unmoved, Life!Lives, Life!Stays

\* No level disappears while the passing does not move.
LEMMA UntouchedStays ==
    ASSUME LifeInv, NEW p \in Passings,
           status'[p] = status[p], progress'[p] = progress[p],
           \A l \in Levels : position[l] > 0 => position'[l] > 0
    PROVE  Life!Lives(p)
<1>1. Unmoved(p)
    BY DEF Unmoved, IsOpen, LifeInv, RowsHaveLevels
<1>2. QED
    BY <1>1, UnmovedStays

\* A passing leaves its open level l for next, or ends: what a player's code,
\* a sweep and a deletion have in common.
Advances(p, l, next) ==
    /\ IsOpen(p, l)
    /\ next # NoLevel => next \in Levels /\ progress[p][next] = "none" /\ position'[next] > 0
    /\ \A m \in Levels :
          progress'[p][m] = IF ~ (position'[m] > 0) THEN "none"
                            ELSE IF m = l THEN "done"
                            ELSE IF m = next THEN "open"
                            ELSE progress[p][m]
    /\ status'[p] = IF next = NoLevel /\ status[p] # "testing" THEN "finished" ELSE status[p]

LEMMA AdvancesLives ==
    ASSUME LifeInv, NEW p \in Passings, NEW l \in Levels, NEW next, Advances(p, l, next)
    PROVE  Life!Lives(p)
<1>1. openLevels[p] = {l} /\ status[p] \in {"started", "testing"}
    BY LifeOfPassing DEF Advances, LifeInv, IInv, OpenIsUnique, OpenIsPlayed, IsOpen
<1> DEFINE after(m) == IF ~ (position'[m] > 0) THEN "none"
                       ELSE IF m = l THEN "done"
                       ELSE IF m = next THEN "open"
                       ELSE progress[p][m]
<1>a. \A m \in Levels : progress'[p][m] = after(m)
    BY DEF Advances
<1>b. /\ l # next
      /\ next # NoLevel => next \in Levels /\ progress[p][next] = "none" /\ position'[next] > 0
    BY LevelsAssumption DEF Advances, IsOpen
<1>2. doneLevels'[p] = (doneLevels[p] \cup {l}) \cap InOrder'
  <2>1. ASSUME NEW m \in Levels
        PROVE  m \in doneLevels'[p] <=> (m \in doneLevels[p] \/ m = l) /\ m \in InOrder'
    <3>1. progress'[p][m] = after(m)
        BY <1>a, <2>1
    <3>2. m = next => progress[p][m] = "none"
        BY <1>b, <2>1, LevelsAssumption
    <3>3. QED
        BY <2>1, <3>1, <3>2, LifeAtLevel
  <2>2. QED
      BY <2>1, LifeOfLevels
<1>3. ASSUME NEW m \in Levels PROVE m \in openLevels'[p] <=> m = next
  <2>0. progress'[p][m] = after(m)
      BY <1>a, <1>3
  <2>1. CASE ~ (position'[m] > 0)
      BY <1>3, <1>b, <2>0, <2>1, LifeAtLevel, LevelsAssumption
  <2>2. CASE position'[m] > 0 /\ m = l
      BY <1>3, <1>b, <2>0, <2>2, LifeAtLevel
  <2>3. CASE position'[m] > 0 /\ m # l /\ m # next
    <3>1. progress'[p][m] = progress[p][m]
        BY <1>3, <2>3 DEF Advances
    <3>2. m \notin openLevels[p]
        BY <1>1, <2>3
    <3>3. QED
        BY <1>3, <2>3, <3>1, <3>2, LifeOfPassing
  <2>4. CASE position'[m] > 0 /\ m # l /\ m = next
      BY <1>3, <2>4, LifeOfPassing DEF Advances
  <2>5. QED
      BY <2>1, <2>2, <2>3, <2>4
<1>4. openLevels'[p] \subseteq Levels
    BY LifeOfPassing
<1>5. CASE next # NoLevel
  <2>1. openLevels'[p] = {next} /\ status'[p] = status[p]
      BY <1>3, <1>4, <1>5 DEF Advances
  <2>2. next \in InOrder' \ (doneLevels[p] \cup {l})
      BY <1>5, LifeOfPassing DEF Advances, IsOpen
  <2>3. Life!GoesOn(p)
      BY <1>1, <1>2, <2>1, <2>2 DEF Life!GoesOn
  <2>4. QED
      BY <2>3 DEF Life!Lives
<1>6. CASE next = NoLevel
  <2>1. openLevels'[p] = {}
      BY <1>3, <1>4, <1>6, LevelsAssumption
  <2>2. CASE status[p] = "testing"
      BY <1>1, <1>2, <1>6, <2>1, <2>2 DEF Advances, Life!Lives, Life!TestsToTheEnd
  <2>3. CASE status[p] = "started"
      BY <1>1, <1>2, <1>6, <2>1, <2>3 DEF Advances, Life!Lives, Life!Ends
  <2>4. QED
      BY <1>1, <2>2, <2>3
<1>7. QED
    BY <1>5, <1>6

LEMMA BeginsLives ==
    ASSUME LifeInv, NEW p \in Passings, position' = position,
           \/ status[p] = "accepted" /\ status'[p] = "started"
           \/ status[p] = "none" /\ status'[p] = "testing",
           FirstLevel # NoLevel,
           progress'[p] = [progress[p] EXCEPT ![FirstLevel] = "open"]
    PROVE  Life!Lives(p)
<1>1. FirstLevel \in InOrder
  <2>1. InOrder \in SUBSET Levels
      BY DEF InOrder
  <2>2. QED
      BY <2>1, LowestType DEF FirstLevel, LifeInv, IInv
<1>2. progress[p] \in [Levels -> Row]
    BY DEF LifeInv, IInv, TypeOK
<1>3. \A l \in Levels : progress[p][l] = "none"
    BY DEF LifeInv, EmptyBeforeStart
<1>4. FirstLevel \in Levels /\ position'[FirstLevel] > 0
    BY <1>1 DEF InOrder
<1>5. \A l \in Levels : progress'[p][l] = IF l = FirstLevel THEN "open" ELSE "none"
    BY <1>2, <1>3, <1>4
<1> HIDE DEF FirstLevel
<1>6. openLevels'[p] = {FirstLevel} /\ FirstLevel \in InOrder'
  <2>1. ASSUME NEW m \in Levels PROVE m \in openLevels'[p] <=> m = FirstLevel
      BY <1>5, <2>1, LifeAtLevel
  <2>2. QED
      BY <1>4, <2>1, LifeAtLevel, LifeOfLevels
<1>7. doneLevels'[p] = doneLevels[p]
  <2>1. ASSUME NEW m \in Levels PROVE m \notin doneLevels'[p] /\ m \notin doneLevels[p]
      BY <1>3, <1>5, <2>1, LifeAtLevel
  <2>2. QED
      BY <2>1, LifeOfLevels
<1>8. Life!Begins(p)
    BY <1>6, <1>7 DEF Life!Begins
<1>9. QED
    BY <1>8 DEF Life!Lives

LEMMA ClosedLives ==
    ASSUME LifeInv, NEW p \in Passings, position' = position,
           status[p] = "started", status'[p] \in {"finished", "disqualified"},
           progress'[p] = Closed(progress[p])
    PROVE  Life!Lives(p)
<1>1. progress[p] \in [Levels -> Row]
    BY DEF LifeInv, IInv, TypeOK
<1>2. \A l \in Levels : progress'[p][l] = IF progress[p][l] = "none" THEN "none" ELSE "done"
    BY DEF Closed
<1>3. \A l \in Levels : progress[p][l] # "none" => position'[l] > 0
    BY DEF LifeInv, RowsHaveLevels
<1>4. openLevels'[p] = {}
    BY <1>2, LifeOfPassing
<1>5. \A l \in Levels : progress[p][l] \in {"none", "open", "answered", "done"}
    BY <1>1 DEF Row
<1>6. doneLevels'[p] = (doneLevels[p] \cup openLevels[p]) \cap InOrder'
    BY <1>2, <1>3, <1>5, LifeOfPassing
<1>7. QED
    BY <1>4, <1>6 DEF Life!Lives, Life!Ends

\* The lowest of the levels behind l is a level of the game.
LEMMA NextLevelExists ==
    ASSUME TypeOK, NEW l \in Levels, NextLevel(l) # NoLevel
    PROVE  NextLevel(l) \in Levels /\ position[NextLevel(l)] > 0
<1> DEFINE ls == {m \in InOrder : position[m] > position[l]}
<1>1. ls \in SUBSET Levels
    BY DEF InOrder
<1>2. NextLevel(l) \in ls
    BY <1>1, LowestType DEF NextLevel
<1>3. QED
    BY <1>2 DEF InOrder

LEMMA PlayLives == ASSUME LifeInv, Play, NEW p \in Passings PROVE Life!Lives(p)
<1>1. PICK q \in Passings, l \in Levels :
        \/ SubmitCode(q, l) \/ SubmitFile(q, l) \/ AcceptBlackboxAnswer(q, l) \/ TestLevel(q, l)
    BY DEF Play
<1>2. IsOpen(q, l) /\ position' = position
    BY <1>1 DEF SubmitCode, SubmitFile, AcceptBlackboxAnswer, TestLevel, IsOpen
<1>3. progress \in [Passings -> [Levels -> Row]] /\ status \in [Passings -> Status] /\ TypeOK
    BY DEF LifeInv, IInv, TypeOK
<1>4. CASE Complete(q, l)
  <2> DEFINE next == NextLevel(l)
  <2>1. /\ CanOpen(q, next)
        /\ progress' = [progress EXCEPT ![q] = Advanced(@, l, next)]
        /\ IF next = NoLevel /\ status[q] # "testing"
           THEN status' = [status EXCEPT ![q] = "finished"] ELSE status' = status
      BY <1>4 DEF Complete
  <2>2. next # NoLevel => next \in Levels /\ position[next] > 0
      BY <1>3, NextLevelExists
  <2> HIDE DEF next
  <2>3. CASE p # q
    <3>1. status'[p] = status[p] /\ progress'[p] = progress[p]
        BY <1>3, <2>1, <2>3
    <3>2. QED
        BY <1>2, <3>1, UntouchedStays
  <2>4. CASE p = q
    <3>1. progress'[p] = Advanced(progress[p], l, next)
        BY <1>3, <2>1, <2>4
    <3>2. \A m \in Levels : ~ (position[m] > 0) => progress[p][m] = "none"
        BY DEF LifeInv, RowsHaveLevels
    <3>3. position[l] > 0
        BY <1>2, <2>4, <3>2 DEF IsOpen
    <3>4. Advances(p, l, next)
      <4>1. \A m \in Levels :
              progress'[p][m] = IF ~ (position'[m] > 0) THEN "none"
                                ELSE IF m = l THEN "done"
                                ELSE IF m = next THEN "open"
                                ELSE progress[p][m]
          BY <1>2, <2>2, <3>1, <3>2, <3>3, LevelsAssumption DEF Advanced
      <4>2. status'[p] = IF next = NoLevel /\ status[p] # "testing" THEN "finished" ELSE status[p]
          BY <1>3, <2>1, <2>4
      <4>3. QED
          BY <1>2, <2>1, <2>2, <2>4, <4>1, <4>2 DEF Advances, CanOpen
    <3>5. QED
        BY <3>4, AdvancesLives
  <2>5. QED
      BY <2>3, <2>4
<1>5. CASE ~Complete(q, l)
  <2>1. status' = status /\ progress' = [progress EXCEPT ![q][l] = "answered"]
      BY <1>1, <1>5 DEF SubmitCode, SubmitFile, AcceptBlackboxAnswer, TestLevel
  <2>2. \A m \in Levels : progress'[p][m] = IF p = q /\ m = l THEN "answered" ELSE progress[p][m]
      BY <1>3, <2>1
  <2>3. \A m \in Levels : ~ (position[m] > 0) => progress[p][m] = "none" /\ progress[q][m] = "none"
      BY DEF LifeInv, RowsHaveLevels
  <2>4. Unmoved(p)
      BY <1>2, <2>1, <2>2, <2>3 DEF Unmoved, IsOpen
  <2>5. QED
      BY <2>4, UnmovedStays
<1>6. QED
    BY <1>4, <1>5

LEMMA SweepCommitLives ==
    ASSUME LifeInv, NEW w \in Sweepers, SweepCommit(w), NEW p \in Passings
    PROVE  Life!Lives(p)
<1>1. /\ progress \in [Passings -> [Levels -> Row]] /\ status \in [Passings -> Status]
      /\ plan \in [Sweepers -> SUBSET Step]
    BY DEF LifeInv, IInv, TypeOK
<1>2. /\ \A s \in plan[w] : /\ CanOpen(s.passing, s.next)
                            /\ s.next # NoLevel => position[s.next] > 0
      /\ progress' = [q \in Passings |->
            IF Planned(w, q) = {} THEN progress[q]
            ELSE LET s == CHOOSE s \in Planned(w, q) : TRUE
                 IN  Advanced(progress[q], s.level, s.next)]
      /\ status' = [q \in Passings |->
            IF status[q] # "testing" /\ \E s \in Planned(w, q) : s.next = NoLevel
            THEN "finished" ELSE status[q]]
      /\ position' = position
    BY DEF SweepCommit
<1>3. CASE Planned(w, p) = {}
  <2>1. progress'[p] = progress[p] /\ status'[p] = status[p]
      BY <1>2, <1>3
  <2>2. QED
      BY <1>2, <2>1, UntouchedStays
<1>4. ASSUME NEW s \in Planned(w, p) PROVE Life!Lives(p)
  <2>1. s \in plan[w] /\ s.passing = p
      BY <1>4 DEF Planned
  <2>2. s.level \in Levels /\ s.next \in Levels \cup {NoLevel}
      BY <1>1, <2>1 DEF Step
  <2>3. Planned(w, p) = {s}
      BY <2>1 DEF Planned, LifeInv, IInv, LocksAreExclusive
  <2>4. IsOpen(p, s.level)
      BY <2>1 DEF LifeInv, IInv, LocksAreExclusive
  <2>5. /\ progress'[p] = Advanced(progress[p], s.level, s.next)
        /\ status'[p] = IF s.next = NoLevel /\ status[p] # "testing"
                        THEN "finished" ELSE status[p]
      BY <1>1, <1>2, <2>3
  <2>6. s.next # NoLevel =>
            s.next \in Levels /\ progress[p][s.next] = "none" /\ position[s.next] > 0
      BY <1>2, <2>1, <2>2 DEF CanOpen
  <2>7. \A m \in Levels : ~ (position[m] > 0) => progress[p][m] = "none"
      BY DEF LifeInv, RowsHaveLevels
  <2>8. position[s.level] > 0
      BY <2>2, <2>4, <2>7 DEF IsOpen
  <2>9. \A m \in Levels :
          progress'[p][m] = IF ~ (position'[m] > 0) THEN "none"
                            ELSE IF m = s.level THEN "done"
                            ELSE IF m = s.next THEN "open"
                            ELSE progress[p][m]
      BY <1>2, <2>5, <2>6, <2>7, <2>8, LevelsAssumption DEF Advanced
  <2>10. Advances(p, s.level, s.next)
      BY <1>2, <2>4, <2>5, <2>6, <2>9 DEF Advances
  <2>11. QED
      BY <2>2, <2>10, AdvancesLives
<1>5. QED
    BY <1>3, <1>4

LEMMA DeleteLives == ASSUME LifeInv, DeleteLevel, NEW p \in Passings PROVE Life!Lives(p)
<1> DEFINE l    == deleting.level
           next == NextLevel(l)
<1>1. /\ l \in Levels
      /\ \A q \in Moved : CanOpen(q, next)
      /\ progress' = [q \in Passings |->
            [(IF q \in Moved THEN Advanced(progress[q], l, next) ELSE progress[q])
               EXCEPT ![l] = "none"]]
      /\ status' = [q \in Passings |->
            IF q \in Moved /\ next = NoLevel THEN "finished" ELSE status[q]]
      /\ position' = [position EXCEPT ![l] = 0]
    BY DEF DeleteLevel, LifeInv, IInv, TypeOK
<1>2. /\ progress \in [Passings -> [Levels -> Row]]
      /\ position \in [Levels -> 0 .. MaxPosition]
      /\ TypeOK
    BY DEF LifeInv, IInv, TypeOK
<1>3. next # NoLevel => next \in Levels /\ position[next] > 0
    BY <1>1, <1>2, NextLevelExists
<1>4. p \in Moved => status[p] = "started" /\ IsOpen(p, l)
    BY DEF Moved, LifeInv, IInv, LocksAreExclusive
<1> HIDE DEF l, next
<1>5. \A m \in Levels : position'[m] = IF m = l THEN 0 ELSE position[m]
    BY <1>1, <1>2
<1>6. \A m \in Levels : ~ (position[m] > 0) => progress[p][m] = "none"
    BY DEF LifeInv, RowsHaveLevels
<1>7. CASE p \in Moved
  <2>1. progress'[p] = [Advanced(progress[p], l, next) EXCEPT ![l] = "none"]
      BY <1>1, <1>7
  <2>2. next # NoLevel => progress[p][next] = "none" /\ next # l
      BY <1>1, <1>4, <1>7 DEF CanOpen, IsOpen
  <2>3. next # NoLevel => position'[next] > 0
      BY <1>3, <1>5, <2>2
  <2>4. \A m \in Levels :
          progress'[p][m] = IF m = l THEN "none" ELSE IF m = next THEN "open" ELSE progress[p][m]
      BY <2>1 DEF Advanced
  <2>5. \A m \in Levels :
          progress'[p][m] = IF ~ (position'[m] > 0) THEN "none"
                            ELSE IF m = l THEN "done"
                            ELSE IF m = next THEN "open"
                            ELSE progress[p][m]
    <3>1. SUFFICES ASSUME NEW m \in Levels
                   PROVE  progress'[p][m] = IF ~ (position'[m] > 0) THEN "none"
                                            ELSE IF m = l THEN "done"
                                            ELSE IF m = next THEN "open"
                                            ELSE progress[p][m]
        OBVIOUS
    <3>2. m = next => position'[m] > 0
        BY <2>3, LevelsAssumption
    <3>3. m = l => ~ (position'[m] > 0)
        BY <1>5
    <3>4. m # l => position'[m] = position[m]
        BY <1>5
    <3>5. QED
        BY <1>6, <2>4, <3>2, <3>3, <3>4
  <2>6. status'[p] = IF next = NoLevel /\ status[p] # "testing" THEN "finished" ELSE status[p]
      BY <1>1, <1>4, <1>7
  <2>7. Advances(p, l, next)
      BY <1>3, <1>4, <1>7, <2>2, <2>3, <2>5, <2>6 DEF Advances
  <2>8. QED
      BY <1>1, <2>7, AdvancesLives
<1>8. CASE p \notin Moved
  <2>1. progress'[p] = [progress[p] EXCEPT ![l] = "none"] /\ status'[p] = status[p]
      BY <1>1, <1>8
  <2>2. \A m \in Levels : progress'[p][m] = IF m = l THEN "none" ELSE progress[p][m]
      BY <1>2, <2>1
  <2>3. \A m \in Levels : m = l => ~ (position'[m] > 0)
      BY <1>5
  <2>4. \A m \in Levels : m # l => position'[m] = position[m]
      BY <1>5
  <2>5. Unmoved(p)
      BY <1>6, <2>1, <2>2, <2>3, <2>4 DEF Unmoved, IsOpen
  <2>6. QED
      BY <2>5, UnmovedStays
<1>9. QED
    BY <1>7, <1>8

LEMMA StartsLive ==
    ASSUME LifeInv, NEW p \in Passings,
           AutoStart \/ \E q \in Passings : StartGame(q) \/ StartTesting(q)
    PROVE  Life!Lives(p)
<1>1. progress \in [Passings -> [Levels -> Row]] /\ status \in [Passings -> Status]
    BY DEF LifeInv, IInv, TypeOK
<1>2. position' = position
    BY DEF AutoStart, StartGame, StartTesting
<1>3. ASSUME status'[p] = status[p], progress'[p] = progress[p] PROVE Life!Lives(p)
    BY <1>2, <1>3, UntouchedStays
<1>4. ASSUME NEW q \in Passings, StartGame(q) \/ StartTesting(q) PROVE Life!Lives(p)
  <2>1. /\ \/ status[q] = "accepted" /\ status' = [status EXCEPT ![q] = "started"]
           \/ status[q] = "none" /\ status' = [status EXCEPT ![q] = "testing"]
        /\ progress' = [progress EXCEPT ![q][FirstLevel] = "open"]
        /\ FirstLevel # NoLevel
      BY <1>4 DEF StartGame, StartTesting
  <2>2. CASE p = q
    <3>1. progress'[p] = [progress[p] EXCEPT ![FirstLevel] = "open"]
        BY <1>1, <2>1, <2>2
    <3>2. \/ status[p] = "accepted" /\ status'[p] = "started"
          \/ status[p] = "none" /\ status'[p] = "testing"
        BY <1>1, <2>1, <2>2
    <3>3. QED
        BY <1>2, <2>1, <3>1, <3>2, BeginsLives
  <2>3. CASE p # q
      BY <1>1, <1>3, <2>1, <2>3
  <2>4. QED
      BY <2>2, <2>3
<1>5. CASE AutoStart
  <2>1. CASE UNCHANGED <<status, progress>>
      BY <1>3, <2>1
  <2>2. CASE ~ UNCHANGED <<status, progress>>
    <3>1. /\ FirstLevel # NoLevel
          /\ status' = [q \in Passings |->
                          IF status[q] = "accepted" THEN "started" ELSE status[q]]
          /\ progress' = [q \in Passings |->
                            IF status[q] = "accepted" /\ progress[q][FirstLevel] = "none"
                            THEN [progress[q] EXCEPT ![FirstLevel] = "open"]
                            ELSE progress[q]]
        BY <1>5, <2>2 DEF AutoStart
    <3>2. CASE status[p] = "accepted"
      <4>1. FirstLevel \in Levels
          BY <3>1, FirstLevelType DEF LifeInv, IInv
      <4>2. progress[p][FirstLevel] = "none"
          BY <3>2, <4>1 DEF LifeInv, EmptyBeforeStart
      <4>3. progress'[p] = [progress[p] EXCEPT ![FirstLevel] = "open"] /\ status'[p] = "started"
          BY <3>1, <3>2, <4>2
      <4>4. QED
          BY <1>2, <3>1, <3>2, <4>3, BeginsLives
    <3>3. CASE status[p] # "accepted"
        BY <1>3, <3>1, <3>3
    <3>4. QED
        BY <3>2, <3>3
  <2>3. QED
      BY <2>1, <2>2
<1>6. QED
    BY <1>4, <1>5

LEMMA ReviewLives ==
    ASSUME LifeInv, NEW p \in Passings, NEW q \in Passings, Apply(q) \/ Review(q)
    PROVE  Life!Lives(p)
<1>1. /\ status \in [Passings -> Status] /\ UNCHANGED <<progress, position>>
      /\ \/ status[q] = "none" /\ status' = [status EXCEPT ![q] = "pending"]
         \/ /\ status[q] = "pending"
            /\ \E s \in {"accepted", "rejected"} : status' = [status EXCEPT ![q] = s]
    BY DEF Apply, Review, LifeInv, IInv, TypeOK
<1>2. CASE p # q
  <2>1. status'[p] = status[p] /\ progress'[p] = progress[p]
      BY <1>1, <1>2
  <2>2. QED
      BY <1>1, <2>1, UntouchedStays
<1>3. CASE p = q
  <2>1. openLevels'[p] = openLevels[p] /\ doneLevels'[p] = doneLevels[p]
    <3>1. progress'[p] = progress[p]
        BY <1>1
    <3>2. ASSUME NEW m \in Levels
          PROVE  /\ m \in openLevels'[p] <=> m \in openLevels[p]
                 /\ m \in doneLevels'[p] <=> m \in doneLevels[p]
        BY <3>1, <3>2, LifeAtLevel
    <3>3. QED
        BY <3>2, LifeOfLevels
  <2>2. \/ status[p] = "none" /\ status'[p] = "pending"
        \/ status[p] = "pending" /\ status'[p] \in {"accepted", "rejected"}
      BY <1>1, <1>3
  <2>3. QED
      BY <2>1, <2>2 DEF Life!Lives, Life!Enters
<1>4. QED
    BY <1>2, <1>3

LEMMA ModerationLives ==
    ASSUME LifeInv, NEW p \in Passings,
           ForceFinishGame \/ \E q \in Passings : DisqualifyTeam(q)
    PROVE  Life!Lives(p)
<1>1. /\ status \in [Passings -> Status] /\ progress \in [Passings -> [Levels -> Row]]
      /\ position' = position
    BY DEF LifeInv, IInv, TypeOK, ForceFinishGame, DisqualifyTeam
<1>2. CASE status'[p] = status[p] /\ progress'[p] = progress[p]
    BY <1>1, <1>2, UntouchedStays
<1>3. CASE ~ (status'[p] = status[p] /\ progress'[p] = progress[p])
  <2>1. /\ status[p] = "started" /\ status'[p] \in {"finished", "disqualified"}
        /\ progress'[p] = Closed(progress[p])
      BY <1>1, <1>3 DEF ForceFinishGame, DisqualifyTeam
  <2>2. QED
      BY <1>1, <2>1, ClosedLives
<1>4. QED
    BY <1>2, <1>3

\* The editor makes and moves levels; none of his steps takes one away.
LEMMA EditKeepsLevels ==
    ASSUME TypeOK, Edit
    PROVE  /\ UNCHANGED <<status, progress>>
           /\ \A l \in Levels : position[l] > 0 => position'[l] > 0
<1>1. position \in [Levels -> Nat]
    BY LevelsAssumption DEF TypeOK
<1>2. ASSUME NEW l \in Levels, NEW pos \in 1 .. MaxPosition, CreateLevel(l, pos) \/ UpdateLevel(l, pos)
      PROVE  \A m \in Levels : position[m] > 0 => position'[m] > 0
    BY <1>1, <1>2 DEF CreateLevel, UpdateLevel
<1>3. ASSUME NEW l \in Levels, MoveLevel(l)
      PROVE  \A m \in Levels : position[m] > 0 => position'[m] > 0
  <2>1. NextLevel(l) \in Levels /\ position[NextLevel(l)] > 0
      BY <1>3, NextLevelExists DEF MoveLevel
  <2>2. QED
      BY <1>1, <1>3, <2>1 DEF MoveLevel
<1>4. ASSUME NEW l \in Levels, NEW k \in Levels, DuplicateLevel(l, k)
      PROVE  \A m \in Levels : position[m] > 0 => position'[m] > 0
    BY <1>1, <1>4 DEF DuplicateLevel
<1>5. UNCHANGED <<status, progress>>
    BY DEF Edit, CreateLevel, UpdateLevel, MoveLevel, DuplicateLevel
<1>6. QED
    BY <1>2, <1>3, <1>4, <1>5 DEF Edit

\* Every step lets every passing live on as PassingLife has it.
LEMMA NextLives == ASSUME LifeInv, [Next]_vars, NEW p \in Passings PROVE Life!Lives(p)
<1>1. ASSUME UNCHANGED <<status, progress, position>> PROVE Life!Lives(p)
    BY <1>1, UntouchedStays
<1>2. CASE Edit
    BY <1>2, EditKeepsLevels, UntouchedStays DEF LifeInv, IInv
<1>3. CASE UNCHANGED vars
    BY <1>1, <1>3 DEF vars
<1>4. CASE \/ AutoStartCount \/ DeleteLevelRollback
           \/ \E l \in Levels : DeleteLevelLock(l)
           \/ \E w \in Sweepers : SweepScan(w) \/ SweepUpdate(w) \/ SweepRollback(w)
    BY <1>1, <1>4 DEF AutoStartCount, DeleteLevelRollback, DeleteLevelLock, SweepScan,
                      SweepUpdate, SweepRollback
<1>5. CASE AutoStart \/ \E q \in Passings : StartGame(q) \/ StartTesting(q)
    BY <1>5, StartsLive
<1>6. CASE Play
    BY <1>6, PlayLives
<1>7. CASE DeleteLevel
    BY <1>7, DeleteLives
<1>8. ASSUME NEW w \in Sweepers, SweepCommit(w) PROVE Life!Lives(p)
    BY <1>8, SweepCommitLives
<1>9. CASE ForceFinishGame \/ \E q \in Passings : DisqualifyTeam(q)
    BY <1>9, ModerationLives
<1>10. ASSUME NEW q \in Passings, Apply(q) \/ Review(q) PROVE Life!Lives(p)
    BY <1>10, ReviewLives
<1>11. QED
    BY <1>2, <1>3, <1>4, <1>5, <1>6, <1>7, <1>8, <1>9, <1>10 DEF Next

\* The two facts about the rows follow from what PassingLife allows.
LEMMA LifeInvStep == LifeInv /\ [Next]_vars => LifeInv'
<1> SUFFICES ASSUME LifeInv, [Next]_vars PROVE LifeInv'
    OBVIOUS
<1>1. IInv'
    BY NextPreservesIInv DEF LifeInv
<1>2. ASSUME NEW p \in Passings
      PROVE  /\ openLevels'[p] \subseteq InOrder' /\ doneLevels'[p] \subseteq InOrder'
             /\ status'[p] \in {"none", "pending", "accepted", "rejected"} =>
                  openLevels'[p] = {} /\ doneLevels'[p] = {}
  <2>1. status[p] \in {"none", "pending", "accepted", "rejected"} =>
            openLevels[p] = {} /\ doneLevels[p] = {}
      BY <1>2, LifeOfPassing DEF LifeInv, EmptyBeforeStart
  <2>2. Life!Lives(p)
      BY <1>2, NextLives
  <2>3. CASE Life!Enters(p)
      BY <2>1, <2>3 DEF Life!Enters
  <2>4. CASE Life!Begins(p)
      BY <2>1, <2>4 DEF Life!Begins
  <2>5. CASE Life!GoesOn(p)
      BY <2>1, <2>5 DEF Life!GoesOn
  <2>6. CASE Life!TestsToTheEnd(p) \/ Life!Ends(p)
      BY <2>6 DEF Life!TestsToTheEnd, Life!Ends
  <2>7. CASE Life!Stays(p)
      BY <2>1, <2>7 DEF Life!Stays
  <2>8. QED
      BY <2>2, <2>3, <2>4, <2>5, <2>6, <2>7 DEF Life!Lives
<1>3. ASSUME NEW p \in Passings, NEW l \in Levels, progress'[p][l] # "none"
      PROVE  l \in openLevels'[p] \cup doneLevels'[p]
  <2>1. progress'[p][l] \in {"none", "open", "answered", "done"}
      BY <1>1, <1>3 DEF IInv, TypeOK, Row
  <2>2. QED
      BY <1>3, <2>1, LifeOfPassing
<1>4. EmptyBeforeStart'
    BY <1>2, <1>3 DEF EmptyBeforeStart
<1>5. RowsHaveLevels'
  <2>1. ASSUME NEW p \in Passings, NEW l \in Levels, progress'[p][l] # "none"
        PROVE  position'[l] > 0
    <3>1. l \in InOrder'
        BY <1>2, <1>3, <2>1
    <3>2. QED
        BY <3>1 DEF InOrder
  <2>2. QED
      BY <2>1 DEF RowsHaveLevels
<1>6. QED
    BY <1>1, <1>4, <1>5 DEF LifeInv

LEMMA InitLifeInv == Init => LifeInv
    BY InitIInv DEF Init, LifeInv, EmptyBeforeStart, RowsHaveLevels

LEMMA InitLives == Init => Life!Init
<1> SUFFICES ASSUME Init PROVE Life!Init
    OBVIOUS
<1>1. InOrder \in SUBSET Levels
    BY DEF InOrder
<1>2. openLevels = [p \in Passings |-> {}] /\ doneLevels = [p \in Passings |-> {}]
    BY DEF Init, openLevels, doneLevels, OpenLevels, IsOpen
<1>3. QED
    BY <1>1, <1>2 DEF Init, Life!Init

LEMMA StepLives == LifeInv /\ [Next]_vars => [Life!Next]_(Life!vars)
<1> SUFFICES ASSUME LifeInv, [Next]_vars PROVE Life!Next
    OBVIOUS
<1>1. TypeOK'
    BY NextPreservesIInv DEF LifeInv, IInv
<1>2. InOrder' \in SUBSET Levels
    BY DEF InOrder
<1>3. status' \in [Passings -> Life!Stage]
    BY <1>1 DEF TypeOK, Status, Life!Stage
<1>4. openLevels' \in [Passings -> SUBSET Levels] /\ doneLevels' \in [Passings -> SUBSET Levels]
    BY DEF openLevels, doneLevels, OpenLevels
<1>5. QED
    BY <1>2, <1>3, <1>4, NextLives DEF Life!Next

\* Besides the types, one row of a passing at most is open, rows are of levels
\* that exist, and a passing that has not begun has none.
THEOREM RowsInvariance == Spec => []LifeInv
<1>1. QED
    BY InitLifeInv, LifeInvStep, PTL DEF Spec

\* The game implements PassingLife: whatever players, moderators, the editor
\* and the sweeps do at the same time, a passing goes from one level to one it
\* has not played, and ends once.
THEOREM EveryPassingLives == Spec => FollowsLife
<1>1. QED
    BY InitLives, StepLives, RowsInvariance, PTL DEF Spec, FollowsLife, Life!Spec

-----------------------------------------------------------------------------
(***************************************************************************)
(* What follows for the steps of a passing.                                *)
(***************************************************************************)

\* No status goes back, whoever saves the passing.
THEOREM NoStatusGoesBack == Spec => StatusMovesForward
<1>1. LifeInv /\ [Next]_vars => [\A p \in Passings : status'[p] # status[p] => MovesForward(p)]_vars
  <2>1. ASSUME LifeInv, [Next]_vars, NEW p \in Passings, status'[p] # status[p]
        PROVE  MovesForward(p)
      BY <2>1, NextLives DEF Life!Lives, Life!Enters, Life!Begins, Life!GoesOn,
         Life!TestsToTheEnd, Life!Ends, Life!Stays, MovesForward
  <2>2. QED
      BY <2>1
<1>2. QED
    BY <1>1, RowsInvariance, PTL DEF Spec, StatusMovesForward

\* Nobody who plays is left without a level but by the deletion of the level.
THEOREM NobodyLosesItsLevel == Spec => KeepsALevel
<1>1. LifeInv /\ [Next]_vars =>
        [\A p \in Passings :
            status[p] = "started" /\ status'[p] = "started" /\ OpenLevels(p) # {}
               => KeepsOrLosesItsLevel(p)]_vars
  <2>1. ASSUME LifeInv, [Next]_vars, NEW p \in Passings,
               status[p] = "started", status'[p] = "started", OpenLevels(p) # {}
        PROVE  KeepsOrLosesItsLevel(p)
    <3>1. openLevels[p] = OpenLevels(p) /\ openLevels'[p] = OpenLevels(p)'
        BY <2>1 DEF openLevels
    <3>2. Life!GoesOn(p) \/ Life!Stays(p)
        BY <2>1, NextLives DEF Life!Lives, Life!Enters, Life!Begins, Life!TestsToTheEnd, Life!Ends
    <3>3. CASE Life!GoesOn(p)
        BY <3>1, <3>3 DEF Life!GoesOn, KeepsOrLosesItsLevel
    <3>4. CASE Life!Stays(p)
      <4>1. PICK l \in OpenLevels(p) : TRUE
          BY <2>1
      <4>2. CASE l \in InOrder'
          BY <3>1, <3>4, <4>1, <4>2 DEF Life!Stays, KeepsOrLosesItsLevel
      <4>3. CASE l \notin InOrder'
        <5>1. TypeOK'
            BY <2>1, NextPreservesIInv DEF LifeInv, IInv
        <5>2. l \in Levels /\ position'[l] \in Nat
            BY <4>1, <5>1, LevelsAssumption DEF TypeOK, OpenLevels
        <5>3. position'[l] = 0
            BY <4>3, <5>2 DEF InOrder
        <5>4. QED
            BY <4>1, <5>3 DEF KeepsOrLosesItsLevel
      <4>4. QED
          BY <4>2, <4>3
    <3>5. QED
        BY <3>2, <3>3, <3>4
  <2>2. QED
      BY <2>1
<1>2. QED
    BY <1>1, RowsInvariance, PTL DEF Spec, KeepsALevel

\* Whatever happens to the order of the levels, no level that was played is
\* played again and no row of a finished level is lost, unless the level is
\* deleted (CompleteLevel, AdvanceToNextLevel, checkTimeoutsImpl).
THEOREM NobodyPlaysTwice == Spec => DoneStaysDone
<1>1. LifeInv /\ [Next]_vars =>
        [\A p \in Passings, l \in Levels :
            progress[p][l] = "done" /\ position'[l] > 0 => progress'[p][l] = "done"]_vars
  <2>1. ASSUME LifeInv, [Next]_vars, NEW p \in Passings, NEW l \in Levels,
               progress[p][l] = "done", position'[l] > 0
        PROVE  progress'[p][l] = "done"
    <3>1. l \in doneLevels[p] /\ l \in InOrder'
        BY <2>1, LifeOfPassing
    <3>2. l \in doneLevels'[p]
        BY <2>1, <3>1, NextLives DEF Life!Lives, Life!Enters, Life!Begins, Life!GoesOn,
           Life!TestsToTheEnd, Life!Ends, Life!Stays
    <3>3. QED
        BY <3>2, LifeOfPassing
  <2>2. QED
      BY <2>1
<1>2. QED
    BY <1>1, RowsInvariance, PTL DEF Spec, DoneStaysDone

=============================================================================
