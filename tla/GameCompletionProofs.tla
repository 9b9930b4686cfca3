------------------------ MODULE GameCompletionProofs ------------------------
(***************************************************************************)
(* The completion of a game for every number of teams, every membership    *)
(* and every order of the callbacks, their failures, the snapshot worker   *)
(* and the edits: the places are a competition ranking, the points are     *)
(* given once, the ratings once for each time the flag can have been up,   *)
(* and what is lost is lost by a failure.                                  *)
(*                                                                         *)
(* PaidOncePerFlag is not inductive: a call pays on top of what is there,  *)
(* and only the flag says that it may.  RatingInv counts the flag.         *)
(* Neither is LostOnlyByFailure: what a callback has done for the teams    *)
(* that had finished says nothing of one that finishes later, unless that  *)
(* one has its own callback; OwnCallback says which one owes it.           *)
(***************************************************************************)
EXTENDS GameCompletion, TimeoutSweep, FiniteSetTheorems, WellFoundedInduction, TLAPS

\* How often the flag of the game has been put up at most: it is up now, or an
\* edit has put it down.
Flags == Cardinality(Undone) + (IF rated THEN 1 ELSE 0)

RatingInv ==
    /\ finished \subseteq Teams
    /\ rated \in BOOLEAN
    /\ rating \in [Players -> Nat]
    /\ edit \in [Edits -> {"new", "up", "down", "saved", "undid"}]
    /\ \A p \in Players : rating[p] <= Flags * Share(p)

\* A place is worth at least two and at most ten points.
LEMMA BasePointsBound ==
    ASSUME NEW pl PROVE BasePoints(pl) \in Nat /\ BasePoints(pl) <= 10
  BY DEF BasePoints

LEMMA ShareType ==
    ASSUME NEW p PROVE Share(p) \in Nat
  BY DEF Share, AuthorPoints

\* More of something that is worth no less is worth no less.
LEMMA ProductGrows ==
    ASSUME NEW j \in Nat, NEW k \in Nat, NEW s \in Nat, NEW r \in Nat, j <= k, s <= r
    PROVE  j * s <= k * r
  <1>1. PICK i \in Nat : k = j + i
    <2>1. k - j \in Nat /\ k = j + (k - j)
      OBVIOUS
    <2> QED BY <2>1
  <1>2. PICK q \in Nat : r = s + q
    <2>1. r - s \in Nat /\ r = s + (r - s)
      OBVIOUS
    <2> QED BY <2>1
  <1>3. k * r = j * s + (j * q + i * r)
    BY <1>1, <1>2
  <1>4. j * s \in Nat /\ j * q \in Nat /\ i * r \in Nat
    OBVIOUS
  <1> QED BY <1>3, <1>4

LEMMA FlagsType ==
    ASSUME RatingInv PROVE Cardinality(Undone) \in Nat /\ Flags \in Nat
  <1>1. IsFiniteSet(Undone)
    BY EditsAssumption, FS_Subset DEF Undone
  <1>2. Cardinality(Undone) \in Nat
    BY <1>1, FS_CardinalityType
  <1> QED BY <1>2 DEF Flags, RatingInv

\* A team that finishes only adds to what its players may get.
LEMMA ShareGrows ==
    ASSUME finished \subseteq finished', NEW p
    PROVE  Share(p)' \in Nat /\ Share(p) <= Share(p)'
  <1>1. (\E t \in finished : p \in MembersOf[t]) => \E t \in finished' : p \in MembersOf[t]
    OBVIOUS
  <1> DEFINE own == IF p = Author THEN AuthorPoints ELSE 0
  <1>2. own \in Nat
    BY DEF AuthorPoints
  <1>3. /\ Share(p) = own + (IF \E t \in finished : p \in MembersOf[t] THEN 10 ELSE 0)
        /\ Share(p)' = own + (IF \E t \in finished' : p \in MembersOf[t] THEN 10 ELSE 0)
    BY DEF Share, AuthorPoints
  <1> HIDE DEF own
  <1>4. CASE \E t \in finished : p \in MembersOf[t]
    <2>1. Share(p) = own + 10 /\ Share(p)' = own + 10
      BY <1>1, <1>3, <1>4
    <2> QED BY <1>2, <2>1
  <1>5. CASE ~ \E t \in finished : p \in MembersOf[t]
    <2>1. Share(p) = own /\ Share(p)' \in {own, own + 10}
      BY <1>2, <1>3, <1>5
    <2> QED BY <1>2, <2>1
  <1> QED BY <1>4, <1>5

\* Steps that pay nothing, take no team back and forget no flag.
LEMMA RatingUntouched ==
    ASSUME RatingInv, rating' = rating, rated' \in BOOLEAN,
           edit' \in [Edits -> {"new", "up", "down", "saved", "undid"}],
           finished \subseteq finished', finished' \subseteq Teams,
           Flags' \in Nat, Flags <= Flags'
    PROVE  RatingInv'
  <1>1. ASSUME NEW p \in Players PROVE rating'[p] <= Flags' * Share(p)'
    <2>1. rating[p] \in Nat /\ rating[p] <= Flags * Share(p)
      BY DEF RatingInv
    <2>2. Flags \in Nat /\ Share(p) \in Nat /\ Share(p)' \in Nat /\ Share(p) <= Share(p)'
      BY FlagsType, ShareType, ShareGrows
    <2>3. Flags * Share(p) <= Flags' * Share(p)'
      BY <2>2, ProductGrows
    <2>4. Flags * Share(p) \in Nat /\ Flags' * Share(p)' \in Nat
      BY <2>2
    <2> QED BY <2>1, <2>3, <2>4
  <1> QED BY <1>1 DEF RatingInv

\* Most steps do not even touch the flag.
LEMMA RatingAside ==
    ASSUME RatingInv, UNCHANGED <<rated, rating, edit>>,
           finished \subseteq finished', finished' \subseteq Teams
    PROVE  RatingInv'
  <1>1. Undone' = Undone
    BY DEF Undone
  <1>2. Flags' = Flags
    BY <1>1 DEF Flags
  <1>3. Flags \in Nat /\ Flags <= Flags'
    BY <1>2, FlagsType
  <1> QED BY <1>2, <1>3, RatingUntouched DEF RatingInv

\* The payment puts the flag up, and is worth no more than one share.
LEMMA RatingPaid ==
    ASSUME RatingInv, NEW c \in Callbacks, Rate(c)
    PROVE  RatingInv'
  <1>1. CASE ~MayRate
    BY <1>1, RatingAside DEF Rate, RatingInv
  <1>2. CASE MayRate
    <2> DEFINE Paid == {p \in Players : \E t \in finished : p \in MembersOf[t]}
    <2>1. PICK teamOf \in [Players -> Teams] :
             /\ rated' = TRUE
             /\ rating' = [p \in Players |->
                   rating[p] + (IF p = Author THEN AuthorPoints ELSE 0)
                             + (IF p \in Paid THEN BasePoints(place[teamOf[p]]) ELSE 0)]
      BY <1>2 DEF Rate, Pay
    <2>2. finished' = finished /\ edit' = edit
      BY DEF Rate
    <2>3. Flags' = Flags + 1
      <3>1. Undone' = Undone
        BY <2>2 DEF Undone
      <3>2. Cardinality(Undone) \in Nat
        BY FlagsType
      <3> QED BY <1>2, <2>1, <3>1, <3>2 DEF Flags, MayRate
    <2>4. ASSUME NEW p \in Players PROVE rating'[p] \in Nat /\ rating'[p] <= Flags' * Share(p)'
      <3> DEFINE own == IF p = Author THEN AuthorPoints ELSE 0
                 team == IF p \in Paid THEN BasePoints(place[teamOf[p]]) ELSE 0
      <3>1. own \in Nat /\ team \in Nat /\ team <= (IF p \in Paid THEN 10 ELSE 0)
        <4> HIDE DEF Paid
        <4> QED BY BasePointsBound DEF AuthorPoints
      <3>2. Share(p)' = Share(p) /\ Share(p) = own + (IF p \in Paid THEN 10 ELSE 0)
        BY <2>2 DEF Share, AuthorPoints
      <3>3. rating'[p] = rating[p] + own + team
        BY <2>1
      <3>4. rating[p] \in Nat /\ rating[p] <= Flags * Share(p)
        BY DEF RatingInv
      <3>5. Flags \in Nat /\ Share(p) \in Nat
        BY FlagsType, ShareType
      <3>6. own + team \in Nat /\ own + team <= Share(p)
        <4> HIDE DEF Paid, own, team
        <4> QED BY <3>1, <3>2
      <3>7. Flags' * Share(p)' = Flags * Share(p) + Share(p) /\ Flags * Share(p) \in Nat
        BY <2>3, <3>2, <3>5
      <3> HIDE DEF own, team
      <3> QED BY <3>1, <3>3, <3>4, <3>5, <3>6, <3>7
    <2>5. rating' \in [Players -> Nat]
      <3>1. rating' = [p \in Players |-> rating'[p]]
        BY <2>1
      <3> QED BY <2>4, <3>1
    <2> QED BY <2>1, <2>2, <2>4, <2>5 DEF RatingInv
  <1> QED BY <1>1, <1>2

\* An edit that puts the flag down counts among those that have done so.
LEMMA RatingSaved ==
    ASSUME RatingInv, NEW e \in Edits, SaveGame(e)
    PROVE  RatingInv'
  <1>1. /\ rating' = rating /\ finished' = finished /\ finished \subseteq Teams
        /\ rated \in BOOLEAN /\ rated' \in BOOLEAN
        /\ edit' \in [Edits -> {"new", "up", "down", "saved", "undid"}]
    BY DEF SaveGame, RatingInv
  <1>2. Cardinality(Undone) \in Nat /\ Flags \in Nat
    BY FlagsType
  <1>3. Flags' \in Nat /\ Flags <= Flags'
    <2>1. CASE rated /\ edit[e] = "down"
      <3>1. Undone' = Undone \cup {e} /\ e \notin Undone /\ ~rated'
        BY <2>1 DEF SaveGame, RatingInv, Undone
      <3>2. IsFiniteSet(Undone)
        BY EditsAssumption, FS_Subset DEF Undone
      <3>3. Cardinality(Undone') = Cardinality(Undone) + 1
        BY <3>1, <3>2, FS_AddElement
      <3>4. Flags' = Cardinality(Undone') /\ Flags = Cardinality(Undone) + 1
        BY <1>2, <2>1, <3>1, <3>3 DEF Flags
      <3> QED BY <1>2, <3>3, <3>4
    <2>2. CASE ~(rated /\ edit[e] = "down")
      <3>1. Undone' = Undone
        BY <2>2 DEF SaveGame, RatingInv, Undone
      <3>2. rated => rated'
        BY <2>2 DEF SaveGame
      <3> QED BY <1>1, <1>2, <3>1, <3>2 DEF Flags
    <2> QED BY <2>1, <2>2
  <1> QED BY <1>1, <1>3, RatingUntouched

\* The inductive invariant of the payments.
THEOREM RatingInvariance == Spec => []RatingInv
  <1>1. Init => RatingInv
    <2> SUFFICES ASSUME Init PROVE RatingInv
      OBVIOUS
    <2>1. /\ finished \subseteq Teams /\ rated = FALSE
          /\ rating = [p \in Players |-> 0] /\ edit = [e \in Edits |-> "new"]
      BY DEF Init
    <2>2. Undone = {}
      BY <2>1 DEF Undone
    <2>3. Flags = 0
      BY <2>1, <2>2, FS_EmptySet DEF Flags
    <2>4. \A p \in Players : rating[p] <= Flags * Share(p)
      BY <2>1, <2>3, ShareType
    <2> QED BY <2>1, <2>4 DEF RatingInv
  <1>2. RatingInv /\ [Next]_vars => RatingInv'
    <2> SUFFICES ASSUME RatingInv, [Next]_vars PROVE RatingInv'
      OBVIOUS
    <2>1. CASE UNCHANGED vars
      BY <2>1, RatingAside DEF vars, RatingInv
    <2>2. ASSUME NEW t \in Teams, NEW d \in Durations, Finish(t, d) PROVE RatingInv'
      BY <2>2, RatingAside DEF Finish, RatingInv
    <2>3. ASSUME NEW ds \in [Teams -> Durations], ForceFinish(ds) PROVE RatingInv'
      BY <2>3, RatingAside DEF ForceFinish, RatingInv
    <2>4. ASSUME NEW c \in Callbacks, StepFails(c) \/ Cancel(c) PROVE RatingInv'
      BY <2>4, RatingAside DEF StepFails, Cancel, RatingInv
    <2>5. ASSUME NEW c \in Callbacks, Calculate(c) PROVE RatingInv'
      BY <2>5, RatingAside DEF Calculate, RatingInv
    <2>6. CASE SnapshotCalculate
      BY <2>6, RatingAside DEF SnapshotCalculate, RatingInv
    <2>7. ASSUME NEW c \in Callbacks, Score(c) PROVE RatingInv'
      BY <2>7, RatingAside DEF Score, RatingInv
    <2>8. ASSUME NEW c \in Callbacks, Rate(c) PROVE RatingInv'
      BY <2>8, RatingPaid
    <2>9. ASSUME NEW e \in Edits, ReadGame(e) PROVE RatingInv'
      <3>1. Undone' = Undone /\ edit' \in [Edits -> {"new", "up", "down", "saved", "undid"}]
        BY <2>9 DEF ReadGame, RatingInv, Undone
      <3>2. Flags' = Flags /\ Flags \in Nat /\ Flags <= Flags
        BY <2>9, <3>1, FlagsType DEF ReadGame, Flags
      <3> QED BY <2>9, <3>1, <3>2, RatingUntouched DEF ReadGame, RatingInv
    <2>10. ASSUME NEW e \in Edits, SaveGame(e) PROVE RatingInv'
      BY <2>10, RatingSaved
    <2> QED BY <2>1, <2>2, <2>3, <2>4, <2>5, <2>6, <2>7, <2>8, <2>9, <2>10 DEF Next
  <1> QED BY <1>1, <1>2, PTL DEF Spec

\* However many teams finish, callbacks run and edits save an old row, nobody
\* gets more than one share for each time the flag can have been up.
THEOREM PaidOncePerFlagUp == Spec => []PaidOncePerFlag
  <1>1. RatingInv => PaidOncePerFlag
    <2> SUFFICES ASSUME RatingInv, NEW p \in Players
                 PROVE  rating[p] <= (1 + Cardinality(Undone)) * Share(p)
      BY DEF PaidOncePerFlag
    <2> DEFINE most == 1 + Cardinality(Undone)
    <2>1. rating[p] \in Nat /\ rating[p] <= Flags * Share(p)
      BY DEF RatingInv
    <2>2. Flags \in Nat /\ most \in Nat /\ Share(p) \in Nat /\ Flags <= most
      BY FlagsType, ShareType DEF Flags
    <2> HIDE DEF most
    <2>3. Flags * Share(p) <= most * Share(p)
      BY <2>2, ProductGrows
    <2>4. Flags * Share(p) \in Nat /\ most * Share(p) \in Nat
      BY <2>2
    <2>5. rating[p] <= most * Share(p)
      BY <2>1, <2>3, <2>4
    <2> QED BY <2>5 DEF most
  <1> QED BY <1>1, RatingInvariance, PTL

-----------------------------------------------------------------------------
(***************************************************************************)
(* The places.                                                             *)
(***************************************************************************)

\* Every set of natural numbers that is not empty has a least element.  It
\* stands for induction below: a list that went wrong would have a first
\* index at which it does.
LEMMA NatMinimum ==
    ASSUME NEW S \in SUBSET Nat, S # {}
    PROVE  \E x \in S : \A y \in S : x <= y
<1>1. PICK x \in S : \A y \in S : ~ (<<y, x>> \in OpToRel(<, Nat))
    BY NatLessThanWellFounded, WFMin, Zenon
<1>2. \A y \in S : x <= y
  <2>1. SUFFICES ASSUME NEW y \in S, y < x PROVE FALSE
      OBVIOUS
  <2>2. <<y, x>> \in OpToRel(<, Nat)
      BY <2>1 DEF OpToRel
  <2>3. QED
      BY <1>1, <2>2
<1>3. QED
    BY <1>2

\* A list that never falls from one element to the next is sorted.
LEMMA SortedList ==
    ASSUME NEW n \in Nat, NEW D \in [1 .. n -> Nat],
           \A i \in 1 .. n \ {1} : D[i - 1] <= D[i]
    PROVE  \A i, j \in 1 .. n : i <= j => D[i] <= D[j]
<1> SUFFICES ASSUME NEW i \in 1 .. n, NEW k \in 1 .. n, i <= k, D[k] < D[i]
             PROVE  FALSE
    OBVIOUS
<1> DEFINE Below == {j \in 1 .. n : i <= j /\ D[j] < D[i]}
<1>1. Below \in SUBSET Nat /\ k \in Below
    OBVIOUS
<1>2. PICK j \in Below : \A m \in Below : j <= m
  <2> HIDE DEF Below
  <2> QED
      BY <1>1, NatMinimum
<1>3. j \in 1 .. n /\ i <= j /\ D[j] < D[i]
    OBVIOUS
<1>4. j # i /\ j - 1 \in 1 .. n /\ i <= j - 1
    BY <1>3
<1>5. D[j - 1] <= D[j]
    BY <1>3, <1>4
<1>6. j - 1 \in Below
    BY <1>3, <1>4, <1>5
<1>7. QED
    BY <1>2, <1>3, <1>6

\* What at says about a list of times: the first index with the time of i.
Ranks(at, D, n) ==
    \A i \in 1 .. n : /\ at[i] \in 1 .. i
                      /\ D[at[i]] = D[i]
                      /\ \A k \in 1 .. n : k < at[i] => D[k] < D[i]

\* The recursion of PlacesIn, over times.
Climbs(at, D, n) ==
    at = [i \in 1 .. n |-> IF i > 1 /\ D[i] = D[i - 1] THEN at[i - 1] ELSE i]

\* There is such a function: it gives each index the first one with its time.
LEMMA ClimbExists ==
    ASSUME NEW n \in Nat, NEW D \in [1 .. n -> Nat],
           \A i, j \in 1 .. n : i <= j => D[i] <= D[j]
    PROVE  \E at : Climbs(at, D, n)
<1> DEFINE Same(i) == {k \in 1 .. n : D[k] = D[i]}
           First(i) == CHOOSE k \in Same(i) : \A m \in Same(i) : k <= m
           at == [i \in 1 .. n |-> First(i)]
<1>1. ASSUME NEW i \in 1 .. n
      PROVE  First(i) \in Same(i) /\ \A m \in Same(i) : First(i) <= m
  <2>1. i \in Same(i) /\ Same(i) \in SUBSET Nat
      OBVIOUS
  <2>2. \E k \in Same(i) : \A m \in Same(i) : k <= m
    <3> HIDE DEF Same
    <3> QED
        BY <2>1, NatMinimum
  <2>3. QED
      BY <2>2
<1>2. ASSUME NEW i \in 1 .. n, i > 1, D[i] = D[i - 1]
      PROVE  First(i) = First(i - 1)
  <2>1. i - 1 \in 1 .. n
      BY <1>2
  <2>2. Same(i) = Same(i - 1)
      BY <1>2, <2>1
  <2>3. QED
      BY <2>2
<1>3. ASSUME NEW i \in 1 .. n, ~(i > 1 /\ D[i] = D[i - 1])
      PROVE  First(i) = i
  <2>1. i \in Same(i)
      OBVIOUS
  <2>2. First(i) <= i /\ First(i) \in 1 .. n /\ D[First(i)] = D[i]
    <3>1. First(i) \in Same(i) /\ \A m \in Same(i) : First(i) <= m
        BY <1>1
    <3> HIDE DEF First
    <3> QED
        BY <2>1, <3>1
  <2>3. CASE First(i) < i
    <3> HIDE DEF First
    <3>1. i > 1 /\ i - 1 \in 1 .. n /\ First(i) <= i - 1
        BY <2>2, <2>3
    <3>2. D[i - 1] # D[i]
        BY <1>3, <3>1
    <3>3. D[i - 1] < D[i]
        BY <3>1, <3>2
    <3>4. D[First(i)] <= D[i - 1]
        BY <2>2, <3>1
    <3>5. QED
        BY <2>2, <3>1, <3>3, <3>4
  <2>4. QED
    <3> HIDE DEF First
    <3> QED
        BY <2>2, <2>3
<1>4. Climbs(at, D, n)
  <2>1. ASSUME NEW i \in 1 .. n
        PROVE  First(i) = IF i > 1 /\ D[i] = D[i - 1] THEN at[i - 1] ELSE i
    <3>1. CASE i > 1 /\ D[i] = D[i - 1]
      <4>1. i - 1 \in 1 .. n
          BY <3>1
      <4>2. at[i - 1] = First(i - 1)
        <5> HIDE DEF First
        <5> QED
            BY <4>1
      <4>3. First(i) = First(i - 1)
          BY <1>2, <3>1
      <4>4. QED
        <5> HIDE DEF First, at
        <5> QED
            BY <3>1, <4>2, <4>3
    <3>2. CASE ~(i > 1 /\ D[i] = D[i - 1])
      <4>1. First(i) = i
          BY <1>3, <3>2
      <4>2. QED
        <5> HIDE DEF First, at
        <5> QED
            BY <3>2, <4>1
    <3>3. QED
        BY <3>1, <3>2
  <2>2. QED
    <3> HIDE DEF First
    <3> QED
        BY <2>1, Zenon DEF Climbs
<1>5. QED
    BY <1>4

\* And any such function ranks: the first index at which it did not would
\* have a predecessor that is right, and take its place or its own index.
LEMMA ClimbRanks ==
    ASSUME NEW n \in Nat, NEW D \in [1 .. n -> Nat], NEW at,
           \A i, j \in 1 .. n : i <= j => D[i] <= D[j],
           Climbs(at, D, n)
    PROVE  Ranks(at, D, n)
<1> DEFINE Fine(i) == /\ at[i] \in 1 .. i
                      /\ D[at[i]] = D[i]
                      /\ \A k \in 1 .. n : k < at[i] => D[k] < D[i]
           Bad == {i \in 1 .. n : ~Fine(i)}
<1>1. SUFFICES ASSUME Bad # {} PROVE FALSE
  <2>1. \A i \in 1 .. n : Fine(i)
      BY <1>1
  <2>2. QED
      BY <2>1, Zenon DEF Ranks
<1>2. Bad \in SUBSET Nat
    OBVIOUS
<1>3. PICK i \in Bad : \A j \in Bad : i <= j
  <2> HIDE DEF Bad
  <2> QED
      BY <1>1, <1>2, NatMinimum
<1>4. i \in 1 .. n /\ ~Fine(i)
    OBVIOUS
<1>5. at[i] = IF i > 1 /\ D[i] = D[i - 1] THEN at[i - 1] ELSE i
    BY <1>4 DEF Climbs
<1>6. CASE i > 1 /\ D[i] = D[i - 1]
  <2>1. i - 1 \in 1 .. n /\ i - 1 \notin Bad
      BY <1>3, <1>4, <1>6
  <2>2. Fine(i - 1)
      BY <2>1
  <2>3. at[i] = at[i - 1] /\ at[i] \in 1 .. i
      BY <1>4, <1>5, <1>6, <2>2
  <2>4. QED
      BY <1>4, <1>6, <2>2, <2>3
<1>7. CASE ~(i > 1 /\ D[i] = D[i - 1])
  <2>1. at[i] = i
      BY <1>5, <1>7
  <2>2. ASSUME NEW k \in 1 .. n, k < i PROVE D[k] < D[i]
    <3>1. i > 1 /\ i - 1 \in 1 .. n /\ k <= i - 1
        BY <1>4, <2>2
    <3>2. D[i - 1] # D[i] /\ D[i - 1] <= D[i] /\ D[k] <= D[i - 1]
        BY <1>4, <1>7, <2>2, <3>1
    <3>3. D[k] \in Nat /\ D[i - 1] \in Nat /\ D[i] \in Nat
        BY <1>4, <2>2, <3>1
    <3>4. QED
        BY <3>2, <3>3
  <2>3. QED
      BY <1>4, <2>1, <2>2
<1>8. QED
    BY <1>6, <1>7

\* An enumeration of a finite set lists each of its elements.
LEMMA EnumerationIsOnto ==
    ASSUME NEW S, IsFiniteSet(S), NEW seq \in SetToSeqs(S)
    PROVE  LET n == Cardinality(S)
           IN  /\ n \in Nat
               /\ seq \in [1 .. n -> S]
               /\ \A i, j \in 1 .. n : i # j => seq[i] # seq[j]
               /\ \A x \in S : \E i \in 1 .. n : seq[i] = x
<1> DEFINE n == Cardinality(S)
<1>1. n \in Nat
    BY FS_CardinalityType
<1>2. seq \in [1 .. n -> S] /\ \A i, j \in 1 .. n : i # j => seq[i] # seq[j]
    BY DEF SetToSeqs
<1>3. seq \in Injection(1 .. n, S)
    BY <1>2 DEF Injection, IsInjective
<1>4. Cardinality(1 .. n) = n
    BY <1>1, FS_Interval
<1>5. seq \in Surjection(1 .. n, S)
    BY <1>3, <1>4, FS_Injection
<1>6. QED
    BY <1>1, <1>2, <1>5 DEF Surjection

\* CalculateResults: whatever was there before and in whatever order the sort
\* leaves equal times, a finished team gets the place one behind the number of
\* finished teams that were faster.
THEOREM SetPlacesRanks ==
    ASSUME IsFiniteSet(Teams), finished \subseteq Teams,
           duration \in [Teams -> Nat], SetPlaces
    PROVE  /\ \A t \in finished :
                 /\ place'[t] \in 1 .. Cardinality(finished)
                 /\ place'[t] = 1 + Cardinality({u \in finished : duration[u] < duration[t]})
           /\ \A t \in Teams \ finished : place'[t] = place[t]
           /\ place' = [t \in Teams |-> place'[t]]
<1>1. PICK seq \in SetToSeqs(finished) :
        /\ \A i \in DOMAIN seq \ {1} : duration[seq[i - 1]] <= duration[seq[i]]
        /\ place' = [t \in Teams |->
              IF t \in finished
              THEN PlacesIn(seq)[CHOOSE i \in DOMAIN seq : seq[i] = t] ELSE place[t]]
    BY DEF SetPlaces
<1> DEFINE n == Cardinality(finished)
           D == [i \in 1 .. n |-> duration[seq[i]]]
           at == PlacesIn(seq)
<1>2. IsFiniteSet(finished)
    BY FS_Subset
<1>3. /\ n \in Nat
      /\ seq \in [1 .. n -> finished]
      /\ \A i, j \in 1 .. n : i # j => seq[i] # seq[j]
      /\ \A t \in finished : \E i \in 1 .. n : seq[i] = t
    BY <1>2, EnumerationIsOnto
<1>4. D \in [1 .. n -> Nat]
    BY <1>3
<1>5. \A i, j \in 1 .. n : i <= j => D[i] <= D[j]
  <2>1. \A i \in 1 .. n \ {1} : i - 1 \in 1 .. n
      BY <1>3
  <2>2. \A i \in 1 .. n \ {1} : D[i - 1] <= D[i]
      BY <1>1, <1>3, <2>1
  <2>3. QED
    <3> HIDE DEF D, n
    <3> QED
        BY <1>3, <1>4, <2>2, SortedList
<1>6. Climbs(at, D, n)
  <2>1. PlacesIn(seq) = CHOOSE f : Climbs(f, D, n)
    <3>1. \A i \in 1 .. n : i > 1 => i - 1 \in 1 .. n
        BY <1>3
    <3>2. DOMAIN seq = 1 .. n
        BY <1>3
    <3>3. ASSUME NEW f
          PROVE  Climbs(f, D, n) <=>
                 f = [i \in DOMAIN seq |-> IF i > 1 /\ duration[seq[i]] = duration[seq[i - 1]]
                                           THEN f[i - 1] ELSE i]
      <4>1. \A i \in 1 .. n : (i > 1 /\ D[i] = D[i - 1]) <=>
                               (i > 1 /\ duration[seq[i]] = duration[seq[i - 1]])
          BY <3>1
      <4>2. QED
          BY <3>2, <4>1 DEF Climbs
    <3>4. QED
      <4> HIDE DEF D, n
      <4> QED
        BY <3>3 DEF PlacesIn
  <2>2. \E f : Climbs(f, D, n)
    <3> HIDE DEF D, n
    <3> QED
        BY <1>3, <1>4, <1>5, ClimbExists
  <2>3. QED
    <3> HIDE DEF D, n
    <3> QED
      BY <2>1, <2>2
<1>7. Ranks(at, D, n)
  <2> HIDE DEF D, n, at
  <2> QED
      BY <1>3, <1>4, <1>5, <1>6, ClimbRanks
<1>8. ASSUME NEW t \in finished
      PROVE  /\ place'[t] \in 1 .. n
             /\ place'[t] = 1 + Cardinality({u \in finished : duration[u] < duration[t]})
  <2>1. PICK i \in 1 .. n : seq[i] = t /\ place'[t] = at[i]
    <3>1. place'[t] = at[CHOOSE i \in 1 .. n : seq[i] = t]
        BY <1>1, <1>3
    <3>2. \E i \in 1 .. n : seq[i] = t
        BY <1>3
    <3> HIDE DEF at, n
    <3>3. QED
        BY <3>1, <3>2
  <2>2. /\ at[i] \in 1 .. i
        /\ D[at[i]] = D[i]
        /\ \A k \in 1 .. n : k < at[i] => D[k] < D[i]
    <3> HIDE DEF D, at, n
    <3> QED
        BY <1>7 DEF Ranks
  <2>3. at[i] \in 1 .. n /\ at[i] - 1 \in 0 .. n
    <3> HIDE DEF D, at, n
    <3> QED
        BY <1>3, <2>2
  <2>4. \A k \in 1 .. n : D[k] < D[i] => k < at[i]
    <3> HIDE DEF D, at, n
    <3>1. SUFFICES ASSUME NEW k \in 1 .. n, D[k] < D[i], at[i] <= k
                   PROVE  FALSE
        BY <1>3, <2>3
    <3>2. D[at[i]] <= D[k] /\ D[k] \in Nat /\ D[i] \in Nat
        BY <1>4, <1>5, <2>3, <3>1
    <3>3. QED
        BY <2>2, <3>1, <3>2
  <2>5. \A k \in 1 .. n : D[k] = duration[seq[k]]
      OBVIOUS
  <2>6. {u \in finished : duration[u] < duration[t]} = {seq[k] : k \in 1 .. (at[i] - 1)}
    <3> HIDE DEF D, at, n
    <3>1. ASSUME NEW u \in finished, duration[u] < duration[t]
          PROVE  u \in {seq[k] : k \in 1 .. (at[i] - 1)}
      <4>1. PICK k \in 1 .. n : seq[k] = u
          BY <1>3
      <4>2. k < at[i]
          BY <2>1, <2>4, <2>5, <3>1, <4>1
      <4>3. k \in 1 .. (at[i] - 1)
          BY <1>3, <2>3, <4>2
      <4>4. QED
          BY <4>1, <4>3
    <3>2. ASSUME NEW k \in 1 .. (at[i] - 1)
          PROVE  seq[k] \in finished /\ duration[seq[k]] < duration[t]
      <4>1. k \in 1 .. n /\ k < at[i]
          BY <1>3, <2>3
      <4>2. QED
          BY <1>3, <2>1, <2>2, <2>5, <4>1
    <3>3. QED
        BY <3>1, <3>2
  <2>7. Cardinality({u \in finished : duration[u] < duration[t]}) = at[i] - 1
    <3> DEFINE T == {u \in finished : duration[u] < duration[t]}
    <3> HIDE DEF D, at, n
    <3>1. PICK p \in 0 .. n : p = at[i] - 1
        BY <2>3
    <3>2. \A x : x \in T <=> \E k \in 1 .. p : x = seq[k]
        BY <2>6, <3>1
    <3> HIDE DEF T
    <3>3. \A k \in 1 .. p : k \in 1 .. n
        BY <1>3
    <3> DEFINE f == [k \in 1 .. p |-> seq[k]]
    <3>4. f \in [1 .. p -> T] /\ \A k \in 1 .. p : f[k] = seq[k]
        BY <3>2
    <3> HIDE DEF f
    <3>5. f \in Injection(1 .. p, T)
        BY <1>3, <3>3, <3>4 DEF Injection, IsInjective
    <3>6. f \in Surjection(1 .. p, T)
        BY <3>2, <3>4 DEF Surjection
    <3>7. ExistsBijection(1 .. p, T)
        BY <3>5, <3>6 DEF ExistsBijection, Bijection
    <3>8. Cardinality(T) = p
        BY <3>7, FS_CountingElements
    <3>9. QED
        BY <3>1, <3>8 DEF T
  <2>8. QED
    <3> HIDE DEF D, at, n
    <3> QED
        BY <1>3, <2>1, <2>3, <2>7
<1>9. QED
    BY <1>1, <1>8

-----------------------------------------------------------------------------
(***************************************************************************)
(* The inductive invariant.                                                *)
(***************************************************************************)

\* Only teams that have finished have a place.
PlacedIsFinished == \A t \in Teams : place[t] # 0 => t \in finished

\* A goroutine belongs to a team that has finished, or to all of them.
OwnCallback ==
    /\ \A t \in Teams : pc[t] # "idle" => t \in finished
    /\ pc[ForceCall] # "idle" => finished = Teams

CompletionInv ==
    /\ TypeOK
    /\ PlacedIsFinished
    /\ PlacesRank
    /\ AwardedOnce
    /\ OwnCallback
    /\ LostOnlyByFailure

LEMMA InitCompletion == Init => CompletionInv
<1> SUFFICES ASSUME Init PROVE CompletionInv
    OBVIOUS
<1> USE DEF Init
<1>1. TypeOK
  <2>1. Cardinality(Teams) \in Nat
      BY FS_CardinalityType, CompletionAssumption
  <2>2. place \in [Teams -> 0 .. Cardinality(Teams)]
      BY <2>1
  <2>3. pc \in [Callbacks -> {"idle", "calculate", "score", "rate", "done"}]
      OBVIOUS
  <2>4. rating \in [Players -> Nat] /\ award \in [Teams -> Nat]
      OBVIOUS
  <2>5. duration \in [Teams -> Durations \cup {0}]
      OBVIOUS
  <2>6. QED
      BY <2>2, <2>3, <2>4, <2>5 DEF TypeOK
<1>2. PlacedIsFinished /\ PlacesRank
    BY DEF PlacedIsFinished, PlacesRank
<1>3. AwardedOnce
    BY DEF AwardedOnce
<1>4. OwnCallback /\ LostOnlyByFailure
    BY DEF OwnCallback, LostOnlyByFailure, Callbacks
<1>5. QED
    BY <1>1, <1>2, <1>3, <1>4 DEF CompletionInv

\* Steps that set no place and leave the times of finished teams alone.
LEMMA RankKept ==
    ASSUME CompletionInv, UNCHANGED place, finished \subseteq finished',
           \A t \in finished : duration'[t] = duration[t]
    PROVE  PlacedIsFinished' /\ PlacesRank'
<1>1. \A t \in Teams : place[t] # 0 => t \in finished
    BY DEF CompletionInv, PlacedIsFinished
<1>2. PlacedIsFinished'
    BY <1>1 DEF PlacedIsFinished
<1> DEFINE Ahead(t) == {u \in Teams : place[u] # 0 /\ duration[u] < duration[t]}
<1>3. \A t \in Teams : place[t] # 0 => Ahead(t)' = Ahead(t)
    BY <1>1
<1>4. \A t \in Teams : place[t] # 0 => place[t] = 1 + Cardinality(Ahead(t))
    BY Zenon DEF CompletionInv, PlacesRank
<1>5. \A t \in Teams : place'[t] # 0 => place'[t] = 1 + Cardinality(Ahead(t)')
  <2> HIDE DEF Ahead
  <2> QED
      BY <1>3, <1>4
<1>6. PlacesRank'
    BY <1>5, Zenon DEF PlacesRank
<1>7. QED
    BY <1>2, <1>6

\* CalculateResults, by a callback or by the snapshot worker.
LEMMA RankSet ==
    ASSUME CompletionInv, SetPlaces, UNCHANGED <<finished, duration>>
    PROVE  /\ place' \in [Teams -> 0 .. Cardinality(Teams)]
           /\ PlacedIsFinished' /\ PlacesRank'
           /\ \A t \in finished' : place'[t] # 0
<1>1. /\ IsFiniteSet(Teams) /\ finished \subseteq Teams
      /\ duration \in [Teams -> Nat]
      /\ place \in [Teams -> 0 .. Cardinality(Teams)]
  <2>1. IsFiniteSet(Teams) /\ Durations \cup {0} \subseteq Nat
      BY CompletionAssumption
  <2>2. /\ finished \subseteq Teams
        /\ duration \in [Teams -> Durations \cup {0}]
        /\ place \in [Teams -> 0 .. Cardinality(Teams)]
      BY Zenon DEF CompletionInv, TypeOK
  <2>3. QED
      BY <2>1, <2>2
<1>2. /\ \A t \in finished :
            /\ place'[t] \in 1 .. Cardinality(finished)
            /\ place'[t] = 1 + Cardinality({u \in finished : duration[u] < duration[t]})
      /\ \A t \in Teams \ finished : place'[t] = place[t]
      /\ place' = [t \in Teams |-> place'[t]]
    BY <1>1, SetPlacesRanks
<1>3. /\ Cardinality(Teams) \in Nat /\ Cardinality(finished) \in Nat
      /\ Cardinality(finished) <= Cardinality(Teams)
    BY <1>1, FS_Subset, FS_CardinalityType
<1>4. \A t \in finished : place'[t] \in 0 .. Cardinality(Teams) /\ place'[t] # 0
  <2>1. \A t \in finished : place'[t] \in 1 .. Cardinality(finished)
      BY <1>2, Zenon
  <2>2. QED
      BY <1>3, <2>1
<1>5. \A t \in Teams : place'[t] # 0 <=> t \in finished
  <2>1. \A t \in Teams : place[t] # 0 => t \in finished
      BY DEF CompletionInv, PlacedIsFinished
  <2>2. QED
      BY <1>2, <1>4, <2>1, Zenon
<1> DEFINE Faster(t) == {u \in finished : duration[u] < duration[t]}
           Ahead(t) == {u \in Teams : place[u] # 0 /\ duration[u] < duration[t]}
<1>6. PlacedIsFinished' /\ PlacesRank'
  <2>1. \A t \in Teams : Ahead(t)' = Faster(t)
      BY <1>1, <1>5
  <2>2. \A t \in finished : place'[t] = 1 + Cardinality(Faster(t))
      BY <1>2, Zenon
  <2>3. \A t \in Teams : place'[t] # 0 => place'[t] = 1 + Cardinality(Ahead(t)')
    <3> HIDE DEF Faster, Ahead
    <3> QED
        BY <1>5, <2>1, <2>2
  <2>4. PlacesRank'
      BY <2>3, Zenon DEF PlacesRank
  <2>5. QED
      BY <1>5, <2>4 DEF PlacedIsFinished
<1>7. \A t \in finished' : place'[t] # 0
    BY <1>1, <1>5
<1>8. place' \in [Teams -> 0 .. Cardinality(Teams)]
  <2>1. \A t \in Teams : place'[t] \in 0 .. Cardinality(Teams)
      BY <1>1, <1>2, <1>4
  <2>2. QED
      BY <1>2, <2>1
<1>9. QED
    BY <1>6, <1>7, <1>8

LEMMA AwardKept ==
    ASSUME CompletionInv, UNCHANGED <<scored, award>>
    PROVE  AwardedOnce'
    BY DEF CompletionInv, AwardedOnce

\* A callback that has not been started has done nothing, and a team that
\* finishes has a callback that has just been started.
LEMMA FinishStep ==
    ASSUME CompletionInv, NEW t \in Teams, NEW d \in Durations, Finish(t, d)
    PROVE  CompletionInv'
<1> USE DEF Finish
<1>1. t \in Callbacks /\ ForceCall \in Callbacks /\ t # ForceCall /\ TypeOK
    BY ForceAssumption DEF Callbacks, CompletionInv
<1>2. TypeOK'
  <2>1. pc' \in [Callbacks -> {"idle", "calculate", "score", "rate", "done"}]
      BY <1>1 DEF TypeOK
  <2>2. duration' \in [Teams -> Durations \cup {0}]
      BY <1>1 DEF TypeOK
  <2>3. QED
      BY <1>1, <2>1, <2>2 DEF TypeOK
<1>3. \A u \in finished : duration'[u] = duration[u]
    BY <1>1 DEF TypeOK
<1>4. PlacedIsFinished' /\ PlacesRank'
    BY <1>3, RankKept
<1>5. AwardedOnce'
    BY AwardKept
<1>6. /\ pc'[t] = "calculate"
      /\ \A c \in Callbacks \ {t} : pc'[c] = pc[c]
      /\ pc[ForceCall] = "idle"
    BY <1>1 DEF TypeOK, CompletionInv, OwnCallback
<1>7. OwnCallback'
  <2>1. \A u \in Teams : u \in Callbacks
      BY DEF Callbacks
  <2>2. QED
      BY <1>1, <1>6, <2>1 DEF OwnCallback, CompletionInv
<1>8. LostOnlyByFailure'
  <2> SUFFICES ASSUME NEW u \in finished \cup {t}, NEW b \in {u, ForceCall}
               PROVE  /\ pc'[b] \in {"score", "rate", "done"} /\ "calculate" \notin lost[b] => place[u] # 0
                      /\ pc'[b] \in {"rate", "done"} /\ "score" \notin lost[b] => u \in scored
                      /\ pc'[b] = "done" /\ "rate" \notin lost[b] => rated \/ Undone # {}
      BY <1>1 DEF LostOnlyByFailure, Undone
  <2>1. CASE u = t \/ b = ForceCall
    <3>1. pc'[b] \in {"idle", "calculate"}
        BY <1>1, <1>6, <2>1
    <3>2. QED
        BY <3>1
  <2>2. CASE u # t /\ b = u
    <3>1. u \in finished /\ b \in {u, ForceCall} /\ pc'[b] = pc[b]
        BY <1>1, <1>6, <2>2 DEF TypeOK, Callbacks
    <3>2. QED
        BY <3>1 DEF LostOnlyByFailure, CompletionInv
  <2>3. QED
      BY <2>1, <2>2
<1>9. QED
    BY <1>2, <1>4, <1>5, <1>7, <1>8 DEF CompletionInv

LEMMA ForceFinishStep ==
    ASSUME CompletionInv, NEW ds \in [Teams -> Durations], ForceFinish(ds)
    PROVE  CompletionInv'
<1> USE DEF ForceFinish
<1>1. ForceCall \in Callbacks /\ ForceCall \notin Teams /\ TypeOK
    BY ForceAssumption DEF Callbacks, CompletionInv
<1>2. TypeOK'
  <2>1. pc' \in [Callbacks -> {"idle", "calculate", "score", "rate", "done"}]
      BY <1>1 DEF TypeOK
  <2>2. duration' \in [Teams -> Durations \cup {0}]
      BY <1>1 DEF TypeOK
  <2>3. QED
      BY <1>1, <2>1, <2>2 DEF TypeOK
<1>3. finished \subseteq finished' /\ \A u \in finished : duration'[u] = duration[u]
    BY <1>1 DEF TypeOK
<1>4. PlacedIsFinished' /\ PlacesRank'
    BY <1>3, RankKept
<1>5. AwardedOnce'
    BY AwardKept
<1>6. /\ pc'[ForceCall] = "calculate"
      /\ \A u \in Teams : pc'[u] = pc[u]
      /\ \A u \in Teams \ finished : pc[u] = "idle"
    BY <1>1 DEF TypeOK, CompletionInv, OwnCallback, Callbacks
<1>7. OwnCallback'
    BY <1>6 DEF OwnCallback
<1>8. LostOnlyByFailure'
  <2> SUFFICES ASSUME NEW u \in Teams, NEW b \in {u, ForceCall}
               PROVE  /\ pc'[b] \in {"score", "rate", "done"} /\ "calculate" \notin lost[b] => place[u] # 0
                      /\ pc'[b] \in {"rate", "done"} /\ "score" \notin lost[b] => u \in scored
                      /\ pc'[b] = "done" /\ "rate" \notin lost[b] => rated \/ Undone # {}
      BY <1>1 DEF LostOnlyByFailure, Undone
  <2>1. CASE b = ForceCall \/ u \notin finished
    <3>1. pc'[b] \in {"idle", "calculate"}
        BY <1>6, <2>1
    <3>2. QED
        BY <3>1
  <2>2. CASE b = u /\ u \in finished
      BY <1>6, <2>2 DEF LostOnlyByFailure, CompletionInv
  <2>3. QED
      BY <2>1, <2>2
<1>9. QED
    BY <1>2, <1>4, <1>5, <1>7, <1>8 DEF CompletionInv

\* A goroutine goes from one step to the next; it is nobody's first.
LEMMA GoesType ==
    ASSUME CompletionInv, NEW c \in Callbacks, NEW step \in Steps, Goes(c, step), finished' = finished
    PROVE  /\ pc' \in [Callbacks -> {"idle", "calculate", "score", "rate", "done"}]
           /\ pc[c] = step /\ pc'[c] = Behind(step)
           /\ \A b \in Callbacks \ {c} : pc'[b] = pc[b]
           /\ OwnCallback'
<1>1. pc \in [Callbacks -> {"idle", "calculate", "score", "rate", "done"}]
    BY DEF CompletionInv, TypeOK
<1>2. step # "idle" /\ Behind(step) \in {"score", "rate", "done"}
    BY DEF Steps, Behind
<1>3. pc[c] = step /\ pc' = [pc EXCEPT ![c] = Behind(step)]
    BY DEF Goes
<1>4. /\ pc' \in [Callbacks -> {"idle", "calculate", "score", "rate", "done"}]
      /\ pc'[c] = Behind(step)
      /\ \A b \in Callbacks \ {c} : pc'[b] = pc[b]
    BY <1>1, <1>2, <1>3
<1>5. \A b \in Callbacks : pc'[b] # "idle" => pc[b] # "idle"
    BY <1>2, <1>3, <1>4
<1>6. OwnCallback'
    BY <1>5 DEF OwnCallback, CompletionInv, Callbacks
<1>7. QED
    BY <1>3, <1>4, <1>6

\* Nothing is promised of a step that fails.
LEMMA StepFailsStep ==
    ASSUME CompletionInv, NEW c \in Callbacks, StepFails(c)
    PROVE  CompletionInv'
<1>1. TypeOK /\ UNCHANGED <<finished, duration, place, scored, award, rated, rating, edit>>
    BY DEF CompletionInv, StepFails
<1>2. PICK step \in Steps : Goes(c, step) /\ lost' = [lost EXCEPT ![c] = @ \cup {step}]
    BY DEF StepFails
<1>3. /\ pc' \in [Callbacks -> {"idle", "calculate", "score", "rate", "done"}]
      /\ pc[c] = step /\ pc'[c] = Behind(step)
      /\ \A b \in Callbacks \ {c} : pc'[b] = pc[b]
      /\ OwnCallback'
    BY <1>1, <1>2, GoesType
<1>4. /\ lost' \in [Callbacks -> SUBSET Steps]
      /\ lost'[c] = lost[c] \cup {step}
      /\ \A b \in Callbacks \ {c} : lost'[b] = lost[b]
    BY <1>1, <1>2 DEF TypeOK
<1>5. TypeOK'
    BY <1>1, <1>3, <1>4 DEF TypeOK
<1>6. PlacedIsFinished' /\ PlacesRank'
    BY <1>1, RankKept
<1>7. AwardedOnce'
    BY <1>1, AwardKept
<1>8. LostOnlyByFailure'
  <2> SUFFICES ASSUME NEW t \in finished, NEW b \in {t, ForceCall}
               PROVE  /\ pc'[b] \in {"score", "rate", "done"} /\ "calculate" \notin lost'[b] => place[t] # 0
                      /\ pc'[b] \in {"rate", "done"} /\ "score" \notin lost'[b] => t \in scored
                      /\ pc'[b] = "done" /\ "rate" \notin lost'[b] => rated \/ Undone # {}
      BY <1>1 DEF LostOnlyByFailure, Undone
  <2>1. b \in Callbacks
      BY <1>1 DEF TypeOK, Callbacks
  <2>2. /\ pc[b] \in {"score", "rate", "done"} /\ "calculate" \notin lost[b] => place[t] # 0
        /\ pc[b] \in {"rate", "done"} /\ "score" \notin lost[b] => t \in scored
        /\ pc[b] = "done" /\ "rate" \notin lost[b] => rated \/ Undone # {}
      BY DEF LostOnlyByFailure, CompletionInv
  <2>3. CASE b # c
      BY <1>3, <1>4, <2>1, <2>2, <2>3
  <2>4. CASE b = c
      BY <1>3, <1>4, <2>2, <2>4 DEF Steps, Behind
  <2>5. QED
      BY <2>3, <2>4
<1>9. QED
    BY <1>3, <1>5, <1>6, <1>7, <1>8 DEF CompletionInv

LEMMA CancelStep ==
    ASSUME CompletionInv, NEW c \in Callbacks, Cancel(c)
    PROVE  CompletionInv'
<1>1. TypeOK /\ UNCHANGED <<finished, duration, place, scored, award, rated, rating, edit>>
    BY DEF CompletionInv, Cancel
<1>2. /\ pc[c] \in Steps /\ From(pc[c]) \subseteq Steps
      /\ pc' = [pc EXCEPT ![c] = "done"]
      /\ lost' = [lost EXCEPT ![c] = @ \cup From(pc[c])]
    BY DEF Cancel, Steps, From
<1>3. /\ pc' \in [Callbacks -> {"idle", "calculate", "score", "rate", "done"}]
      /\ lost' \in [Callbacks -> SUBSET Steps]
      /\ pc'[c] = "done" /\ lost'[c] = lost[c] \cup From(pc[c])
      /\ \A b \in Callbacks \ {c} : pc'[b] = pc[b] /\ lost'[b] = lost[b]
    BY <1>1, <1>2 DEF TypeOK
<1>4. TypeOK'
    BY <1>1, <1>3 DEF TypeOK
<1>5. PlacedIsFinished' /\ PlacesRank'
    BY <1>1, RankKept
<1>6. AwardedOnce'
    BY <1>1, AwardKept
<1>7. OwnCallback'
  <2>1. \A b \in Callbacks : pc'[b] # "idle" => pc[b] # "idle"
      BY <1>2, <1>3 DEF Steps
  <2>2. QED
      BY <1>1, <2>1 DEF OwnCallback, CompletionInv, Callbacks
<1>8. LostOnlyByFailure'
  <2> SUFFICES ASSUME NEW t \in finished, NEW b \in {t, ForceCall}
               PROVE  /\ pc'[b] \in {"score", "rate", "done"} /\ "calculate" \notin lost'[b] => place[t] # 0
                      /\ pc'[b] \in {"rate", "done"} /\ "score" \notin lost'[b] => t \in scored
                      /\ pc'[b] = "done" /\ "rate" \notin lost'[b] => rated \/ Undone # {}
      BY <1>1 DEF LostOnlyByFailure, Undone
  <2>1. b \in Callbacks
      BY <1>1 DEF TypeOK, Callbacks
  <2>2. /\ pc[b] \in {"score", "rate", "done"} /\ "calculate" \notin lost[b] => place[t] # 0
        /\ pc[b] \in {"rate", "done"} /\ "score" \notin lost[b] => t \in scored
        /\ pc[b] = "done" /\ "rate" \notin lost[b] => rated \/ Undone # {}
      BY DEF LostOnlyByFailure, CompletionInv
  <2>3. CASE b # c
      BY <1>3, <2>1, <2>2, <2>3
  <2>4. CASE b = c
      BY <1>2, <1>3, <2>2, <2>4 DEF Steps, From
  <2>5. QED
      BY <2>3, <2>4
<1>9. QED
    BY <1>4, <1>5, <1>6, <1>7, <1>8 DEF CompletionInv

\* A team keeps what it has, and the callback that has taken a step has taken it
\* for every team that it owes it to.
LEMMA NothingIsTakenBack ==
    ASSUME CompletionInv, NEW c \in Callbacks, NEW step \in Steps, Goes(c, step), lost' = lost,
           finished' = finished,
           \A t \in finished : /\ place[t] # 0 => place'[t] # 0
                               /\ t \in scored => t \in scored',
           rated \/ Undone # {} => (rated \/ Undone # {})',
           step = "calculate" => \A t \in finished : place'[t] # 0,
           step = "score" => finished \subseteq scored',
           step = "rate" => rated'
    PROVE  LostOnlyByFailure'
<1>1. /\ pc[c] = step /\ pc'[c] = Behind(step)
      /\ \A b \in Callbacks \ {c} : pc'[b] = pc[b]
    BY GoesType
<1> SUFFICES ASSUME NEW t \in finished, NEW b \in {t, ForceCall}
             PROVE  /\ pc'[b] \in {"score", "rate", "done"} /\ "calculate" \notin lost[b] => place'[t] # 0
                    /\ pc'[b] \in {"rate", "done"} /\ "score" \notin lost[b] => t \in scored'
                    /\ pc'[b] = "done" /\ "rate" \notin lost[b] => rated' \/ Undone' # {}
    BY DEF LostOnlyByFailure
<1>2. b \in Callbacks
    BY DEF CompletionInv, TypeOK, Callbacks
<1>3. /\ pc[b] \in {"score", "rate", "done"} /\ "calculate" \notin lost[b] => place[t] # 0
      /\ pc[b] \in {"rate", "done"} /\ "score" \notin lost[b] => t \in scored
      /\ pc[b] = "done" /\ "rate" \notin lost[b] => rated \/ Undone # {}
    BY DEF LostOnlyByFailure, CompletionInv
<1>4. CASE b # c
    BY <1>1, <1>2, <1>3, <1>4
<1>5. CASE b = c
    BY <1>1, <1>3, <1>5 DEF Steps, Behind
<1>6. QED
    BY <1>4, <1>5

LEMMA CalculateStep ==
    ASSUME CompletionInv, NEW c \in Callbacks, Calculate(c)
    PROVE  CompletionInv'
<1>1. /\ TypeOK /\ SetPlaces /\ "calculate" \in Steps /\ Goes(c, "calculate")
      /\ UNCHANGED <<finished, duration, scored, award, rated, rating, lost, edit>>
    BY DEF CompletionInv, Calculate, Steps
<1>2. pc' \in [Callbacks -> {"idle", "calculate", "score", "rate", "done"}] /\ OwnCallback'
    BY <1>1, GoesType
<1>3. /\ place' \in [Teams -> 0 .. Cardinality(Teams)]
      /\ PlacedIsFinished' /\ PlacesRank'
      /\ \A t \in finished' : place'[t] # 0
    BY <1>1, RankSet
<1>4. TypeOK'
    BY <1>1, <1>2, <1>3 DEF TypeOK
<1>5. AwardedOnce'
    BY <1>1, AwardKept
<1>6. LostOnlyByFailure'
  <2>1. Undone' = Undone
      BY <1>1 DEF Undone
  <2>2. QED
      BY <1>1, <1>3, <2>1, NothingIsTakenBack
<1>7. QED
    BY <1>2, <1>3, <1>4, <1>5, <1>6 DEF CompletionInv

LEMMA SnapshotCalculateStep ==
    ASSUME CompletionInv, SnapshotCalculate
    PROVE  CompletionInv'
<1>1. /\ TypeOK /\ SetPlaces
      /\ UNCHANGED <<finished, duration, scored, award, rated, rating, pc, lost, edit>>
    BY DEF CompletionInv, SnapshotCalculate
<1>2. /\ place' \in [Teams -> 0 .. Cardinality(Teams)]
      /\ PlacedIsFinished' /\ PlacesRank'
      /\ \A t \in finished' : place'[t] # 0
    BY <1>1, RankSet
<1>3. TypeOK'
    BY <1>1, <1>2 DEF TypeOK
<1>4. AwardedOnce'
    BY <1>1, AwardKept
<1>5. OwnCallback' /\ LostOnlyByFailure'
    BY <1>1, <1>2 DEF OwnCallback, LostOnlyByFailure, Undone, CompletionInv
<1>6. QED
    BY <1>2, <1>3, <1>4, <1>5 DEF CompletionInv

\* A team that was not scored has nothing, and gets the points of its place.
LEMMA ScoreStep ==
    ASSUME CompletionInv, NEW c \in Callbacks, Score(c)
    PROVE  CompletionInv'
<1>1. /\ TypeOK /\ "score" \in Steps /\ Goes(c, "score")
      /\ UNCHANGED <<finished, duration, place, rated, rating, lost, edit>>
    BY DEF CompletionInv, Score, Steps
<1>2. pc' \in [Callbacks -> {"idle", "calculate", "score", "rate", "done"}] /\ OwnCallback'
    BY <1>1, GoesType
<1>3. PlacedIsFinished' /\ PlacesRank'
    BY <1>1, RankKept
<1>4. /\ scored' = scored \cup finished
      /\ award' = [t \in Teams |->
            IF t \in Unscored THEN award[t] + PointsFor[place[t]] ELSE award[t]]
    BY DEF Score
<1>5. \A t \in Teams : place[t] \in DOMAIN PointsFor /\ PointsFor[place[t]] \in Nat
    BY <1>1, CompletionAssumption DEF TypeOK
<1>6. /\ \A t \in Teams : t \notin scored => award[t] = 0
      /\ \A t \in Teams : t \in scored => \E pl \in DOMAIN PointsFor : award[t] = PointsFor[pl]
    BY DEF CompletionInv, AwardedOnce
<1>7. /\ \A t \in finished \ scored : award'[t] = PointsFor[place[t]]
      /\ \A t \in Teams \ (finished \ scored) : award'[t] = award[t]
    BY <1>1, <1>4, <1>5, <1>6 DEF Unscored, TypeOK
<1>8. scored' \subseteq finished' /\ finished' \subseteq scored' /\ award' \in [Teams -> Nat]
    BY <1>1, <1>4, <1>5 DEF TypeOK
<1>9. AwardedOnce'
  <2>1. ASSUME NEW t \in Teams, t \notin scored' PROVE award'[t] = 0
      BY <1>4, <1>6, <1>7, <2>1
  <2>2. ASSUME NEW t \in Teams, t \in scored'
        PROVE  \E pl \in DOMAIN PointsFor : award'[t] = PointsFor[pl]
    <3>1. CASE t \in finished \ scored
        BY <1>5, <1>7, <3>1
    <3>2. CASE t \in scored
        BY <1>6, <1>7, <3>2
    <3>3. QED
        BY <1>4, <2>2, <3>1, <3>2
  <2>3. QED
      BY <2>1, <2>2 DEF AwardedOnce
<1>10. TypeOK'
    BY <1>1, <1>2, <1>8 DEF TypeOK
<1>11. LostOnlyByFailure'
  <2>1. Undone' = Undone
      BY <1>1 DEF Undone
  <2>2. QED
      BY <1>1, <1>4, <1>8, <2>1, NothingIsTakenBack
<1>12. QED
    BY <1>2, <1>3, <1>9, <1>10, <1>11 DEF CompletionInv

LEMMA RateStep ==
    ASSUME CompletionInv, NEW c \in Callbacks, Rate(c)
    PROVE  CompletionInv'
<1>1. /\ TypeOK /\ "rate" \in Steps /\ Goes(c, "rate")
      /\ UNCHANGED <<finished, duration, place, scored, award, lost, edit>>
    BY DEF CompletionInv, Rate, Steps
<1>2. pc' \in [Callbacks -> {"idle", "calculate", "score", "rate", "done"}] /\ OwnCallback'
    BY <1>1, GoesType
<1>3. rated' = TRUE /\ rating' \in [Players -> Nat]
  <2>1. CASE ~MayRate
      BY <1>1, <2>1 DEF Rate, TypeOK, MayRate
  <2>2. CASE MayRate
    <3> DEFINE Paid == {p \in Players : \E t \in finished : p \in MembersOf[t]}
    <3>1. PICK teamOf \in [Players -> Teams] :
             /\ rated' = TRUE
             /\ rating' = [p \in Players |->
                   rating[p] + (IF p = Author THEN AuthorPoints ELSE 0)
                             + (IF p \in Paid THEN BasePoints(place[teamOf[p]]) ELSE 0)]
        BY <2>2 DEF Rate, Pay
    <3>2. rating \in [Players -> Nat]
        BY <1>1 DEF TypeOK
    <3> HIDE DEF Paid
    <3>3. rating' \in [Players -> Nat]
        BY <3>1, <3>2, BasePointsBound DEF AuthorPoints
    <3>4. QED
        BY <3>1, <3>3
  <2>3. QED
      BY <2>1, <2>2
<1>4. TypeOK'
    BY <1>1, <1>2, <1>3 DEF TypeOK
<1>5. PlacedIsFinished' /\ PlacesRank'
    BY <1>1, RankKept
<1>6. AwardedOnce'
    BY <1>1, AwardKept
<1>7. LostOnlyByFailure'
    BY <1>1, <1>3, NothingIsTakenBack
<1>8. QED
    BY <1>2, <1>4, <1>5, <1>6, <1>7 DEF CompletionInv

\* An edit that puts the flag down is the excuse of those who had put it up.
LEMMA EditStep ==
    ASSUME CompletionInv, NEW e \in Edits, ReadGame(e) \/ SaveGame(e)
    PROVE  CompletionInv'
<1>1. TypeOK /\ UNCHANGED <<finished, duration, place, scored, award, rating, pc, lost>>
    BY DEF CompletionInv, ReadGame, SaveGame
<1>2. /\ rated' \in BOOLEAN
      /\ edit' \in [Edits -> {"new", "up", "down", "saved", "undid"}]
      /\ rated \/ Undone # {} => rated' \/ Undone' # {}
  <2>1. CASE ReadGame(e)
      BY <1>1, <2>1 DEF ReadGame, TypeOK, Undone
  <2>2. CASE SaveGame(e)
    <3>1. edit \in [Edits -> {"new", "up", "down", "saved", "undid"}]
        BY <1>1 DEF TypeOK
    <3>2. rated' \in BOOLEAN /\ edit' \in [Edits -> {"new", "up", "down", "saved", "undid"}]
        BY <2>2, <3>1 DEF SaveGame
    <3>3. rated /\ ~rated' => e \in Undone'
        BY <2>2, <3>1 DEF SaveGame, Undone
    <3>4. Undone \subseteq Undone'
        BY <2>2, <3>1 DEF SaveGame, Undone
    <3>5. QED
        BY <3>2, <3>3, <3>4
  <2>3. QED
      BY <2>1, <2>2
<1>3. TypeOK'
    BY <1>1, <1>2 DEF TypeOK
<1>4. PlacedIsFinished' /\ PlacesRank'
    BY <1>1, RankKept
<1>5. AwardedOnce'
    BY <1>1, AwardKept
<1>6. OwnCallback' /\ LostOnlyByFailure'
    BY <1>1, <1>2 DEF OwnCallback, LostOnlyByFailure, CompletionInv
<1>7. QED
    BY <1>3, <1>4, <1>5, <1>6 DEF CompletionInv

LEMMA CompletionStep ==
    ASSUME CompletionInv, [Next]_vars
    PROVE  CompletionInv'
<1>1. CASE UNCHANGED vars
  <2>1. TypeOK' /\ OwnCallback' /\ LostOnlyByFailure'
      BY <1>1 DEF CompletionInv, TypeOK, OwnCallback, LostOnlyByFailure, Undone, vars
  <2>2. PlacedIsFinished' /\ PlacesRank'
      BY <1>1, RankKept DEF vars
  <2>3. AwardedOnce'
      BY <1>1, AwardKept DEF vars
  <2>4. QED
      BY <2>1, <2>2, <2>3 DEF CompletionInv
<1>2. ASSUME NEW t \in Teams, NEW d \in Durations, Finish(t, d) PROVE CompletionInv'
    BY <1>2, FinishStep
<1>3. ASSUME NEW ds \in [Teams -> Durations], ForceFinish(ds) PROVE CompletionInv'
    BY <1>3, ForceFinishStep
<1>4. ASSUME NEW c \in Callbacks, StepFails(c) \/ Cancel(c) PROVE CompletionInv'
    BY <1>4, StepFailsStep, CancelStep
<1>5. ASSUME NEW c \in Callbacks, Calculate(c) PROVE CompletionInv'
    BY <1>5, CalculateStep
<1>6. CASE SnapshotCalculate
    BY <1>6, SnapshotCalculateStep
<1>7. ASSUME NEW c \in Callbacks, Score(c) PROVE CompletionInv'
    BY <1>7, ScoreStep
<1>8. ASSUME NEW c \in Callbacks, Rate(c) PROVE CompletionInv'
    BY <1>8, RateStep
<1>9. ASSUME NEW e \in Edits, ReadGame(e) \/ SaveGame(e) PROVE CompletionInv'
    BY <1>9, EditStep
<1>10. QED
    BY <1>1, <1>2, <1>3, <1>4, <1>5, <1>6, <1>7, <1>8, <1>9 DEF Next

-----------------------------------------------------------------------------
(***************************************************************************)
(* The theorems.                                                           *)
(***************************************************************************)

\* The state stays within its types: a place is at most the number of teams,
\* and only finished teams are scored.
THEOREM TypeCorrect == Spec => []TypeOK
<1>1. CompletionInv => TypeOK
    BY DEF CompletionInv
<1>2. QED
    BY <1>1, InitCompletion, CompletionStep, PTL DEF Spec

\* At any time the places are a competition ranking of the teams that were
\* placed last, however callbacks and snapshots compute them over each other.
THEOREM PlacesAreARanking == Spec => []PlacesRank
<1>1. CompletionInv => PlacesRank
    BY DEF CompletionInv
<1>2. QED
    BY <1>1, InitCompletion, CompletionStep, PTL DEF Spec

\* No team is awarded the points of more than one place.
THEOREM PointsAreAwardedOnce == Spec => []AwardedOnce
<1>1. CompletionInv => AwardedOnce
    BY DEF CompletionInv
<1>2. QED
    BY <1>1, InitCompletion, CompletionStep, PTL DEF Spec

\* Only the failure of a step leaves a team without what the step gives it,
\* however the callbacks, their failures, the snapshots and the edits overlap.
THEOREM OnlyFailuresLose == Spec => []LostOnlyByFailure
<1>1. CompletionInv => LostOnlyByFailure
    BY DEF CompletionInv
<1>2. QED
    BY <1>1, InitCompletion, CompletionStep, PTL DEF Spec

-----------------------------------------------------------------------------
(***************************************************************************)
(* The timeout sweep: one open row for each passing that is on a level,    *)
(* and no level twice, for any number of games, passings and levels and    *)
(* any size of the batch.  The two invariants are inductive together.      *)
(***************************************************************************)

SweepInv == SweepTypeOK /\ OneRowPerPassing

\* The levels of a game by position: each stands at exactly one.
LEMMA LevelsByPosition ==
    ASSUME SweepTypeOK, NEW g \in Games
    PROVE  /\ LastLevel \in Nat \ {0}
           /\ order[g] \in [Levels -> Levels]
           /\ \A i, j \in Levels : i # j => order[g][i] # order[g][j]
           /\ \A l \in Levels : \E i \in Levels : order[g][i] = l
<1>1. LastLevel \in Nat \ {0}
    BY SweepAssumption
<1>2. IsFiniteSet(Levels) /\ Cardinality(Levels) = LastLevel
    BY <1>1, FS_Interval DEF Levels
<1>3. order[g] \in SetToSeqs(Levels)
    BY DEF SweepTypeOK
<1>4. LET n == Cardinality(Levels)
      IN  /\ order[g] \in [1 .. n -> Levels]
          /\ \A i, j \in 1 .. n : i # j => order[g][i] # order[g][j]
          /\ \A l \in Levels : \E i \in 1 .. n : order[g][i] = l
    BY <1>2, <1>3, EnumerationIsOnto
<1>5. 1 .. Cardinality(Levels) = Levels
    BY <1>2 DEF Levels
<1>6. QED
    BY <1>1, <1>4, <1>5

\* nextLevelFor: behind a level stands another one or nothing.
LEMMA NextLevelIsAnother ==
    ASSUME SweepInv, NEW p \in Passings, level[p] # 0
    PROVE  NextLevel(p) \in 0 .. LastLevel /\ NextLevel(p) # level[p]
<1> DEFINE seq == order[GameOf[p]]
           i == CHOOSE j \in Levels : seq[j] = level[p]
<1>1. GameOf[p] \in Games
    BY SweepAssumption
<1>2. /\ LastLevel \in Nat \ {0}
      /\ seq \in [Levels -> Levels]
      /\ \A a, b \in Levels : a # b => seq[a] # seq[b]
      /\ \A l \in Levels : \E a \in Levels : seq[a] = l
    BY <1>1, LevelsByPosition DEF SweepInv
<1>3. level[p] \in Levels
    BY <1>2 DEF SweepInv, SweepTypeOK, Levels
<1>4. i \in Levels /\ seq[i] = level[p]
    BY <1>2, <1>3
<1>5. NextLevel(p) = IF i = LastLevel THEN 0 ELSE seq[i + 1]
    BY DEF NextLevel
<1> HIDE DEF i, seq
<1>6. CASE i = LastLevel
  <2>1. NextLevel(p) = 0 /\ 0 \in 0 .. LastLevel
      BY <1>2, <1>5, <1>6
  <2>2. QED
      BY <2>1
<1>7. CASE i # LastLevel
  <2>1. i + 1 \in Levels /\ i + 1 # i
      BY <1>2, <1>4, <1>7 DEF Levels
  <2>2. seq[i + 1] \in Levels /\ seq[i + 1] # seq[i]
      BY <1>2, <1>4, <2>1
  <2>3. QED
      BY <1>2, <1>4, <1>5, <1>7, <2>2 DEF Levels
<1>8. QED
    BY <1>6, <1>7

\* A queue of some rows holds each of them once, wherever the new ones stand.
LEMMA QueueEnumerates ==
    ASSUME NEW S, NEW T, IsFiniteSet(S \cup T), NEW queue \in Queues(S, T)
    PROVE  /\ queue \in Seq(S \cup T)
           /\ IsInjective(queue)
           /\ ToSet(queue) = S \cup T
<1> DEFINE U == S \cup T
           n == Cardinality(U)
<1>1. queue \in SetToSeqs(U)
    BY DEF Queues
<1> HIDE DEF U
<1>2. /\ n \in Nat
      /\ queue \in [1 .. n -> U]
      /\ \A i, j \in 1 .. n : i # j => queue[i] # queue[j]
      /\ \A x \in U : \E i \in 1 .. n : queue[i] = x
    BY <1>1, EnumerationIsOnto DEF U
<1> HIDE DEF n
<1>3. queue \in Seq(U) /\ DOMAIN queue = 1 .. n
    BY <1>2
<1>4. IsInjective(queue)
    BY <1>2, <1>3 DEF IsInjective
<1>5. ToSet(queue) = U
    BY <1>2, <1>3 DEF ToSet
<1>6. QED
    BY <1>3, <1>4, <1>5 DEF U

\* The transaction that ends a set of levels, none of which is stuck.
LEMMA AdvanceStep ==
    ASSUME SweepInv, NEW ps \in SUBSET ToSet(rows),
           \A p \in ps : ~Stuck(p), Advance(ps), UNCHANGED <<order, moves>>
    PROVE  SweepInv'
<1> DEFINE on == {p \in ps : NextLevel(p) # 0}
           rest == ToSet(rows) \ ps
<1>1. ToSet(rows) \subseteq Passings /\ \A p \in ToSet(rows) : level[p] # 0
  <2>1. ToSet(rows) \subseteq Passings
      BY DEF SweepInv, SweepTypeOK, ToSet
  <2>2. QED
      BY <2>1 DEF SweepInv, OneRowPerPassing
<1>2. /\ level' = [p \in Passings |-> IF p \in ps THEN NextLevel(p) ELSE level[p]]
      /\ done' = [p \in Passings |-> IF p \in ps THEN done[p] \cup {level[p]} ELSE done[p]]
      /\ expired' = expired \ ps
    BY DEF Advance
<1>3. rows' \in Queues(rest, on)
    BY DEF Advance
<1>4. IsFiniteSet(rest \cup on)
  <2>1. rest \cup on \subseteq Passings
      BY <1>1
  <2>2. QED
      BY <2>1, SweepAssumption, FS_Subset
<1>5. /\ rows' \in Seq(rest \cup on)
      /\ IsInjective(rows')
      /\ ToSet(rows') = rest \cup on
  <2> HIDE DEF rest, on
  <2>1. QED
      BY <1>3, <1>4, QueueEnumerates
<1>6. \A p \in ps : /\ level[p] \in Levels
                    /\ NextLevel(p) \in 0 .. LastLevel
                    /\ NextLevel(p) # level[p]
                    /\ NextLevel(p) \notin done[p]
  <2> SUFFICES ASSUME NEW p \in ps
               PROVE  /\ level[p] \in Levels
                      /\ NextLevel(p) \in 0 .. LastLevel
                      /\ NextLevel(p) # level[p]
                      /\ NextLevel(p) \notin done[p]
      OBVIOUS
  <2>1. p \in Passings /\ level[p] # 0
      BY <1>1
  <2>2. level[p] \in Levels
      BY <2>1, SweepAssumption DEF SweepInv, SweepTypeOK, Levels
  <2>3. QED
      BY <2>1, <2>2, NextLevelIsAnother DEF Stuck
<1>7. SweepTypeOK'
  <2>1. rows' \in Seq(Passings)
    <3>1. rest \cup on \subseteq Passings
        BY <1>1
    <3>2. QED
        BY <1>5, <3>1
  <2>2. level' \in [Passings -> 0 .. LastLevel]
      BY <1>2, <1>6 DEF SweepInv, SweepTypeOK
  <2>3. done' \in [Passings -> SUBSET Levels]
      BY <1>2, <1>6 DEF SweepInv, SweepTypeOK
  <2>4. expired' \subseteq ToSet(rows')
      BY <1>2, <1>5 DEF SweepInv, SweepTypeOK
  <2>5. QED
      BY <1>5, <2>1, <2>2, <2>3, <2>4 DEF SweepInv, SweepTypeOK
<1>8. OneRowPerPassing'
  <2> SUFFICES ASSUME NEW p \in Passings
               PROVE  /\ p \in ToSet(rows') <=> level'[p] # 0
                      /\ level'[p] \notin done'[p]
      BY DEF OneRowPerPassing
  <2>1. (p \in ToSet(rows) <=> level[p] # 0) /\ level[p] \notin done[p]
      BY DEF SweepInv, OneRowPerPassing
  <2>2. CASE p \in ps
      BY <1>2, <1>5, <1>6, <2>2
  <2>3. CASE p \notin ps
      BY <1>2, <1>5, <2>1, <2>3
  <2>4. QED
      BY <2>2, <2>3
<1>9. QED
    BY <1>7, <1>8 DEF SweepInv

\* InitFirstLevel opens the first row of a passing.
LEMMA StartStep ==
    ASSUME SweepInv, NEW p \in Passings, Start(p)
    PROVE  SweepInv'
<1>1. p \notin ToSet(rows)
    BY DEF Start, SweepInv, OneRowPerPassing
<1>2. ToSet(rows) \subseteq Passings
    BY DEF SweepInv, SweepTypeOK, ToSet
<1>3. IsFiniteSet(ToSet(rows) \cup {p})
    BY <1>2, SweepAssumption, FS_Subset
<1>4. rows' \in Queues(ToSet(rows), {p})
    BY DEF Start
<1>5. /\ rows' \in Seq(ToSet(rows) \cup {p})
      /\ IsInjective(rows')
      /\ ToSet(rows') = ToSet(rows) \cup {p}
    BY <1>3, <1>4, QueueEnumerates
<1>6. ToSet(rows) \cup {p} \subseteq Passings
    BY <1>2
<1>7. rows' \in Seq(Passings)
    BY <1>5, <1>6
<1>8. order[GameOf[p]][1] \in Levels
  <2>1. GameOf[p] \in Games
      BY SweepAssumption
  <2>2. 1 \in Levels
      BY SweepAssumption DEF Levels
  <2>3. QED
      BY <2>1, <2>2, LevelsByPosition DEF SweepInv
<1>9. level' = [level EXCEPT ![p] = order[GameOf[p]][1]] /\ done[p] = {}
    BY DEF Start
<1>10. SweepTypeOK'
  <2>1. level' \in [Passings -> 0 .. LastLevel]
      BY <1>8, <1>9, SweepAssumption DEF SweepInv, SweepTypeOK, Levels
  <2>2. QED
      BY <1>5, <1>7, <2>1 DEF Start, SweepInv, SweepTypeOK
<1>11. OneRowPerPassing'
  <2> SUFFICES ASSUME NEW q \in Passings
               PROVE  /\ q \in ToSet(rows') <=> level'[q] # 0
                      /\ level'[q] \notin done'[q]
      BY DEF OneRowPerPassing
  <2>1. (q \in ToSet(rows) <=> level[q] # 0) /\ level[q] \notin done[q] /\ done' = done
      BY DEF SweepInv, OneRowPerPassing, Start
  <2>2. level'[q] = IF q = p THEN order[GameOf[p]][1] ELSE level[q]
      BY <1>9 DEF SweepInv, SweepTypeOK
  <2>3. order[GameOf[p]][1] # 0
      BY <1>8 DEF Levels
  <2>4. QED
      BY <1>5, <1>9, <2>1, <2>2, <2>3
<1>12. QED
    BY <1>10, <1>11 DEF SweepInv

\* The editor's exchange of two levels leaves each of them at one position.
LEMMA MoveLevelStep ==
    ASSUME SweepInv, NEW g \in Games, NEW i \in Levels, MoveLevel(g, i)
    PROVE  SweepInv'
<1> DEFINE old == order[g]
           new == [old EXCEPT ![i] = old[i + 1], ![i + 1] = old[i]]
<1>1. /\ LastLevel \in Nat \ {0}
      /\ old \in [Levels -> Levels]
      /\ \A a, b \in Levels : a # b => old[a] # old[b]
    BY LevelsByPosition DEF SweepInv
<1>2. i + 1 \in Levels
    BY <1>1 DEF MoveLevel, Levels
<1>3. i # i + 1
    BY <1>1 DEF Levels
<1>4. \A a \in Levels : new[a] = IF a = i THEN old[i + 1] ELSE IF a = i + 1 THEN old[i] ELSE old[a]
    BY <1>1, <1>2, <1>3
<1>5. new \in [Levels -> Levels]
    BY <1>1, <1>2
<1>6. \A a, b \in Levels : a # b => new[a] # new[b]
    BY <1>1, <1>2, <1>3, <1>4
<1>7. Cardinality(Levels) = LastLevel
    BY <1>1, FS_Interval DEF Levels
<1>8. new \in SetToSeqs(Levels)
    BY <1>5, <1>6, <1>7 DEF SetToSeqs, Levels
<1>9. order' = [order EXCEPT ![g] = new]
    BY DEF MoveLevel
<1>10. order' \in [Games -> SetToSeqs(Levels)]
    BY <1>8, <1>9 DEF SweepInv, SweepTypeOK
<1>11. moves' \in [Games -> 0 .. MaxMoves]
    BY SweepAssumption DEF MoveLevel, SweepInv, SweepTypeOK
<1>12. SweepTypeOK'
    BY <1>10, <1>11 DEF MoveLevel, SweepInv, SweepTypeOK
<1>13. OneRowPerPassing'
    BY DEF MoveLevel, SweepInv, OneRowPerPassing
<1>14. QED
    BY <1>12, <1>13 DEF SweepInv

\* Every step keeps one row per passing.
LEMMA SweepStep ==
    ASSUME SweepInv, [SweepNext]_sweepVars PROVE SweepInv'
<1>1. ASSUME NEW p \in Passings, Start(p) PROVE SweepInv'
    BY <1>1, StartStep
<1>2. ASSUME NEW p \in Passings, Solve(p) PROVE SweepInv'
  <2>1. p \in ToSet(rows)
      BY <1>2 DEF Solve, SweepInv, OneRowPerPassing
  <2>2. {p} \in SUBSET ToSet(rows) /\ \A q \in {p} : ~Stuck(q)
      BY <1>2, <2>1 DEF Solve
  <2>3. QED
      BY <1>2, <2>2, AdvanceStep DEF Solve
<1>3. ASSUME NEW p \in Passings, Expire(p) PROVE SweepInv'
  <2>1. p \in ToSet(rows)
      BY <1>3 DEF Expire, SweepInv, OneRowPerPassing
  <2>2. SweepTypeOK'
      BY <1>3, <2>1 DEF Expire, SweepInv, SweepTypeOK
  <2>3. OneRowPerPassing'
      BY <1>3 DEF Expire, SweepInv, OneRowPerPassing
  <2>4. QED
      BY <2>2, <2>3 DEF SweepInv
<1>4. ASSUME NEW g \in Games, NEW i \in Levels, MoveLevel(g, i) PROVE SweepInv'
    BY <1>4, MoveLevelStep
<1>5. CASE Sweep
  <2>1. TimedOut \in SUBSET ToSet(rows)
      BY DEF TimedOut, SweepInv, SweepTypeOK
  <2>2. QED
      BY <1>5, <2>1, AdvanceStep DEF Sweep
<1>6. CASE UNCHANGED sweepVars
    BY <1>6 DEF sweepVars, SweepInv, SweepTypeOK, OneRowPerPassing
<1>7. QED
    BY <1>1, <1>2, <1>3, <1>4, <1>5, <1>6 DEF SweepNext

\* Before the first start there is no row.
LEMMA SweepStart == SweepInit => SweepInv
<1> SUFFICES ASSUME SweepInit PROVE SweepInv
    OBVIOUS
<1> USE DEF SweepInit
<1>1. LastLevel \in Nat \ {0} /\ MaxMoves \in Nat
    BY SweepAssumption
<1>2. rows \in Seq(Passings) /\ IsInjective(rows) /\ ToSet(rows) = {}
    BY DEF IsInjective, ToSet
<1>3. [i \in Levels |-> i] \in SetToSeqs(Levels)
  <2>1. Cardinality(Levels) = LastLevel
      BY <1>1, FS_Interval DEF Levels
  <2>2. QED
      BY <2>1 DEF SetToSeqs, Levels
<1>4. SweepTypeOK
    BY <1>1, <1>2, <1>3 DEF SweepTypeOK
<1>5. OneRowPerPassing
    BY <1>2 DEF OneRowPerPassing
<1>6. QED
    BY <1>4, <1>5 DEF SweepInv

\* The sweep's types: rows, levels and the order of the levels, for any
\* number of games, passings and levels and any batch.
THEOREM SweepTypeCorrect == SweepSpec => []SweepTypeOK
<1>1. SweepInv => SweepTypeOK
    BY DEF SweepInv
<1>2. QED
    BY <1>1, SweepStart, SweepStep, PTL DEF SweepSpec

\* A passing is on a level exactly as long as it has one open row, and never
\* goes back to a level it has finished, however its levels were moved
\* (svc_progress.go:152-159).
THEOREM OneOpenRow == SweepSpec => []OneRowPerPassing
<1>1. SweepInv => OneRowPerPassing
    BY DEF SweepInv
<1>2. QED
    BY <1>1, SweepStart, SweepStep, PTL DEF SweepSpec

-----------------------------------------------------------------------------
(***************************************************************************)
(* Where rows get stuck, and what keeps a row of a limited game from       *)
(* starving, as far as it is not about fairness: a game whose levels were  *)
(* never moved is played in their order, and as soon as the batch has room *)
(* for more than the rows no sweep takes out, the oldest row of a limited  *)
(* game is in it.                                                          *)
(***************************************************************************)

InOrder(g) == order[g] = [i \in Levels |-> i]

\* A game whose levels were never moved is played from the first level up.
PlayedInOrder ==
    \A p \in Passings :
        moves[GameOf[p]] = 0 =>
            /\ InOrder(GameOf[p])
            /\ level[p] # 0 => \A l \in done[p] : l < level[p]

OrderInv == SweepInv /\ PlayedInOrder

\* In such a game the next level is the one with the next number.
LEMMA NextInOrder ==
    ASSUME SweepInv, NEW p \in Passings, level[p] # 0, InOrder(GameOf[p])
    PROVE  /\ level[p] \in Levels
           /\ NextLevel(p) = IF level[p] = LastLevel THEN 0 ELSE level[p] + 1
<1> DEFINE seq == order[GameOf[p]]
           i == CHOOSE j \in Levels : seq[j] = level[p]
<1>1. level[p] \in Levels
    BY SweepAssumption DEF SweepInv, SweepTypeOK, Levels
<1>2. \A j \in Levels : seq[j] = j
    BY DEF InOrder
<1>3. i = level[p]
    BY <1>1, <1>2
<1>4. NextLevel(p) = IF i = LastLevel THEN 0 ELSE seq[i + 1]
    BY DEF NextLevel
<1>5. i # LastLevel => i + 1 \in Levels
    BY <1>1, <1>3, SweepAssumption DEF Levels
<1> HIDE DEF i, seq
<1>6. QED
    BY <1>1, <1>2, <1>3, <1>4, <1>5

LEMMA OrderStart == SweepInit => OrderInv
<1> SUFFICES ASSUME SweepInit PROVE OrderInv
    OBVIOUS
<1>1. PlayedInOrder
    BY SweepAssumption DEF SweepInit, PlayedInOrder, InOrder
<1>2. QED
    BY <1>1, SweepStart DEF OrderInv

\* Passings that go on stay behind what they have played.
LEMMA AdvanceKeepsOrder ==
    ASSUME OrderInv, NEW ps \in SUBSET ToSet(rows), Advance(ps), UNCHANGED <<order, moves>>
    PROVE  PlayedInOrder'
<1> SUFFICES ASSUME NEW p \in Passings, moves[GameOf[p]] = 0
             PROVE  /\ InOrder(GameOf[p])'
                    /\ level'[p] # 0 => \A l \in done'[p] : l < level'[p]
    BY DEF PlayedInOrder
<1>1. /\ InOrder(GameOf[p])
      /\ level[p] # 0 => \A l \in done[p] : l < level[p]
      /\ p \in ToSet(rows) <=> level[p] # 0
      /\ done[p] \subseteq Levels
    BY DEF OrderInv, PlayedInOrder, SweepInv, OneRowPerPassing, SweepTypeOK
<1>2. InOrder(GameOf[p])'
    BY <1>1 DEF InOrder
<1>3. /\ level'[p] = IF p \in ps THEN NextLevel(p) ELSE level[p]
      /\ done'[p] = IF p \in ps THEN done[p] \cup {level[p]} ELSE done[p]
    BY DEF Advance
<1>4. CASE p \in ps
  <2>1. /\ level[p] # 0 /\ level[p] \in Levels
        /\ NextLevel(p) = IF level[p] = LastLevel THEN 0 ELSE level[p] + 1
      BY <1>1, <1>4, NextInOrder DEF OrderInv
  <2>2. ASSUME level'[p] # 0, NEW l \in done'[p] PROVE l < level'[p]
    <3>1. level'[p] = level[p] + 1
        BY <1>3, <1>4, <2>1, <2>2
    <3>2. l \in done[p] \cup {level[p]}
        BY <1>3, <1>4, <2>2
    <3>3. l \in Levels /\ l <= level[p]
        BY <1>1, <2>1, <3>2 DEF Levels
    <3>4. QED
        BY <2>1, <3>1, <3>3 DEF Levels
  <2>3. QED
      BY <1>2, <2>2
<1>5. CASE p \notin ps
    BY <1>1, <1>2, <1>3, <1>5
<1>6. QED
    BY <1>4, <1>5

LEMMA OrderStep ==
    ASSUME OrderInv, [SweepNext]_sweepVars PROVE OrderInv'
<1>0. SweepInv'
    BY SweepStep DEF OrderInv
<1> SUFFICES PlayedInOrder'
    BY <1>0 DEF OrderInv
<1>1. ASSUME NEW p \in Passings, Start(p) PROVE PlayedInOrder'
  <2>1. /\ level' = [level EXCEPT ![p] = order[GameOf[p]][1]]
        /\ UNCHANGED <<done, order, moves>> /\ done[p] = {}
      BY <1>1 DEF Start
  <2>2. \A q \in Passings : q # p => level'[q] = level[q]
      BY <2>1 DEF OrderInv, SweepInv, SweepTypeOK
  <2>3. ASSUME NEW q \in Passings, moves'[GameOf[q]] = 0
        PROVE  /\ InOrder(GameOf[q])'
               /\ level'[q] # 0 => \A l \in done'[q] : l < level'[q]
      BY <2>1, <2>2, <2>3 DEF OrderInv, PlayedInOrder, InOrder
  <2>4. QED
      BY <2>3 DEF PlayedInOrder
<1>2. ASSUME NEW p \in Passings, Solve(p) PROVE PlayedInOrder'
  <2>1. {p} \in SUBSET ToSet(rows) /\ Advance({p}) /\ UNCHANGED <<order, moves>>
      BY <1>2 DEF Solve, OrderInv, SweepInv, OneRowPerPassing
  <2>2. QED
      BY <2>1, AdvanceKeepsOrder
<1>3. ASSUME NEW p \in Passings, Expire(p) PROVE PlayedInOrder'
    BY <1>3 DEF Expire, OrderInv, PlayedInOrder, InOrder
<1>4. ASSUME NEW g \in Games, NEW i \in Levels, MoveLevel(g, i) PROVE PlayedInOrder'
  <2>1. /\ moves[g] \in Nat /\ moves' = [moves EXCEPT ![g] = @ + 1]
        /\ UNCHANGED <<level, done>> /\ \A h \in Games : h # g => order'[h] = order[h]
      BY <1>4, SweepAssumption DEF MoveLevel, OrderInv, SweepInv, SweepTypeOK
  <2>2. moves'[g] # 0 /\ \A h \in Games : h # g => moves'[h] = moves[h]
      BY <2>1 DEF OrderInv, SweepInv, SweepTypeOK
  <2>3. QED
      BY <2>1, <2>2, SweepAssumption DEF OrderInv, PlayedInOrder, InOrder
<1>5. CASE Sweep
  <2>1. TimedOut \in SUBSET ToSet(rows) /\ Advance(TimedOut) /\ UNCHANGED <<order, moves>>
      BY <1>5 DEF Sweep, TimedOut, OrderInv, SweepInv, SweepTypeOK
  <2>2. QED
      BY <2>1, AdvanceKeepsOrder
<1>6. CASE UNCHANGED sweepVars
    BY <1>6 DEF sweepVars, OrderInv, PlayedInOrder, InOrder
<1>7. QED
    BY <1>1, <1>2, <1>3, <1>4, <1>5, <1>6 DEF SweepNext

\* Where a position behind the first m of n is.
LEMMA BehindTheFirst ==
    ASSUME NEW m \in Nat, NEW n \in Nat, NEW k \in 1 .. n,
           ~(k <= IF m < n THEN m ELSE n)
    PROVE  (IF m < n THEN m ELSE n) = m /\ m < k
OBVIOUS

\* Among the first rows of the queue there is one of a limited game, if they are
\* more than the rows without a limit.
LEMMA LimitedInBatch == SweepInv => LimitedIsSeen
<1> SUFFICES ASSUME SweepInv, Cardinality(Unlimited) < BatchSize,
                    NEW p \in ToSet(rows) \ Unlimited, p \notin Batch
             PROVE  \E q \in Batch \ Unlimited : Older(q, p)
    BY DEF LimitedIsSeen
<1>1. /\ rows \in Seq(Passings) /\ Len(rows) \in Nat /\ DOMAIN rows = 1 .. Len(rows)
      /\ BatchSize \in Nat \ {0}
      /\ \A i, j \in DOMAIN rows : i # j => rows[i] # rows[j]
    BY SweepAssumption DEF SweepInv, SweepTypeOK, IsInjective
<1> DEFINE b == IF BatchSize < Len(rows) THEN BatchSize ELSE Len(rows)
<1>2. b \in Nat /\ b <= Len(rows)
    BY <1>1
<1>3. \A i \in 1 .. b : rows[i] \in Batch
  <2>1. /\ Len(SubSeq(rows, 1, b)) = b
        /\ \A i \in 1 .. b : SubSeq(rows, 1, b)[i] = rows[i]
        /\ DOMAIN SubSeq(rows, 1, b) = 1 .. b
      BY <1>1, <1>2
  <2>2. Batch = ToSet(SubSeq(rows, 1, b))
      BY DEF Batch
  <2> HIDE DEF b
  <2>3. QED
      BY <2>1, <2>2 DEF ToSet
<1>4. PICK k \in 1 .. Len(rows) : rows[k] = p
    BY <1>1 DEF ToSet
<1>5. b = BatchSize /\ BatchSize < k
  <2>1. ~(k <= b)
    <3> SUFFICES ASSUME k <= b PROVE FALSE
        OBVIOUS
    <3> HIDE DEF b
    <3>1. k \in 1 .. b
        BY <1>1, <1>2
    <3>2. QED
        BY <1>3, <1>4, <3>1
  <2>2. BatchSize \in Nat /\ Len(rows) \in Nat
      BY <1>1
  <2>3. QED
      BY <1>4, <2>1, <2>2, BehindTheFirst
<1> HIDE DEF b
<1>6. IsFiniteSet(Unlimited)
  <2>1. Unlimited \subseteq Passings
      BY <1>1 DEF Unlimited, ToSet
  <2>2. QED
      BY <2>1, SweepAssumption, FS_Subset
<1>7. \E i \in 1 .. BatchSize : rows[i] \notin Unlimited
  <2> SUFFICES ASSUME \A i \in 1 .. BatchSize : rows[i] \in Unlimited
               PROVE  FALSE
      OBVIOUS
  <2> DEFINE first == [i \in 1 .. BatchSize |-> rows[i]]
  <2>1. first \in [1 .. BatchSize -> Unlimited]
      OBVIOUS
  <2>2. IsFiniteSet(1 .. BatchSize) /\ Cardinality(1 .. BatchSize) = BatchSize
      BY <1>1, FS_Interval
  <2>3. Cardinality(Unlimited) < Cardinality(1 .. BatchSize)
      BY <2>2
  <2> HIDE DEF first
  <2>4. \E i, j \in 1 .. BatchSize : i # j /\ first[i] = first[j]
      BY <1>6, <2>1, <2>2, <2>3, FS_PigeonHole
  <2> USE DEF first
  <2>5. \A i \in 1 .. BatchSize : i \in DOMAIN rows
    <3>1. BatchSize \in Nat /\ k \in Nat /\ BatchSize < k /\ k <= Len(rows)
        BY <1>1, <1>4, <1>5
    <3>2. QED
        BY <1>1, <3>1
  <2>6. QED
      BY <1>1, <2>4, <2>5
<1>8. PICK i \in 1 .. BatchSize : rows[i] \notin Unlimited
    BY <1>7
<1>9. rows[i] \in Batch
    BY <1>3, <1>5
<1>10. Older(rows[i], p)
  <2>1. i \in DOMAIN rows /\ k \in DOMAIN rows /\ i < k
      BY <1>1, <1>4, <1>5
  <2>2. QED
      BY <1>4, <2>1 DEF Older, Before
<1>11. QED
    BY <1>8, <1>9, <1>10

\* Batches are rolled back and codes refused for a level that was played only in
\* games whose levels were moved, for any number of games, passings and levels
\* and any batch (svc_progress.go:367-390, 438-443).
THEOREM StuckOnlyWhereMoved == SweepSpec => []OnlyMovedGamesAreStuck
<1>1. ASSUME OrderInv PROVE OnlyMovedGamesAreStuck
  <2> SUFFICES ASSUME NEW p \in ToSet(rows), moves[GameOf[p]] = 0, NextLevel(p) \in done[p]
               PROVE  FALSE
      BY DEF OnlyMovedGamesAreStuck, Stuck
  <2>1. p \in Passings /\ level[p] # 0
      BY <1>1 DEF OrderInv, SweepInv, SweepTypeOK, OneRowPerPassing, ToSet
  <2>2. /\ InOrder(GameOf[p]) /\ \A l \in done[p] : l < level[p]
        /\ done[p] \subseteq Levels
      BY <1>1, <2>1 DEF OrderInv, PlayedInOrder, SweepInv, SweepTypeOK
  <2>3. /\ level[p] \in Levels
        /\ NextLevel(p) = IF level[p] = LastLevel THEN 0 ELSE level[p] + 1
      BY <1>1, <2>1, <2>2, NextInOrder DEF OrderInv
  <2>4. NextLevel(p) \in Levels /\ NextLevel(p) < level[p]
      BY <2>2
  <2>5. QED
      BY <2>3, <2>4 DEF Levels
<1>2. QED
    BY <1>1, OrderStart, OrderStep, PTL DEF SweepSpec

\* Where the batch has room for more than the rows without a limit, the oldest
\* row of a limited game is looked at (svc_progress.go:230-255).
THEOREM LimitedRowsAreSeen == SweepSpec => []LimitedIsSeen
<1>1. QED
    BY LimitedInBatch, SweepStart, SweepStep, PTL DEF SweepSpec

=============================================================================
