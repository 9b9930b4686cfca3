----------------------- MODULE TournamentScoringProofs -----------------------
(***************************************************************************)
(* The books of the tournaments, for any number of tournaments, games and  *)
(* teams: the arrays of a passing stay parallel, and the leaderboard is    *)
(* what the passings say.                                                  *)
(*                                                                         *)
(* Sums.  A sum of naturals over a finite set is the number of units in    *)
(* it: Weight(f, S) counts the pairs <<x, k>> with x in S and k in         *)
(* 1 .. f[x].  What FoldFunction and MapThenSumSet compute is shown to be  *)
(* that number by looking at a smallest set for which it is not, and sums  *)
(* are then moved and split with the theorems on cardinalities.            *)
(*                                                                         *)
(* Rows.  Only is followed position by position (OnlyByPrefix).  What the  *)
(* transactions do to a row is then said without positions: which          *)
(* identifiers stand in it (InRow) and what stands beside each (Beside).   *)
(*                                                                         *)
(* Neither property is inductive.  Scoring keeps the arrays duplicate-free *)
(* because it asks for passings without the identifier; removal takes      *)
(* points from the leaderboard exactly where it cuts a row because only    *)
(* finished passings of entered teams are scored (IdsAreEarned).           *)
(***************************************************************************)
EXTENDS TournamentScoring, FiniteSetTheorems, WellFoundedInduction, TLAPS

-----------------------------------------------------------------------------
(* Sums as numbers of units.                                               *)

\* A set of naturals has a least element: the induction of this module is to
\* look at a smallest counterexample.
LEMMA NatMinimum ==
    ASSUME NEW S \in SUBSET Nat, S # {}
    PROVE  \E x \in S : \A y \in S : x <= y
<1>1. PICK x \in S : \A y \in S : ~ (<<y, x>> \in OpToRel(<, Nat))
    BY NatLessThanWellFounded, WFMin, Zenon
<1>2. \A y \in S : x <= y
  <2>1. SUFFICES ASSUME NEW y \in S, y < x PROVE FALSE
      OBVIOUS
  <2>2. <<y, x>> \in OpToRel(<, Nat)
      BY <2>1 DEF OpToRel
  <2>3. QED
      BY <1>1, <2>2
<1>3. QED
    BY <1>2

\* f[x] units for every x of S: what a sum over S counts.
Units(f, S) == {u \in S \X Nat : u[2] \in 1 .. f[u[1]]}

Weight(f, S) == Cardinality(Units(f, S))

LEMMA NoUnits == ASSUME NEW f PROVE Units(f, {}) = {} /\ Weight(f, {}) = 0
    BY FS_EmptySet DEF Units, Weight

LEMMA OneElement ==
    ASSUME NEW x, NEW n \in Nat
    PROVE  IsFiniteSet({x} \X (1 .. n)) /\ Cardinality({x} \X (1 .. n)) = n
<1>1. IsFiniteSet({x}) /\ Cardinality({x}) = 1
    BY FS_Singleton
<1>2. IsFiniteSet(1 .. n) /\ Cardinality(1 .. n) = n
    BY FS_Interval
<1> DEFINE A == {x}
           B == 1 .. n
<1> HIDE DEF A, B
<1>3. IsFiniteSet(A \X B) /\ Cardinality(A \X B) = Cardinality(A) * Cardinality(B)
    BY <1>1, <1>2, FS_Product DEF A, B
<1>4. Cardinality(A) * Cardinality(B) = n
    BY <1>1, <1>2 DEF A, B
<1>5. QED
    BY <1>3, <1>4 DEF A, B

LEMMA UnitsFinite ==
    ASSUME NEW S, IsFiniteSet(S), NEW f, \A x \in S : f[x] \in Nat
    PROVE  IsFiniteSet(Units(f, S)) /\ Weight(f, S) \in Nat
<1> DEFINE Parts == {{x} \X (1 .. f[x]) : x \in S}
           h == [x \in S |-> {x} \X (1 .. f[x])]
<1>1. h \in Surjection(S, Parts)
    BY DEF Surjection
<1>2. IsFiniteSet(Parts)
  <2> HIDE DEF h, Parts
  <2> QED
    BY <1>1, FS_Surjection
<1>3. \A P \in Parts : IsFiniteSet(P)
  <2> SUFFICES ASSUME NEW x \in S PROVE IsFiniteSet({x} \X (1 .. f[x]))
      OBVIOUS
  <2> QED
      BY OneElement
<1>4. IsFiniteSet(UNION Parts)
  <2> HIDE DEF Parts
  <2> QED
    BY <1>2, <1>3, FS_UNION
<1>5. Units(f, S) \subseteq UNION Parts
    BY DEF Units
<1>6. IsFiniteSet(Units(f, S))
  <2> HIDE DEF Parts
  <2> QED
    BY <1>4, <1>5, FS_Subset
<1>7. QED
    BY <1>6, FS_CardinalityType DEF Weight

LEMMA WeightSplit ==
    ASSUME NEW S, IsFiniteSet(S), NEW f, \A x \in S : f[x] \in Nat, NEW x \in S
    PROVE  Weight(f, S) = f[x] + Weight(f, S \ {x})
<1> DEFINE U == {x} \X (1 .. f[x])
           V == Units(f, S \ {x})
<1>1. IsFiniteSet(S \ {x})
    BY FS_RemoveElement
<1>2. IsFiniteSet(V) /\ Cardinality(V) \in Nat /\ Weight(f, S \ {x}) = Cardinality(V)
    BY <1>1, UnitsFinite DEF Weight
<1>3. IsFiniteSet(U) /\ Cardinality(U) = f[x]
    BY OneElement
<1>4. U \cap V = {}
    BY DEF Units
<1>5. Units(f, S) = U \cup V
    BY DEF Units
<1>6. Cardinality(U \cup V) = Cardinality(U) + Cardinality(V) - Cardinality(U \cap V)
  <2> HIDE DEF U, V
  <2> QED
    BY <1>2, <1>3, FS_Union
<1>7. Cardinality(U \cup V) = Cardinality(U) + Cardinality(V)
  <2> HIDE DEF U, V
  <2> QED
    BY <1>2, <1>3, <1>4, <1>6, FS_EmptySet
<1>8. QED
  <2> HIDE DEF U, V
  <2> QED
    BY <1>2, <1>3, <1>5, <1>7 DEF Weight

LEMMA WeightAgrees ==
    ASSUME NEW S, NEW f, NEW h, \A x \in S : f[x] = h[x]
    PROVE  Weight(f, S) = Weight(h, S)
<1>1. Units(f, S) = Units(h, S)
    BY DEF Units
<1>2. QED
    BY <1>1 DEF Weight

\* The recursion of a sum over a set whose elements are taken in the order of c.
SumsUp(iter, f, c, S) ==
    iter = [s \in SUBSET S |-> IF s = {} THEN 0 ELSE f[c[s]] + iter[s \ {c[s]}]]

LEMMA SumExists ==
    ASSUME NEW S, IsFiniteSet(S), NEW f, \A x \in S : f[x] \in Nat,
           NEW c, \A s \in SUBSET S : s # {} => c[s] \in s
    PROVE  \E iter : SumsUp(iter, f, c, S)
<1> DEFINE iter == [s \in SUBSET S |-> Weight(f, s)]
<1>1. ASSUME NEW s \in SUBSET S
      PROVE  Weight(f, s) = IF s = {} THEN 0 ELSE f[c[s]] + iter[s \ {c[s]}]
  <2>1. CASE s = {}
      BY <2>1, NoUnits
  <2>2. CASE s # {}
    <3>1. IsFiniteSet(s) /\ c[s] \in s /\ \A x \in s : f[x] \in Nat
        BY <2>2, FS_Subset
    <3>2. Weight(f, s) = f[c[s]] + Weight(f, s \ {c[s]})
        BY <3>1, WeightSplit
    <3>3. s \ {c[s]} \in SUBSET S
        OBVIOUS
    <3>4. QED
        BY <2>2, <3>2, <3>3
  <2>3. QED
      BY <2>1, <2>2
<1>2. SumsUp(iter, f, c, S)
    BY <1>1, Zenon DEF SumsUp
<1>3. QED
    BY <1>2

LEMMA SumIsWeight ==
    ASSUME NEW S, IsFiniteSet(S), NEW f, \A x \in S : f[x] \in Nat,
           NEW c, \A s \in SUBSET S : s # {} => c[s] \in s,
           NEW iter, SumsUp(iter, f, c, S)
    PROVE  iter[S] = Weight(f, S)
<1> DEFINE Bad == {s \in SUBSET S : iter[s] # Weight(f, s)}
           Sizes == {Cardinality(s) : s \in Bad}
<1>1. SUFFICES ASSUME Bad # {} PROVE FALSE
    BY <1>1
<1>2. \A s \in SUBSET S : IsFiniteSet(s) /\ Cardinality(s) \in Nat
    BY FS_Subset, FS_CardinalityType
<1>3. Sizes \in SUBSET Nat /\ Sizes # {}
    BY <1>1, <1>2
<1>4. PICK n \in Sizes : \A k \in Sizes : n <= k
  <2> HIDE DEF Sizes
  <2> QED
      BY <1>3, NatMinimum
<1>5. PICK s \in Bad : \A r \in Bad : Cardinality(s) <= Cardinality(r)
    BY <1>4
<1>6. s \in SUBSET S /\ iter[s] # Weight(f, s)
    OBVIOUS
<1>7. iter[s] = IF s = {} THEN 0 ELSE f[c[s]] + iter[s \ {c[s]}]
    BY <1>6 DEF SumsUp
<1>8. s # {}
    BY <1>6, <1>7, NoUnits
<1>9. c[s] \in s
    BY <1>6, <1>8
<1> DEFINE r == s \ {c[s]}
<1>10. r \in SUBSET S /\ Cardinality(r) = Cardinality(s) - 1
    BY <1>2, <1>6, <1>9, FS_RemoveElement
<1>11. r \notin Bad
    BY <1>2, <1>5, <1>6, <1>10
<1>12. iter[r] = Weight(f, r)
    BY <1>10, <1>11
<1>13. Weight(f, s) = f[c[s]] + Weight(f, r)
    BY <1>2, <1>6, <1>9, WeightSplit
<1>14. QED
    BY <1>6, <1>7, <1>8, <1>12, <1>13

LEMMA SumChoice ==
    ASSUME NEW S, IsFiniteSet(S), NEW f, \A x \in S : f[x] \in Nat,
           NEW c, \A s \in SUBSET S : s # {} => c[s] \in s
    PROVE  (CHOOSE iter : SumsUp(iter, f, c, S))[S] = Weight(f, S)
<1>1. \E iter : SumsUp(iter, f, c, S)
    BY SumExists
<1> DEFINE it == CHOOSE iter : SumsUp(iter, f, c, S)
<1>2. SumsUp(it, f, c, S)
    BY <1>1
<1>3. QED
  <2> HIDE DEF it
  <2>1. it[S] = Weight(f, S)
      BY <1>2, SumIsWeight
  <2>2. QED
      BY <2>1 DEF it

\* The sum over the elements of a set, as the specification writes it.
LEMMA SumSetIsWeight ==
    ASSUME NEW S, IsFiniteSet(S), NEW f, \A x \in S : f[x] \in Nat
    PROVE  MapThenSumSet(LAMBDA x : f[x], S) = Weight(f, S)
<1> DEFINE c == [s \in SUBSET S |-> CHOOSE x \in s : TRUE]
<1>1. \A s \in SUBSET S : s # {} => c[s] \in s
    OBVIOUS
<1>2. ASSUME NEW iter
      PROVE  SumsUp(iter, f, c, S) <=>
             iter = [s \in SUBSET S |->
                IF s = {} THEN 0 ELSE f[CHOOSE x \in s : TRUE] + iter[s \ {CHOOSE x \in s : TRUE}]]
    BY DEF SumsUp
<1>3. MapThenSumSet(LAMBDA x : f[x], S) = (CHOOSE iter : SumsUp(iter, f, c, S))[S]
  <2> HIDE DEF c
  <2> QED
      BY <1>2 DEF MapThenSumSet, MapThenFoldSet
<1>4. QED
  <2> HIDE DEF c
  <2> QED
      BY <1>1, <1>3, SumChoice

LEMMA SumOfScored ==
    ASSUME NEW t, NEW team, IsFiniteSet(Games), \A g \in Games : Scored(t, g, team) \in Nat
    PROVE  MapThenSumSet(LAMBDA g : Scored(t, g, team), Games)
               = Weight([g \in Games |-> Scored(t, g, team)], Games)
<1> DEFINE c == [s \in SUBSET Games |-> CHOOSE x \in s : TRUE]
           f == [g \in Games |-> Scored(t, g, team)]
<1>1. \A s \in SUBSET Games : s # {} => c[s] \in s
    OBVIOUS
<1>2. ASSUME NEW iter
      PROVE  SumsUp(iter, f, c, Games) <=>
             iter = [s \in SUBSET Games |->
                IF s = {} THEN 0
                ELSE Scored(t, CHOOSE x \in s : TRUE, team) + iter[s \ {CHOOSE x \in s : TRUE}]]
  <2>1. \A s \in SUBSET Games : s # {} => f[c[s]] = Scored(t, CHOOSE x \in s : TRUE, team)
      OBVIOUS
  <2>2. \A s \in SUBSET Games : c[s] = CHOOSE x \in s : TRUE
      OBVIOUS
  <2> HIDE DEF f, c
  <2>3. QED
      BY <2>1, <2>2 DEF SumsUp
<1>3. MapThenSumSet(LAMBDA g : Scored(t, g, team), Games)
          = (CHOOSE iter : SumsUp(iter, f, c, Games))[Games]
  <2> HIDE DEF c, f
  <2> QED
      BY <1>2 DEF MapThenSumSet, MapThenFoldSet
<1>4. \A g \in Games : f[g] \in Nat
    OBVIOUS
<1>5. QED
  <2> HIDE DEF c, f
  <2>1. (CHOOSE iter : SumsUp(iter, f, c, Games))[Games] = Weight(f, Games)
      BY <1>1, <1>4, SumChoice
  <2> QED
      BY <1>3, <2>1 DEF f

\* The sum of a sequence.
LEMMA SumFunctionIsWeight ==
    ASSUME NEW seq \in Seq(Nat)
    PROVE  SumFunction(seq) = Weight(seq, 1 .. Len(seq))
<1>1. DOMAIN seq = 1 .. Len(seq) /\ Len(seq) \in Nat /\ \A i \in 1 .. Len(seq) : seq[i] \in Nat
    OBVIOUS
<1>2. IsFiniteSet(1 .. Len(seq))
    BY <1>1, FS_Interval
<1>3. SumFunction(seq) = MapThenSumSet(LAMBDA i : seq[i], DOMAIN seq)
    BY DEF SumFunction, SumFunctionOnSet, FoldFunctionOnSet, MapThenSumSet
<1>4. QED
    BY <1>1, <1>2, <1>3, SumSetIsWeight

LEMMA WeightOfUnion ==
    ASSUME NEW S, IsFiniteSet(S), NEW T, IsFiniteSet(T), S \cap T = {},
           NEW f, \A x \in S \cup T : f[x] \in Nat
    PROVE  Weight(f, S \cup T) = Weight(f, S) + Weight(f, T)
<1> DEFINE U == Units(f, S)
           V == Units(f, T)
<1>1. IsFiniteSet(U) /\ Cardinality(U) \in Nat /\ IsFiniteSet(V) /\ Cardinality(V) \in Nat
  <2>1. IsFiniteSet(Units(f, S)) /\ Weight(f, S) \in Nat
      BY UnitsFinite
  <2>2. IsFiniteSet(Units(f, T)) /\ Weight(f, T) \in Nat
      BY UnitsFinite
  <2>3. QED
      BY <2>1, <2>2 DEF Weight
<1>2. Units(f, S \cup T) = U \cup V
    BY DEF Units
<1>3. U \cap V = {}
    BY DEF Units
<1> HIDE DEF U, V
<1>4. Cardinality(U \cup V) = Cardinality(U) + Cardinality(V) - Cardinality(U \cap V)
    BY <1>1, FS_Union
<1>5. Cardinality(U \cap V) = 0
    BY <1>3, FS_EmptySet
<1>6. Cardinality(U \cup V) = Cardinality(U) + Cardinality(V)
    BY <1>1, <1>4, <1>5
<1>7. QED
    BY <1>2, <1>6 DEF Weight, U, V

\* A sum does not depend on the names of its summands.
LEMMA WeightMoves ==
    ASSUME NEW S, IsFiniteSet(S), NEW f, \A x \in S : f[x] \in Nat,
           NEW T, NEW h, NEW e \in Bijection(S, T), \A x \in S : h[e[x]] = f[x]
    PROVE  Weight(f, S) = Weight(h, T)
<1> DEFINE U == Units(f, S)
           V == Units(h, T)
           m == [u \in U |-> <<e[u[1]], u[2]>>]
<1>1. /\ e \in [S -> T]
      /\ \A x, y \in S : e[x] = e[y] => x = y
      /\ \A y \in T : \E x \in S : e[x] = y
    BY DEF Bijection, Injection, Surjection, IsInjective
<1>2. m \in [U -> V]
    BY <1>1 DEF Units
<1>3. ASSUME NEW u \in U, NEW v \in U, m[u] = m[v] PROVE u = v
  <2>1. m[u][1] = e[u[1]] /\ m[u][2] = u[2] /\ m[v][1] = e[v[1]] /\ m[v][2] = v[2]
      OBVIOUS
  <2>2. e[u[1]] = e[v[1]] /\ u[2] = v[2]
    <3> HIDE DEF m, U, V
    <3> QED
        BY <1>3, <2>1
  <2>3. u \in S \X Nat /\ v \in S \X Nat
      BY DEF Units
  <2>4. u[1] = v[1]
      BY <1>1, <2>2, <2>3
  <2>5. QED
      BY <2>2, <2>3, <2>4
<1>4. ASSUME NEW v \in V PROVE \E u \in U : m[u] = v
  <2>1. v \in T \X Nat /\ v[2] \in 1 .. h[v[1]]
      BY DEF Units
  <2>2. PICK x \in S : e[x] = v[1]
      BY <1>1, <2>1
  <2>3. <<x, v[2]>> \in U
      BY <2>1, <2>2 DEF Units
  <2>4. m[<<x, v[2]>>] = v
      BY <2>1, <2>2, <2>3
  <2>5. QED
      BY <2>3, <2>4
<1> HIDE DEF m
<1>5. m \in Bijection(U, V)
  <2> HIDE DEF U, V
  <2> QED
      BY <1>2, <1>3, <1>4, Zenon DEF Bijection, Injection, Surjection, IsInjective
<1>6. IsFiniteSet(U)
    BY UnitsFinite
<1>7. Cardinality(V) = Cardinality(U)
  <2> HIDE DEF U, V
  <2> QED
      BY <1>5, <1>6, FS_Bijection DEF ExistsBijection
<1>8. QED
    BY <1>7 DEF Weight

\* The weight of two sequences one behind the other.
LEMMA WeightOfConcat ==
    ASSUME NEW a \in Seq(Nat), NEW b \in Seq(Nat)
    PROVE  Weight(a \o b, 1 .. Len(a \o b))
               = Weight(a, 1 .. Len(a)) + Weight(b, 1 .. Len(b))
<1> DEFINE m == Len(a)
           n == Len(b)
           ab == a \o b
           e == [i \in 1 .. n |-> i + m]
<1>1. /\ m \in Nat /\ n \in Nat /\ Len(ab) = m + n
      /\ \A i \in 1 .. m : a[i] \in Nat /\ ab[i] = a[i]
      /\ \A i \in 1 .. n : b[i] \in Nat /\ ab[i + m] = b[i]
    OBVIOUS
<1> HIDE DEF m, n, ab
<1>2. \A i \in (m + 1) .. (m + n) : i - m \in 1 .. n /\ (i - m) + m = i
    BY <1>1
<1>3. /\ IsFiniteSet(1 .. m) /\ IsFiniteSet(1 .. n) /\ IsFiniteSet((m + 1) .. (m + n))
    BY <1>1, FS_Interval
<1>4. \A i \in 1 .. (m + n) : ab[i] \in Nat
  <2> SUFFICES ASSUME NEW i \in 1 .. (m + n) PROVE ab[i] \in Nat
      OBVIOUS
  <2>1. CASE i <= m
      BY <1>1, <2>1
  <2>2. CASE ~(i <= m)
    <3>1. i \in (m + 1) .. (m + n)
        BY <1>1, <2>2
    <3>2. ab[i] = b[i - m] /\ b[i - m] \in Nat
        BY <1>1, <1>2, <3>1
    <3>3. QED
        BY <3>2
  <2>3. QED
      BY <2>1, <2>2
<1>5. 1 .. (m + n) = (1 .. m) \cup ((m + 1) .. (m + n)) /\ (1 .. m) \cap ((m + 1) .. (m + n)) = {}
    BY <1>1
<1>6. Weight(ab, 1 .. (m + n)) = Weight(ab, 1 .. m) + Weight(ab, (m + 1) .. (m + n))
  <2> DEFINE S == 1 .. m
             T == (m + 1) .. (m + n)
  <2>1. IsFiniteSet(S) /\ IsFiniteSet(T) /\ S \cap T = {}
      BY <1>3, <1>5
  <2>2. S \cup T = 1 .. (m + n) /\ \A i \in S \cup T : ab[i] \in Nat
      BY <1>4, <1>5
  <2> HIDE DEF S, T
  <2>3. Weight(ab, S \cup T) = Weight(ab, S) + Weight(ab, T)
      BY <2>1, <2>2, WeightOfUnion
  <2>4. QED
      BY <2>2, <2>3 DEF S, T
<1>7. Weight(ab, 1 .. m) = Weight(a, 1 .. m)
    BY <1>1, WeightAgrees
<1>8. e \in Bijection(1 .. n, (m + 1) .. (m + n))
  <2>1. e \in [1 .. n -> (m + 1) .. (m + n)]
      BY <1>1
  <2>2. \A i, j \in 1 .. n : e[i] = e[j] => i = j
      BY <1>1
  <2>3. \A j \in (m + 1) .. (m + n) : \E i \in 1 .. n : e[i] = j
      BY <1>1, <1>2
  <2> HIDE DEF e
  <2>4. QED
      BY <2>1, <2>2, <2>3, Zenon DEF Bijection, Injection, Surjection, IsInjective
<1>9. \A i \in 1 .. n : ab[e[i]] = b[i]
    BY <1>1
<1> HIDE DEF e
<1>10. Weight(b, 1 .. n) = Weight(ab, (m + 1) .. (m + n))
  <2> DEFINE S == 1 .. n
             T == (m + 1) .. (m + n)
  <2>1. IsFiniteSet(S) /\ e \in Bijection(S, T) /\ \A i \in S : b[i] \in Nat /\ ab[e[i]] = b[i]
      BY <1>1, <1>3, <1>8, <1>9
  <2> HIDE DEF S, T
  <2>2. Weight(b, S) = Weight(ab, T)
      BY <2>1, WeightMoves
  <2>3. QED
      BY <2>2 DEF S, T
<1>11. QED
    BY <1>1, <1>6, <1>7, <1>10 DEF m, n, ab

-----------------------------------------------------------------------------
(* Only.                                                                   *)

\* One step of Only.
Put(kept, x, S) == IF x \in S THEN Append(kept, x) ELSE kept

\* The recursion of the fold behind Only, over the positions 1 .. n of seq.
Filters(iter, seq, S, n) ==
    iter = [s \in SUBSET (1 .. n) |->
              IF s = {} THEN <<>> ELSE Put(iter[s \ {Max(s)}], seq[Max(s)], S)]

LEMMA MaxInSet ==
    ASSUME NEW n \in Nat, NEW s \in SUBSET (1 .. n), s # {}
    PROVE  Max(s) \in s /\ \A i \in s : i <= Max(s)
<1> DEFINE Room == {n - i : i \in s}
<1>1. Room \in SUBSET Nat /\ Room # {}
  <2>1. \A i \in s : i \in 1 .. n /\ n - i \in Nat
      OBVIOUS
  <2>2. PICK i \in s : TRUE
      OBVIOUS
  <2>3. n - i \in Room
      BY <2>2
  <2>4. QED
      BY <2>1, <2>3
<1>2. PICK r \in Room : \A x \in Room : r <= x
  <2> HIDE DEF Room
  <2> QED
      BY <1>1, NatMinimum
<1>3. PICK m \in s : r = n - m
    OBVIOUS
<1>4. \A i \in s : n - m <= n - i
    BY <1>2, <1>3
<1>5. \A i \in s : m >= i
  <2>1. \A i \in s : i \in 1 .. n
      OBVIOUS
  <2>2. QED
      BY <1>4, <2>1
<1>6. QED
    BY <1>5 DEF Max

LEMMA FilterExists ==
    ASSUME NEW seq, NEW S, NEW len \in Nat
    PROVE  \E iter : Filters(iter, seq, S, len)
<1> DEFINE Bad == {n \in 0 .. len : ~ \E iter : Filters(iter, seq, S, n)}
<1>1. SUFFICES ASSUME Bad # {} PROVE FALSE
    BY <1>1
<1>2. Bad \in SUBSET Nat
    OBVIOUS
<1>3. PICK n \in Bad : \A k \in Bad : n <= k
  <2> HIDE DEF Bad
  <2> QED
      BY <1>1, <1>2, NatMinimum
<1>4. n \in 0 .. len /\ ~ \E iter : Filters(iter, seq, S, n)
    OBVIOUS
<1>5. n # 0
  <2> DEFINE none == [s \in SUBSET (1 .. 0) |-> <<>>]
  <2>1. \A s \in SUBSET (1 .. 0) : s = {}
      OBVIOUS
  <2>2. Filters(none, seq, S, 0)
      BY <2>1, Zenon DEF Filters
  <2>3. QED
      BY <1>4, <2>2
<1>6. n - 1 \in 0 .. len /\ n - 1 \notin Bad
    BY <1>3, <1>4, <1>5
<1>7. PICK it : Filters(it, seq, S, n - 1)
    BY <1>6
<1> DEFINE next == [s \in SUBSET (1 .. n) |->
                      IF n \in s THEN Put(it[s \ {n}], seq[n], S) ELSE it[s]]
<1>8. ASSUME NEW s \in SUBSET (1 .. n)
      PROVE  next[s] = IF s = {} THEN <<>> ELSE Put(next[s \ {Max(s)}], seq[Max(s)], S)
  <2>1. CASE s = {}
    <3>1. s \in SUBSET (1 .. (n - 1)) /\ it[s] = <<>>
        BY <1>7, <2>1 DEF Filters
    <3>2. QED
        BY <2>1, <3>1
  <2>2. CASE s # {} /\ n \in s
    <3>1. Max(s) = n
      <4>0. n \in Nat /\ n \in s /\ s # {}
          BY <1>4, <2>2
      <4>1. Max(s) \in s /\ n <= Max(s)
          BY <4>0, MaxInSet
      <4>2. Max(s) \in 1 .. n
          BY <4>1
      <4>3. QED
          BY <1>4, <4>1, <4>2
    <3>2. next[s \ {n}] = it[s \ {n}]
        OBVIOUS
    <3>3. next[s] = Put(it[s \ {n}], seq[n], S)
        BY <2>2
    <3> HIDE DEF next
    <3>4. QED
        BY <2>2, <3>1, <3>2, <3>3
  <2>3. CASE s # {} /\ n \notin s
    <3>1. s \in SUBSET (1 .. (n - 1))
        BY <1>4, <2>3
    <3>2. it[s] = Put(it[s \ {Max(s)}], seq[Max(s)], S)
        BY <1>7, <2>3, <3>1 DEF Filters
    <3>3. next[s] = it[s] /\ next[s \ {Max(s)}] = it[s \ {Max(s)}]
        BY <2>3
    <3> HIDE DEF next
    <3>4. QED
        BY <2>3, <3>2, <3>3
  <2>4. QED
    <3> HIDE DEF next
    <3> QED
      BY <2>1, <2>2, <2>3
<1>9. Filters(next, seq, S, n)
  <2>1. next = [s \in SUBSET (1 .. n) |-> next[s]]
      OBVIOUS
  <2> HIDE DEF next
  <2>2. QED
      BY <1>8, <2>1, Zenon DEF Filters
<1>10. QED
    BY <1>4, <1>9

\* Only goes through the sequence from its beginning.
LEMMA OnlyByPrefix ==
    ASSUME NEW X, NEW seq \in Seq(X), NEW S
    PROVE  \E F : /\ F[0] = <<>>
                  /\ \A k \in 1 .. Len(seq) : F[k] = Put(F[k - 1], seq[k], S)
                  /\ Only(seq, S) = F[Len(seq)]
<1> DEFINE n == Len(seq)
           it == CHOOSE iter : Filters(iter, seq, S, n)
           F == [k \in 0 .. n |-> it[1 .. k]]
<1>1. n \in Nat /\ DOMAIN seq = 1 .. n
    OBVIOUS
<1>2. Filters(it, seq, S, n)
  <2>1. \E iter : Filters(iter, seq, S, n)
      BY <1>1, FilterExists
  <2>2. QED
      BY <2>1
<1>3. Only(seq, S) = it[1 .. n]
  <2> HIDE DEF n
  <2>1. ASSUME NEW iter
        PROVE  Filters(iter, seq, S, n) <=> iter = [s \in SUBSET DOMAIN seq |->
              IF s = {} THEN <<>>
              ELSE IF seq[Max(s)] \in S THEN Append(iter[s \ {Max(s)}], seq[Max(s)])
                   ELSE iter[s \ {Max(s)}]]
      BY <1>1, Zenon DEF Filters, Put
  <2> DEFINE rec(iter) == [s \in SUBSET DOMAIN seq |->
              IF s = {} THEN <<>>
              ELSE IF seq[Max(s)] \in S THEN Append(iter[s \ {Max(s)}], seq[Max(s)])
                   ELSE iter[s \ {Max(s)}]]
  <2>2. Only(seq, S) = (CHOOSE iter : iter = rec(iter))[DOMAIN seq]
      BY Zenon DEF Only, FoldLeft, MapThenFoldSet
  <2>3. \A iter : Filters(iter, seq, S, n) <=> iter = rec(iter)
      BY <2>1, Zenon
  <2> HIDE DEF rec
  <2>4. (CHOOSE iter : iter = rec(iter)) = CHOOSE iter : Filters(iter, seq, S, n)
      BY <2>3
  <2>5. QED
      BY <1>1, <2>2, <2>4
<1> HIDE DEF it
<1>4. F[0] = <<>>
    BY <1>1, <1>2 DEF Filters
<1>5. ASSUME NEW k \in 1 .. n PROVE F[k] = Put(F[k - 1], seq[k], S)
  <2> HIDE DEF n, F
  <2>1. (1 .. k) \in SUBSET (1 .. n) /\ (1 .. k) # {} /\ (1 .. k) \ {k} = 1 .. (k - 1)
    <3>1. k \in Nat /\ 1 <= k /\ k <= n
        BY <1>1
    <3>2. k \in 1 .. k
        BY <3>1
    <3>3. QED
        BY <1>1, <3>1, <3>2
  <2>2. Max(1 .. k) = k
    <3> DEFINE s == 1 .. k
    <3>1. s \in SUBSET (1 .. n) /\ s # {} /\ k \in s
        BY <1>1, <2>1
    <3> HIDE DEF s
    <3>2. Max(s) \in s /\ k <= Max(s)
        BY <1>1, <3>1, MaxInSet
    <3>3. QED
        BY <3>2 DEF s
  <2>3. it[1 .. k] = Put(it[(1 .. k) \ {k}], seq[k], S)
      BY <1>2, <2>1, <2>2 DEF Filters
  <2>4. F[k] = it[1 .. k] /\ F[k - 1] = it[1 .. (k - 1)]
      BY <1>1 DEF F
  <2>5. QED
      BY <2>1, <2>3, <2>4
<1>6. F[n] = it[1 .. n]
    BY <1>1
<1>7. QED
  <2> HIDE DEF F
  <2>1. F[0] = <<>> /\ (\A k \in 1 .. Len(seq) : F[k] = Put(F[k - 1], seq[k], S)) /\ Only(seq, S) = F[Len(seq)]
      BY <1>3, <1>4, <1>5, <1>6
  <2>2. QED
      BY <2>1

\* What Only returns has the elements of seq that are in S, none of them twice
\* if seq has none twice.
LEMMA OnlyElements ==
    ASSUME NEW X, NEW seq \in Seq(X), NEW S,
           \A i, j \in 1 .. Len(seq) : i # j => seq[i] # seq[j]
    PROVE  LET w == Only(seq, S)
           IN  /\ w \in Seq(X)
               /\ \A i, j \in 1 .. Len(w) : i # j => w[i] # w[j]
               /\ \A x : (\E i \in 1 .. Len(w) : w[i] = x) <=>
                        (\E i \in 1 .. Len(seq) : seq[i] = x) /\ x \in S
<1> DEFINE n == Len(seq)
<1>1. n \in Nat /\ \A i \in 1 .. n : seq[i] \in X
    OBVIOUS
<1>2. PICK F : /\ F[0] = <<>>
               /\ \A k \in 1 .. n : F[k] = Put(F[k - 1], seq[k], S)
               /\ Only(seq, S) = F[n]
    BY OnlyByPrefix
<1> DEFINE Fine(k) ==
        /\ F[k] \in Seq(X)
        /\ \A i, j \in 1 .. Len(F[k]) : i # j => F[k][i] # F[k][j]
        /\ \A x : (\E i \in 1 .. Len(F[k]) : F[k][i] = x) <=> (\E i \in 1 .. k : seq[i] = x) /\ x \in S
    Bad == {k \in 0 .. n : ~Fine(k)}
<1>3. Fine(0)
    BY <1>2
<1>4. ASSUME NEW k \in 1 .. n, Fine(k - 1) PROVE Fine(k)
  <2> DEFINE v == F[k - 1]
             y == seq[k]
  <2>1. /\ v \in Seq(X) /\ y \in X
        /\ \A i, j \in 1 .. Len(v) : i # j => v[i] # v[j]
        /\ \A x : (\E i \in 1 .. Len(v) : v[i] = x) <=> (\E i \in 1 .. (k - 1) : seq[i] = x) /\ x \in S
      BY <1>1, <1>4
  <2>2. F[k] = Put(v, y, S)
      BY <1>2
  <2>3. \A x : (\E i \in 1 .. k : seq[i] = x) <=> (\E i \in 1 .. (k - 1) : seq[i] = x) \/ x = y
    <3>1. \A i \in 1 .. k : i \in 1 .. (k - 1) \/ i = k
        BY <1>1
    <3>2. k \in 1 .. k /\ \A i \in 1 .. (k - 1) : i \in 1 .. k
        BY <1>1
    <3>3. QED
        BY <3>1, <3>2
  <2>4. ~ \E i \in 1 .. (k - 1) : seq[i] = y
    <3>1. \A i \in 1 .. (k - 1) : i \in 1 .. n /\ i # k
        BY <1>1
    <3>2. QED
        BY <3>1
  <2> HIDE DEF v, y, n
  <2>5. CASE y \in S
    <3>1. F[k] = Append(v, y)
        BY <2>2, <2>5 DEF Put
    <3>2. /\ F[k] \in Seq(X) /\ Len(F[k]) = Len(v) + 1 /\ Len(v) \in Nat
          /\ \A i \in 1 .. Len(v) : F[k][i] = v[i]
          /\ F[k][Len(v) + 1] = y
        BY <2>1, <3>1
    <3>3. \A i \in 1 .. Len(F[k]) : i \in 1 .. Len(v) \/ i = Len(v) + 1
        BY <3>2
    <3>4. \A i \in 1 .. Len(v) : v[i] # y
        BY <2>1, <2>4
    <3>5. \A i, j \in 1 .. Len(F[k]) : i # j => F[k][i] # F[k][j]
        BY <2>1, <3>2, <3>3, <3>4
    <3>6. \A x : (\E i \in 1 .. Len(F[k]) : F[k][i] = x) <=> (\E i \in 1 .. Len(v) : v[i] = x) \/ x = y
      <4>1. Len(v) + 1 \in 1 .. Len(F[k]) /\ \A i \in 1 .. Len(v) : i \in 1 .. Len(F[k])
          BY <3>2
      <4>2. QED
          BY <3>2, <3>3, <4>1
    <3>7. QED
        BY <2>1, <2>3, <2>5, <3>2, <3>5, <3>6
  <2>6. CASE y \notin S
    <3>1. F[k] = v
        BY <2>2, <2>6 DEF Put
    <3>2. QED
        BY <2>1, <2>3, <2>6, <3>1
  <2>7. QED
      BY <2>5, <2>6
<1> HIDE DEF Fine, n
<1>5. Bad = {}
  <2> SUFFICES ASSUME Bad # {} PROVE FALSE
      OBVIOUS
  <2>1. Bad \in SUBSET Nat
      OBVIOUS
  <2>2. PICK k \in Bad : \A j \in Bad : k <= j
    <3> HIDE DEF Bad
    <3> QED
        BY <2>1, NatMinimum
  <2>3. k \in 1 .. n /\ k - 1 \in 0 .. n /\ k - 1 \notin Bad
      BY <1>1, <1>3, <2>2
  <2>4. QED
      BY <1>4, <2>2, <2>3
<1>6. Fine(n)
    BY <1>1, <1>5
<1>7. QED
    BY <1>2, <1>6 DEF Fine, n

\* Only, when it takes one element away: what stands behind it moves up.
LEMMA OnlyWithoutOne ==
    ASSUME NEW X, NEW seq \in Seq(X), NEW S, NEW p \in 1 .. Len(seq),
           \A i \in 1 .. Len(seq) : seq[i] \in S <=> i # p
    PROVE  LET w == Only(seq, S)
           IN  /\ w \in Seq(X)
               /\ Len(w) = Len(seq) - 1
               /\ \A i \in 1 .. Len(w) : w[i] = IF i < p THEN seq[i] ELSE seq[i + 1]
<1> DEFINE n == Len(seq)
<1>1. n \in Nat /\ p \in 1 .. n /\ \A i \in 1 .. n : seq[i] \in X
    OBVIOUS
<1>2. PICK F : /\ F[0] = <<>>
               /\ \A k \in 1 .. n : F[k] = Put(F[k - 1], seq[k], S)
               /\ Only(seq, S) = F[n]
    BY OnlyByPrefix
<1> DEFINE Fine(k) ==
        /\ F[k] \in Seq(X)
        /\ Len(F[k]) = IF k < p THEN k ELSE k - 1
        /\ \A i \in 1 .. Len(F[k]) : F[k][i] = IF i < p THEN seq[i] ELSE seq[i + 1]
    Bad == {k \in 0 .. n : ~Fine(k)}
<1>3. Fine(0)
    BY <1>1, <1>2
<1>4. ASSUME NEW k \in 1 .. n, Fine(k - 1) PROVE Fine(k)
  <2> DEFINE v == F[k - 1]
             y == seq[k]
  <2>1. /\ v \in Seq(X) /\ y \in X
        /\ Len(v) = IF k - 1 < p THEN k - 1 ELSE k - 2
        /\ \A i \in 1 .. Len(v) : v[i] = IF i < p THEN seq[i] ELSE seq[i + 1]
      BY <1>1, <1>4
  <2>2. F[k] = Put(v, y, S) /\ (y \in S <=> k # p)
      BY <1>2
  <2>3. y = seq[k]
      OBVIOUS
  <2> HIDE DEF v, y, n
  <2>4. CASE k # p
    <3>1. F[k] = Append(v, y)
        BY <2>2, <2>4 DEF Put
    <3>2. /\ F[k] \in Seq(X) /\ Len(F[k]) = Len(v) + 1 /\ Len(v) \in Nat
          /\ \A i \in 1 .. Len(v) : F[k][i] = v[i]
          /\ F[k][Len(v) + 1] = y
        BY <2>1, <3>1
    <3>3. Len(F[k]) = IF k < p THEN k ELSE k - 1
        BY <1>1, <2>1, <2>4, <3>2
    <3>4. y = IF Len(v) + 1 < p THEN seq[Len(v) + 1] ELSE seq[Len(v) + 2]
        BY <1>1, <2>1, <2>3, <2>4
    <3>5. ASSUME NEW i \in 1 .. Len(F[k])
          PROVE  F[k][i] = IF i < p THEN seq[i] ELSE seq[i + 1]
      <4>1. CASE i \in 1 .. Len(v)
          BY <2>1, <3>2, <4>1
      <4>2. CASE i = Len(v) + 1
          BY <3>2, <3>4, <4>2
      <4>3. QED
          BY <3>2, <4>1, <4>2
    <3>6. QED
        BY <3>2, <3>3, <3>5
  <2>5. CASE k = p
    <3>1. F[k] = v
        BY <2>2, <2>5 DEF Put
    <3>2. Len(v) = k - 1
        BY <1>1, <2>1, <2>5
    <3>3. QED
        BY <1>1, <2>1, <2>5, <3>1, <3>2
  <2>6. QED
      BY <2>4, <2>5
<1> HIDE DEF Fine, n
<1>5. Bad = {}
  <2> SUFFICES ASSUME Bad # {} PROVE FALSE
      OBVIOUS
  <2>1. Bad \in SUBSET Nat
      OBVIOUS
  <2>2. PICK k \in Bad : \A j \in Bad : k <= j
    <3> HIDE DEF Bad
    <3> QED
        BY <2>1, NatMinimum
  <2>3. k \in 1 .. n /\ k - 1 \in 0 .. n /\ k - 1 \notin Bad
      BY <1>1, <1>3, <2>2
  <2>4. QED
      BY <1>4, <2>2, <2>3
<1>6. Fine(n)
    BY <1>1, <1>5
<1>7. ~(n < p)
    BY <1>1
<1>8. QED
    BY <1>2, <1>6, <1>7 DEF Fine, n

-----------------------------------------------------------------------------
(* The inductive invariant.                                                *)

\* t stands in the row s of identifiers.
InRow(s, t) == \E i \in 1 .. Len(s) : s[i] = t

\* What stands beside it in the row p of points.
Beside(s, p, t) == IF InRow(s, t) THEN p[CHOOSE i \in 1 .. Len(s) : s[i] = t] ELSE 0

\* The two arrays and the sum of a passing.
Parallel(s, p, n) ==
    /\ Len(s) = Len(p)
    /\ n = Weight(p, 1 .. Len(p))
    /\ \A i, j \in 1 .. Len(s) : i # j => s[i] # s[j]

RowsOK ==
    /\ ids \in [Games -> [Teams -> Seq(Tournaments)]]
    /\ points \in [Games -> [Teams -> Seq(Points)]]
    /\ total \in [Games -> [Teams -> Nat]]
    /\ \A g \in Games, team \in Teams : Parallel(ids[g][team], points[g][team], total[g][team])

WorldOK ==
    /\ tgame \in [Tournaments -> [Games -> {"none", "in", "deleted"}]]
    /\ entered \in [Tournaments -> SUBSET Teams]
    /\ passing \in [Games -> [Teams -> {"none", "open", "finished"}]]
    /\ applying \subseteq Application
    /\ removing \subseteq Removal
    /\ due \subseteq Games \X Teams
    /\ scoring \subseteq Callback

ResultsOK == results \in [Tournaments -> [Teams -> [score : Nat, played : Nat]]]

\* Only finished passings of entered teams are scored.
IdsAreEarned ==
    \A g \in Games, team \in Teams : \A i \in 1 .. Len(ids[g][team]) :
        team \in entered[ids[g][team][i]] /\ passing[g][team] = "finished"

Earned(t, team) == [g \in Games |-> Beside(ids[g][team], points[g][team], t)]
PlayedIn(t, team) == {g \in Games : InRow(ids[g][team], t)}

\* One row of the leaderboard.  A removal does not take a passing that was
\* awarded nothing out of games_played.
Balanced(t, team) ==
    /\ results[t][team].score = Weight(Earned(t, team), Games)
    /\ results[t][team].played \geq Cardinality(PlayedIn(t, team))
    /\ 0 \notin Points => results[t][team].played = Cardinality(PlayedIn(t, team))

Ledger == \A t \in Tournaments, team \in Teams : Balanced(t, team)

ScoringInv ==
    /\ WorldOK
    /\ RowsOK
    /\ ResultsOK
    /\ IdsAreEarned
    /\ Ledger

-----------------------------------------------------------------------------

LEMMA MinOfTwo ==
    ASSUME NEW a \in Nat, NEW b \in Nat
    PROVE  Min({a, b}) = IF a <= b THEN a ELSE b
<1>1. CASE a <= b
  <2>1. \A x \in {a, b} : (\A y \in {a, b} : x <= y) <=> x = a
      BY <1>1
  <2>2. QED
      BY <1>1, <2>1 DEF Min
<1>2. CASE ~(a <= b)
  <2>1. \A x \in {a, b} : (\A y \in {a, b} : x <= y) <=> x = b
      BY <1>2
  <2>2. QED
      BY <1>2, <2>1 DEF Min
<1>3. QED
    BY <1>1, <1>2

LEMMA MinusType ==
    ASSUME NEW r \in [score : Nat, played : Nat], r.played > 0, NEW n \in Nat
    PROVE  /\ Minus(r, n) \in [score : Nat, played : Nat]
           /\ r.played # 1 /\ n <= r.score =>
                  Minus(r, n).score = r.score - n /\ Minus(r, n).played = r.played - 1
<1>1. r.score \in Nat /\ r.played \in Nat
    OBVIOUS
<1>2. Min({r.score, n}) = IF r.score <= n THEN r.score ELSE n
    BY <1>1, MinOfTwo
<1>3. CASE r.played = 1
    BY <1>3 DEF Minus, NoResult
<1>4. CASE r.played # 1
  <2>1. Minus(r, n) = [score |-> r.score - Min({r.score, n}), played |-> r.played - 1]
      BY <1>4 DEF Minus
  <2>2. r.score - Min({r.score, n}) \in Nat /\ r.played - 1 \in Nat
      BY <1>1, <1>2
  <2>3. n <= r.score => Min({r.score, n}) = n
      BY <1>1, <1>2
  <2>4. QED
      BY <2>1, <2>2, <2>3
<1>5. QED
    BY <1>3, <1>4

\* SelectInSeq finds an identifier exactly if it is in the row.
LEMMA PositionIs ==
    ASSUME NEW t, NEW g, NEW team, ids[g][team] \in Seq(Tournaments)
    PROVE  /\ InRow(ids[g][team], t) =>
                 Position(t, g, team) \in 1 .. Len(ids[g][team]) /\ ids[g][team][Position(t, g, team)] = t
           /\ ~InRow(ids[g][team], t) => Position(t, g, team) = 0
<1> DEFINE s == ids[g][team]
           I == {i \in 1 .. Len(s) : s[i] = t}
<1>1. Position(t, g, team) = IF I # {} THEN Min(I) ELSE 0
    BY DEF Position, SelectInSeq
<1>2. I \in SUBSET Nat
    OBVIOUS
<1>3. I # {} => Min(I) \in I
  <2> HIDE DEF I
  <2> QED
      BY <1>2, NatMinimum DEF Min
<1>4. InRow(s, t) <=> I # {}
    BY DEF InRow
<1>5. QED
    BY <1>1, <1>3, <1>4

LEMMA ScoredIsBeside ==
    ASSUME RowsOK, NEW t \in Tournaments, NEW g \in Games, NEW team \in Teams
    PROVE  /\ Scored(t, g, team) = Beside(ids[g][team], points[g][team], t)
           /\ Beside(ids[g][team], points[g][team], t) \in Nat
           /\ InRow(ids[g][team], t) => Beside(ids[g][team], points[g][team], t) \in Points
<1> DEFINE s == ids[g][team]
           p == points[g][team]
<1>1. /\ s \in Seq(Tournaments) /\ p \in Seq(Points) /\ Len(s) = Len(p)
      /\ \A i, j \in 1 .. Len(s) : i # j => s[i] # s[j]
    BY DEF RowsOK, Parallel
<1>2. Points \subseteq Nat
    BY ScoringAssumption
<1>3. CASE InRow(s, t)
  <2>1. Position(t, g, team) \in 1 .. Len(s) /\ s[Position(t, g, team)] = t
      BY <1>1, <1>3, PositionIs
  <2>2. Position(t, g, team) = CHOOSE i \in 1 .. Len(s) : s[i] = t
      BY <1>1, <2>1
  <2>3. Beside(s, p, t) = p[Position(t, g, team)]
      BY <1>3, <2>2 DEF Beside
  <2>4. Scored(t, g, team) = p[Position(t, g, team)]
      BY <1>1, <2>1 DEF Scored
  <2>5. p[Position(t, g, team)] \in Points
    <3>1. \A i \in 1 .. Len(p) : p[i] \in Points
        BY <1>1
    <3>2. QED
        BY <1>1, <2>1, <3>1
  <2>6. QED
      BY <1>2, <2>3, <2>4, <2>5
<1>4. CASE ~InRow(s, t)
  <2>1. Position(t, g, team) = 0
      BY <1>1, <1>4, PositionIs
  <2>2. QED
      BY <1>4, <2>1 DEF Scored, Beside
<1>5. QED
    BY <1>3, <1>4

\* No identifier stands twice in s.
Distinct(s) == \A i, j \in 1 .. Len(s) : i # j => s[i] # s[j]

LEMMA BesideOf ==
    ASSUME NEW s, Distinct(s), NEW p, NEW x, NEW at \in 1 .. Len(s), s[at] = x
    PROVE  InRow(s, x) /\ Beside(s, p, x) = p[at]
<1>1. at = CHOOSE i \in 1 .. Len(s) : s[i] = x
    BY DEF Distinct
<1>2. QED
    BY <1>1 DEF InRow, Beside

LEMMA RowWeightType ==
    ASSUME NEW seq \in Seq(Nat) PROVE Weight(seq, 1 .. Len(seq)) \in Nat
<1>1. Len(seq) \in Nat /\ \A i \in 1 .. Len(seq) : seq[i] \in Nat
    OBVIOUS
<1>2. IsFiniteSet(1 .. Len(seq))
    BY <1>1, FS_Interval
<1>3. QED
  <2> DEFINE S == 1 .. Len(seq)
  <2>1. IsFiniteSet(S) /\ \A i \in S : seq[i] \in Nat
      BY <1>1, <1>2
  <2> HIDE DEF S
  <2>2. Weight(seq, S) \in Nat
      BY <2>1, UnitsFinite
  <2>3. QED
      BY <2>2 DEF S

LEMMA NothingWeighs ==
    ASSUME NEW S, NEW f, \A x \in S : f[x] = 0
    PROVE  Weight(f, S) = 0
<1>1. Units(f, S) = {}
    BY DEF Units
<1>2. QED
    BY <1>1, FS_EmptySet DEF Weight

-----------------------------------------------------------------------------
LEMMA InitScoringInv == Init => ScoringInv
<1> SUFFICES ASSUME Init PROVE ScoringInv
    OBVIOUS
<1> USE DEF Init, Each
<1>1. WorldOK
    BY DEF WorldOK
<1>2. \A g \in Games, team \in Teams :
         ids[g][team] = <<>> /\ points[g][team] = <<>> /\ total[g][team] = 0
    OBVIOUS
<1>3. RowsOK
  <2>1. \A g \in Games, team \in Teams : Parallel(ids[g][team], points[g][team], total[g][team])
    <3>1. 1 .. Len(<<>>) = {}
        OBVIOUS
    <3>2. Parallel(<<>>, <<>>, 0)
        BY <3>1, NoUnits DEF Parallel
    <3>3. QED
        BY <1>2, <3>2
  <2>2. QED
      BY <2>1 DEF RowsOK
<1>4. ResultsOK
    BY DEF ResultsOK, NoResult
<1>5. \A g \in Games, team \in Teams : \A t : ~InRow(ids[g][team], t)
    BY <1>2 DEF InRow
<1>6. IdsAreEarned
    BY <1>2 DEF IdsAreEarned
<1>7. ASSUME NEW t \in Tournaments, NEW team \in Teams PROVE Balanced(t, team)
  <2>1. \A g \in Games : Earned(t, team)[g] = 0
      BY <1>5 DEF Earned, Beside
  <2>2. PlayedIn(t, team) = {}
      BY <1>5 DEF PlayedIn
  <2>3. results[t][team].score = 0 /\ results[t][team].played = 0
      BY DEF NoResult
  <2>4. Cardinality(PlayedIn(t, team)) = 0
      BY <2>2, FS_EmptySet
  <2>5. QED
      BY <2>1, <2>3, <2>4, NothingWeighs DEF Balanced
<1>8. QED
    BY <1>1, <1>3, <1>4, <1>6, <1>7 DEF ScoringInv, Ledger

\* A step that scores nothing and takes nothing away.
QuietStep ==
    /\ UNCHANGED <<ids, points, total, results>>
    /\ \A t \in Tournaments : entered[t] \subseteq entered'[t]
    /\ \A g \in Games, team \in Teams :
          passing[g][team] = "finished" => passing'[g][team] = "finished"

LEMMA QuietKeeps == ASSUME ScoringInv, QuietStep, WorldOK' PROVE ScoringInv'
<1> USE DEF ScoringInv, QuietStep
<1>1. RowsOK' /\ ResultsOK'
    BY DEF RowsOK, ResultsOK, Parallel
<1>2. IdsAreEarned'
  <2> SUFFICES ASSUME NEW g \in Games, NEW team \in Teams, NEW i \in 1 .. Len(ids[g][team])
               PROVE  team \in entered'[ids[g][team][i]] /\ passing'[g][team] = "finished"
      BY DEF IdsAreEarned
  <2>1. ids[g][team] \in Seq(Tournaments)
      BY DEF RowsOK
  <2>2. ids[g][team][i] \in Tournaments
      BY <2>1
  <2>3. team \in entered[ids[g][team][i]] /\ passing[g][team] = "finished"
      BY DEF IdsAreEarned
  <2>4. QED
      BY <2>2, <2>3
<1>3. Ledger' <=> Ledger
    BY DEF Ledger, Balanced, Earned, PlayedIn
<1>4. QED
    BY <1>1, <1>2, <1>3

LEMMA WithPassingsType ==
    ASSUME WorldOK, NEW rows
    PROVE  /\ WithPassings(rows) \in [Games -> [Teams -> {"none", "open", "finished"}]]
           /\ \A g \in Games, team \in Teams :
                 passing[g][team] = "finished" => WithPassings(rows)[g][team] = "finished"
    BY DEF WorldOK, WithPassings

LEMMA AddGameKeeps ==
    ASSUME ScoringInv, NEW t \in Tournaments, NEW g \in Games, AddGame(t, g)
    PROVE  ScoringInv'
<1>1. WorldOK
    BY DEF ScoringInv
<1>2. WorldOK' /\ QuietStep
    BY <1>1, WithPassingsType DEF AddGame, WorldOK, QuietStep
<1>3. QED
    BY <1>2, QuietKeeps

LEMMA ApplyReadKeeps ==
    ASSUME ScoringInv, NEW t \in Tournaments, NEW team \in Teams, ApplyRead(t, team)
    PROVE  ScoringInv'
<1>1. WorldOK
    BY DEF ScoringInv
<1>2. WorldOK' /\ QuietStep
    BY <1>1 DEF ApplyRead, WorldOK, QuietStep, passings, Application
<1>3. QED
    BY <1>2, QuietKeeps

LEMMA ApplyCommitKeeps ==
    ASSUME ScoringInv, NEW a \in applying, ApplyCommit(a)
    PROVE  ScoringInv'
<1>1. WorldOK
    BY DEF ScoringInv
<1>2. a.t \in Tournaments /\ a.team \in Teams
    BY <1>1 DEF WorldOK, Application
<1>3. WorldOK' /\ QuietStep
    BY <1>1, <1>2, WithPassingsType DEF ApplyCommit, WorldOK, QuietStep
<1>4. QED
    BY <1>3, QuietKeeps

LEMMA JoinGameKeeps ==
    ASSUME ScoringInv, NEW g \in Games, NEW team \in Teams, JoinGame(g, team)
    PROVE  ScoringInv'
<1>1. WorldOK
    BY DEF ScoringInv
<1>2. WorldOK' /\ QuietStep
    BY <1>1, WithPassingsType DEF JoinGame, WorldOK, QuietStep
<1>3. QED
    BY <1>2, QuietKeeps

LEMMA FinishKeeps ==
    ASSUME ScoringInv, NEW g \in Games, NEW team \in Teams, Finish(g, team)
    PROVE  ScoringInv'
<1>1. WorldOK
    BY DEF ScoringInv
<1>2. WorldOK' /\ QuietStep
    BY <1>1 DEF Finish, WorldOK, QuietStep
<1>3. QED
    BY <1>2, QuietKeeps

LEMMA ScoreReadKeeps ==
    ASSUME ScoringInv, NEW g \in Games, NEW team \in Teams, ScoreRead(g, team)
    PROVE  ScoringInv'
<1>1. WorldOK
    BY DEF ScoringInv
<1>2. WorldOK' /\ QuietStep
  <2>1. UNCHANGED <<tgame, entered, passing, ids, points, total, results, applying, removing>>
      BY DEF ScoreRead, passings
  <2>2. due' \subseteq Games \X Teams /\ scoring' \subseteq Callback
      BY <1>1 DEF ScoreRead, WorldOK, Callback
  <2>3. QED
      BY <1>1, <2>1, <2>2 DEF WorldOK, QuietStep
<1>3. QED
    BY <1>2, QuietKeeps

LEMMA RemoveCheckKeeps ==
    ASSUME ScoringInv, NEW t \in Tournaments, NEW g \in Games, NEW admin \in BOOLEAN,
           RemoveCheck(t, g, admin)
    PROVE  ScoringInv'
<1>1. WorldOK
    BY DEF ScoringInv
<1>2. WorldOK' /\ QuietStep
    BY <1>1 DEF RemoveCheck, WorldOK, QuietStep, passings, Removal
<1>3. QED
    BY <1>2, QuietKeeps

-----------------------------------------------------------------------------
(* Removal.                                                                *)

LEMMA PointsAreNumbers == ASSUME NEW q \in Seq(Points) PROVE q \in Seq(Nat)
<1>1. Points \subseteq Nat
    BY ScoringAssumption
<1>2. Len(q) \in Nat /\ q = [i \in 1 .. Len(q) |-> q[i]] /\ \A i \in 1 .. Len(q) : q[i] \in Points
    OBVIOUS
<1>3. \A i \in 1 .. Len(q) : q[i] \in Nat
    BY <1>1, <1>2
<1>4. QED
    BY <1>2, <1>3

LEMMA TwoParts ==
    ASSUME NEW X, NEW u \in Seq(X), NEW w \in Seq(X)
    PROVE  /\ u \o w \in Seq(X) /\ Len(u \o w) = Len(u) + Len(w)
           /\ \A i \in 1 .. Len(u) : (u \o w)[i] = u[i]
           /\ \A i \in 1 .. Len(w) : (u \o w)[i + Len(u)] = w[i]
    OBVIOUS

\* A row of identifiers and its points without one of them.
LEMMA RowWithout ==
    ASSUME NEW s \in Seq(Tournaments), NEW p \in Seq(Points), Len(s) = Len(p), Distinct(s),
           NEW k \in 1 .. Len(s)
    PROVE  LET v == Only(s, Tournaments \ {s[k]})
               q == RemoveAt(p, k)
           IN  /\ v \in Seq(Tournaments) /\ q \in Seq(Points)
               /\ SumFunction(q) \in Nat /\ Parallel(v, q, SumFunction(q))
               /\ \A i \in 1 .. Len(v) : InRow(s, v[i])
               /\ \A x : InRow(v, x) <=> InRow(s, x) /\ x # s[k]
               /\ \A x : x # s[k] => Beside(v, q, x) = Beside(s, p, x)
<1> DEFINE v == Only(s, Tournaments \ {s[k]})
           q == RemoveAt(p, k)
<1>0. v = Only(s, Tournaments \ {s[k]}) /\ q = RemoveAt(p, k)
    OBVIOUS
<1> HIDE DEF v, q
<1>1. /\ Len(s) \in Nat /\ Len(p) = Len(s) /\ k \in 1 .. Len(s)
      /\ \A i \in 1 .. Len(s) : s[i] \in Tournaments
      /\ \A i \in 1 .. Len(s) : p[i] \in Points
      /\ \A i, j \in 1 .. Len(s) : i # j => s[i] # s[j]
    BY DEF Distinct
<1> DEFINE len == Len(s) - 1
           old == [i \in 1 .. (Len(s) - 1) |-> IF i < k THEN i ELSE i + 1]
<1>2. v \in Seq(Tournaments) /\ Len(v) = len /\ \A i \in 1 .. len : v[i] = s[old[i]]
  <2> DEFINE S == Tournaments \ {s[k]}
  <2>1. \A i \in 1 .. Len(s) : s[i] \in S <=> i # k
      BY <1>1
  <2> HIDE DEF S
  <2>2. v = Only(s, S)
      BY <1>0 DEF S
  <2>3. /\ v \in Seq(Tournaments) /\ Len(v) = Len(s) - 1
        /\ \A i \in 1 .. Len(v) : v[i] = IF i < k THEN s[i] ELSE s[i + 1]
    <3> HIDE DEF old, len
    <3>1. /\ Only(s, S) \in Seq(Tournaments) /\ Len(Only(s, S)) = Len(s) - 1
          /\ \A i \in 1 .. Len(Only(s, S)) : Only(s, S)[i] = IF i < k THEN s[i] ELSE s[i + 1]
        BY <2>1, OnlyWithoutOne
    <3>2. QED
        BY <1>0, <2>2, <3>1
  <2>4. QED
      BY <2>3
<1>3. q \in Seq(Points) /\ Len(q) = len /\ \A i \in 1 .. len : q[i] = p[old[i]]
  <2> DEFINE a == SubSeq(p, 1, k - 1)
             b == SubSeq(p, k + 1, Len(p))
  <2>1. q = a \o b
      BY <1>0 DEF RemoveAt
  <2>2. a \in Seq(Points) /\ Len(a) = k - 1 /\ \A i \in 1 .. (k - 1) : a[i] = p[i]
      BY <1>1
  <2>3. b \in Seq(Points) /\ Len(b) = Len(s) - k /\ \A i \in 1 .. (Len(s) - k) : b[i] = p[i + k]
      BY <1>1
  <2> HIDE DEF a, b
  <2>4. /\ q \in Seq(Points) /\ Len(q) = Len(a) + Len(b)
        /\ \A i \in 1 .. Len(a) : q[i] = a[i]
        /\ \A i \in 1 .. Len(b) : q[i + Len(a)] = b[i]
    <3>1. /\ a \o b \in Seq(Points) /\ Len(a \o b) = Len(a) + Len(b)
          /\ \A i \in 1 .. Len(a) : (a \o b)[i] = a[i]
          /\ \A i \in 1 .. Len(b) : (a \o b)[i + Len(a)] = b[i]
      <4>1. a \in Seq(Points) /\ b \in Seq(Points)
          BY <2>2, <2>3
      <4>2. QED
          BY <4>1, TwoParts
    <3>2. QED
        BY <2>1, <3>1
  <2>5. ASSUME NEW i \in 1 .. len PROVE q[i] = p[old[i]]
    <3>1. CASE i < k
        BY <1>1, <2>2, <2>4, <3>1
    <3>2. CASE ~(i < k)
      <4>1. i - (k - 1) \in 1 .. (Len(s) - k) /\ (i - (k - 1)) + (k - 1) = i
            /\ (i - (k - 1)) + k = i + 1
          BY <1>1, <3>2
      <4>2. q[(i - (k - 1)) + Len(a)] = b[i - (k - 1)]
          BY <2>3, <2>4, <4>1
      <4>3. q[i] = p[i + 1]
          BY <2>2, <2>3, <4>1, <4>2
      <4>4. QED
          BY <3>2, <4>3
    <3>3. QED
        BY <3>1, <3>2
  <2>6. Len(q) = len
      BY <1>1, <2>2, <2>3, <2>4
  <2>7. QED
      BY <2>4, <2>5, <2>6
<1>4. \A i \in 1 .. len : old[i] \in 1 .. Len(s) /\ old[i] # k
    BY <1>1
<1>5. \A i, j \in 1 .. len : i # j => old[i] # old[j]
    BY <1>1
<1>6. \A i \in 1 .. Len(s) : i # k => \E j \in 1 .. len : old[j] = i
  <2> SUFFICES ASSUME NEW i \in 1 .. Len(s), i # k PROVE \E j \in 1 .. len : old[j] = i
      OBVIOUS
  <2>1. CASE i < k
    <3>1. i \in 1 .. len /\ old[i] = i
        BY <1>1, <2>1
    <3>2. QED
        BY <3>1
  <2>2. CASE i > k
    <3>1. i - 1 \in 1 .. len /\ old[i - 1] = i
        BY <1>1, <2>2
    <3>2. QED
        BY <3>1
  <2>3. QED
      BY <1>1, <2>1, <2>2
<1>7. len \in Nat
    BY <1>1
<1> HIDE DEF len, old
<1>8. ASSUME NEW i \in 1 .. Len(v), NEW j \in 1 .. Len(v), i # j PROVE v[i] # v[j]
  <2>1. i \in 1 .. len /\ j \in 1 .. len
      BY <1>2
  <2>2. v[i] = s[old[i]] /\ v[j] = s[old[j]]
      BY <1>2, <2>1
  <2>3. old[i] \in 1 .. Len(s) /\ old[j] \in 1 .. Len(s) /\ old[i] # old[j]
      BY <1>4, <1>5, <1>8, <2>1
  <2>4. QED
      BY <1>1, <2>2, <2>3
<1>9. \A i \in 1 .. Len(v) : InRow(s, v[i])
    BY <1>2, <1>4 DEF InRow
<1>10. \A x : InRow(v, x) <=> InRow(s, x) /\ x # s[k]
  <2>1. ASSUME NEW x, InRow(v, x) PROVE InRow(s, x) /\ x # s[k]
    <3>1. PICK i \in 1 .. len : v[i] = x
        BY <1>2, <2>1 DEF InRow
    <3>2. old[i] \in 1 .. Len(s) /\ old[i] # k /\ s[old[i]] = x
        BY <1>2, <1>4, <3>1
    <3>3. QED
        BY <1>1, <3>2 DEF InRow
  <2>2. ASSUME NEW x, InRow(s, x), x # s[k] PROVE InRow(v, x)
    <3>1. PICK i \in 1 .. Len(s) : s[i] = x
        BY <2>2 DEF InRow
    <3>2. PICK j \in 1 .. len : old[j] = i
        BY <1>6, <2>2, <3>1
    <3>3. v[j] = x /\ j \in 1 .. Len(v)
        BY <1>2, <3>1, <3>2
    <3>4. QED
        BY <3>3 DEF InRow
  <2>3. QED
      BY <2>1, <2>2
<1>11. ASSUME NEW x, x # s[k] PROVE Beside(v, q, x) = Beside(s, p, x)
  <2>1. CASE InRow(v, x)
    <3>1. PICK i \in 1 .. Len(v) : v[i] = x
        BY <2>1 DEF InRow
    <3>2. Beside(v, q, x) = q[i]
      <4>1. Distinct(v)
          BY <1>8 DEF Distinct
      <4>2. QED
          BY <3>1, <4>1, BesideOf
    <3>3. old[i] \in 1 .. Len(s) /\ s[old[i]] = x
        BY <1>2, <1>4, <3>1
    <3>4. Beside(s, p, x) = p[old[i]]
      <4>1. Distinct(s)
          BY <1>1 DEF Distinct
      <4>2. QED
          BY <3>3, <4>1, BesideOf
    <3>5. QED
        BY <1>2, <1>3, <3>1, <3>2, <3>4
  <2>2. CASE ~InRow(v, x)
      BY <1>10, <1>11, <2>2 DEF Beside
  <2>3. QED
      BY <2>1, <2>2
<1>12. q \in Seq(Nat)
    BY <1>3, PointsAreNumbers
<1>13. SumFunction(q) = Weight(q, 1 .. Len(q))
    BY <1>12, SumFunctionIsWeight
<1>14. Weight(q, 1 .. Len(q)) \in Nat
    BY <1>12, RowWeightType
<1>15. QED
    BY <1>2, <1>3, <1>8, <1>9, <1>10, <1>11, <1>13, <1>14 DEF Parallel, v, q

\* The transaction of a removal that succeeds, conjunct by conjunct.
LEMMA Removes ==
    ASSUME NEW r \in removing, RemoveTx(r), ~RemoveFails(r.t, r.g)
    PROVE  /\ removing' = removing \ {r}
           /\ tgame' = [tgame EXCEPT ![r.t][r.g] = IF @ = "in" THEN "deleted" ELSE @]
           /\ results' = [results EXCEPT ![r.t] = [team \in Teams |->
                 IF passing[r.g][team] = "finished" /\ Scored(r.t, r.g, team) > 0 /\ @[team].played > 0
                 THEN Minus(@[team], Scored(r.t, r.g, team))
                 ELSE @[team]]]
           /\ ids' = [ids EXCEPT ![r.g] = [team \in Teams |->
                 IF team \in entered[r.t] /\ passing[r.g][team] # "none"
                 THEN Only(@[team], Tournaments \ {r.t}) ELSE @[team]]]
           /\ points' = [points EXCEPT ![r.g] = [team \in Teams |->
                 IF team \in entered[r.t] /\ passing[r.g][team] # "none"
                 THEN WithoutPoints(r.t, r.g, team) ELSE @[team]]]
           /\ total' = [total EXCEPT ![r.g] = [team \in Teams |->
                 IF team \in entered[r.t] /\ passing[r.g][team] # "none"
                 THEN SumFunction(points'[r.g][team]) ELSE @[team]]]
           /\ UNCHANGED <<passing, entered, applying, due, scoring>>
    BY Zenon DEF RemoveTx

\* The removal of the game g from the tournament t cuts exactly the rows that
\* the identifier stands in.
LEMMA WhatIsCut ==
    ASSUME ScoringInv, NEW t \in Tournaments, NEW g \in Games, ~RemoveFails(t, g),
           NEW team \in Teams
    PROVE  (team \in entered[t] /\ passing[g][team] # "none") <=> InRow(ids[g][team], t)
<1>1. ids[g][team] \in Seq(Tournaments)
    BY DEF ScoringInv, RowsOK
<1>2. ASSUME team \in entered[t], passing[g][team] # "none" PROVE InRow(ids[g][team], t)
  <2>1. Position(t, g, team) # 0
      BY <1>2 DEF RemoveFails
  <2>2. QED
      BY <1>1, <2>1, PositionIs
<1>3. ASSUME InRow(ids[g][team], t) PROVE team \in entered[t] /\ passing[g][team] # "none"
  <2>1. PICK i \in 1 .. Len(ids[g][team]) : ids[g][team][i] = t
      BY <1>3 DEF InRow
  <2>2. team \in entered[ids[g][team][i]] /\ passing[g][team] = "finished"
      BY DEF ScoringInv, IdsAreEarned
  <2>3. QED
      BY <2>1, <2>2
<1>4. QED
    BY <1>2, <1>3

\* What the removal does to a row of a passing.
LEMMA RowAfterRemoval ==
    ASSUME ScoringInv, NEW r \in removing, RemoveTx(r), ~RemoveFails(r.t, r.g),
           NEW g \in Games, NEW team \in Teams
    PROVE  /\ ids'[g][team] \in Seq(Tournaments) /\ points'[g][team] \in Seq(Points)
           /\ total'[g][team] \in Nat
           /\ Parallel(ids'[g][team], points'[g][team], total'[g][team])
           /\ \A i \in 1 .. Len(ids'[g][team]) : InRow(ids[g][team], ids'[g][team][i])
           /\ \A x : InRow(ids'[g][team], x) <=>
                     InRow(ids[g][team], x) /\ ~(g = r.g /\ x = r.t)
           /\ \A x : ~(g = r.g /\ x = r.t) =>
                     Beside(ids'[g][team], points'[g][team], x) = Beside(ids[g][team], points[g][team], x)
<1>1. r.t \in Tournaments /\ r.g \in Games
    BY DEF ScoringInv, WorldOK, Removal
<1>2. /\ ids \in [Games -> [Teams -> Seq(Tournaments)]]
      /\ points \in [Games -> [Teams -> Seq(Points)]]
      /\ total \in [Games -> [Teams -> Nat]]
      /\ Parallel(ids[g][team], points[g][team], total[g][team])
    BY DEF ScoringInv, RowsOK
<1> DEFINE cut == team \in entered[r.t] /\ passing[r.g][team] # "none"
<1>3. CASE g = r.g /\ cut
  <2>1. InRow(ids[g][team], r.t)
      BY <1>1, <1>3, WhatIsCut
  <2> DEFINE k == Position(r.t, g, team)
  <2>2. k \in 1 .. Len(ids[g][team]) /\ ids[g][team][k] = r.t
      BY <1>2, <2>1, PositionIs
  <2>3. ids'[g][team] = Only(ids[g][team], Tournaments \ {ids[g][team][k]})
    <3>1. ids'[g][team] = Only(ids[g][team], Tournaments \ {r.t})
      <4>1. ids' = [ids EXCEPT ![r.g] = [u \in Teams |->
                 IF u \in entered[r.t] /\ passing[r.g][u] # "none"
                 THEN Only(ids[r.g][u], Tournaments \ {r.t}) ELSE ids[r.g][u]]]
          BY Removes
      <4>2. QED
          BY <1>1, <1>2, <1>3, <4>1
    <3>2. QED
        BY <2>2, <3>1
  <2>4. points'[g][team] = RemoveAt(points[g][team], k)
      BY <1>1, <1>2, <1>3 DEF RemoveTx, WithoutPoints
  <2>5. total'[g][team] = SumFunction(points'[g][team])
      BY <1>1, <1>2, <1>3 DEF RemoveTx
  <2>6. ids[g][team] \in Seq(Tournaments) /\ points[g][team] \in Seq(Points)
      BY <1>2
  <2> HIDE DEF k
  <2>7. /\ ids'[g][team] \in Seq(Tournaments) /\ points'[g][team] \in Seq(Points)
        /\ SumFunction(points'[g][team]) \in Nat
        /\ Parallel(ids'[g][team], points'[g][team], SumFunction(points'[g][team]))
        /\ \A i \in 1 .. Len(ids'[g][team]) : InRow(ids[g][team], ids'[g][team][i])
        /\ \A x : InRow(ids'[g][team], x) <=> InRow(ids[g][team], x) /\ x # ids[g][team][k]
        /\ \A x : x # ids[g][team][k] =>
              Beside(ids'[g][team], points'[g][team], x) = Beside(ids[g][team], points[g][team], x)
    <3>1. Parallel(ids[g][team], points[g][team], total[g][team])
        BY <1>2
    <3>2. QED
      <4> DEFINE s == ids[g][team]
                 p == points[g][team]
      <4>1. /\ s \in Seq(Tournaments) /\ p \in Seq(Points)
            /\ Len(s) = Len(p) /\ Distinct(s) /\ k \in 1 .. Len(s)
          BY <2>2, <2>6, <3>1 DEF Parallel, Distinct
      <4>2. ids'[g][team] = Only(s, Tournaments \ {s[k]}) /\ points'[g][team] = RemoveAt(p, k)
          BY <2>3, <2>4
      <4> HIDE DEF s, p
      <4>3. /\ Only(s, Tournaments \ {s[k]}) \in Seq(Tournaments) /\ RemoveAt(p, k) \in Seq(Points)
            /\ SumFunction(RemoveAt(p, k)) \in Nat
            /\ Parallel(Only(s, Tournaments \ {s[k]}), RemoveAt(p, k), SumFunction(RemoveAt(p, k)))
            /\ \A i \in 1 .. Len(Only(s, Tournaments \ {s[k]})) :
                  InRow(s, Only(s, Tournaments \ {s[k]})[i])
            /\ \A x : InRow(Only(s, Tournaments \ {s[k]}), x) <=> InRow(s, x) /\ x # s[k]
            /\ \A x : x # s[k] =>
                  Beside(Only(s, Tournaments \ {s[k]}), RemoveAt(p, k), x) = Beside(s, p, x)
          BY <4>1, RowWithout
      <4>4. QED
          BY <4>2, <4>3 DEF s, p
  <2>8. QED
      BY <1>3, <2>2, <2>5, <2>7
<1>4. CASE ~(g = r.g /\ cut)
  <2>1. /\ ids'[g][team] = ids[g][team] /\ points'[g][team] = points[g][team]
        /\ total'[g][team] = total[g][team]
      BY <1>1, <1>2, <1>4 DEF RemoveTx
  <2>2. g = r.g => ~InRow(ids[g][team], r.t)
      BY <1>1, <1>4, WhatIsCut
  <2>3. \A i \in 1 .. Len(ids[g][team]) : InRow(ids[g][team], ids[g][team][i])
      BY DEF InRow
  <2>4. ids[g][team] \in Seq(Tournaments) /\ points[g][team] \in Seq(Points) /\ total[g][team] \in Nat
      BY <1>2
  <2>5. QED
      BY <1>2, <2>1, <2>2, <2>3, <2>4
<1>5. QED
    BY <1>3, <1>4

LEMMA LedgerAfterRemoval ==
    ASSUME ScoringInv, NEW r \in removing, RemoveTx(r), ~RemoveFails(r.t, r.g),
           NEW t \in Tournaments, NEW team \in Teams
    PROVE  Balanced(t, team)'
<1>1. r.t \in Tournaments /\ r.g \in Games
    BY DEF ScoringInv, WorldOK, Removal
<1>2. Balanced(t, team) /\ results[t][team] \in [score : Nat, played : Nat]
    BY DEF ScoringInv, Ledger, ResultsOK
<1>3. /\ results \in [Tournaments -> [Teams -> [score : Nat, played : Nat]]]
      /\ RowsOK
    BY DEF ScoringInv, ResultsOK
<1> DEFINE f == Earned(t, team)
           h == Earned(t, team)'
           P == PlayedIn(t, team)
           Q == PlayedIn(t, team)'
<1>4. \A g \in Games : /\ f[g] \in Nat
                       /\ g \in P => f[g] \in Points
                       /\ g \notin P => f[g] = 0
    BY <1>3, ScoredIsBeside DEF Earned, PlayedIn, Beside
<1>5. P \subseteq Games /\ IsFiniteSet(Games) /\ IsFiniteSet(P)
    BY ScoringAssumption, FS_Subset DEF PlayedIn
<1>6. CASE t = r.t /\ InRow(ids[r.g][team], r.t)
  <2>1. r.g \in P
      BY <1>1, <1>6 DEF PlayedIn
  <2>2. Scored(r.t, r.g, team) = f[r.g] /\ f[r.g] \in Points /\ f[r.g] \in Nat
    <3>1. Scored(r.t, r.g, team) = f[r.g]
        BY <1>1, <1>3, <1>6, ScoredIsBeside DEF Earned
    <3>2. f[r.g] \in Points /\ f[r.g] \in Nat
        BY <1>1, <1>4, <2>1
    <3>3. QED
        BY <3>1, <3>2
  <2>3. Q = P \ {r.g}
      BY <1>1, <1>6, RowAfterRemoval DEF PlayedIn
  <2>4. Cardinality(P) \in Nat /\ Cardinality(P) > 0 /\ Cardinality(Q) = Cardinality(P) - 1
    <3> HIDE DEF P, Q
    <3>1. Cardinality(P) \in Nat /\ Cardinality(P \ {r.g}) = Cardinality(P) - 1
        BY <1>5, <2>1, FS_CardinalityType, FS_RemoveElement
    <3>2. Cardinality(P \ {r.g}) \in Nat
        BY <1>5, FS_RemoveElement, FS_CardinalityType
    <3>3. QED
        BY <2>3, <3>1, <3>2
  <2>5. /\ results[t][team].score = Weight(f, Games)
        /\ results[t][team].played \in Nat /\ results[t][team].played \geq Cardinality(P)
        /\ 0 \notin Points => results[t][team].played = Cardinality(P)
      BY <1>2 DEF Balanced
  <2>6. passing[r.g][team] = "finished"
    <3>1. PICK i \in 1 .. Len(ids[r.g][team]) : ids[r.g][team][i] = r.t
        BY <1>6 DEF InRow
    <3>2. QED
        BY <1>1, <3>1 DEF ScoringInv, IdsAreEarned
  <2>7. results'[t][team] = IF f[r.g] > 0 THEN Minus(results[t][team], f[r.g]) ELSE results[t][team]
    <3>1. results' = [results EXCEPT ![r.t] = [u \in Teams |->
             IF passing[r.g][u] = "finished" /\ Scored(r.t, r.g, u) > 0 /\ results[r.t][u].played > 0
             THEN Minus(results[r.t][u], Scored(r.t, r.g, u))
             ELSE results[r.t][u]]]
        BY <1>1, <1>3, Removes
    <3>2. results[t][team].played > 0
        BY <2>4, <2>5
    <3> HIDE DEF f, h, P, Q
    <3>3. QED
        BY <1>1, <1>3, <1>6, <2>2, <2>6, <3>1, <3>2
  <2>8. /\ h[r.g] = 0
        /\ \A g \in Games \ {r.g} : h[g] = f[g]
        /\ \A g \in Games \ Q : h[g] = 0
    <3>1. \A g \in Games : InRow(ids'[g][team], t) <=> g \in Q
        BY DEF PlayedIn
    <3>2. \A g \in Games \ Q : h[g] = 0
        BY <3>1 DEF Earned, Beside
    <3>3. ASSUME NEW g \in Games \ {r.g} PROVE h[g] = f[g]
      <4>1. \A x : ~(g = r.g /\ x = r.t) =>
              Beside(ids'[g][team], points'[g][team], x) = Beside(ids[g][team], points[g][team], x)
          BY <1>6, RowAfterRemoval
      <4>2. Beside(ids'[g][team], points'[g][team], t) = Beside(ids[g][team], points[g][team], t)
          BY <4>1
      <4>3. QED
          BY <4>2 DEF Earned
    <3>4. QED
        BY <1>1, <2>3, <3>2, <3>3
  <2> HIDE DEF f, h, P, Q
  <2>9. /\ Weight(f, Games) = f[r.g] + Weight(f, Games \ {r.g})
        /\ Weight(f, Games \ {r.g}) \in Nat
    <3>1. IsFiniteSet(Games \ {r.g})
        BY <1>5, FS_RemoveElement
    <3>2. QED
        BY <1>1, <1>4, <1>5, <3>1, WeightSplit, UnitsFinite
  <2>10. Weight(h, Games) = Weight(f, Games \ {r.g})
    <3>1. \A g \in Games : h[g] \in Nat
        BY <1>4, <2>8
    <3>2. Weight(h, Games) = h[r.g] + Weight(h, Games \ {r.g})
        BY <1>1, <1>5, <3>1, WeightSplit
    <3>3. Weight(h, Games \ {r.g}) = Weight(f, Games \ {r.g})
        BY <2>8, WeightAgrees
    <3>4. QED
        BY <2>8, <2>9, <3>2, <3>3
  <2>11. /\ results'[t][team].score = Weight(h, Games)
         /\ results'[t][team].played \geq Cardinality(Q)
         /\ 0 \notin Points => results'[t][team].played = Cardinality(Q)
    <3>1. CASE f[r.g] = 0
      <4>1. results'[t][team] = results[t][team] /\ 0 \in Points
          BY <2>2, <2>7, <3>1
      <4>2. QED
          BY <2>4, <2>5, <2>9, <2>10, <3>1, <4>1
    <3>2. CASE f[r.g] > 0 /\ results[t][team].played = 1
      <4>1. results'[t][team] = [score |-> 0, played |-> 0]
          BY <2>7, <3>2 DEF Minus, NoResult
      <4>2. Cardinality(Q) = 0
          BY <2>4, <2>5, <3>2
      <4>3. IsFiniteSet(Q)
          BY <1>5, <2>3, FS_RemoveElement
      <4>4. Q = {}
          BY <4>2, <4>3, FS_EmptySet
      <4>5. Weight(h, Games) = 0
          BY <2>8, <4>4, NothingWeighs
      <4>6. QED
          BY <4>1, <4>2, <4>5
    <3>3. CASE f[r.g] > 0 /\ results[t][team].played # 1
      <4>1. f[r.g] \in Nat /\ f[r.g] <= results[t][team].score /\ results[t][team].played > 0
          BY <2>2, <2>4, <2>5, <2>9
      <4>2. /\ Minus(results[t][team], f[r.g]).score = results[t][team].score - f[r.g]
            /\ Minus(results[t][team], f[r.g]).played = results[t][team].played - 1
          BY <1>2, <3>3, <4>1, MinusType
      <4>3. results'[t][team].score = (f[r.g] + Weight(f, Games \ {r.g})) - f[r.g]
          BY <2>5, <2>7, <2>9, <3>3, <4>2
      <4>4. results'[t][team].played = results[t][team].played - 1
          BY <2>7, <3>3, <4>2
      <4>5. QED
          BY <2>4, <2>5, <2>9, <2>10, <4>1, <4>3, <4>4
    <3>4. QED
        BY <2>2, <3>1, <3>2, <3>3
  <2>12. QED
      BY <2>11 DEF Balanced, h, Q
<1>7. CASE ~(t = r.t /\ InRow(ids[r.g][team], r.t))
  <2>1. results'[t][team] = results[t][team]
    <3>1. CASE t = r.t
      <4>1. Scored(r.t, r.g, team) = 0
        <5>1. ids[r.g][team] \in Seq(Tournaments)
            BY <1>1, <1>3 DEF RowsOK
        <5>2. Position(r.t, r.g, team) = 0
            BY <1>7, <3>1, <5>1, PositionIs
        <5>3. QED
            BY <5>2 DEF Scored
      <4>2. QED
          BY <1>1, <1>3, <3>1, <4>1 DEF RemoveTx
    <3>2. CASE t # r.t
        BY <1>1, <1>3, <3>2 DEF RemoveTx
    <3>3. QED
        BY <3>1, <3>2
  <2>2. ASSUME NEW g \in Games
        PROVE  /\ InRow(ids'[g][team], t) <=> InRow(ids[g][team], t)
               /\ Beside(ids'[g][team], points'[g][team], t) = Beside(ids[g][team], points[g][team], t)
    <3>1. InRow(ids'[g][team], t) <=> InRow(ids[g][team], t)
        BY <1>7, RowAfterRemoval
    <3>2. CASE g = r.g /\ t = r.t
        BY <1>7, <3>1, <3>2 DEF Beside
    <3>3. CASE ~(g = r.g /\ t = r.t)
      <4>1. \A x : ~(g = r.g /\ x = r.t) =>
              Beside(ids'[g][team], points'[g][team], x) = Beside(ids[g][team], points[g][team], x)
          BY <1>7, RowAfterRemoval
      <4>2. QED
          BY <3>1, <3>3, <4>1
    <3>4. QED
        BY <3>1, <3>2, <3>3
  <2>3. h = f /\ Q = P
      BY <2>2 DEF Earned, PlayedIn
  <2>4. QED
      BY <1>2, <2>1, <2>3 DEF Balanced
<1>8. QED
    BY <1>6, <1>7

LEMMA RemoveTxKeeps ==
    ASSUME ScoringInv, NEW r \in removing, RemoveTx(r)
    PROVE  ScoringInv'
<1>1. WorldOK /\ r.t \in Tournaments /\ r.g \in Games
    BY DEF ScoringInv, WorldOK, Removal
<1>2. CASE RemoveFails(r.t, r.g)
  <2>1. WorldOK' /\ QuietStep
      BY <1>1, <1>2 DEF RemoveTx, WorldOK, QuietStep, passings
  <2>2. QED
      BY <2>1, QuietKeeps
<1>3. CASE ~RemoveFails(r.t, r.g)
  <2>1. WorldOK'
    <3>1. /\ removing' = removing \ {r}
          /\ tgame' = [tgame EXCEPT ![r.t][r.g] = IF @ = "in" THEN "deleted" ELSE @]
          /\ UNCHANGED <<passing, entered, applying, due, scoring>>
        BY <1>3, Removes
    <3>2. QED
        BY <1>1, <3>1 DEF WorldOK
  <2>2. RowsOK'
    <3>1. /\ ids' = [g \in Games |-> [team \in Teams |-> ids'[g][team]]]
          /\ points' = [g \in Games |-> [team \in Teams |-> points'[g][team]]]
          /\ total' = [g \in Games |-> [team \in Teams |-> total'[g][team]]]
      <4>1. /\ ids \in [Games -> [Teams -> Seq(Tournaments)]]
            /\ points \in [Games -> [Teams -> Seq(Points)]]
            /\ total \in [Games -> [Teams -> Nat]]
          BY DEF ScoringInv, RowsOK
      <4>2. ids' = [ids EXCEPT ![r.g] = [team \in Teams |-> ids'[r.g][team]]]
        <5>1. ids' = [ids EXCEPT ![r.g] = [team \in Teams |->
                 IF team \in entered[r.t] /\ passing[r.g][team] # "none"
                 THEN Only(ids[r.g][team], Tournaments \ {r.t}) ELSE ids[r.g][team]]]
            BY <1>3, Removes
        <5>2. QED
            BY <1>1, <4>1, <5>1
      <4>3. points' = [points EXCEPT ![r.g] = [team \in Teams |-> points'[r.g][team]]]
        <5>1. points' = [points EXCEPT ![r.g] = [team \in Teams |->
                 IF team \in entered[r.t] /\ passing[r.g][team] # "none"
                 THEN WithoutPoints(r.t, r.g, team) ELSE points[r.g][team]]]
            BY <1>3, Removes
        <5>2. QED
            BY <1>1, <4>1, <5>1
      <4>4. total' = [total EXCEPT ![r.g] = [team \in Teams |-> total'[r.g][team]]]
        <5>1. total' = [total EXCEPT ![r.g] = [team \in Teams |->
                 IF team \in entered[r.t] /\ passing[r.g][team] # "none"
                 THEN SumFunction(points'[r.g][team]) ELSE total[r.g][team]]]
            BY <1>3, Removes
        <5>2. QED
            BY <1>1, <4>1, <5>1
      <4>5. ASSUME NEW x, NEW y, NEW X, x \in [Games -> [Teams -> X]],
                   y = [x EXCEPT ![r.g] = [team \in Teams |-> y[r.g][team]]]
            PROVE  y = [g \in Games |-> [team \in Teams |-> y[g][team]]]
          BY <1>1, <4>5
      <4>6. ids' = [g \in Games |-> [team \in Teams |-> ids'[g][team]]]
        <5> DEFINE X == Seq(Tournaments)
        <5>1. ids \in [Games -> [Teams -> X]]
            BY <4>1
        <5> HIDE DEF X
        <5>2. QED
            BY <4>2, <4>5, <5>1
      <4>7. points' = [g \in Games |-> [team \in Teams |-> points'[g][team]]]
        <5> DEFINE X == Seq(Points)
        <5>1. points \in [Games -> [Teams -> X]]
            BY <4>1
        <5> HIDE DEF X
        <5>2. QED
            BY <4>3, <4>5, <5>1
      <4>8. total' = [g \in Games |-> [team \in Teams |-> total'[g][team]]]
          BY <4>1, <4>4, <4>5, Zenon
      <4>9. QED
          BY <4>6, <4>7, <4>8
    <3>2. \A g \in Games, team \in Teams :
            /\ ids'[g][team] \in Seq(Tournaments) /\ points'[g][team] \in Seq(Points)
            /\ total'[g][team] \in Nat
            /\ Parallel(ids'[g][team], points'[g][team], total'[g][team])
        BY <1>3, RowAfterRemoval
    <3>3. QED
        BY <3>1, <3>2 DEF RowsOK, Parallel
  <2>3. ResultsOK'
    <3>1. results \in [Tournaments -> [Teams -> [score : Nat, played : Nat]]]
        BY DEF ScoringInv, ResultsOK
    <3>2. \A team \in Teams : Scored(r.t, r.g, team) \in Nat
        BY <1>1, ScoredIsBeside DEF ScoringInv
    <3>3. \A team \in Teams : results[r.t][team].played > 0 =>
             Minus(results[r.t][team], Scored(r.t, r.g, team)) \in [score : Nat, played : Nat]
        BY <1>1, <3>1, <3>2, MinusType
    <3>4. QED
      <4>1. results' = [results EXCEPT ![r.t] = [team \in Teams |->
                 IF passing[r.g][team] = "finished" /\ Scored(r.t, r.g, team) > 0
                    /\ results[r.t][team].played > 0
                 THEN Minus(results[r.t][team], Scored(r.t, r.g, team))
                 ELSE results[r.t][team]]]
          BY <1>1, <1>3, <3>1, Removes
      <4>2. [team \in Teams |->
                 IF passing[r.g][team] = "finished" /\ Scored(r.t, r.g, team) > 0
                    /\ results[r.t][team].played > 0
                 THEN Minus(results[r.t][team], Scored(r.t, r.g, team))
                 ELSE results[r.t][team]] \in [Teams -> [score : Nat, played : Nat]]
          BY <1>1, <3>1, <3>3
      <4>3. QED
          BY <1>1, <3>1, <4>1, <4>2 DEF ResultsOK
  <2>4. IdsAreEarned'
    <3> SUFFICES ASSUME NEW g \in Games, NEW team \in Teams, NEW i \in 1 .. Len(ids'[g][team])
                 PROVE  team \in entered[ids'[g][team][i]] /\ passing[g][team] = "finished"
        BY <1>3 DEF IdsAreEarned, RemoveTx
    <3>1. InRow(ids[g][team], ids'[g][team][i])
        BY <1>3, RowAfterRemoval
    <3>2. QED
        BY <3>1 DEF InRow, ScoringInv, IdsAreEarned
  <2>5. Ledger'
      BY <1>3, LedgerAfterRemoval DEF Ledger
  <2>6. QED
      BY <2>1, <2>2, <2>3, <2>4, <2>5 DEF ScoringInv
<1>4. QED
    BY <1>2, <1>3

-----------------------------------------------------------------------------
(* Scoring.                                                                *)

\* The order a query returns the rows of a finite set in.
LEMMA EnumerationIsOnto ==
    ASSUME NEW S, IsFiniteSet(S), NEW seq \in SetToSeqs(S)
    PROVE  LET n == Cardinality(S)
           IN  /\ n \in Nat
               /\ seq \in [1 .. n -> S]
               /\ \A i, j \in 1 .. n : i # j => seq[i] # seq[j]
               /\ \A x \in S : \E i \in 1 .. n : seq[i] = x
<1> DEFINE n == Cardinality(S)
<1>1. n \in Nat
    BY FS_CardinalityType
<1>2. seq \in [1 .. n -> S] /\ \A i, j \in 1 .. n : i # j => seq[i] # seq[j]
    BY DEF SetToSeqs
<1>3. seq \in Injection(1 .. n, S)
    BY <1>2 DEF Injection, IsInjective
<1>4. Cardinality(1 .. n) = n
    BY <1>1, FS_Interval
<1>5. seq \in Surjection(1 .. n, S)
    BY <1>3, <1>4, FS_Injection
<1>6. QED
    BY <1>1, <1>2, <1>5 DEF Surjection


\* What stands in a row after the identifiers new and their points q.
LEMMA RowWith ==
    ASSUME NEW s \in Seq(Tournaments), NEW p \in Seq(Points), NEW n \in Nat, Parallel(s, p, n),
           NEW new \in Seq(Tournaments), NEW q \in Seq(Points),
           Len(new) = Len(q), Distinct(new), \A x : InRow(new, x) => ~InRow(s, x)
    PROVE  /\ s \o new \in Seq(Tournaments) /\ p \o q \in Seq(Points)
           /\ n + Weight(q, 1 .. Len(q)) \in Nat
           /\ Parallel(s \o new, p \o q, n + Weight(q, 1 .. Len(q)))
           /\ \A x : InRow(s \o new, x) <=> InRow(s, x) \/ InRow(new, x)
           /\ \A x : InRow(s, x) => Beside(s \o new, p \o q, x) = Beside(s, p, x)
           /\ \A x : InRow(new, x) => Beside(s \o new, p \o q, x) = Beside(new, q, x)
<1> DEFINE v == s \o new
           w == p \o q
<1>1. /\ Len(s) \in Nat /\ Len(p) = Len(s) /\ Len(new) \in Nat /\ Len(q) = Len(new)
      /\ n = Weight(p, 1 .. Len(p)) /\ Distinct(s)
    BY DEF Parallel, Distinct
<1>2. /\ v \in Seq(Tournaments) /\ Len(v) = Len(s) + Len(new)
      /\ \A i \in 1 .. Len(s) : v[i] = s[i]
      /\ \A i \in 1 .. Len(new) : v[i + Len(s)] = new[i]
  <2>1. s \in Seq(Tournaments) /\ new \in Seq(Tournaments)
      OBVIOUS
  <2>2. /\ s \o new \in Seq(Tournaments) /\ Len(s \o new) = Len(s) + Len(new)
        /\ \A i \in 1 .. Len(s) : (s \o new)[i] = s[i]
        /\ \A i \in 1 .. Len(new) : (s \o new)[i + Len(s)] = new[i]
    <3> USE <2>1
    <3> QED
      OBVIOUS
  <2>3. QED
      BY <2>2, Zenon
<1>3. /\ w \in Seq(Points) /\ Len(w) = Len(s) + Len(new)
      /\ \A i \in 1 .. Len(s) : w[i] = p[i]
      /\ \A i \in 1 .. Len(new) : w[i + Len(s)] = q[i]
  <2>1. /\ w \in Seq(Points) /\ Len(w) = Len(p) + Len(q)
        /\ \A i \in 1 .. Len(p) : w[i] = p[i]
        /\ \A i \in 1 .. Len(q) : w[i + Len(p)] = q[i]
    <3>1. p \in Seq(Points) /\ q \in Seq(Points)
        OBVIOUS
    <3>2. /\ p \o q \in Seq(Points) /\ Len(p \o q) = Len(p) + Len(q)
          /\ \A i \in 1 .. Len(p) : (p \o q)[i] = p[i]
          /\ \A i \in 1 .. Len(q) : (p \o q)[i + Len(p)] = q[i]
        BY <3>1, TwoParts
    <3>3. QED
        BY <3>2, Zenon
  <2> HIDE DEF w
  <2>2. QED
      BY <1>1, <2>1
<1>4. p \in Seq(Nat) /\ q \in Seq(Nat)
    BY PointsAreNumbers
<1>5. Weight(w, 1 .. Len(w)) = n + Weight(q, 1 .. Len(q)) /\ Weight(q, 1 .. Len(q)) \in Nat
    BY <1>1, <1>4, WeightOfConcat, RowWeightType
<1> HIDE DEF v, w
<1>6. \A i \in 1 .. Len(v) : i \in 1 .. Len(s) \/ (i - Len(s) \in 1 .. Len(new) /\ (i - Len(s)) + Len(s) = i)
    BY <1>1, <1>2
<1>7. /\ \A i \in 1 .. Len(s) : i \in 1 .. Len(v)
      /\ \A i \in 1 .. Len(new) : i + Len(s) \in 1 .. Len(v)
    BY <1>1, <1>2
<1>8. \A i \in 1 .. Len(s), j \in 1 .. Len(new) : s[i] # new[j]
  <2> SUFFICES ASSUME NEW i \in 1 .. Len(s), NEW j \in 1 .. Len(new), s[i] = new[j] PROVE FALSE
      OBVIOUS
  <2>1. InRow(s, s[i]) /\ InRow(new, new[j])
      BY DEF InRow
  <2>2. QED
      BY <2>1
<1>9. Distinct(v)
  <2> SUFFICES ASSUME NEW i \in 1 .. Len(v), NEW j \in 1 .. Len(v), i # j PROVE v[i] # v[j]
      BY DEF Distinct
  <2>1. CASE i \in 1 .. Len(s) /\ j \in 1 .. Len(s)
      BY <1>1, <1>2, <2>1 DEF Distinct
  <2>2. CASE i \in 1 .. Len(s) /\ j \notin 1 .. Len(s)
    <3>1. v[j] = new[j - Len(s)] /\ j - Len(s) \in 1 .. Len(new)
        BY <1>2, <1>6, <2>2
    <3>2. QED
        BY <1>2, <1>8, <2>2, <3>1
  <2>3. CASE i \notin 1 .. Len(s) /\ j \in 1 .. Len(s)
    <3>1. v[i] = new[i - Len(s)] /\ i - Len(s) \in 1 .. Len(new)
        BY <1>2, <1>6, <2>3
    <3>2. QED
        BY <1>2, <1>8, <2>3, <3>1
  <2>4. CASE i \notin 1 .. Len(s) /\ j \notin 1 .. Len(s)
    <3>1. /\ v[i] = new[i - Len(s)] /\ i - Len(s) \in 1 .. Len(new)
          /\ v[j] = new[j - Len(s)] /\ j - Len(s) \in 1 .. Len(new)
        BY <1>2, <1>6, <2>4
    <3>2. i - Len(s) # j - Len(s)
        BY <1>1
    <3>3. QED
        BY <3>1, <3>2 DEF Distinct
  <2>5. QED
      BY <2>1, <2>2, <2>3, <2>4
<1>10. Parallel(v, w, n + Weight(q, 1 .. Len(q)))
    BY <1>2, <1>3, <1>5, <1>9 DEF Parallel, Distinct
<1>11. ASSUME NEW x, InRow(v, x) PROVE InRow(s, x) \/ InRow(new, x)
  <2>1. PICK i \in 1 .. Len(v) : v[i] = x
      BY <1>11 DEF InRow
  <2>2. CASE i \in 1 .. Len(s)
      BY <1>2, <2>1, <2>2 DEF InRow
  <2>3. CASE i \notin 1 .. Len(s)
    <3>1. v[i] = new[i - Len(s)] /\ i - Len(s) \in 1 .. Len(new)
        BY <1>2, <1>6, <2>3
    <3>2. QED
        BY <2>1, <3>1 DEF InRow
  <2>4. QED
      BY <2>2, <2>3
<1>12. ASSUME NEW x, InRow(s, x)
       PROVE  InRow(v, x) /\ Beside(v, w, x) = Beside(s, p, x)
  <2>1. PICK i \in 1 .. Len(s) : s[i] = x
      BY <1>12 DEF InRow
  <2>2. i \in 1 .. Len(v) /\ v[i] = x /\ w[i] = p[i]
      BY <1>2, <1>3, <1>7, <2>1
  <2>3. Beside(s, p, x) = p[i]
      BY <1>1, <2>1, BesideOf
  <2>4. QED
      BY <1>9, <2>2, <2>3, BesideOf
<1>13. ASSUME NEW x, InRow(new, x)
       PROVE  InRow(v, x) /\ Beside(v, w, x) = Beside(new, q, x)
  <2>1. PICK i \in 1 .. Len(new) : new[i] = x
      BY <1>13 DEF InRow
  <2>2. i + Len(s) \in 1 .. Len(v) /\ v[i + Len(s)] = x /\ w[i + Len(s)] = q[i]
      BY <1>2, <1>3, <1>7, <2>1
  <2>3. Beside(new, q, x) = q[i]
      BY <2>1, BesideOf
  <2>4. QED
      BY <1>9, <2>2, <2>3, BesideOf
<1>14. QED
    BY <1>1, <1>2, <1>3, <1>5, <1>10, <1>11, <1>12, <1>13 DEF v, w

\* What the transaction of a callback appends to the row of a team.
NewIds(order, award, s, team) == Only(order, {t \in s.ts : <<t, team>> \in DOMAIN award})
NewPoints(order, award, s, team) ==
    [i \in DOMAIN NewIds(order, award, s, team) |-> award[<<NewIds(order, award, s, team)[i], team>>]]

Awards(s) == [{x \in s.ts \X Teams : Earns(x[1], s.g, x[2])} -> Points]

\* The transaction once the order of the tournaments and the awards are known.
Scores(s, order, award) ==
    /\ ids' = [ids EXCEPT ![s.g] = [team \in Teams |-> @[team] \o NewIds(order, award, s, team)]]
    /\ points' = [points EXCEPT ![s.g] = [team \in Teams |-> @[team] \o NewPoints(order, award, s, team)]]
    /\ total' = [total EXCEPT ![s.g] = [team \in Teams |-> @[team]
          + MapThenSumSet(LAMBDA i : NewPoints(order, award, s, team)[i],
                          DOMAIN NewIds(order, award, s, team))]]
    /\ results' = [t \in Tournaments |-> [team \in Teams |->
          IF <<t, team>> \in DOMAIN award
          THEN Plus(results[t][team], award[<<t, team>>])
          ELSE results[t][team]]]
    /\ scoring' = scoring \ {s}
    /\ UNCHANGED <<tgame, entered, passing, applying, removing, due>>

LEMMA ScoreTxScores ==
    ASSUME NEW s, ScoreTx(s)
    PROVE  \E order \in SetToSeqs(s.ts),
              award \in Awards(s) :
                 Scores(s, order, award)
    BY Zenon DEF ScoreTx, Scores, NewIds, NewPoints, Awards

\* The identifiers a callback appends to a row are those of the tournaments
\* that award something to it, each once, with the award beside it.
LEMMA WhatIsAppended ==
    ASSUME ScoringInv, NEW s \in scoring, NEW order \in SetToSeqs(s.ts),
           NEW award \in Awards(s),
           NEW team \in Teams
    PROVE  LET new == NewIds(order, award, s, team)
               pts == NewPoints(order, award, s, team)
           IN  /\ new \in Seq(Tournaments) /\ pts \in Seq(Points)
               /\ Len(new) = Len(pts) /\ DOMAIN new = 1 .. Len(pts) /\ Distinct(new)
               /\ \A x : InRow(new, x) <=> <<x, team>> \in DOMAIN award
               /\ \A x : InRow(new, x) => Beside(new, pts, x) = award[<<x, team>>]
<1> DEFINE new == NewIds(order, award, s, team)
           pts == NewPoints(order, award, s, team)
           S == {t \in s.ts : <<t, team>> \in DOMAIN award}
           n == Cardinality(s.ts)
<1>1. s.ts \subseteq Tournaments
    BY DEF ScoringInv, WorldOK, Callback
<1>2. IsFiniteSet(s.ts)
    BY <1>1, ScoringAssumption, FS_Subset
<1>3. /\ n \in Nat
      /\ order \in [1 .. n -> s.ts]
      /\ \A i, j \in 1 .. n : i # j => order[i] # order[j]
      /\ \A x \in s.ts : \E i \in 1 .. n : order[i] = x
    BY <1>2, EnumerationIsOnto
<1> HIDE DEF n
<1>4. /\ order \in Seq(Tournaments) /\ Len(order) = n
      /\ \A i, j \in 1 .. Len(order) : i # j => order[i] # order[j]
      /\ \A x : (\E i \in 1 .. Len(order) : order[i] = x) <=> x \in s.ts
  <2>1. order \in [1 .. n -> Tournaments]
      BY <1>1, <1>3
  <2>2. order \in Seq(Tournaments) /\ Len(order) = n
      BY <1>3, <2>1
  <2>3. QED
      BY <1>3, <2>2
<1>5. new = Only(order, S)
    BY DEF NewIds
<1>6. pts = [i \in DOMAIN new |-> award[<<new[i], team>>]]
    BY DEF NewPoints
<1>7. \A x : x \in s.ts /\ x \in S <=> <<x, team>> \in DOMAIN award
    BY DEF Awards
<1> HIDE DEF new, pts, S
<1>8. /\ new \in Seq(Tournaments) /\ Distinct(new)
      /\ \A x : InRow(new, x) <=> <<x, team>> \in DOMAIN award
  <2>1. /\ Only(order, S) \in Seq(Tournaments)
        /\ \A i, j \in 1 .. Len(Only(order, S)) : i # j => Only(order, S)[i] # Only(order, S)[j]
        /\ \A x : (\E i \in 1 .. Len(Only(order, S)) : Only(order, S)[i] = x) <=>
                     (\E i \in 1 .. Len(order) : order[i] = x) /\ x \in S
      BY <1>4, OnlyElements
  <2>2. QED
      BY <1>4, <1>5, <1>7, <2>1 DEF Distinct, InRow
<1>9. DOMAIN new = 1 .. Len(new) /\ Len(new) \in Nat
    BY <1>8
<1>10. \A i \in 1 .. Len(new) : award[<<new[i], team>>] \in Points
  <2> SUFFICES ASSUME NEW i \in 1 .. Len(new) PROVE award[<<new[i], team>>] \in Points
      OBVIOUS
  <2>1. InRow(new, new[i])
      BY DEF InRow
  <2>2. <<new[i], team>> \in DOMAIN award
      BY <1>8, <2>1
  <2>3. QED
      BY <2>2 DEF Awards
<1>11. pts \in Seq(Points) /\ Len(pts) = Len(new)
    BY <1>6, <1>9, <1>10
<1>12. ASSUME NEW x, InRow(new, x) PROVE Beside(new, pts, x) = award[<<x, team>>]
  <2>1. PICK i \in 1 .. Len(new) : new[i] = x
      BY <1>12 DEF InRow
  <2>2. Beside(new, pts, x) = pts[i]
      BY <1>8, <2>1, BesideOf
  <2>3. QED
      BY <1>6, <1>9, <2>1, <2>2
<1>13. QED
    BY <1>8, <1>9, <1>11, <1>12 DEF new, pts

\* What a callback does to a row of a passing.
LEMMA RowAfterScore ==
    ASSUME ScoringInv, NEW s \in scoring, NEW order \in SetToSeqs(s.ts),
           NEW award \in Awards(s),
           Scores(s, order, award),
           NEW g \in Games, NEW team \in Teams
    PROVE  /\ ids'[g][team] \in Seq(Tournaments) /\ points'[g][team] \in Seq(Points)
           /\ total'[g][team] \in Nat
           /\ Parallel(ids'[g][team], points'[g][team], total'[g][team])
           /\ \A x : InRow(ids'[g][team], x) <=>
                     InRow(ids[g][team], x) \/ (g = s.g /\ <<x, team>> \in DOMAIN award)
           /\ \A x : InRow(ids[g][team], x) =>
                     Beside(ids'[g][team], points'[g][team], x) = Beside(ids[g][team], points[g][team], x)
           /\ \A x : g = s.g /\ <<x, team>> \in DOMAIN award =>
                     Beside(ids'[g][team], points'[g][team], x) = award[<<x, team>>]
<1>1. s.g \in Games
    BY DEF ScoringInv, WorldOK, Callback
<1>2. /\ ids \in [Games -> [Teams -> Seq(Tournaments)]]
      /\ points \in [Games -> [Teams -> Seq(Points)]]
      /\ total \in [Games -> [Teams -> Nat]]
      /\ Parallel(ids[g][team], points[g][team], total[g][team])
    BY DEF ScoringInv, RowsOK
<1>3. CASE g # s.g
  <2>1. /\ ids'[g][team] = ids[g][team] /\ points'[g][team] = points[g][team]
        /\ total'[g][team] = total[g][team]
      BY <1>1, <1>2, <1>3 DEF Scores
  <2>2. ids[g][team] \in Seq(Tournaments) /\ points[g][team] \in Seq(Points) /\ total[g][team] \in Nat
      BY <1>2
  <2>3. QED
      BY <1>2, <1>3, <2>1, <2>2
<1>4. CASE g = s.g
  <2> DEFINE row == ids[g][team]
             p == points[g][team]
             sum == total[g][team]
             new == NewIds(order, award, s, team)
             q == NewPoints(order, award, s, team)
  <2>1. row \in Seq(Tournaments) /\ p \in Seq(Points) /\ sum \in Nat /\ Parallel(row, p, sum)
      BY <1>2
  <2>2. /\ new \in Seq(Tournaments) /\ q \in Seq(Points)
        /\ Len(new) = Len(q) /\ DOMAIN new = 1 .. Len(q) /\ Distinct(new)
        /\ \A x : InRow(new, x) <=> <<x, team>> \in DOMAIN award
        /\ \A x : InRow(new, x) => Beside(new, q, x) = award[<<x, team>>]
      BY WhatIsAppended, Zenon
  <2>3. \A x : InRow(new, x) => ~InRow(row, x)
    <3> SUFFICES ASSUME NEW x, <<x, team>> \in DOMAIN award, InRow(row, x) PROVE FALSE
        BY <2>2
    <3>1. Earns(x, s.g, team)
        BY DEF Awards
    <3>2. x \in ToSet(row)
      <4>1. DOMAIN row = 1 .. Len(row)
          BY <2>1
      <4>2. QED
          BY <4>1 DEF InRow, ToSet
    <3>3. QED
        BY <1>4, <3>1, <3>2 DEF Earns
  <2>4. ids'[g][team] = row \o new /\ points'[g][team] = p \o q
      BY <1>1, <1>2, <1>4 DEF Scores
  <2>5. total'[g][team] = sum + Weight(q, 1 .. Len(q))
    <3>1. total'[g][team] = sum + MapThenSumSet(LAMBDA i : NewPoints(order, award, s, team)[i],
                          DOMAIN NewIds(order, award, s, team))
        BY <1>1, <1>2, <1>4 DEF Scores
    <3>2. DOMAIN NewIds(order, award, s, team) = 1 .. Len(q)
        BY <2>2
    <3>3. IsFiniteSet(1 .. Len(q)) /\ \A i \in 1 .. Len(q) : q[i] \in Nat
      <4> HIDE DEF q
      <4>1. q \in Seq(Nat)
          BY <2>2, PointsAreNumbers
      <4>2. Len(q) \in Nat /\ \A i \in 1 .. Len(q) : q[i] \in Nat
          BY <4>1
      <4>3. IsFiniteSet(1 .. Len(q))
          BY <4>2, FS_Interval
      <4>4. QED
          BY <4>2, <4>3
    <3>4. MapThenSumSet(LAMBDA i : q[i], 1 .. Len(q)) = Weight(q, 1 .. Len(q))
        BY <3>3, SumSetIsWeight
    <3>5. QED
        BY <3>1, <3>2, <3>4
  <2> HIDE DEF row, p, sum, new, q
  <2>6. /\ row \o new \in Seq(Tournaments) /\ p \o q \in Seq(Points)
        /\ sum + Weight(q, 1 .. Len(q)) \in Nat
        /\ Parallel(row \o new, p \o q, sum + Weight(q, 1 .. Len(q)))
        /\ \A x : InRow(row \o new, x) <=> InRow(row, x) \/ InRow(new, x)
        /\ \A x : InRow(row, x) => Beside(row \o new, p \o q, x) = Beside(row, p, x)
        /\ \A x : InRow(new, x) => Beside(row \o new, p \o q, x) = Beside(new, q, x)
      BY <2>1, <2>2, <2>3, RowWith
  <2>7. QED
      BY <1>4, <2>2, <2>4, <2>5, <2>6 DEF row, p
<1>5. QED
    BY <1>3, <1>4

LEMMA LedgerAfterScore ==
    ASSUME ScoringInv, NEW s \in scoring, NEW order \in SetToSeqs(s.ts),
           NEW award \in Awards(s),
           Scores(s, order, award),
           NEW t \in Tournaments, NEW team \in Teams
    PROVE  Balanced(t, team)'
<1>1. s.g \in Games
    BY DEF ScoringInv, WorldOK, Callback
<1>2. Balanced(t, team) /\ results[t][team] \in [score : Nat, played : Nat] /\ RowsOK
    BY DEF ScoringInv, Ledger, ResultsOK
<1>0. ASSUME NEW g \in Games
      PROVE  /\ \A x : InRow(ids'[g][team], x) <=>
                     InRow(ids[g][team], x) \/ (g = s.g /\ <<x, team>> \in DOMAIN award)
             /\ \A x : InRow(ids[g][team], x) =>
                     Beside(ids'[g][team], points'[g][team], x) = Beside(ids[g][team], points[g][team], x)
             /\ \A x : g = s.g /\ <<x, team>> \in DOMAIN award =>
                     Beside(ids'[g][team], points'[g][team], x) = award[<<x, team>>]
    BY <1>0, RowAfterScore
<1> DEFINE f == Earned(t, team)
           h == Earned(t, team)'
           P == PlayedIn(t, team)
           Q == PlayedIn(t, team)'
<1>3. \A g \in Games : f[g] \in Nat
    BY <1>2, ScoredIsBeside DEF Earned
<1>4. P \subseteq Games /\ IsFiniteSet(Games) /\ IsFiniteSet(P)
    BY ScoringAssumption, FS_Subset DEF PlayedIn
<1>5. /\ results[t][team].score = Weight(f, Games)
      /\ results[t][team].played \in Nat /\ results[t][team].played \geq Cardinality(P)
      /\ 0 \notin Points => results[t][team].played = Cardinality(P)
    BY <1>2 DEF Balanced
<1>6. CASE <<t, team>> \in DOMAIN award
  <2>1. award[<<t, team>>] \in Points /\ Earns(t, s.g, team)
      BY <1>6 DEF Awards
  <2>2. award[<<t, team>>] \in Nat
      BY <2>1, ScoringAssumption
  <2>3. ~InRow(ids[s.g][team], t)
    <3>1. ids[s.g][team] \in Seq(Tournaments)
        BY <1>1, <1>2 DEF RowsOK
    <3>2. DOMAIN ids[s.g][team] = 1 .. Len(ids[s.g][team])
        BY <3>1
    <3>3. QED
        BY <2>1, <3>2 DEF Earns, InRow, ToSet
  <2>4. s.g \notin P /\ Q = P \cup {s.g}
    <3>1. \A g \in Games : InRow(ids'[g][team], t) <=> InRow(ids[g][team], t) \/ g = s.g
        BY <1>6, <1>0
    <3>2. QED
        BY <1>1, <2>3, <3>1 DEF PlayedIn
  <2>5. f[s.g] = 0
      BY <1>1, <2>3 DEF Earned, Beside
  <2>6. h[s.g] = award[<<t, team>>]
    <3>1. Beside(ids'[s.g][team], points'[s.g][team], t) = award[<<t, team>>]
        BY <1>1, <1>6, <1>0
    <3>2. QED
        BY <1>1, <3>1 DEF Earned
  <2>7. ASSUME NEW g \in Games \ {s.g} PROVE h[g] = f[g]
    <3>1. InRow(ids'[g][team], t) <=> InRow(ids[g][team], t)
        BY <1>0
    <3>2. CASE InRow(ids[g][team], t)
      <4>1. Beside(ids'[g][team], points'[g][team], t) = Beside(ids[g][team], points[g][team], t)
          BY <3>2, <1>0
      <4>2. QED
          BY <4>1 DEF Earned
    <3>3. CASE ~InRow(ids[g][team], t)
        BY <3>1, <3>3 DEF Earned, Beside
    <3>4. QED
        BY <3>2, <3>3
  <2>8. results'[t][team] = Plus(results[t][team], award[<<t, team>>])
      BY <1>6 DEF Scores
  <2> HIDE DEF f, h, P, Q
  <2>9. Cardinality(P) \in Nat /\ Cardinality(Q) = Cardinality(P) + 1
      BY <1>4, <2>4, FS_AddElement, FS_CardinalityType
  <2>10. Weight(h, Games) = Weight(f, Games) + award[<<t, team>>]
    <3>1. IsFiniteSet(Games \ {s.g})
        BY <1>4, FS_RemoveElement
    <3>2. \A g \in Games : h[g] \in Nat
        BY <1>3, <2>2, <2>6, <2>7
    <3>3. Weight(h, Games) = h[s.g] + Weight(h, Games \ {s.g})
        BY <1>1, <1>4, <3>2, WeightSplit
    <3>4. Weight(f, Games) = f[s.g] + Weight(f, Games \ {s.g})
        BY <1>1, <1>3, <1>4, WeightSplit
    <3>5. Weight(h, Games \ {s.g}) = Weight(f, Games \ {s.g})
        BY <2>7, WeightAgrees
    <3>6. Weight(f, Games \ {s.g}) \in Nat
        BY <1>3, <3>1, UnitsFinite
    <3>7. QED
        BY <2>2, <2>5, <2>6, <3>3, <3>4, <3>5, <3>6
  <2>11. /\ results'[t][team].score = Weight(h, Games)
         /\ results'[t][team].played \geq Cardinality(Q)
         /\ 0 \notin Points => results'[t][team].played = Cardinality(Q)
      BY <1>5, <2>8, <2>9, <2>10 DEF Plus
  <2>12. QED
      BY <2>11 DEF Balanced, h, Q
<1>7. CASE <<t, team>> \notin DOMAIN award
  <2>1. results'[t][team] = results[t][team]
      BY <1>7 DEF Scores
  <2>2. ASSUME NEW g \in Games
        PROVE  /\ InRow(ids'[g][team], t) <=> InRow(ids[g][team], t)
               /\ Beside(ids'[g][team], points'[g][team], t) = Beside(ids[g][team], points[g][team], t)
    <3>1. InRow(ids'[g][team], t) <=> InRow(ids[g][team], t)
        BY <1>7, <1>0
    <3>2. CASE InRow(ids[g][team], t)
        BY <3>1, <3>2, <1>0
    <3>3. CASE ~InRow(ids[g][team], t)
        BY <3>1, <3>3 DEF Beside
    <3>4. QED
        BY <3>1, <3>2, <3>3
  <2>3. h = f /\ Q = P
      BY <2>2 DEF Earned, PlayedIn
  <2>4. QED
      BY <1>2, <2>1, <2>3 DEF Balanced
<1>8. QED
    BY <1>6, <1>7

LEMMA ScoreTxKeeps ==
    ASSUME ScoringInv, NEW s \in scoring, ScoreTx(s)
    PROVE  ScoringInv'
<1>1. PICK order \in SetToSeqs(s.ts),
           award \in Awards(s) :
              Scores(s, order, award)
    BY ScoreTxScores
<1>2. WorldOK /\ s.g \in Games /\ s.ts \subseteq Tournaments
    BY DEF ScoringInv, WorldOK, Callback
<1>3. WorldOK'
  <2>1. scoring' = scoring \ {s} /\ UNCHANGED <<tgame, entered, passing, applying, removing, due>>
      BY <1>1 DEF Scores
  <2>2. QED
      BY <1>2, <2>1 DEF WorldOK
<1>4. RowsOK'
  <2>1. /\ ids' = [g \in Games |-> [team \in Teams |-> ids'[g][team]]]
        /\ points' = [g \in Games |-> [team \in Teams |-> points'[g][team]]]
        /\ total' = [g \in Games |-> [team \in Teams |-> total'[g][team]]]
      BY <1>1, <1>2 DEF Scores, ScoringInv, RowsOK
  <2>2. \A g \in Games, team \in Teams :
          /\ ids'[g][team] \in Seq(Tournaments) /\ points'[g][team] \in Seq(Points)
          /\ total'[g][team] \in Nat
          /\ Parallel(ids'[g][team], points'[g][team], total'[g][team])
      BY <1>1, RowAfterScore
  <2>3. QED
      BY <2>1, <2>2 DEF RowsOK, Parallel
<1>5. ResultsOK'
  <2>1. results \in [Tournaments -> [Teams -> [score : Nat, played : Nat]]]
      BY DEF ScoringInv, ResultsOK
  <2>2. \A x \in DOMAIN award : award[x] \in Nat
      BY ScoringAssumption DEF Awards
  <2>3. \A t \in Tournaments, team \in Teams :
           results[t][team] \in [score : Nat, played : Nat]
      BY <2>1
  <2>4. \A t \in Tournaments, team \in Teams : <<t, team>> \in DOMAIN award =>
           Plus(results[t][team], award[<<t, team>>]) \in [score : Nat, played : Nat]
      BY <2>2, <2>3 DEF Plus
  <2>5. QED
      BY <1>1, <2>3, <2>4 DEF Scores, ResultsOK
<1>6. IdsAreEarned'
  <2> SUFFICES ASSUME NEW g \in Games, NEW team \in Teams, NEW i \in 1 .. Len(ids'[g][team])
               PROVE  team \in entered[ids'[g][team][i]] /\ passing[g][team] = "finished"
      BY <1>1 DEF IdsAreEarned, Scores
  <2> DEFINE x == ids'[g][team][i]
  <2>1. InRow(ids'[g][team], x)
      BY DEF InRow
  <2>2. CASE InRow(ids[g][team], x)
      BY <2>2 DEF InRow, ScoringInv, IdsAreEarned
  <2>3. CASE g = s.g /\ <<x, team>> \in DOMAIN award
    <3>1. Earns(x, s.g, team)
        BY <2>3 DEF Awards
    <3>2. QED
        BY <2>3, <3>1 DEF Earns
  <2>4. QED
      BY <1>1, <2>1, <2>2, <2>3, RowAfterScore
<1>7. Ledger'
    BY <1>1, LedgerAfterScore DEF ScoringInv, Ledger
<1>8. QED
    BY <1>3, <1>4, <1>5, <1>6, <1>7 DEF ScoringInv

-----------------------------------------------------------------------------

LEMMA NextKeepsScoringInv == ScoringInv /\ [Next]_vars => ScoringInv'
<1> SUFFICES ASSUME ScoringInv, [Next]_vars PROVE ScoringInv'
    OBVIOUS
<1>1. ASSUME NEW t \in Tournaments, NEW g \in Games, AddGame(t, g) PROVE ScoringInv'
    BY <1>1, AddGameKeeps
<1>2. ASSUME NEW t \in Tournaments, NEW team \in Teams, ApplyRead(t, team) PROVE ScoringInv'
    BY <1>2, ApplyReadKeeps
<1>3. ASSUME NEW a \in applying, ApplyCommit(a) PROVE ScoringInv'
    BY <1>3, ApplyCommitKeeps
<1>4. ASSUME NEW g \in Games, NEW team \in Teams, JoinGame(g, team) PROVE ScoringInv'
    BY <1>4, JoinGameKeeps
<1>5. ASSUME NEW g \in Games, NEW team \in Teams, Finish(g, team) PROVE ScoringInv'
    BY <1>5, FinishKeeps
<1>6. ASSUME NEW g \in Games, NEW team \in Teams, ScoreRead(g, team) PROVE ScoringInv'
    BY <1>6, ScoreReadKeeps
<1>7. ASSUME NEW s \in scoring, ScoreTx(s) PROVE ScoringInv'
    BY <1>7, ScoreTxKeeps
<1>8. ASSUME NEW t \in Tournaments, NEW g \in Games, NEW admin \in BOOLEAN, RemoveCheck(t, g, admin)
      PROVE  ScoringInv'
    BY <1>8, RemoveCheckKeeps
<1>9. ASSUME NEW r \in removing, RemoveTx(r) PROVE ScoringInv'
    BY <1>9, RemoveTxKeeps
<1>10. CASE UNCHANGED vars
  <2>1. WorldOK' /\ QuietStep
      BY <1>10 DEF vars, passings, QuietStep, WorldOK, ScoringInv
  <2>2. QED
      BY <2>1, QuietKeeps
<1>11. QED
    BY <1>1, <1>2, <1>3, <1>4, <1>5, <1>6, <1>7, <1>8, <1>9, <1>10 DEF Next

\* The inductive invariant of the tournaments' tables.
THEOREM ScoringInvariant == Spec => []ScoringInv
<1>1. QED
    BY InitScoringInv, NextKeepsScoringInv, PTL DEF Spec

-----------------------------------------------------------------------------

\* The tables of the tournaments hold what their columns can hold, whatever
\* applications, removals and callbacks are under way: an array never holds a
\* tournament twice, and the subtractions of a removal stay in the naturals.
THEOREM TypeCorrect == Spec => []TypeOK
<1>1. ASSUME ScoringInv PROVE TypeOK
  <2>1. ASSUME NEW g \in Games, NEW team \in Teams
        PROVE  /\ ids[g][team] \in Seq(Tournaments) /\ IsInjective(ids[g][team])
               /\ points[g][team] \in Seq(Points)
               /\ total[g][team] \in Nat
    <3>1. /\ ids[g][team] \in Seq(Tournaments) /\ points[g][team] \in Seq(Points)
          /\ total[g][team] \in Nat
          /\ Parallel(ids[g][team], points[g][team], total[g][team])
        BY <1>1 DEF ScoringInv, RowsOK
    <3>2. DOMAIN ids[g][team] = 1 .. Len(ids[g][team])
        BY <3>1
    <3>3. IsInjective(ids[g][team])
        BY <3>1, <3>2 DEF IsInjective, Parallel
    <3>4. QED
        BY <3>1, <3>3
  <2>2. QED
      BY <1>1, <2>1 DEF TypeOK, ScoringInv, WorldOK, ResultsOK
<1>2. QED
    BY <1>1, ScoringInvariant, PTL

\* ArraysParallel for every number of tournaments, games and teams: the two
\* UPDATEs of a scoring and the expressions of a removal leave the arrays of a
\* passing equally long, and its tournament_points are the sum of the second.
\* What stands where is AwardsAreKept.
THEOREM RowsStayParallel == Spec => []ArraysParallel
<1>1. ASSUME ScoringInv PROVE ArraysParallel
  <2> SUFFICES ASSUME NEW g \in Games, NEW team \in Teams
               PROVE  /\ Len(ids[g][team]) = Len(points[g][team])
                      /\ total[g][team] = SumFunction(points[g][team])
      BY DEF ArraysParallel
  <2>1. /\ points[g][team] \in Seq(Points)
        /\ Parallel(ids[g][team], points[g][team], total[g][team])
      BY <1>1 DEF ScoringInv, RowsOK
  <2>2. SumFunction(points[g][team]) = Weight(points[g][team], 1 .. Len(points[g][team]))
    <3>1. points[g][team] \in Seq(Nat)
        BY <2>1, PointsAreNumbers
    <3>2. QED
        BY <3>1, SumFunctionIsWeight
  <2>3. QED
      BY <2>1, <2>2 DEF Parallel
<1>2. QED
    BY <1>1, ScoringInvariant, PTL

\* What the leaderboard says, whatever the places are worth.
LEMMA LedgerSums ==
    ASSUME ScoringInv, NEW t \in Tournaments, NEW team \in Teams
    PROVE  LET games == {g \in Games : t \in ToSet(ids[g][team])}
           IN  /\ results[t][team].score = MapThenSumSet(LAMBDA g : Scored(t, g, team), Games)
               /\ results[t][team].played \geq Cardinality(games)
               /\ 0 \notin Points => results[t][team].played = Cardinality(games)
<1>1. Balanced(t, team) /\ RowsOK
    BY DEF ScoringInv, Ledger
<1>2. \A g \in Games : Scored(t, g, team) = Earned(t, team)[g] /\ Scored(t, g, team) \in Nat
    BY <1>1, ScoredIsBeside DEF Earned
<1>3. MapThenSumSet(LAMBDA g : Scored(t, g, team), Games)
          = Weight([g \in Games |-> Scored(t, g, team)], Games)
    BY <1>2, SumOfScored, ScoringAssumption
<1>4. Weight([g \in Games |-> Scored(t, g, team)], Games) = Weight(Earned(t, team), Games)
  <2> DEFINE f == [g \in Games |-> Scored(t, g, team)]
             h == Earned(t, team)
  <2>1. \A g \in Games : f[g] = h[g]
      BY <1>2
  <2> HIDE DEF f, h
  <2>2. Weight(f, Games) = Weight(h, Games)
      BY <2>1, WeightAgrees
  <2>3. QED
      BY <2>2 DEF f, h
<1>5. {g \in Games : t \in ToSet(ids[g][team])} = PlayedIn(t, team)
  <2>1. ASSUME NEW g \in Games PROVE t \in ToSet(ids[g][team]) <=> InRow(ids[g][team], t)
    <3>1. ids[g][team] \in Seq(Tournaments)
        BY <1>1 DEF RowsOK
    <3>2. DOMAIN ids[g][team] = 1 .. Len(ids[g][team])
        BY <3>1
    <3>3. QED
        BY <3>2 DEF ToSet, InRow
  <2>2. QED
      BY <2>1 DEF PlayedIn
<1>6. QED
    BY <1>1, <1>3, <1>4, <1>5 DEF Balanced

\* What the leaderboard shows as a team's score is what its passings were
\* awarded; games_played may only be too high.
ScoreIsTheSum ==
    \A t \in Tournaments, team \in Teams :
        /\ results[t][team].score = MapThenSumSet(LAMBDA g : Scored(t, g, team), Games)
        /\ results[t][team].played \geq Cardinality({g \in Games : t \in ToSet(ids[g][team])})

\* The score of a team is the sum over the games of what its passings say was
\* awarded, for every number of tournaments, games and teams and whatever the
\* places are worth, 0 included, for which a removal forgets games_played
\* (UpsertMany, RemoveGame).
THEOREM ScoresAreTheSum == Spec => []ScoreIsTheSum
<1>1. ASSUME ScoringInv PROVE ScoreIsTheSum
    BY <1>1, LedgerSums DEF ScoreIsTheSum
<1>2. QED
    BY <1>1, ScoringInvariant, PTL

\* TotalsMatch for every number of tournaments, games and teams, if every
\* place is worth something: games_played is right, too.
THEOREM LeaderboardIsTheSum ==
    ASSUME 0 \notin Points
    PROVE  Spec => []TotalsMatch
<1>1. ASSUME ScoringInv PROVE TotalsMatch
    BY <1>1, LedgerSums DEF TotalsMatch
<1>2. QED
    BY <1>1, ScoringInvariant, PTL

-----------------------------------------------------------------------------

\* What a passing was awarded is what stands beside the tournament, before
\* and after a step.
ScoredStandsBeside ==
    \A t \in Tournaments, g \in Games, team \in Teams :
        /\ Scored(t, g, team) = Beside(ids[g][team], points[g][team], t)
        /\ t \in ToSet(ids[g][team]) <=> InRow(ids[g][team], t)

LEMMA ScoredStands == RowsOK => ScoredStandsBeside
<1>1. ASSUME RowsOK, NEW t \in Tournaments, NEW g \in Games, NEW team \in Teams
      PROVE  /\ Scored(t, g, team) = Beside(ids[g][team], points[g][team], t)
             /\ t \in ToSet(ids[g][team]) <=> InRow(ids[g][team], t)
  <2>1. ids[g][team] \in Seq(Tournaments)
      BY <1>1 DEF RowsOK
  <2>2. DOMAIN ids[g][team] = 1 .. Len(ids[g][team])
      BY <2>1
  <2>3. QED
      BY <1>1, <2>2, ScoredIsBeside DEF ToSet, InRow
<1>2. QED
    BY <1>1 DEF ScoredStandsBeside

LEMMA ScoredStandsNext == RowsOK' => ScoredStandsBeside'
    BY ScoredStands, PTL

\* AwardsStay: neither the callbacks of other tournaments of the game nor
\* removals from them change what a tournament has awarded.
THEOREM AwardsAreKept == Spec => AwardsStay
<1>1. ASSUME ScoringInv, ScoringInv', [Next]_vars,
             NEW t \in Tournaments, NEW g \in Games, NEW team \in Teams, t \in ToSet(ids[g][team]),
             ~ \E r \in removing \ removing' : r.t = t /\ r.g = g
      PROVE  t \in ToSet(ids'[g][team]) /\ Scored(t, g, team)' = Scored(t, g, team)
  <2>1. removing \subseteq Removal /\ InRow(ids[g][team], t)
      BY <1>1, ScoredStands DEF ScoringInv, WorldOK, ScoredStandsBeside
  <2>2. SUFFICES /\ InRow(ids'[g][team], t)
                 /\ Beside(ids'[g][team], points'[g][team], t)
                       = Beside(ids[g][team], points[g][team], t)
      BY <1>1, ScoredStands, ScoredStandsNext DEF ScoringInv, ScoredStandsBeside
  <2>3. CASE ids' = ids /\ points' = points
      BY <2>1, <2>3
  <2>4. ASSUME NEW s \in scoring, ScoreTx(s)
        PROVE  /\ InRow(ids'[g][team], t)
               /\ Beside(ids'[g][team], points'[g][team], t)
                     = Beside(ids[g][team], points[g][team], t)
    <3>1. PICK order \in SetToSeqs(s.ts), award \in Awards(s) : Scores(s, order, award)
        BY <2>4, ScoreTxScores
    <3>2. \A x : InRow(ids'[g][team], x) <=>
                  InRow(ids[g][team], x) \/ (g = s.g /\ <<x, team>> \in DOMAIN award)
      <4>1. ScoringInv
          BY <1>1
      <4>2. QED
          BY <4>1, <3>1, RowAfterScore
    <3>3. \A x : InRow(ids[g][team], x) =>
                  Beside(ids'[g][team], points'[g][team], x) = Beside(ids[g][team], points[g][team], x)
      <4>1. ScoringInv
          BY <1>1
      <4>2. QED
          BY <4>1, <3>1, RowAfterScore
    <3>4. QED
        BY <2>1, <3>2, <3>3
  <2>5. ASSUME NEW r \in removing, RemoveTx(r), ~RemoveFails(r.t, r.g)
        PROVE  /\ InRow(ids'[g][team], t)
               /\ Beside(ids'[g][team], points'[g][team], t)
                     = Beside(ids[g][team], points[g][team], t)
    <3>1. r \notin removing'
        BY <2>5, Removes
    <3>2. ~(g = r.g /\ t = r.t)
        BY <1>1, <2>5, <3>1
    <3>3. \A x : InRow(ids'[g][team], x) <=>
                  InRow(ids[g][team], x) /\ ~(g = r.g /\ x = r.t)
      <4>1. ScoringInv
          BY <1>1
      <4>2. QED
          BY <4>1, <2>5, RowAfterRemoval
    <3>4. \A x : ~(g = r.g /\ x = r.t) =>
                  Beside(ids'[g][team], points'[g][team], x) = Beside(ids[g][team], points[g][team], x)
      <4>1. ScoringInv
          BY <1>1
      <4>2. QED
          BY <4>1, <2>5, RowAfterRemoval
    <3>5. QED
        BY <2>1, <3>2, <3>3, <3>4
  <2>6. ASSUME NEW r \in removing, RemoveTx(r), RemoveFails(r.t, r.g)
        PROVE  ids' = ids /\ points' = points
      BY <2>6 DEF RemoveTx, passings
  <2>7. QED
      BY <1>1, <2>3, <2>4, <2>5, <2>6 DEF Next, vars, passings, AddGame, ApplyRead, ApplyCommit,
         JoinGame, Finish, ScoreRead, RemoveCheck
<1>2. ScoringInv /\ ScoringInv' /\ [Next]_vars =>
        [\A t \in Tournaments, g \in Games, team \in Teams :
            t \in ToSet(ids[g][team]) =>
               \/ t \in ToSet(ids'[g][team]) /\ Scored(t, g, team)' = Scored(t, g, team)
               \/ \E r \in removing \ removing' : r.t = t /\ r.g = g]_vars
    BY <1>1
<1>3. QED
    BY <1>2, ScoringInvariant, NextKeepsScoringInv, PTL DEF Spec, AwardsStay

=============================================================================
