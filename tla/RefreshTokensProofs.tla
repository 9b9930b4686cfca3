------------------------- MODULE RefreshTokensProofs -------------------------
(***************************************************************************)
(* The refresh tokens implement SessionFamily, for any number of logins,   *)
(* requests and tokens.                                                    *)
(*                                                                         *)
(* That only the newest token is good is not inductive: a transaction has  *)
(* still to insert its token.  IInv adds that the row such a transaction   *)
(* holds stays good until it commits (ClaimedIsLive) and that it is the    *)
(* only one of its family (OneClaimer); both rest on the row's lock.       *)
(***************************************************************************)
EXTENDS RefreshTokens, TLAPS

\* A request with a token works on one family.
OneFamily ==
    \A r \in Requests : rpc[r] \in {"claim", "claimed", "revokeOne"} =>
        \E f \in Families : rscope[r] = {f}

\* What a transaction holds the lock of stays good until it commits.
ClaimedIsLive ==
    \A r \in Requests : \A f \in rscope[r] : rpc[r] = "claimed" => rtok[r] \in live[f]

\* Two transactions never rotate the same family.
OneClaimer ==
    \A p, q \in Requests : \A f \in rscope[p] \cap rscope[q] :
        rpc[p] = "claimed" /\ rpc[q] = "claimed" => p = q

IInv == TypeOK /\ OnlyNewestIsLive /\ OneFamily /\ ClaimedIsLive /\ OneClaimer

LEMMA InitHolds == Init => IInv
BY MaxTokensAssumption DEF Init, IInv, TypeOK, Tokens, Nothing, OnlyNewestIsLive, OneFamily, ClaimedIsLive, OneClaimer

LEMMA LiveIsNewest ==
    ASSUME IInv, NEW f \in Families, NEW t \in live[f]
    PROVE  t = issued[f] /\ issued[f] # 0
BY DEF IInv, TypeOK, Tokens, OnlyNewestIsLive

LEMMA ScopeIsOne ==
    ASSUME IInv, NEW r \in Requests, rpc[r] \in {"claim", "claimed", "revokeOne"}
    PROVE  \E f \in Families : rscope[r] = {f}
BY DEF IInv, OneFamily

LEMMA LoginKeeps == ASSUME IInv, NEW f \in Families, Login(f) PROVE IInv'
<1> USE MaxTokensAssumption DEF IInv, Login, TypeOK, Tokens
<1>1. live[f] = {}
  BY LiveIsNewest
<1>2. TypeOK'
  OBVIOUS
<1>3. OnlyNewestIsLive'
  BY DEF OnlyNewestIsLive
<1>4. OneFamily' /\ OneClaimer'
  BY DEF OneFamily, OneClaimer
<1>5. ClaimedIsLive'
  BY <1>1 DEF ClaimedIsLive
<1> QED
  BY <1>2, <1>3, <1>4, <1>5

LEMMA BeginKeeps ==
    ASSUME IInv, NEW r \in Requests, NEW f \in Families, NEW t \in Tokens,
           NEW pc \in {"claim", "revokeOne", "alarm"}, Begin(r, f, t, pc), UNCHANGED table
    PROVE  IInv'
<1> USE MaxTokensAssumption DEF IInv, Begin, Goto, table, TypeOK, Tokens
<1>1. TypeOK'
  OBVIOUS
<1>2. OnlyNewestIsLive'
  BY DEF OnlyNewestIsLive
<1>3. OneFamily'
  BY DEF OneFamily
<1>4. ClaimedIsLive' /\ OneClaimer'
  BY DEF ClaimedIsLive, OneClaimer
<1> QED
  BY <1>1, <1>2, <1>3, <1>4

LEMMA LogoutEverywhereKeeps ==
    ASSUME IInv, NEW r \in Requests, LogoutEverywhere(r) PROVE IInv'
<1> USE DEF IInv, LogoutEverywhere, Goto, table, TypeOK
<1>1. TypeOK'
  OBVIOUS
<1>2. OnlyNewestIsLive' /\ OneFamily'
  BY DEF OnlyNewestIsLive, OneFamily
<1>3. ClaimedIsLive' /\ OneClaimer'
  BY DEF ClaimedIsLive, OneClaimer
<1> QED
  BY <1>1, <1>2, <1>3

\* A request that leaves after it has taken unlocked rows out of live.
LEMMA RevokeKeeps ==
    ASSUME IInv, NEW r \in Requests, Leave(r), rpc[r] # "claimed" \/ live' = live,
           live' \in [Families -> SUBSET Tokens], UNCHANGED issued,
           \A f \in Families : live'[f] \subseteq live[f],
           \A f \in Families : \A t \in live[f] \ live'[f] : ~Locked(f, t)
    PROVE  IInv'
<1> USE MaxTokensAssumption DEF IInv, Leave, Goto, TypeOK, Tokens
<1>1. TypeOK'
  BY DEF Nothing
<1>2. OnlyNewestIsLive'
  BY DEF OnlyNewestIsLive
<1>3. OneFamily'
  BY DEF OneFamily
<1>4. ClaimedIsLive'
  BY DEF ClaimedIsLive, Locked
<1>5. OneClaimer'
  BY DEF OneClaimer
<1> QED
  BY <1>1, <1>2, <1>3, <1>4, <1>5

LEMMA RevokeOneKeeps == ASSUME IInv, NEW r \in Requests, RevokeOne(r) PROVE IInv'
<1>1. PICK f \in rscope[r] : ~Locked(f, rtok[r]) /\ live' = [live EXCEPT ![f] = live[f] \ {rtok[r]}]
  BY DEF RevokeOne
<1>2. f \in Families
  BY DEF IInv, TypeOK
<1>3. /\ live' \in [Families -> SUBSET Tokens]
      /\ \A g \in Families : live'[g] \subseteq live[g]
      /\ \A g \in Families : \A t \in live[g] \ live'[g] : ~Locked(g, t)
  BY <1>1, <1>2 DEF IInv, TypeOK
<1> QED
  BY <1>3, RevokeKeeps DEF RevokeOne

LEMMA RevokeSeenKeeps == ASSUME IInv, NEW r \in Requests, RevokeSeen(r) PROVE IInv'
<1>1. /\ live' \in [Families -> SUBSET Tokens]
      /\ \A f \in Families : live'[f] \subseteq live[f]
      /\ \A f \in Families : \A t \in live[f] \ live'[f] : ~Locked(f, t)
  BY DEF IInv, TypeOK, RevokeSeen
<1> QED
  BY <1>1, RevokeKeeps DEF RevokeSeen

LEMMA FailKeeps == ASSUME IInv, NEW r \in Requests, Fail(r) PROVE IInv'
<1>1. /\ live' \in [Families -> SUBSET Tokens]
      /\ \A f \in Families : live'[f] \subseteq live[f]
      /\ \A f \in Families : \A t \in live[f] \ live'[f] : ~Locked(f, t)
  BY DEF IInv, TypeOK, Fail, table
<1> QED
  BY <1>1, RevokeKeeps DEF Fail, table

LEMMA ClaimKeeps == ASSUME IInv, NEW r \in Requests, Claim(r) PROVE IInv'
<1> USE DEF IInv, TypeOK, Goto, table
<1>1. PICK f \in Families : /\ rscope[r] = {f} /\ ~Locked(f, rtok[r])
                            /\ Goto(r, IF rtok[r] \in live[f] THEN "claimed" ELSE "alarm")
  <2>1. PICK f \in Families : rscope[r] = {f}
    BY ScopeIsOne DEF Claim
  <2> QED
    BY <2>1 DEF Claim
<1>2. TypeOK'
  BY <1>1 DEF Claim
<1>3. OnlyNewestIsLive' /\ OneFamily'
  BY <1>1 DEF Claim, OnlyNewestIsLive, OneFamily
<1>4. ClaimedIsLive'
  BY <1>1 DEF Claim, ClaimedIsLive
<1>5. OneClaimer'
  <2>1. SUFFICES ASSUME NEW p \in Requests, NEW q \in Requests, NEW g \in rscope[p] \cap rscope[q],
                        rpc'[p] = "claimed", rpc'[q] = "claimed", p # q
                 PROVE  FALSE
    BY DEF Claim, OneClaimer
  <2>2. CASE p # r /\ q # r
    BY <2>1, <2>2, <1>1 DEF Claim, OneClaimer
  <2>3. ASSUME NEW s \in Requests, s # r, rpc'[s] = "claimed", g \in rscope[s], rpc'[r] = "claimed", g \in rscope[r]
        PROVE FALSE
    <3>1. g = f /\ rpc[s] = "claimed" /\ rtok[r] \in live[f]
      BY <2>3, <1>1
    <3>2. rtok[s] \in live[f]
      BY <3>1, <2>3 DEF ClaimedIsLive
    <3>3. rtok[s] = rtok[r]
      BY <3>1, <3>2, LiveIsNewest
    <3> QED
      BY <3>1, <3>3, <2>3, <1>1 DEF Locked
  <2> QED
    BY <2>1, <2>2, <2>3
<1> QED
  BY <1>2, <1>3, <1>4, <1>5

LEMMA CommitKeeps == ASSUME IInv, NEW r \in Requests, Commit(r) PROVE IInv'
<1> USE MaxTokensAssumption DEF IInv, TypeOK, Tokens, Goto, Leave
<1>1. PICK f \in Families :
        /\ rscope[r] = {f} /\ issued[f] < MaxTokens
        /\ issued' = [issued EXCEPT ![f] = issued[f] + 1]
        /\ live' = [live EXCEPT ![f] = (live[f] \ {rtok[r]}) \cup {issued[f] + 1}]
  <2>1. PICK f \in Families : rscope[r] = {f}
    BY ScopeIsOne DEF Commit
  <2> QED
    BY <2>1 DEF Commit
<1>2. rtok[r] = issued[f] /\ live[f] = {rtok[r]}
  BY <1>1, LiveIsNewest DEF Commit, ClaimedIsLive
<1>3. live' = [live EXCEPT ![f] = {issued[f] + 1}]
  BY <1>1, <1>2
<1>4. TypeOK'
  BY <1>1, <1>3 DEF Commit, Nothing
<1>5. OnlyNewestIsLive'
  BY <1>1, <1>3 DEF OnlyNewestIsLive
<1>6. OneFamily'
  BY DEF Commit, OneFamily
<1>7. OneClaimer'
  BY DEF Commit, OneClaimer
<1>8. ClaimedIsLive'
  <2>1. SUFFICES ASSUME NEW q \in Requests, NEW g \in rscope'[q], rpc'[q] = "claimed"
                 PROVE  rtok'[q] \in live'[g]
    BY DEF ClaimedIsLive
  <2>2. q # r /\ g \in rscope[q] /\ rpc[q] = "claimed" /\ rtok'[q] = rtok[q]
    BY <2>1 DEF Commit
  <2>3. g # f
    BY <2>2, <1>1 DEF Commit, OneClaimer
  <2> QED
    BY <2>2, <2>3, <1>3 DEF ClaimedIsLive
<1> QED
  BY <1>4, <1>5, <1>6, <1>7, <1>8

LEMMA ReadLiveKeeps == ASSUME IInv, NEW r \in Requests, ReadLive(r) PROVE IInv'
<1> USE DEF IInv, ReadLive, Goto, table, TypeOK
<1>1. TypeOK'
  OBVIOUS
<1>2. OnlyNewestIsLive' /\ OneFamily'
  BY DEF OnlyNewestIsLive, OneFamily
<1>3. ClaimedIsLive' /\ OneClaimer'
  BY DEF ClaimedIsLive, OneClaimer
<1> QED
  BY <1>1, <1>2, <1>3

LEMMA NextKeeps == IInv /\ [Next]_vars => IInv'
<1> SUFFICES ASSUME IInv, [Next]_vars PROVE IInv'
  OBVIOUS
<1>1. CASE \E f \in Families : Login(f)
  BY <1>1, LoginKeeps
<1>2. CASE \E r \in Requests : Request(r)
  <2>1. PICK r \in Requests : Request(r)
    BY <1>2
  <2>2. CASE \E f \in Families, t \in Tokens : Present(r, f, t) \/ Logout(r, f, t)
    BY <2>2, BeginKeeps DEF Present, Logout
  <2> QED
    BY <2>1, <2>2, LogoutEverywhereKeeps, RevokeOneKeeps, ClaimKeeps, CommitKeeps, ReadLiveKeeps,
       RevokeSeenKeeps, FailKeeps DEF Request
<1>3. CASE UNCHANGED vars
  BY <1>3 DEF vars, table, IInv, TypeOK, OnlyNewestIsLive, OneFamily, ClaimedIsLive, OneClaimer
<1> QED
  BY <1>1, <1>2, <1>3 DEF Next

\* IInv holds in every reachable state.
THEOREM Invariance == Spec => []IInv
BY InitHolds, NextKeeps, PTL DEF Spec

\* The state of the tokens and of the requests is well typed
\* (refresh_token_service.go).
THEOREM TypeCorrect == Spec => []TypeOK
BY Invariance, PTL DEF IInv

\* Only the newest token of a family is ever good, however many requests use
\* the same one at once (ClaimAndCreate, repository.go:750-772).
THEOREM NewestCorrect == Spec => []OnlyNewestIsLive
BY Invariance, PTL DEF IInv

-----------------------------------------------------------------------------
LEMMA InitRefines == Init => Family!Init
BY DEF Init, Nothing, goodToken, Family!Init

\* A step that only revokes ends the families it leaves without a token.
LEMMA RevokeRefines ==
    ASSUME UNCHANGED issued, \A f \in Families : live'[f] \subseteq live[f], IInv
    PROVE  Family!Next
<1> DEFINE S == {f \in Families : live'[f] = {}}
<1>1. \A f \in Families : f \notin S => live'[f] # {} /\ live[f] # {}
  OBVIOUS
<1>2. goodToken' = [f \in Families |-> IF f \in S THEN 0 ELSE goodToken[f]]
  BY <1>1 DEF goodToken
<1>3. Family!End(S)
  BY <1>2 DEF Family!End
<1>4. S \in SUBSET Families
  OBVIOUS
<1> QED
  BY <1>3, <1>4 DEF Family!Next

LEMMA LoginRefines == ASSUME IInv, NEW f \in Families, Login(f) PROVE Family!Next
<1>1. goodToken' = [goodToken EXCEPT ![f] = 1]
  BY DEF Login, goodToken, IInv, TypeOK
<1> QED
  BY <1>1 DEF Login, Family!Next, Family!Start

LEMMA CommitRefines == ASSUME IInv, NEW r \in Requests, Commit(r) PROVE Family!Next
<1>1. PICK f \in Families :
        /\ rscope[r] = {f} /\ issued[f] < MaxTokens
        /\ issued' = [issued EXCEPT ![f] = issued[f] + 1]
        /\ live' = [live EXCEPT ![f] = (live[f] \ {rtok[r]}) \cup {issued[f] + 1}]
  <2>1. PICK f \in Families : rscope[r] = {f}
    BY ScopeIsOne DEF Commit
  <2> QED
    BY <2>1 DEF Commit
<1>2. live[f] # {} /\ issued[f] # 0
  BY <1>1, LiveIsNewest DEF Commit, ClaimedIsLive, IInv
<1>3. goodToken[f] # 0
  BY <1>2 DEF goodToken
<1>4. goodToken' = [goodToken EXCEPT ![f] = issued[f] + 1]
  BY <1>1 DEF goodToken, IInv, TypeOK
<1> QED
  BY <1>1, <1>3, <1>4 DEF Family!Next, Family!Rotate

LEMMA StepRefines == IInv /\ [Next]_vars => [Family!Next]_(Family!vars)
<1> SUFFICES ASSUME IInv, [Next]_vars PROVE Family!Next \/ UNCHANGED Family!vars
  OBVIOUS
<1>1. ASSUME UNCHANGED table PROVE UNCHANGED Family!vars
  BY <1>1 DEF table, goodToken, Family!vars
<1>2. CASE \E f \in Families : Login(f)
  BY <1>2, LoginRefines
<1>3. CASE \E r \in Requests : Request(r)
  <2>1. PICK r \in Requests : Request(r)
    BY <1>3
  <2>2. CASE Commit(r)
    BY <2>2, CommitRefines
  <2>3. CASE RevokeOne(r) \/ RevokeSeen(r)
    <3>1. UNCHANGED issued /\ \A f \in Families : live'[f] \subseteq live[f]
      BY <2>3 DEF RevokeOne, RevokeSeen, IInv, TypeOK
    <3> QED
      BY <3>1, RevokeRefines
  <2>4. CASE \/ \E f \in Families, t \in Tokens : Present(r, f, t) \/ Logout(r, f, t)
             \/ LogoutEverywhere(r) \/ Claim(r) \/ ReadLive(r) \/ Fail(r)
    BY <2>4, <1>1 DEF Present, Logout, LogoutEverywhere, Claim, ReadLive, Fail
  <2> QED
    BY <2>1, <2>2, <2>3, <2>4 DEF Request
<1>4. CASE UNCHANGED vars
  BY <1>4, <1>1 DEF vars
<1> QED
  BY <1>2, <1>3, <1>4 DEF Next

\* RefreshTokenService implements SessionFamily: a new token comes only from
\* the good one and an ended family has no token again, for any number of
\* logins, requests and tokens.
THEOREM Refinement == Spec => KeepsFamilies
BY InitRefines, StepRefines, Invariance, PTL DEF Spec, KeepsFamilies, Family!Spec

\* Whatever a step leaves good was good before or is the token just issued, and
\* only a rotation of a good one issues another.
LEMMA StepBringsNoneBack ==
    ASSUME IInv, [Family!Next]_(Family!vars), OnlyNewestIsLive', TypeOK', NEW f \in Families
    PROVE  /\ \A t \in 1..issued[f] : t \in live'[f] => t \in live[f]
           /\ issued[f] # 0 /\ live[f] = {} => live'[f] = {}
<1>1. /\ issued[f] \in Nat /\ issued'[f] \in Nat
      /\ goodToken[f] = IF live[f] = {} THEN 0 ELSE issued[f]
      /\ goodToken'[f] = IF live'[f] = {} THEN 0 ELSE issued'[f]
      /\ goodToken \in [Families -> Nat] /\ issued \in [Families -> Nat]
  BY MaxTokensAssumption DEF IInv, TypeOK, goodToken
<1>2. /\ live[f] = {} \/ live[f] = {issued[f]}
      /\ live'[f] = {} \/ (live'[f] = {issued'[f]} /\ issued'[f] # 0)
  BY MaxTokensAssumption DEF IInv, OnlyNewestIsLive, TypeOK, Tokens
<1> DEFINE ends == issued'[f] = issued[f] /\ goodToken'[f] \in {0, goodToken[f]}
           issues == issued'[f] = issued[f] + 1 /\ (goodToken[f] # 0 \/ issued[f] = 0)
<1>3. ends \/ issues
  <2>1. ASSUME NEW g \in Families, Family!Start(g) PROVE ends \/ issues
    BY <1>1, <2>1 DEF Family!Start
  <2>2. ASSUME NEW g \in Families, Family!Rotate(g) PROVE ends \/ issues
    BY <1>1, <2>2 DEF Family!Rotate
  <2>3. ASSUME NEW S \in SUBSET Families, Family!End(S) PROVE ends \/ issues
    BY <1>1, <2>3 DEF Family!End
  <2>4. CASE UNCHANGED Family!vars
    BY <1>1, <2>4 DEF Family!vars
  <2> QED
    BY <2>1, <2>2, <2>3, <2>4 DEF Family!Next
<1> QED
  BY <1>1, <1>2, <1>3

\* No token and no family comes back, for any number of logins and requests:
\* read from SessionFamily, which the service implements.
THEOREM EndedForGood == Spec => NoneComesBack
<1>1. IInv /\ IInv' /\ [Next]_vars =>
         [\A f \in Families :
             /\ \A t \in 1..issued[f] : t \in live'[f] => t \in live[f]
             /\ issued[f] # 0 /\ live[f] = {} => live'[f] = {}]_vars
  <2> SUFFICES ASSUME IInv, IInv', [Next]_vars, NEW f \in Families
               PROVE  /\ \A t \in 1..issued[f] : t \in live'[f] => t \in live[f]
                      /\ issued[f] # 0 /\ live[f] = {} => live'[f] = {}
    OBVIOUS
  <2>1. OnlyNewestIsLive' /\ TypeOK'
    BY DEF IInv
  <2> QED
    BY <2>1, StepRefines, StepBringsNoneBack
<1> QED
  BY <1>1, Invariance, PTL DEF Spec, NoneComesBack
=============================================================================
