--------------------------- MODULE RefreshTokens ---------------------------
(***************************************************************************)
(* The refresh tokens of one user                                          *)
(* (src/internal/domain/user/refresh_token_service.go and the statements   *)
(* of repository.go).  A login starts a family; the tokens of a family are *)
(* numbered in the order of their rotation.  A token may be presented by   *)
(* anybody who ever had it, any number of times and at the same time.      *)
(*                                                                         *)
(* A request is cut at every statement.  The rotation is a transaction: it *)
(* holds the lock of the row it revoked until it commits, and nobody sees  *)
(* the new row before.  An UPDATE of many rows changes those its snapshot  *)
(* shows, after it has waited for their locks (READ COMMITTED).  Any       *)
(* statement may fail.  An expired token is refused before anything is     *)
(* written, so a token that expires is one that is no longer presented.    *)
(***************************************************************************)
EXTENDS Naturals, FiniteSets

CONSTANTS
    Families,   \* logins of the user
    Requests,   \* requests processed at the same time
    MaxTokens   \* bound: tokens of a family

ASSUME MaxTokensAssumption == MaxTokens \in Nat \ {0}

Tokens == 1..MaxTokens

VARIABLES
    issued,     \* family -> tokens issued and committed
    live,       \* family -> committed tokens with revoked_at NULL
    rpc,        \* request -> what it does next
    rtok,       \* request -> number of the token presented
    rscope,     \* request -> its family, or all that it revokes
    rseen       \* request -> family -> tokens its UPDATE saw

table == <<issued, live>>
vars == <<table, rpc, rtok, rscope, rseen>>

Nothing == [f \in Families |-> {}]

TypeOK ==
    /\ issued \in [Families -> 0..MaxTokens]
    /\ live \in [Families -> SUBSET Tokens]
    /\ rpc \in [Requests -> {"idle", "claim", "claimed", "revokeOne", "alarm", "revokeAll"}]
    /\ rtok \in [Requests -> 0..MaxTokens]
    /\ rscope \in [Requests -> SUBSET Families]
    /\ rseen \in [Requests -> [Families -> SUBSET Tokens]]

Init ==
    /\ issued = [f \in Families |-> 0]
    /\ live = Nothing
    /\ rpc = [r \in Requests |-> "idle"]
    /\ rtok = [r \in Requests |-> 0]
    /\ rscope = [r \in Requests |-> {}]
    /\ rseen = [r \in Requests |-> Nothing]

Goto(r, pc) == rpc' = [rpc EXCEPT ![r] = pc]

\* A request with token t of family f goes on at pc.
Begin(r, f, t, pc) ==
    /\ Goto(r, pc)
    /\ rtok' = [rtok EXCEPT ![r] = t]
    /\ rscope' = [rscope EXCEPT ![r] = {f}]
    /\ UNCHANGED rseen

\* The request is answered, with or without an error.
Leave(r) ==
    /\ Goto(r, "idle")
    /\ rtok' = [rtok EXCEPT ![r] = 0]
    /\ rscope' = [rscope EXCEPT ![r] = {}]
    /\ rseen' = [rseen EXCEPT ![r] = Nothing]

\* Mutant: the rotation is no transaction and holds no lock.
Locked_Never(f, t) == FALSE

\* A transaction that has revoked the row of token t and not yet committed.
Locked(f, t) == \E q \in Requests : rpc[q] = "claimed" /\ f \in rscope[q] /\ rtok[q] = t

-----------------------------------------------------------------------------
\* GenerateRefreshToken: a login.
Login(f) ==
    /\ issued[f] = 0
    /\ issued' = [issued EXCEPT ![f] = 1]
    /\ live' = [live EXCEPT ![f] = {1}]
    /\ UNCHANGED <<rpc, rtok, rscope, rseen>>

\* RefreshAccessToken looks the token up. A good one is to be rotated, or
\* revoked when its fingerprint or device is another; one that was revoked
\* before is reused, and its family is to be revoked.
Present(r, f, t) ==
    /\ rpc[r] = "idle" /\ t \in 1..issued[f]
    /\ \/ t \in live[f] /\ \E pc \in {"claim", "revokeOne"} : Begin(r, f, t, pc)
       \/ t \notin live[f] /\ Begin(r, f, t, "alarm")
    /\ UNCHANGED table

\* RevokeRefreshToken, a logout: the same two statements as a mismatch.
Logout(r, f, t) ==
    /\ rpc[r] = "idle" /\ t \in live[f]
    /\ Begin(r, f, t, "revokeOne")
    /\ UNCHANGED table

\* RevokeAllUserTokens: all logins of the user end.
LogoutEverywhere(r) ==
    /\ rpc[r] = "idle"
    /\ Goto(r, "alarm")
    /\ rscope' = [rscope EXCEPT ![r] = Families]
    /\ UNCHANGED <<table, rtok, rseen>>

\* Revoke by id.
RevokeOne(r) ==
    /\ rpc[r] = "revokeOne"
    /\ \E f \in rscope[r] :
          /\ ~Locked(f, rtok[r])
          /\ live' = [live EXCEPT ![f] = live[f] \ {rtok[r]}]
    /\ Leave(r)
    /\ UNCHANGED issued

\* Mutant: the UPDATE has no WHERE revoked_at IS NULL.
Claim_Always(r) ==
    /\ rpc[r] = "claim"
    /\ \E f \in rscope[r] : ~Locked(f, rtok[r])
    /\ Goto(r, "claimed")
    /\ UNCHANGED <<table, rtok, rscope, rseen>>

\* ClaimAndCreate, the UPDATE ... WHERE revoked_at IS NULL: it waits for the
\* lock of the row; no row means that somebody else has used the token.
Claim(r) ==
    /\ rpc[r] = "claim"
    /\ \E f \in rscope[r] :
          /\ ~Locked(f, rtok[r])
          /\ Goto(r, IF rtok[r] \in live[f] THEN "claimed" ELSE "alarm")
    /\ UNCHANGED <<table, rtok, rscope, rseen>>

\* Mutant: the token that was presented stays good.
Commit_KeepsOld(r) ==
    /\ rpc[r] = "claimed"
    /\ \E f \in rscope[r] :
          /\ issued[f] < MaxTokens
          /\ issued' = [issued EXCEPT ![f] = issued[f] + 1]
          /\ live' = [live EXCEPT ![f] = live[f] \cup {issued[f] + 1}]
    /\ Leave(r)

\* ClaimAndCreate, the insertion and the commit.
Commit(r) ==
    /\ rpc[r] = "claimed"
    /\ \E f \in rscope[r] :
          /\ issued[f] < MaxTokens
          /\ issued' = [issued EXCEPT ![f] = issued[f] + 1]
          /\ live' = [live EXCEPT ![f] = (live[f] \ {rtok[r]}) \cup {issued[f] + 1}]
    /\ Leave(r)

\* RevokeAllByFamily and RevokeAllForUser: the rows the UPDATE sees ...
ReadLive(r) ==
    /\ rpc[r] = "alarm"
    /\ rseen' = [rseen EXCEPT ![r] = [f \in Families |-> IF f \in rscope[r] THEN live[f] ELSE {}]]
    /\ Goto(r, "revokeAll")
    /\ UNCHANGED <<table, rtok, rscope>>

\* ... and their change, once no other transaction holds one of them.
RevokeSeen(r) ==
    /\ rpc[r] = "revokeAll"
    /\ \A f \in Families : \A t \in rseen[r][f] : ~Locked(f, t)
    /\ live' = [f \in Families |-> live[f] \ rseen[r][f]]
    /\ Leave(r)
    /\ UNCHANGED issued

\* A statement fails, the transaction is rolled back or the process stops.
Fail(r) ==
    /\ rpc[r] # "idle"
    /\ Leave(r)
    /\ UNCHANGED table

Request(r) ==
    \/ \E f \in Families, t \in Tokens : Present(r, f, t) \/ Logout(r, f, t)
    \/ LogoutEverywhere(r) \/ RevokeOne(r) \/ Claim(r) \/ Commit(r)
    \/ ReadLive(r) \/ RevokeSeen(r) \/ Fail(r)

Next == (\E f \in Families : Login(f)) \/ (\E r \in Requests : Request(r))

Spec == Init /\ [][Next]_vars

-----------------------------------------------------------------------------
\* However many requests present the same or an older token at once, only
\* the newest token of a family can be good.
OnlyNewestIsLive == \A f \in Families : live[f] \in SUBSET {issued[f]}

\* A token that was rotated, logged out or revoked is never good again, and a
\* family without a good one gets none, also when a rotation that found its
\* token good is still to claim it (refresh_token_service.go:120-190,
\* repository.go:755-783).
NoneComesBack ==
    [][\A f \in Families :
          /\ \A t \in 1..issued[f] : t \in live'[f] => t \in live[f]
          /\ issued[f] # 0 /\ live[f] = {} => live'[f] = {}]_vars

\* The good token of a family, 0 when there is none.
goodToken == [f \in Families |-> IF live[f] = {} THEN 0 ELSE issued[f]]

Family == INSTANCE SessionFamily WITH last <- issued, head <- goodToken

\* The service keeps what a family promises: a new token comes only from the
\* good one, and a family that was ended stays ended whatever was under way.
KeepsFamilies == Family!Spec

\* What repository.go:177 says of RevokeAllByFamily: the whole family is
\* revoked when a token is reused. A rotation that commits while the UPDATE
\* waits for it breaks it.
ReuseEndsFamily ==
    [][\A r \in Requests : RevokeSeen(r) /\ rtok[r] # 0 => \A f \in rscope[r] : live'[f] = {}]_vars
=============================================================================
