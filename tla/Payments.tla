------------------------------ MODULE Payments ------------------------------
(***************************************************************************)
(* The payments of one user for one amount                                 *)
(* (src/internal/domain/payment): CreatePayment, which inserts a pending   *)
(* row before it asks YooKassa and reuses it when it is called again, the  *)
(* webhook, and YooKassa itself as the code relies on it.  No statement    *)
(* reads the rows of another user or of another amount, so one pair is     *)
(* enough.  A row, its idempotency key and the payment that YooKassa keeps *)
(* under that key have the same number.                                    *)
(*                                                                         *)
(* A call is cut at each statement and at each request: everything between *)
(* two of them works on values the call has read.  Any statement and any   *)
(* request may fail, and the process may stop between two of them.         *)
(***************************************************************************)
EXTENDS Integers, FiniteSets

CONSTANTS
    Calls,      \* concurrent calls of CreatePayment
    Hooks,      \* webhooks that are processed at the same time
    MaxRows     \* bound: rows (and payments at YooKassa)

ASSUME MaxRowsAssumption == MaxRows \in Nat

Rows == 1..MaxRows

VARIABLES
    nrows,      \* rows inserted so far
    status,     \* row -> payments.status
    real,       \* rows whose payment_id is YooKassa's and not "local-..."
    url,        \* rows with a confirmation_url
    old,        \* rows created more than pendingExpiry ago
    remote,     \* row -> the state of YooKassa's payment with the row's key
    shown,      \* rows whose confirmation URL was given to the user
    notices,    \* payments whose notification YooKassa still repeats
    told,       \* rows for which notifyPaymentSucceeded ran
    cpc,        \* call -> what it does next
    crow,       \* call -> the row it read or inserted
    curl,       \* calls whose row had a confirmation_url when it was read
    ans,        \* call -> the status in YooKassa's answer
    hpc,        \* webhook -> what it does next
    hrow        \* webhook -> the payment it is about

database == <<nrows, status, real, url, old, told>>
yookassa == <<remote, shown, notices>>
calls == <<cpc, crow, curl, ans>>
hooks == <<hpc, hrow>>
vars == <<database, yookassa, calls, hooks>>

Statuses == {"pending", "succeeded", "canceled"}

TypeOK ==
    /\ nrows \in 0..MaxRows
    /\ status \in [Rows -> Statuses \cup {"none"}]
    /\ remote \in [Rows -> Statuses \cup {"none"}]
    /\ real \in SUBSET Rows /\ url \in SUBSET Rows /\ old \in SUBSET Rows
    /\ shown \in SUBSET Rows /\ notices \in SUBSET Rows /\ told \in SUBSET Rows
    /\ cpc \in [Calls -> {"idle", "expire", "insert", "reread", "ask", "update"}]
    /\ crow \in [Calls -> Rows \cup {0}]
    /\ curl \in SUBSET Calls
    /\ ans \in [Calls -> Statuses]
    /\ hpc \in [Hooks -> {"idle", "apply", "notify"}]
    /\ hrow \in [Hooks -> Rows \cup {0}]

Init ==
    /\ nrows = 0
    /\ status = [r \in Rows |-> "none"]
    /\ remote = [r \in Rows |-> "none"]
    /\ real = {} /\ url = {} /\ old = {}
    /\ shown = {} /\ notices = {} /\ told = {}
    /\ cpc = [c \in Calls |-> "idle"]
    /\ crow = [c \in Calls |-> 0]
    /\ curl = {}
    /\ ans = [c \in Calls |-> "pending"]
    /\ hpc = [h \in Hooks |-> "idle"]
    /\ hrow = [h \in Hooks |-> 0]

-----------------------------------------------------------------------------
\* CreatePayment.

IsPending(r) == status[r] = "pending"

\* The call goes on at pc with what it now knows of row r.
Read(c, r, pc) ==
    /\ cpc' = [cpc EXCEPT ![c] = pc]
    /\ crow' = [crow EXCEPT ![c] = r]
    /\ curl' = IF r \in url THEN curl \cup {c} ELSE curl \ {c}

Goto(c, pc) ==
    /\ cpc' = [cpc EXCEPT ![c] = pc]
    /\ UNCHANGED <<crow, curl>>

\* The call returns; what it knew is gone.
Leave(c) ==
    /\ cpc' = [cpc EXCEPT ![c] = "idle"]
    /\ crow' = [crow EXCEPT ![c] = 0]
    /\ curl' = curl \ {c}

\* An existing pending row is answered with its URL, or taken up again.
Reuse(c, r) ==
    \/ r \in url /\ Leave(c) /\ shown' = shown \cup {r}
    \/ r \notin url /\ Read(c, r, "ask") /\ UNCHANGED shown

\* GetPendingByUserAndAmount: no row, or an error, leads to a new row.
FindPending(c) ==
    /\ cpc[c] = "idle"
    /\ \/ \E r \in Rows : IsPending(r) /\ r \notin old /\ Reuse(c, r)
       \/ \E r \in Rows : IsPending(r) /\ r \in old /\ Read(c, r, "expire") /\ UNCHANGED shown
       \/ Goto(c, "insert") /\ UNCHANGED shown
    /\ UNCHANGED <<database, remote, notices, ans, hooks>>

\* Mutant: the row is cancelled whatever became of it since it was read.
ExpireStale_Unguarded(c) ==
    /\ cpc[c] = "expire"
    /\ status' = [status EXCEPT ![crow[c]] = "canceled"]
    /\ Goto(c, "insert")
    /\ UNCHANGED <<nrows, real, url, old, told, yookassa, ans, hooks>>

\* CancelIfPending of a row that has waited too long. When the statement
\* fails the row is used after all, as it was read.
ExpireStale(c) ==
    /\ cpc[c] = "expire"
    /\ \/ /\ status' = IF IsPending(crow[c]) THEN [status EXCEPT ![crow[c]] = "canceled"] ELSE status
          /\ Goto(c, "insert") /\ UNCHANGED shown
       \/ /\ c \in curl /\ Leave(c) /\ shown' = shown \cup {crow[c]}
          /\ UNCHANGED status
       \/ c \notin curl /\ Goto(c, "ask") /\ UNCHANGED <<status, shown>>
    /\ UNCHANGED <<nrows, real, url, old, told, remote, notices, ans, hooks>>

\* Mutant: no index on the pending rows, the first look is all there is.
IndexAllows_Missing(r) == TRUE

\* The partial unique index on (user_id, amount_kopecks) WHERE pending.
IndexAllows(r) == \A q \in Rows \ {r} : ~IsPending(q)

\* The insertion of the pending row; a unique violation is followed by a
\* second look, any other error ends the call.
InsertRow(c) ==
    /\ cpc[c] = "insert"
    /\ \/ /\ nrows < MaxRows /\ IndexAllows(nrows + 1)
          /\ nrows' = nrows + 1
          /\ status' = [status EXCEPT ![nrows + 1] = "pending"]
          /\ Read(c, nrows + 1, "ask")
       \/ /\ ~IndexAllows(0)
          /\ Goto(c, "reread") /\ UNCHANGED <<nrows, status>>
       \/ Leave(c) /\ UNCHANGED <<nrows, status>>
    /\ UNCHANGED <<real, url, old, told, yookassa, ans, hooks>>

\* After a unique violation: the row of the other call, if it still waits.
Reread(c) ==
    /\ cpc[c] = "reread"
    /\ \/ \E r \in Rows : IsPending(r) /\ Reuse(c, r)
       \/ Leave(c) /\ UNCHANGED shown
    /\ UNCHANGED <<database, remote, notices, ans, hooks>>

\* The request to YooKassa: it may not arrive, its answer may be lost, or the
\* answer comes back with the state of the one payment of this key.
AskYooKassa(c) ==
    LET r == crow[c]
        made == IF remote[r] = "none" THEN [remote EXCEPT ![r] = "pending"] ELSE remote
    IN /\ cpc[c] = "ask"
       /\ \/ Leave(c) /\ UNCHANGED <<remote, ans>>
          \/ remote' = made /\ Leave(c) /\ UNCHANGED ans
          \/ remote' = made /\ Goto(c, "update") /\ ans' = [ans EXCEPT ![c] = made[r]]
       /\ UNCHANGED <<database, shown, notices, hooks>>

\* UpdateAfterCreate writes what the answer said, whatever the row says now;
\* the index may refuse it, or it may fail twice, and both are only logged.
\* A payment that waits has a confirmation URL, which the user gets.
UpdateAfterCreate(c) ==
    LET r == crow[c]
    IN /\ cpc[c] = "update"
       /\ \/ /\ ans[c] = "pending" => IndexAllows(r)
             /\ status' = [status EXCEPT ![r] = ans[c]]
             /\ real' = real \cup {r}
             /\ url' = IF ans[c] = "pending" THEN url \cup {r} ELSE url \ {r}
          \/ UNCHANGED <<status, real, url>>
       /\ shown' = IF ans[c] = "pending" THEN shown \cup {r} ELSE shown
       /\ Leave(c)
       /\ ans' = [ans EXCEPT ![c] = "pending"]
       /\ UNCHANGED <<nrows, old, told, remote, notices, hooks>>

-----------------------------------------------------------------------------
\* HandleWebhook, for a notification that YooKassa sent.

\* The state of the payment is asked of YooKassa and the row is looked up by
\* payment_id. When either fails the answer is 500 and YooKassa repeats.
\* Its two events are sent of final states, so event and state agree.
HookArrives(h) ==
    /\ hpc[h] = "idle"
    /\ \E r \in notices \cap real :
          /\ hpc' = [hpc EXCEPT ![h] = "apply"]
          /\ hrow' = [hrow EXCEPT ![h] = r]
    /\ UNCHANGED <<database, yookassa, calls>>

HookAnswers(h, r) ==
    /\ hpc' = [hpc EXCEPT ![h] = "idle"]
    /\ hrow' = [hrow EXCEPT ![h] = 0]
    /\ notices' = notices \ {r}

\* Mutant: the event is believed, the state is not compared with it.
ApplyHook_AnyFinal(h) ==
    LET r == hrow[h]
    IN /\ hpc[h] = "apply"
       /\ \/ /\ remote[r] \in {"succeeded", "canceled"} /\ IsPending(r)
             /\ status' = [status EXCEPT ![r] = "succeeded"]
             /\ hpc' = [hpc EXCEPT ![h] = "notify"]
             /\ UNCHANGED <<notices, hrow>>
          \/ ~IsPending(r) /\ HookAnswers(h, r) /\ UNCHANGED status
       /\ UNCHANGED <<nrows, real, url, old, told, remote, shown, calls>>

\* MarkSucceededIfPending and CancelIfPending: one statement that changes the
\* row only while it is pending. Only the first one to pay the row notifies.
ApplyHook(h) ==
    LET r == hrow[h]
    IN /\ hpc[h] = "apply"
       /\ \/ /\ remote[r] = "succeeded" /\ IsPending(r)
             /\ status' = [status EXCEPT ![r] = "succeeded"]
             /\ hpc' = [hpc EXCEPT ![h] = "notify"]
             /\ UNCHANGED <<notices, hrow>>
          \/ /\ remote[r] = "canceled" /\ IsPending(r)
             /\ status' = [status EXCEPT ![r] = "canceled"]
             /\ HookAnswers(h, r)
          \/ ~IsPending(r) /\ HookAnswers(h, r) /\ UNCHANGED status
       /\ UNCHANGED <<nrows, real, url, old, told, remote, shown, calls>>

\* notifyPaymentSucceeded; its error is logged and the answer is 200.
NotifyPaid(h) ==
    /\ hpc[h] = "notify"
    /\ told' \in {told, told \cup {hrow[h]}}
    /\ HookAnswers(h, hrow[h])
    /\ UNCHANGED <<nrows, status, real, url, old, remote, shown, calls>>

\* Mutant: every webhook is answered with 200, those that failed too.
HookFails_AnswersOk(h) ==
    /\ hpc[h] # "idle"
    /\ HookAnswers(h, hrow[h])
    /\ UNCHANGED <<database, remote, shown, calls>>

\* A statement of the webhook fails, or the process stops: no answer but 500.
HookFails(h) ==
    /\ hpc[h] # "idle"
    /\ hpc' = [hpc EXCEPT ![h] = "idle"]
    /\ hrow' = [hrow EXCEPT ![h] = 0]
    /\ UNCHANGED <<database, yookassa, calls>>

-----------------------------------------------------------------------------
\* The surroundings.

\* A payment reaches a final state: the user pays on the page he was given,
\* or YooKassa gives the payment up. It notifies the site.
Settle(r, final) ==
    /\ remote[r] = "pending"
    /\ final = "succeeded" => r \in shown
    /\ remote' = [remote EXCEPT ![r] = final]
    /\ notices' = notices \cup {r}
    /\ UNCHANGED <<database, shown, calls, hooks>>

\* YooKassa repeats a notification for a day and then stops.
GiveUpNotice(r) ==
    /\ r \in notices
    /\ notices' = notices \ {r}
    /\ UNCHANGED <<database, remote, shown, calls, hooks>>

\* pendingExpiry passes. A call that read the row before goes on.
Age(r) ==
    /\ r \in 1..nrows
    /\ old' = old \cup {r}
    /\ UNCHANGED <<nrows, status, real, url, told, yookassa, calls, hooks>>

\* The process stops: calls end where they are, the rows stay.
Crash ==
    /\ cpc' = [c \in Calls |-> "idle"]
    /\ crow' = [c \in Calls |-> 0]
    /\ curl' = {}
    /\ ans' = [c \in Calls |-> "pending"]
    /\ hpc' = [h \in Hooks |-> "idle"]
    /\ hrow' = [h \in Hooks |-> 0]
    /\ UNCHANGED <<database, yookassa>>

CreatePayment(c) ==
    FindPending(c) \/ ExpireStale(c) \/ InsertRow(c) \/ Reread(c) \/ AskYooKassa(c) \/ UpdateAfterCreate(c)

HandleWebhook(h) == HookArrives(h) \/ ApplyHook(h) \/ NotifyPaid(h) \/ HookFails(h)

Surroundings(r) == (\E final \in {"succeeded", "canceled"} : Settle(r, final)) \/ GiveUpNotice(r) \/ Age(r)

Next ==
    \/ \E c \in Calls : CreatePayment(c)
    \/ \E h \in Hooks : HandleWebhook(h)
    \/ \E r \in Rows : Surroundings(r)
    \/ Crash

Spec == Init /\ [][Next]_vars

-----------------------------------------------------------------------------
\* However many calls overlap, fail or stop half-way, the user never has two
\* payments of the same amount to pay at YooKassa, unless one of them is
\* older than pendingExpiry: the row is there before the request and every
\* call that finds it uses its key.
OnePayable ==
    \A p, q \in Rows \ old : remote[p] = "pending" /\ remote[q] = "pending" => p = q

\* A payment that the database calls succeeded, or the user was notified of,
\* was paid at YooKassa.
SucceededIsPaid ==
    \A r \in Rows : status[r] = "succeeded" \/ r \in told => remote[r] = "succeeded"

\* A late answer: a call is about to write "pending" that it read at YooKassa.
LateAnswer(r) == \E c \in Calls : cpc[c] = "update" /\ crow[c] = r /\ ans[c] = "pending"

\* A row leaves "succeeded" in one way only, by the write of a call that got
\* its answer before the payment was made: neither the expiry of a row nor a
\* repeated, delayed or second webhook takes a payment back.
OnlyLateAnswerUndoes ==
    [][\A r \in Rows : status[r] = "succeeded" /\ status'[r] # "succeeded" => LateAnswer(r)]_vars

\* An answer of 200 ends a notification for good, so the row must be settled
\* by then (handler.go:143, :173): as YooKassa settled the payment, or as
\* cancelled if it was expired here, whatever failed, crashed or was processed
\* twice before.  The one exception is a row that this webhook has set to
\* succeeded and a late answer has undone while it notified.
AnsweredIsRecorded ==
    [][\A h \in Hooks : hpc'[h] # hpc[h] /\ hrow[h] \in notices \ notices' =>
          LET r == hrow[h]
          IN \/ status'[r] = remote[r]
             \/ status'[r] = "canceled" /\ r \in old
             \/ status'[r] = "pending" /\ hpc[h] = "notify"]_vars

\* What the comment at service.go:587 promises: a succeeded payment is not
\* taken back. Two calls that ask YooKassa for the same row break it.
SucceededStays ==
    [][\A r \in Rows : status[r] = "succeeded" => status'[r] = "succeeded"]_vars
=============================================================================
