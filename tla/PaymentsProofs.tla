--------------------------- MODULE PaymentsProofs ---------------------------
(***************************************************************************)
(* The payments, for any number of calls, webhooks and rows.               *)
(*                                                                         *)
(* OnePayable and SucceededIsPaid are not inductive: a call carries an     *)
(* answer that it has yet to write, and a webhook a row that it has yet to *)
(* notify of.  IInv adds what such a call knows (AnswerSound), that a      *)
(* payment that may still be paid has a row that still waits, unless the   *)
(* row is old (OpenIsPending), and that one row waits (OnePending).        *)
(* NoticeInv adds what AnsweredIsRecorded needs: YooKassa notifies of what *)
(* is final, and a row is cancelled for one of two reasons only.           *)
(***************************************************************************)
EXTENDS Payments, TLAPS

\* A row that is not inserted yet has no state, here and at YooKassa.
RowsNumbered == \A r \in Rows : r > nrows => status[r] = "none" /\ remote[r] = "none"

\* A call works on a row of the table, and expires only an old one.
CallsKnowRow ==
    \A c \in Calls :
        /\ cpc[c] \in {"expire", "ask", "update"} => crow[c] \in 1..nrows
        /\ cpc[c] = "expire" => crow[c] \in old

\* The unique index: one row waits.
OnePending == \A p, q \in Rows : IsPending(p) /\ IsPending(q) => p = q

\* What is not settled at YooKassa is not settled here, unless it is old.
OpenIsPending ==
    \A r \in 1..nrows : remote[r] \in {"none", "pending"} => IsPending(r) \/ r \in old

\* An answer says what YooKassa says, or that the payment waited when asked.
AnswerSound ==
    \A c \in Calls : cpc[c] = "update" =>
        remote[crow[c]] # "none" /\ ans[c] \in {"pending", remote[crow[c]]}

\* A webhook that notifies of a payment does so of a paid one.
HooksKnowRow ==
    \A h \in Hooks :
        /\ hpc[h] # "idle" => hrow[h] \in Rows
        /\ hpc[h] = "notify" => remote[hrow[h]] = "succeeded"

IInv ==
    /\ TypeOK
    /\ RowsNumbered
    /\ CallsKnowRow
    /\ OnePending
    /\ OpenIsPending
    /\ AnswerSound
    /\ HooksKnowRow
    /\ SucceededIsPaid

LEMMA InitHolds == Init => IInv
BY MaxRowsAssumption DEF Init, IInv, TypeOK, Statuses, Rows, RowsNumbered, CallsKnowRow,
   OnePending, OpenIsPending, AnswerSound, HooksKnowRow, SucceededIsPaid, IsPending

-----------------------------------------------------------------------------
LEMMA FindPendingKeeps ==
    ASSUME IInv, NEW c \in Calls, FindPending(c)
    PROVE  IInv'
<1> USE MaxRowsAssumption DEF IInv, FindPending, Reuse, Read, Goto, Leave, IsPending, TypeOK, Statuses, Rows, vars, database, yookassa, calls, hooks
<1>1. TypeOK'
  OBVIOUS
<1>2. RowsNumbered'
  BY DEF RowsNumbered, CallsKnowRow
<1>3. CallsKnowRow'
  BY DEF CallsKnowRow, RowsNumbered
<1>4. OnePending'
  BY DEF OnePending
<1>5. OpenIsPending'
  BY DEF OpenIsPending, CallsKnowRow, RowsNumbered, AnswerSound
<1>6. AnswerSound'
  BY DEF AnswerSound, CallsKnowRow
<1>7. HooksKnowRow'
  BY DEF HooksKnowRow, AnswerSound
<1>8. SucceededIsPaid'
  BY DEF SucceededIsPaid, AnswerSound, HooksKnowRow, CallsKnowRow
<1> QED
  BY <1>1, <1>2, <1>3, <1>4, <1>5, <1>6, <1>7, <1>8

LEMMA ExpireStaleKeeps ==
    ASSUME IInv, NEW c \in Calls, ExpireStale(c)
    PROVE  IInv'
<1> USE MaxRowsAssumption DEF IInv, ExpireStale, Goto, Leave, IsPending, TypeOK, Statuses, Rows, vars, database, yookassa, calls, hooks
<1>1. TypeOK'
  <2>1. nrows' \in 0..MaxRows
    BY DEF CallsKnowRow, HooksKnowRow
  <2>2. status' \in [Rows -> Statuses \cup {"none"}]
    BY DEF CallsKnowRow, HooksKnowRow
  <2>3. remote' \in [Rows -> Statuses \cup {"none"}]
    BY DEF CallsKnowRow, HooksKnowRow
  <2>4. real' \in SUBSET Rows /\ url' \in SUBSET Rows /\ old' \in SUBSET Rows
    BY DEF CallsKnowRow, HooksKnowRow
  <2>5. shown' \in SUBSET Rows /\ notices' \in SUBSET Rows /\ told' \in SUBSET Rows
    BY DEF CallsKnowRow, HooksKnowRow
  <2>6. cpc' \in [Calls -> {"idle", "expire", "insert", "reread", "ask", "update"}]
    BY DEF CallsKnowRow, HooksKnowRow
  <2>7. crow' \in [Calls -> Rows \cup {0}] /\ curl' \in SUBSET Calls
    BY DEF CallsKnowRow, HooksKnowRow
  <2>8. ans' \in [Calls -> Statuses]
    BY DEF CallsKnowRow, HooksKnowRow
  <2>9. hpc' \in [Hooks -> {"idle", "apply", "notify"}] /\ hrow' \in [Hooks -> Rows \cup {0}]
    BY DEF CallsKnowRow, HooksKnowRow
  <2> QED
    BY <2>1, <2>2, <2>3, <2>4, <2>5, <2>6, <2>7, <2>8, <2>9
<1>2. RowsNumbered'
  BY DEF RowsNumbered, CallsKnowRow
<1>3. CallsKnowRow'
  BY DEF CallsKnowRow, RowsNumbered
<1>4. OnePending'
  BY DEF OnePending
<1>5. OpenIsPending'
  BY DEF OpenIsPending, CallsKnowRow, RowsNumbered, AnswerSound
<1>6. AnswerSound'
  BY DEF AnswerSound, CallsKnowRow
<1>7. HooksKnowRow'
  BY DEF HooksKnowRow, AnswerSound
<1>8. SucceededIsPaid'
  BY DEF SucceededIsPaid, AnswerSound, HooksKnowRow, CallsKnowRow
<1> QED
  BY <1>1, <1>2, <1>3, <1>4, <1>5, <1>6, <1>7, <1>8

LEMMA InsertRowKeeps ==
    ASSUME IInv, NEW c \in Calls, InsertRow(c)
    PROVE  IInv'
<1> USE MaxRowsAssumption DEF IInv, InsertRow, Read, Goto, Leave, IndexAllows, IsPending, TypeOK, Statuses, Rows, vars, database, yookassa, calls, hooks
<1>1. TypeOK'
  <2>1. nrows' \in 0..MaxRows
    BY DEF CallsKnowRow, HooksKnowRow
  <2>2. status' \in [Rows -> Statuses \cup {"none"}]
    BY DEF CallsKnowRow, HooksKnowRow
  <2>3. remote' \in [Rows -> Statuses \cup {"none"}]
    BY DEF CallsKnowRow, HooksKnowRow
  <2>4. real' \in SUBSET Rows /\ url' \in SUBSET Rows /\ old' \in SUBSET Rows
    BY DEF CallsKnowRow, HooksKnowRow
  <2>5. shown' \in SUBSET Rows /\ notices' \in SUBSET Rows /\ told' \in SUBSET Rows
    BY DEF CallsKnowRow, HooksKnowRow
  <2>6. cpc' \in [Calls -> {"idle", "expire", "insert", "reread", "ask", "update"}]
    BY DEF CallsKnowRow, HooksKnowRow
  <2>7. crow' \in [Calls -> Rows \cup {0}] /\ curl' \in SUBSET Calls
    <3>1. CASE nrows < MaxRows /\ Read(c, nrows + 1, "ask")
      <4>1. nrows + 1 \in Rows
        BY <3>1
      <4> QED
        BY <3>1, <4>1
    <3>2. CASE Goto(c, "reread") \/ Leave(c)
      BY <3>2
    <3> QED
      BY <3>1, <3>2
  <2>8. ans' \in [Calls -> Statuses]
    BY DEF CallsKnowRow, HooksKnowRow
  <2>9. hpc' \in [Hooks -> {"idle", "apply", "notify"}] /\ hrow' \in [Hooks -> Rows \cup {0}]
    BY DEF CallsKnowRow, HooksKnowRow
  <2> QED
    BY <2>1, <2>2, <2>3, <2>4, <2>5, <2>6, <2>7, <2>8, <2>9
<1>2. RowsNumbered'
  BY DEF RowsNumbered, CallsKnowRow
<1>3. CallsKnowRow'
  BY DEF CallsKnowRow, RowsNumbered
<1>4. OnePending'
  BY DEF OnePending
<1>5. OpenIsPending'
  BY DEF OpenIsPending, CallsKnowRow, RowsNumbered, AnswerSound
<1>6. AnswerSound'
  BY DEF AnswerSound, CallsKnowRow
<1>7. HooksKnowRow'
  BY DEF HooksKnowRow, AnswerSound
<1>8. SucceededIsPaid'
  BY DEF SucceededIsPaid, AnswerSound, HooksKnowRow, CallsKnowRow
<1> QED
  BY <1>1, <1>2, <1>3, <1>4, <1>5, <1>6, <1>7, <1>8

LEMMA RereadKeeps ==
    ASSUME IInv, NEW c \in Calls, Reread(c)
    PROVE  IInv'
<1> USE MaxRowsAssumption DEF IInv, Reread, Reuse, Read, Goto, Leave, IsPending, TypeOK, Statuses, Rows, vars, database, yookassa, calls, hooks
<1>1. TypeOK'
  OBVIOUS
<1>2. RowsNumbered'
  BY DEF RowsNumbered, CallsKnowRow
<1>3. CallsKnowRow'
  BY DEF CallsKnowRow, RowsNumbered
<1>4. OnePending'
  BY DEF OnePending
<1>5. OpenIsPending'
  BY DEF OpenIsPending, CallsKnowRow, RowsNumbered, AnswerSound
<1>6. AnswerSound'
  BY DEF AnswerSound, CallsKnowRow
<1>7. HooksKnowRow'
  BY DEF HooksKnowRow, AnswerSound
<1>8. SucceededIsPaid'
  BY DEF SucceededIsPaid, AnswerSound, HooksKnowRow, CallsKnowRow
<1> QED
  BY <1>1, <1>2, <1>3, <1>4, <1>5, <1>6, <1>7, <1>8

LEMMA AskYooKassaKeeps ==
    ASSUME IInv, NEW c \in Calls, AskYooKassa(c)
    PROVE  IInv'
<1> USE MaxRowsAssumption DEF IInv, AskYooKassa, Goto, Leave, IsPending, TypeOK, Statuses, Rows, vars, database, yookassa, calls, hooks
<1>1. TypeOK'
  <2>1. nrows' \in 0..MaxRows
    BY DEF CallsKnowRow, HooksKnowRow
  <2>2. status' \in [Rows -> Statuses \cup {"none"}]
    BY DEF CallsKnowRow, HooksKnowRow
  <2>3. remote' \in [Rows -> Statuses \cup {"none"}]
    <3>1. remote' = remote \/ remote' = [remote EXCEPT ![crow[c]] = "pending"]
      OBVIOUS
    <3> QED
      BY <3>1
  <2>4. real' \in SUBSET Rows /\ url' \in SUBSET Rows /\ old' \in SUBSET Rows
    BY DEF CallsKnowRow, HooksKnowRow
  <2>5. shown' \in SUBSET Rows /\ notices' \in SUBSET Rows /\ told' \in SUBSET Rows
    BY DEF CallsKnowRow, HooksKnowRow
  <2>6. cpc' \in [Calls -> {"idle", "expire", "insert", "reread", "ask", "update"}]
    <3>1. cpc' = [cpc EXCEPT ![c] = "idle"] \/ cpc' = [cpc EXCEPT ![c] = "update"]
      OBVIOUS
    <3> QED
      BY <3>1
  <2>7. crow' \in [Calls -> Rows \cup {0}] /\ curl' \in SUBSET Calls
    BY DEF CallsKnowRow, HooksKnowRow
  <2>8. ans' \in [Calls -> Statuses]
    BY DEF CallsKnowRow, HooksKnowRow
  <2>9. hpc' \in [Hooks -> {"idle", "apply", "notify"}] /\ hrow' \in [Hooks -> Rows \cup {0}]
    BY DEF CallsKnowRow, HooksKnowRow
  <2> QED
    BY <2>1, <2>2, <2>3, <2>4, <2>5, <2>6, <2>7, <2>8, <2>9
<1>2. RowsNumbered'
  BY DEF RowsNumbered, CallsKnowRow
<1>3. CallsKnowRow'
  BY DEF CallsKnowRow, RowsNumbered
<1>4. OnePending'
  BY DEF OnePending
<1>5. OpenIsPending'
  BY DEF OpenIsPending, CallsKnowRow, RowsNumbered, AnswerSound
<1>6. AnswerSound'
  BY DEF AnswerSound, CallsKnowRow
<1>7. HooksKnowRow'
  BY DEF HooksKnowRow, AnswerSound
<1>8. SucceededIsPaid'
  BY DEF SucceededIsPaid, AnswerSound, HooksKnowRow, CallsKnowRow
<1> QED
  BY <1>1, <1>2, <1>3, <1>4, <1>5, <1>6, <1>7, <1>8

LEMMA UpdateAfterCreateKeeps ==
    ASSUME IInv, NEW c \in Calls, UpdateAfterCreate(c)
    PROVE  IInv'
<1> USE MaxRowsAssumption DEF IInv, UpdateAfterCreate, Leave, IndexAllows, IsPending, TypeOK, Statuses, Rows, vars, database, yookassa, calls, hooks
<1>1. TypeOK'
  <2>1. nrows' \in 0..MaxRows
    BY DEF CallsKnowRow, HooksKnowRow
  <2>2. status' \in [Rows -> Statuses \cup {"none"}]
    BY DEF CallsKnowRow, HooksKnowRow
  <2>3. remote' \in [Rows -> Statuses \cup {"none"}]
    BY DEF CallsKnowRow, HooksKnowRow
  <2>4. real' \in SUBSET Rows /\ url' \in SUBSET Rows /\ old' \in SUBSET Rows
    <3>1. crow[c] \in Rows
      BY DEF CallsKnowRow
    <3>2. real' = real \/ real' = real \cup {crow[c]}
      OBVIOUS
    <3>3. url' = url \/ url' = url \cup {crow[c]} \/ url' = url \ {crow[c]}
      OBVIOUS
    <3> QED
      BY <3>1, <3>2, <3>3
  <2>5. shown' \in SUBSET Rows /\ notices' \in SUBSET Rows /\ told' \in SUBSET Rows
    <3>1. crow[c] \in Rows
      BY DEF CallsKnowRow
    <3>2. shown' = shown \/ shown' = shown \cup {crow[c]}
      OBVIOUS
    <3> QED
      BY <3>1, <3>2
  <2>6. cpc' \in [Calls -> {"idle", "expire", "insert", "reread", "ask", "update"}]
    BY DEF CallsKnowRow, HooksKnowRow
  <2>7. crow' \in [Calls -> Rows \cup {0}] /\ curl' \in SUBSET Calls
    BY DEF CallsKnowRow, HooksKnowRow
  <2>8. ans' \in [Calls -> Statuses]
    BY DEF CallsKnowRow, HooksKnowRow
  <2>9. hpc' \in [Hooks -> {"idle", "apply", "notify"}] /\ hrow' \in [Hooks -> Rows \cup {0}]
    BY DEF CallsKnowRow, HooksKnowRow
  <2> QED
    BY <2>1, <2>2, <2>3, <2>4, <2>5, <2>6, <2>7, <2>8, <2>9
<1>2. RowsNumbered'
  BY DEF RowsNumbered, CallsKnowRow
<1>3. CallsKnowRow'
  BY DEF CallsKnowRow, RowsNumbered
<1>4. OnePending'
  BY DEF OnePending
<1>5. OpenIsPending'
  BY DEF OpenIsPending, CallsKnowRow, RowsNumbered, AnswerSound
<1>6. AnswerSound'
  BY DEF AnswerSound, CallsKnowRow
<1>7. HooksKnowRow'
  BY DEF HooksKnowRow, AnswerSound
<1>8. SucceededIsPaid'
  BY DEF SucceededIsPaid, AnswerSound, HooksKnowRow, CallsKnowRow
<1> QED
  BY <1>1, <1>2, <1>3, <1>4, <1>5, <1>6, <1>7, <1>8

LEMMA HookArrivesKeeps ==
    ASSUME IInv, NEW h \in Hooks, HookArrives(h)
    PROVE  IInv'
<1> USE MaxRowsAssumption DEF IInv, HookArrives, IsPending, TypeOK, Statuses, Rows, vars, database, yookassa, calls, hooks
<1>1. TypeOK'
  OBVIOUS
<1>2. RowsNumbered'
  BY DEF RowsNumbered, CallsKnowRow
<1>3. CallsKnowRow'
  BY DEF CallsKnowRow, RowsNumbered
<1>4. OnePending'
  BY DEF OnePending
<1>5. OpenIsPending'
  BY DEF OpenIsPending, CallsKnowRow, RowsNumbered, AnswerSound
<1>6. AnswerSound'
  BY DEF AnswerSound, CallsKnowRow
<1>7. HooksKnowRow'
  BY DEF HooksKnowRow, AnswerSound
<1>8. SucceededIsPaid'
  BY DEF SucceededIsPaid, AnswerSound, HooksKnowRow, CallsKnowRow
<1> QED
  BY <1>1, <1>2, <1>3, <1>4, <1>5, <1>6, <1>7, <1>8

LEMMA ApplyHookKeeps ==
    ASSUME IInv, NEW h \in Hooks, ApplyHook(h)
    PROVE  IInv'
<1> USE MaxRowsAssumption DEF IInv, ApplyHook, HookAnswers, IsPending, TypeOK, Statuses, Rows, vars, database, yookassa, calls, hooks
<1>1. TypeOK'
  OBVIOUS
<1>2. RowsNumbered'
  BY DEF RowsNumbered, CallsKnowRow
<1>3. CallsKnowRow'
  BY DEF CallsKnowRow, RowsNumbered
<1>4. OnePending'
  BY DEF OnePending
<1>5. OpenIsPending'
  BY DEF OpenIsPending, CallsKnowRow, RowsNumbered, AnswerSound
<1>6. AnswerSound'
  BY DEF AnswerSound, CallsKnowRow
<1>7. HooksKnowRow'
  BY DEF HooksKnowRow, AnswerSound
<1>8. SucceededIsPaid'
  BY DEF SucceededIsPaid, AnswerSound, HooksKnowRow, CallsKnowRow
<1> QED
  BY <1>1, <1>2, <1>3, <1>4, <1>5, <1>6, <1>7, <1>8

LEMMA NotifyPaidKeeps ==
    ASSUME IInv, NEW h \in Hooks, NotifyPaid(h)
    PROVE  IInv'
<1> USE MaxRowsAssumption DEF IInv, NotifyPaid, HookAnswers, IsPending, TypeOK, Statuses, Rows, vars, database, yookassa, calls, hooks
<1>1. TypeOK'
  <2>1. nrows' \in 0..MaxRows
    BY DEF CallsKnowRow, HooksKnowRow
  <2>2. status' \in [Rows -> Statuses \cup {"none"}]
    BY DEF CallsKnowRow, HooksKnowRow
  <2>3. remote' \in [Rows -> Statuses \cup {"none"}]
    BY DEF CallsKnowRow, HooksKnowRow
  <2>4. real' \in SUBSET Rows /\ url' \in SUBSET Rows /\ old' \in SUBSET Rows
    BY DEF CallsKnowRow, HooksKnowRow
  <2>5. shown' \in SUBSET Rows /\ notices' \in SUBSET Rows /\ told' \in SUBSET Rows
    BY DEF CallsKnowRow, HooksKnowRow
  <2>6. cpc' \in [Calls -> {"idle", "expire", "insert", "reread", "ask", "update"}]
    BY DEF CallsKnowRow, HooksKnowRow
  <2>7. crow' \in [Calls -> Rows \cup {0}] /\ curl' \in SUBSET Calls
    BY DEF CallsKnowRow, HooksKnowRow
  <2>8. ans' \in [Calls -> Statuses]
    BY DEF CallsKnowRow, HooksKnowRow
  <2>9. hpc' \in [Hooks -> {"idle", "apply", "notify"}] /\ hrow' \in [Hooks -> Rows \cup {0}]
    BY DEF CallsKnowRow, HooksKnowRow
  <2> QED
    BY <2>1, <2>2, <2>3, <2>4, <2>5, <2>6, <2>7, <2>8, <2>9
<1>2. RowsNumbered'
  BY DEF RowsNumbered, CallsKnowRow
<1>3. CallsKnowRow'
  BY DEF CallsKnowRow, RowsNumbered
<1>4. OnePending'
  BY DEF OnePending
<1>5. OpenIsPending'
  BY DEF OpenIsPending, CallsKnowRow, RowsNumbered, AnswerSound
<1>6. AnswerSound'
  BY DEF AnswerSound, CallsKnowRow
<1>7. HooksKnowRow'
  BY DEF HooksKnowRow, AnswerSound
<1>8. SucceededIsPaid'
  BY DEF SucceededIsPaid, AnswerSound, HooksKnowRow, CallsKnowRow
<1> QED
  BY <1>1, <1>2, <1>3, <1>4, <1>5, <1>6, <1>7, <1>8

LEMMA HookFailsKeeps ==
    ASSUME IInv, NEW h \in Hooks, HookFails(h)
    PROVE  IInv'
<1> USE MaxRowsAssumption DEF IInv, HookFails, IsPending, TypeOK, Statuses, Rows, vars, database, yookassa, calls, hooks
<1>1. TypeOK'
  OBVIOUS
<1>2. RowsNumbered'
  BY DEF RowsNumbered, CallsKnowRow
<1>3. CallsKnowRow'
  BY DEF CallsKnowRow, RowsNumbered
<1>4. OnePending'
  BY DEF OnePending
<1>5. OpenIsPending'
  BY DEF OpenIsPending, CallsKnowRow, RowsNumbered, AnswerSound
<1>6. AnswerSound'
  BY DEF AnswerSound, CallsKnowRow
<1>7. HooksKnowRow'
  BY DEF HooksKnowRow, AnswerSound
<1>8. SucceededIsPaid'
  BY DEF SucceededIsPaid, AnswerSound, HooksKnowRow, CallsKnowRow
<1> QED
  BY <1>1, <1>2, <1>3, <1>4, <1>5, <1>6, <1>7, <1>8

LEMMA GiveUpNoticeKeeps ==
    ASSUME IInv, NEW r \in Rows, GiveUpNotice(r)
    PROVE  IInv'
<1> USE MaxRowsAssumption DEF IInv, GiveUpNotice, IsPending, TypeOK, Statuses, Rows, vars, database, yookassa, calls, hooks
<1>1. TypeOK'
  OBVIOUS
<1>2. RowsNumbered'
  BY DEF RowsNumbered, CallsKnowRow
<1>3. CallsKnowRow'
  BY DEF CallsKnowRow, RowsNumbered
<1>4. OnePending'
  BY DEF OnePending
<1>5. OpenIsPending'
  BY DEF OpenIsPending, CallsKnowRow, RowsNumbered, AnswerSound
<1>6. AnswerSound'
  BY DEF AnswerSound, CallsKnowRow
<1>7. HooksKnowRow'
  BY DEF HooksKnowRow, AnswerSound
<1>8. SucceededIsPaid'
  BY DEF SucceededIsPaid, AnswerSound, HooksKnowRow, CallsKnowRow
<1> QED
  BY <1>1, <1>2, <1>3, <1>4, <1>5, <1>6, <1>7, <1>8

LEMMA AgeKeeps ==
    ASSUME IInv, NEW r \in Rows, Age(r)
    PROVE  IInv'
<1> USE MaxRowsAssumption DEF IInv, Age, IsPending, TypeOK, Statuses, Rows, vars, database, yookassa, calls, hooks
<1>1. TypeOK'
  OBVIOUS
<1>2. RowsNumbered'
  BY DEF RowsNumbered, CallsKnowRow
<1>3. CallsKnowRow'
  BY DEF CallsKnowRow, RowsNumbered
<1>4. OnePending'
  BY DEF OnePending
<1>5. OpenIsPending'
  BY DEF OpenIsPending, CallsKnowRow, RowsNumbered, AnswerSound
<1>6. AnswerSound'
  BY DEF AnswerSound, CallsKnowRow
<1>7. HooksKnowRow'
  BY DEF HooksKnowRow, AnswerSound
<1>8. SucceededIsPaid'
  BY DEF SucceededIsPaid, AnswerSound, HooksKnowRow, CallsKnowRow
<1> QED
  BY <1>1, <1>2, <1>3, <1>4, <1>5, <1>6, <1>7, <1>8

LEMMA SettleKeeps ==
    ASSUME IInv, NEW r \in Rows, NEW final \in {"succeeded", "canceled"}, Settle(r, final)
    PROVE  IInv'
<1> USE MaxRowsAssumption DEF IInv, Settle, IsPending, TypeOK, Statuses, Rows, vars, database, yookassa, calls, hooks
<1>1. TypeOK'
  OBVIOUS
<1>2. RowsNumbered'
  BY DEF RowsNumbered, CallsKnowRow
<1>3. CallsKnowRow'
  BY DEF CallsKnowRow, RowsNumbered
<1>4. OnePending'
  BY DEF OnePending
<1>5. OpenIsPending'
  BY DEF OpenIsPending, CallsKnowRow, RowsNumbered, AnswerSound
<1>6. AnswerSound'
  BY DEF AnswerSound, CallsKnowRow
<1>7. HooksKnowRow'
  BY DEF HooksKnowRow, AnswerSound
<1>8. SucceededIsPaid'
  BY DEF SucceededIsPaid, AnswerSound, HooksKnowRow, CallsKnowRow
<1> QED
  BY <1>1, <1>2, <1>3, <1>4, <1>5, <1>6, <1>7, <1>8

LEMMA CrashKeeps ==
    ASSUME IInv, Crash
    PROVE  IInv'
<1> USE MaxRowsAssumption DEF IInv, Crash, IsPending, TypeOK, Statuses, Rows, vars, database, yookassa, calls, hooks
<1>1. TypeOK'
  OBVIOUS
<1>2. RowsNumbered'
  BY DEF RowsNumbered, CallsKnowRow
<1>3. CallsKnowRow'
  BY DEF CallsKnowRow, RowsNumbered
<1>4. OnePending'
  BY DEF OnePending
<1>5. OpenIsPending'
  BY DEF OpenIsPending, CallsKnowRow, RowsNumbered, AnswerSound
<1>6. AnswerSound'
  BY DEF AnswerSound, CallsKnowRow
<1>7. HooksKnowRow'
  BY DEF HooksKnowRow, AnswerSound
<1>8. SucceededIsPaid'
  BY DEF SucceededIsPaid, AnswerSound, HooksKnowRow, CallsKnowRow
<1> QED
  BY <1>1, <1>2, <1>3, <1>4, <1>5, <1>6, <1>7, <1>8

LEMMA StutterKeeps == ASSUME IInv, UNCHANGED vars PROVE IInv'
BY DEF IInv, vars, database, yookassa, calls, hooks, TypeOK, RowsNumbered, CallsKnowRow,
   OnePending, OpenIsPending, AnswerSound, HooksKnowRow, SucceededIsPaid, IsPending

LEMMA NextKeeps == IInv /\ [Next]_vars => IInv'
<1> SUFFICES ASSUME IInv, [Next]_vars PROVE IInv'
  OBVIOUS
<1>1. CASE \E c \in Calls : CreatePayment(c)
  BY <1>1, FindPendingKeeps, ExpireStaleKeeps, InsertRowKeeps, RereadKeeps, AskYooKassaKeeps, UpdateAfterCreateKeeps DEF CreatePayment
<1>2. CASE \E h \in Hooks : HandleWebhook(h)
  BY <1>2, HookArrivesKeeps, ApplyHookKeeps, NotifyPaidKeeps, HookFailsKeeps DEF HandleWebhook
<1>3. CASE \E r \in Rows : Surroundings(r)
  BY <1>3, SettleKeeps, GiveUpNoticeKeeps, AgeKeeps DEF Surroundings
<1>4. CASE Crash
  BY <1>4, CrashKeeps
<1>5. CASE UNCHANGED vars
  BY <1>5, StutterKeeps
<1> QED
  BY <1>1, <1>2, <1>3, <1>4, <1>5 DEF Next

\* IInv holds in every reachable state, for any number of calls, webhooks
\* and rows.
THEOREM Invariance == Spec => []IInv
BY InitHolds, NextKeeps, PTL DEF Spec

\* The state of the payments is well typed (the fields of
\* service.go's rows and calls).
THEOREM TypeCorrect == Spec => []TypeOK
BY Invariance, PTL DEF IInv

LEMMA OpenIsOne == IInv => OnePayable
BY DEF IInv, OnePayable, OpenIsPending, OnePending, RowsNumbered, TypeOK, Rows

\* However many calls overlap, at most one payment that is not old can be
\* paid (CreatePayment, service.go:295-383).
THEOREM OnePayableCorrect == Spec => []OnePayable
BY Invariance, OpenIsOne, PTL

\* Recorded as paid, or notified, means paid (HandleWebhook and
\* UpdateAfterCreate).
THEOREM SucceededCorrect == Spec => []SucceededIsPaid
BY Invariance, PTL DEF IInv

LEMMA UndoneStep ==
    ASSUME IInv, [Next]_vars, NEW r \in Rows, status[r] = "succeeded", status'[r] # "succeeded"
    PROVE  LateAnswer(r)
<1>1. CASE \E c \in Calls : CreatePayment(c)
  <2> PICK c \in Calls : CreatePayment(c)
    BY <1>1
  <2>1. CASE UpdateAfterCreate(c)
    <3>1. crow[c] = r /\ status'[r] = ans[c] /\ cpc[c] = "update"
      BY <2>1 DEF UpdateAfterCreate, IInv, TypeOK, Statuses
    <3>2. ans[c] = "pending"
      BY <3>1 DEF IInv, AnswerSound, SucceededIsPaid
    <3> QED
      BY <3>1, <3>2 DEF LateAnswer
  <2>2. CASE InsertRow(c)
    <3>1. PICK n \in Rows : n > nrows /\ status' = [status EXCEPT ![n] = "pending"]
      <4>1. status' # status
        OBVIOUS
      <4>2. nrows < MaxRows /\ status' = [status EXCEPT ![nrows + 1] = "pending"]
        BY <2>2, <4>1 DEF InsertRow
      <4>3. nrows + 1 \in Rows /\ nrows + 1 > nrows
        BY <4>2, MaxRowsAssumption DEF IInv, TypeOK, Rows
      <4> QED
        BY <4>2, <4>3
    <3>2. status[n] = "none"
      BY <3>1 DEF IInv, RowsNumbered
    <3> QED
      BY <3>1, <3>2 DEF IInv, TypeOK
  <2>3. CASE ExpireStale(c)
    BY <2>3 DEF ExpireStale, IsPending, IInv, TypeOK, Rows
  <2>4. CASE FindPending(c) \/ Reread(c) \/ AskYooKassa(c)
    BY <2>4 DEF FindPending, Reread, AskYooKassa, database
  <2> QED
    BY <2>1, <2>2, <2>3, <2>4 DEF CreatePayment
<1>2. CASE \E h \in Hooks : HandleWebhook(h)
  BY <1>2 DEF HandleWebhook, HookArrives, ApplyHook, NotifyPaid, HookFails, IsPending, database, IInv, TypeOK, Rows
<1>3. CASE \/ \E q \in Rows : Surroundings(q)
           \/ Crash
           \/ UNCHANGED vars
  BY <1>3 DEF Surroundings, Settle, GiveUpNotice, Age, Crash, vars, database
<1> QED
  BY <1>1, <1>2, <1>3 DEF Next

\* The only way out of "succeeded" is the unguarded write of an answer that
\* was given before the payment (service.go:422).
THEOREM UndoneOnlyByLateAnswer == Spec => OnlyLateAnswerUndoes
<1>1. IInv /\ [Next]_vars =>
        [\A r \in Rows : status[r] = "succeeded" /\ status'[r] # "succeeded" => LateAnswer(r)]_vars
  BY UndoneStep
<1> QED
  BY <1>1, Invariance, PTL DEF Spec, OnlyLateAnswerUndoes

-----------------------------------------------------------------------------
\* What a notification that was answered has left.

Final == {"succeeded", "canceled"}

\* A row that was inserted has a status.
RowsHaveStatus == \A r \in 1..nrows : status[r] # "none"

\* A row is cancelled because the payment was, or because it is old.
CanceledSound == \A r \in Rows : status[r] = "canceled" => remote[r] = "canceled" \/ r \in old

\* YooKassa notifies of final states, and a webhook is about one of them.
NoticesFinal == \A r \in notices : remote[r] \in Final
HooksFinal == \A h \in Hooks : hpc[h] # "idle" => remote[hrow[h]] \in Final

NoticeInv == RowsHaveStatus /\ CanceledSound /\ NoticesFinal /\ HooksFinal

LEMMA InitNotice == Init => NoticeInv
BY MaxRowsAssumption DEF Init, Rows, NoticeInv, RowsHaveStatus, CanceledSound, NoticesFinal, HooksFinal

LEMMA FindPendingKeepsNotices ==
    ASSUME IInv, NoticeInv, NEW c \in Calls, FindPending(c)
    PROVE  NoticeInv'
<1> USE MaxRowsAssumption DEF IInv, TypeOK, Statuses, Rows, Final, NoticeInv, database, yookassa, calls, hooks, FindPending, Reuse, Read, Goto, Leave
<1>1. RowsHaveStatus'
  BY DEF RowsHaveStatus, CallsKnowRow
<1>2. CanceledSound'
  BY DEF CanceledSound, CallsKnowRow, AnswerSound, RowsNumbered
<1>3. NoticesFinal'
  BY DEF NoticesFinal
<1>4. HooksFinal'
  BY DEF HooksFinal, NoticesFinal, HooksKnowRow
<1> QED
  BY <1>1, <1>2, <1>3, <1>4

LEMMA ExpireStaleKeepsNotices ==
    ASSUME IInv, NoticeInv, NEW c \in Calls, ExpireStale(c)
    PROVE  NoticeInv'
<1> USE MaxRowsAssumption DEF IInv, TypeOK, Statuses, Rows, Final, NoticeInv, database, yookassa, calls, hooks, ExpireStale, Goto, Leave, IsPending
<1>1. RowsHaveStatus'
  BY DEF RowsHaveStatus, CallsKnowRow
<1>2. CanceledSound'
  BY DEF CanceledSound, CallsKnowRow, AnswerSound, RowsNumbered
<1>3. NoticesFinal'
  BY DEF NoticesFinal
<1>4. HooksFinal'
  BY DEF HooksFinal, NoticesFinal, HooksKnowRow
<1> QED
  BY <1>1, <1>2, <1>3, <1>4

LEMMA InsertRowKeepsNotices ==
    ASSUME IInv, NoticeInv, NEW c \in Calls, InsertRow(c)
    PROVE  NoticeInv'
<1> USE MaxRowsAssumption DEF IInv, TypeOK, Statuses, Rows, Final, NoticeInv, database, yookassa, calls, hooks, InsertRow, Read, Goto, Leave
<1>1. RowsHaveStatus'
  BY DEF RowsHaveStatus, CallsKnowRow
<1>2. CanceledSound'
  BY DEF CanceledSound, CallsKnowRow, AnswerSound, RowsNumbered
<1>3. NoticesFinal'
  BY DEF NoticesFinal
<1>4. HooksFinal'
  BY DEF HooksFinal, NoticesFinal, HooksKnowRow
<1> QED
  BY <1>1, <1>2, <1>3, <1>4

LEMMA RereadKeepsNotices ==
    ASSUME IInv, NoticeInv, NEW c \in Calls, Reread(c)
    PROVE  NoticeInv'
<1> USE MaxRowsAssumption DEF IInv, TypeOK, Statuses, Rows, Final, NoticeInv, database, yookassa, calls, hooks, Reread, Reuse, Read, Goto, Leave
<1>1. RowsHaveStatus'
  BY DEF RowsHaveStatus, CallsKnowRow
<1>2. CanceledSound'
  BY DEF CanceledSound, CallsKnowRow, AnswerSound, RowsNumbered
<1>3. NoticesFinal'
  BY DEF NoticesFinal
<1>4. HooksFinal'
  BY DEF HooksFinal, NoticesFinal, HooksKnowRow
<1> QED
  BY <1>1, <1>2, <1>3, <1>4

LEMMA AskYooKassaKeepsNotices ==
    ASSUME IInv, NoticeInv, NEW c \in Calls, AskYooKassa(c)
    PROVE  NoticeInv'
<1> USE MaxRowsAssumption DEF IInv, TypeOK, Statuses, Rows, Final, NoticeInv, database, yookassa, calls, hooks, AskYooKassa, Goto, Leave
<1>1. RowsHaveStatus'
  BY DEF RowsHaveStatus, CallsKnowRow
<1>2. CanceledSound'
  BY DEF CanceledSound, CallsKnowRow, AnswerSound, RowsNumbered
<1>3. NoticesFinal'
  BY DEF NoticesFinal
<1>4. HooksFinal'
  BY DEF HooksFinal, NoticesFinal, HooksKnowRow
<1> QED
  BY <1>1, <1>2, <1>3, <1>4

LEMMA UpdateAfterCreateKeepsNotices ==
    ASSUME IInv, NoticeInv, NEW c \in Calls, UpdateAfterCreate(c)
    PROVE  NoticeInv'
<1> USE MaxRowsAssumption DEF IInv, TypeOK, Statuses, Rows, Final, NoticeInv, database, yookassa, calls, hooks, UpdateAfterCreate, Leave
<1>1. RowsHaveStatus'
  BY DEF RowsHaveStatus, CallsKnowRow
<1>2. CanceledSound'
  BY DEF CanceledSound, CallsKnowRow, AnswerSound, RowsNumbered
<1>3. NoticesFinal'
  BY DEF NoticesFinal
<1>4. HooksFinal'
  BY DEF HooksFinal, NoticesFinal, HooksKnowRow
<1> QED
  BY <1>1, <1>2, <1>3, <1>4

LEMMA HookArrivesKeepsNotices ==
    ASSUME IInv, NoticeInv, NEW h \in Hooks, HookArrives(h)
    PROVE  NoticeInv'
<1> USE MaxRowsAssumption DEF IInv, TypeOK, Statuses, Rows, Final, NoticeInv, database, yookassa, calls, hooks, HookArrives
<1>1. RowsHaveStatus'
  BY DEF RowsHaveStatus, CallsKnowRow
<1>2. CanceledSound'
  BY DEF CanceledSound, CallsKnowRow, AnswerSound, RowsNumbered
<1>3. NoticesFinal'
  BY DEF NoticesFinal
<1>4. HooksFinal'
  BY DEF HooksFinal, NoticesFinal, HooksKnowRow
<1> QED
  BY <1>1, <1>2, <1>3, <1>4

LEMMA ApplyHookKeepsNotices ==
    ASSUME IInv, NoticeInv, NEW h \in Hooks, ApplyHook(h)
    PROVE  NoticeInv'
<1> USE MaxRowsAssumption DEF IInv, TypeOK, Statuses, Rows, Final, NoticeInv, database, yookassa, calls, hooks, ApplyHook, HookAnswers
<1>1. RowsHaveStatus'
  BY DEF RowsHaveStatus, CallsKnowRow
<1>2. CanceledSound'
  BY DEF CanceledSound, CallsKnowRow, AnswerSound, RowsNumbered
<1>3. NoticesFinal'
  BY DEF NoticesFinal
<1>4. HooksFinal'
  BY DEF HooksFinal, NoticesFinal, HooksKnowRow
<1> QED
  BY <1>1, <1>2, <1>3, <1>4

LEMMA NotifyPaidKeepsNotices ==
    ASSUME IInv, NoticeInv, NEW h \in Hooks, NotifyPaid(h)
    PROVE  NoticeInv'
<1> USE MaxRowsAssumption DEF IInv, TypeOK, Statuses, Rows, Final, NoticeInv, database, yookassa, calls, hooks, NotifyPaid, HookAnswers
<1>1. RowsHaveStatus'
  BY DEF RowsHaveStatus, CallsKnowRow
<1>2. CanceledSound'
  BY DEF CanceledSound, CallsKnowRow, AnswerSound, RowsNumbered
<1>3. NoticesFinal'
  BY DEF NoticesFinal
<1>4. HooksFinal'
  BY DEF HooksFinal, NoticesFinal, HooksKnowRow
<1> QED
  BY <1>1, <1>2, <1>3, <1>4

LEMMA HookFailsKeepsNotices ==
    ASSUME IInv, NoticeInv, NEW h \in Hooks, HookFails(h)
    PROVE  NoticeInv'
<1> USE MaxRowsAssumption DEF IInv, TypeOK, Statuses, Rows, Final, NoticeInv, database, yookassa, calls, hooks, HookFails
<1>1. RowsHaveStatus'
  BY DEF RowsHaveStatus, CallsKnowRow
<1>2. CanceledSound'
  BY DEF CanceledSound, CallsKnowRow, AnswerSound, RowsNumbered
<1>3. NoticesFinal'
  BY DEF NoticesFinal
<1>4. HooksFinal'
  BY DEF HooksFinal, NoticesFinal, HooksKnowRow
<1> QED
  BY <1>1, <1>2, <1>3, <1>4

LEMMA GiveUpNoticeKeepsNotices ==
    ASSUME IInv, NoticeInv, NEW r \in Rows, GiveUpNotice(r)
    PROVE  NoticeInv'
<1> USE MaxRowsAssumption DEF IInv, TypeOK, Statuses, Rows, Final, NoticeInv, database, yookassa, calls, hooks, GiveUpNotice
<1>1. RowsHaveStatus'
  BY DEF RowsHaveStatus, CallsKnowRow
<1>2. CanceledSound'
  BY DEF CanceledSound, CallsKnowRow, AnswerSound, RowsNumbered
<1>3. NoticesFinal'
  BY DEF NoticesFinal
<1>4. HooksFinal'
  BY DEF HooksFinal, NoticesFinal, HooksKnowRow
<1> QED
  BY <1>1, <1>2, <1>3, <1>4

LEMMA AgeKeepsNotices ==
    ASSUME IInv, NoticeInv, NEW r \in Rows, Age(r)
    PROVE  NoticeInv'
<1> USE MaxRowsAssumption DEF IInv, TypeOK, Statuses, Rows, Final, NoticeInv, database, yookassa, calls, hooks, Age
<1>1. RowsHaveStatus'
  BY DEF RowsHaveStatus, CallsKnowRow
<1>2. CanceledSound'
  BY DEF CanceledSound, CallsKnowRow, AnswerSound, RowsNumbered
<1>3. NoticesFinal'
  BY DEF NoticesFinal
<1>4. HooksFinal'
  BY DEF HooksFinal, NoticesFinal, HooksKnowRow
<1> QED
  BY <1>1, <1>2, <1>3, <1>4

LEMMA SettleKeepsNotices ==
    ASSUME IInv, NoticeInv, NEW r \in Rows, NEW final \in Final, Settle(r, final)
    PROVE  NoticeInv'
<1> USE MaxRowsAssumption DEF IInv, TypeOK, Statuses, Rows, Final, NoticeInv, database, yookassa, calls, hooks, Settle
<1>1. RowsHaveStatus'
  BY DEF RowsHaveStatus, CallsKnowRow
<1>2. CanceledSound'
  BY DEF CanceledSound, CallsKnowRow, AnswerSound, RowsNumbered
<1>3. NoticesFinal'
  BY DEF NoticesFinal
<1>4. HooksFinal'
  BY DEF HooksFinal, NoticesFinal, HooksKnowRow
<1> QED
  BY <1>1, <1>2, <1>3, <1>4

LEMMA CrashKeepsNotices ==
    ASSUME IInv, NoticeInv, Crash
    PROVE  NoticeInv'
<1> USE MaxRowsAssumption DEF IInv, TypeOK, Statuses, Rows, Final, NoticeInv, database, yookassa, calls, hooks, Crash
<1>1. RowsHaveStatus'
  BY DEF RowsHaveStatus, CallsKnowRow
<1>2. CanceledSound'
  BY DEF CanceledSound, CallsKnowRow, AnswerSound, RowsNumbered
<1>3. NoticesFinal'
  BY DEF NoticesFinal
<1>4. HooksFinal'
  BY DEF HooksFinal, NoticesFinal, HooksKnowRow
<1> QED
  BY <1>1, <1>2, <1>3, <1>4

LEMMA NextKeepsNotices == IInv /\ NoticeInv /\ [Next]_vars => NoticeInv'
<1> SUFFICES ASSUME IInv, NoticeInv, [Next]_vars PROVE NoticeInv'
  OBVIOUS
<1>1. CASE \E c \in Calls : CreatePayment(c)
  BY <1>1, FindPendingKeepsNotices, ExpireStaleKeepsNotices, InsertRowKeepsNotices, RereadKeepsNotices, AskYooKassaKeepsNotices, UpdateAfterCreateKeepsNotices DEF CreatePayment
<1>2. CASE \E h \in Hooks : HandleWebhook(h)
  BY <1>2, HookArrivesKeepsNotices, ApplyHookKeepsNotices, NotifyPaidKeepsNotices, HookFailsKeepsNotices DEF HandleWebhook
<1>3. CASE \E r \in Rows : Surroundings(r)
  BY <1>3, SettleKeepsNotices, GiveUpNoticeKeepsNotices, AgeKeepsNotices DEF Surroundings, Final
<1>4. CASE Crash
  BY <1>4, CrashKeepsNotices
<1>5. CASE UNCHANGED vars
  BY <1>5 DEF vars, database, yookassa, calls, hooks, NoticeInv, RowsHaveStatus, CanceledSound, NoticesFinal, HooksFinal
<1> QED
  BY <1>1, <1>2, <1>3, <1>4, <1>5 DEF Next

\* Row r says what became of its payment, or was undone while h notified.
Recorded(h, r) ==
    \/ status'[r] = remote[r]
    \/ status'[r] = "canceled" /\ r \in old
    \/ status'[r] = "pending" /\ hpc[h] = "notify"

LEMMA ApplyRecords ==
    ASSUME IInv, NoticeInv, NEW h \in Hooks, ApplyHook(h) PROVE Recorded(h, hrow[h])
<1> USE DEF IInv, TypeOK, Rows, Statuses, NoticeInv
<1>1. hrow[h] \in Rows /\ remote[hrow[h]] \in Final
  BY DEF ApplyHook, HooksKnowRow, HooksFinal
<1>2. hrow[h] \in 1..nrows
  BY <1>1 DEF RowsNumbered, Final
<1>3. CASE IsPending(hrow[h])
  BY <1>1, <1>3 DEF ApplyHook, Recorded, IsPending
<1>4. CASE ~IsPending(hrow[h]) /\ UNCHANGED status
  <2>1. status[hrow[h]] \in Final
    BY <1>1, <1>2, <1>4 DEF RowsHaveStatus, IsPending, Final
  <2>2. status[hrow[h]] = "succeeded" => remote[hrow[h]] = "succeeded"
    BY <1>1 DEF SucceededIsPaid
  <2>3. status[hrow[h]] = "canceled" => remote[hrow[h]] = "canceled" \/ hrow[h] \in old
    BY <1>1 DEF CanceledSound
  <2> QED
    BY <1>4, <2>1, <2>2, <2>3 DEF Recorded, Final
<1> QED
  BY <1>3, <1>4 DEF ApplyHook

LEMMA NotifyRecords ==
    ASSUME IInv, NoticeInv, NEW h \in Hooks, NotifyPaid(h) PROVE Recorded(h, hrow[h])
<1> USE DEF IInv, TypeOK, Rows, Statuses, NoticeInv
<1>1. /\ hpc[h] = "notify" /\ hrow[h] \in Rows /\ remote[hrow[h]] = "succeeded"
      /\ UNCHANGED status
  BY DEF NotifyPaid, HooksKnowRow
<1>2. hrow[h] \in 1..nrows
  BY <1>1 DEF RowsNumbered
<1>3. status[hrow[h]] = "canceled" => hrow[h] \in old
  BY <1>1 DEF CanceledSound
<1>4. status[hrow[h]] \in Statuses
  BY <1>1, <1>2 DEF RowsHaveStatus
<1> QED
  BY <1>1, <1>3, <1>4 DEF Recorded

LEMMA AnsweredStep ==
    ASSUME IInv, NoticeInv, [Next]_vars,
           NEW h \in Hooks, hpc'[h] # hpc[h], hrow[h] \in notices \ notices'
    PROVE  Recorded(h, hrow[h])
<1> USE DEF IInv, TypeOK
<1>1. CASE \E g \in Hooks : ApplyHook(g)
  <2> PICK g \in Hooks : ApplyHook(g)
    BY <1>1
  <2>1. g = h
    BY DEF ApplyHook, HookAnswers
  <2> QED
    BY <2>1, ApplyRecords
<1>2. CASE \E g \in Hooks : NotifyPaid(g)
  <2> PICK g \in Hooks : NotifyPaid(g)
    BY <1>2
  <2>1. g = h
    BY DEF NotifyPaid, HookAnswers
  <2> QED
    BY <2>1, NotifyRecords
<1>3. CASE UNCHANGED notices \/ UNCHANGED hpc
  BY <1>3
<1>4. CASE \E r \in Rows : Surroundings(r)
  BY <1>4, <1>3 DEF Surroundings, Settle, GiveUpNotice, Age, hooks
<1> QED
  BY <1>1, <1>2, <1>3, <1>4 DEF Next, CreatePayment, HandleWebhook, FindPending, ExpireStale, InsertRow, Reread,
     AskYooKassa, UpdateAfterCreate, HookArrives, HookFails, Crash, vars, yookassa, hooks

\* A webhook is answered with 200 only when the row says what became of the
\* payment (HandleWebhook, handler.go:143), unless a late answer has undone
\* the row while the webhook notified (Payments.AnsweredIsRecorded).
THEOREM AnsweredCorrect == Spec => AnsweredIsRecorded
<1>1. IInv /\ NoticeInv /\ [Next]_vars =>
        [\A h \in Hooks : hpc'[h] # hpc[h] /\ hrow[h] \in notices \ notices' =>
            LET r == hrow[h]
            IN \/ status'[r] = remote[r]
               \/ status'[r] = "canceled" /\ r \in old
               \/ status'[r] = "pending" /\ hpc[h] = "notify"]_vars
  BY AnsweredStep DEF Recorded
<1> QED
  BY <1>1, InitNotice, NextKeepsNotices, Invariance, PTL DEF Spec, AnsweredIsRecorded
=============================================================================
