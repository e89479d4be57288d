------------------------------- MODULE Outbox -------------------------------
(***************************************************************************)
(* The notification outbox (src/internal/notification) and the retry      *)
(* operations of the platform administrator on it                          *)
(* (src/internal/platformadmin).                                           *)
(*                                                                         *)
(* A call of Send writes, statement by statement and outside any           *)
(* transaction, an inbox entry per recipient and one outbox row per        *)
(* (recipient, channel).  A single worker goroutine polls the due rows,    *)
(* hands each to the provider of its channel and marks the outcome with an *)
(* unguarded UPDATE.  An administrator may reopen failed and dead rows     *)
(* while the worker is in the middle of a batch.                           *)
(*                                                                         *)
(* Every action is one statement on the database or one call of a          *)
(* provider; time is abstracted to the flag due (next_retry_at has passed).*)
(***************************************************************************)
EXTENDS Naturals, FiniteSets

CONSTANTS
    Notices,      \* calls of Send
    Users,        \* recipients
    Channels,     \* channels of a row: web_push, whatsapp, email
    PushChannel,  \* the channel that never answers ErrNoContact
    GatedChannel, \* the channel behind the subscription feature (whatsapp)
    Schools, SchoolOf, \* the tenant of a call of Send
    BatchSize,    \* rows of one poll (50 in cmd/server)
    Backoffs,     \* length of backoffSchedule (4)
    Admins,       \* concurrent requests of platform administrators
    MaxRetries,   \* bound: retries an administrator asks for
    MaxFaults     \* bound: crashes, failed statements, lost answers

ASSUME OutboxAssumption ==
    /\ BatchSize \in Nat \ {0}
    /\ Backoffs \in Nat
    /\ MaxRetries \in Nat
    /\ MaxFaults \in Nat
    /\ SchoolOf \in [Notices -> Schools]

VARIABLES
    callPc, todo, queue, enabled, \* each call of Send: recipients left, rows left of the current one, channels
    inbox,     \* in-app notifications written
    created,   \* created_at of each outbox row, 0 when it does not exist
    inserted,  \* created_at of the latest row
    status, attempts, due, \* the columns of each outbox row
    workerPc, row, answer, \* the worker goroutine: row being handled, provider's answer
    batch,     \* rows of the current poll still to handle
    snapshot,  \* attempts as the poll read them
    adminPc, adminRow, \* each administrator's request
    accepted,  \* history: messages the provider accepted, per row
    lost,      \* history: acceptances whose answer or mark was lost, per row
    retried,   \* history: administrator updates applied, per row
    retries, faults \* what is used up of MaxRetries and MaxFaults

rowVars  == <<created, inserted, status, attempts, due>>
workVars == <<workerPc, row, answer, batch, snapshot>>
callVars == <<callPc, todo, queue, enabled>>
sendVars == <<callVars, inbox>>
adminVars == <<adminPc, adminRow>>
histVars == <<accepted, lost, retried>>
vars == <<rowVars, workVars, sendVars, histVars, adminVars, retries, faults>>

Rows == Notices \X Users \X Channels
Statuses == {"pending", "failed", "dead", "sent"}
Answers == {"none", "ok", "noContact", "error"}
NoRow == <<>>

TypeOK ==
    /\ callPc \in [Notices -> {"idle", "running", "done", "failed"}]
    /\ todo \in [Notices -> SUBSET Users]
    /\ queue \in [Notices -> SUBSET Rows]
    /\ enabled \in [Notices -> SUBSET Channels]
    /\ inbox \in SUBSET (Notices \X Users)
    /\ created \in [Rows -> Nat]
    /\ inserted \in Nat
    /\ status \in [Rows -> Statuses]
    /\ attempts \in [Rows -> Nat]
    /\ due \in [Rows -> BOOLEAN]
    /\ workerPc \in {"idle", "batch", "sending", "mark"}
    /\ row \in Rows \cup {NoRow}
    /\ answer \in Answers
    /\ workerPc \in {"sending", "mark"} => row \in Rows
    /\ batch \in SUBSET Rows
    /\ snapshot \in [Rows -> Nat]
    /\ adminPc \in [Admins -> {"idle", "checked"}]
    /\ adminRow \in [Admins -> Rows \cup {NoRow}]
    /\ \A a \in Admins : adminPc[a] = "checked" => adminRow[a] \in Rows
    /\ accepted \in [Rows -> Nat]
    /\ lost \in [Rows -> Nat]
    /\ retried \in [Rows -> Nat]
    /\ retries \in Nat
    /\ faults \in Nat

Exists(r) == created[r] # 0

\* The worker has no row in hand.
LetGo(pc) == workerPc' = pc /\ row' = NoRow /\ answer' = "none"

Init ==
    /\ callPc = [n \in Notices |-> "idle"]
    /\ todo = [n \in Notices |-> {}]
    /\ queue = [n \in Notices |-> {}]
    /\ enabled = [n \in Notices |-> {}]
    /\ inbox = {}
    /\ created = [r \in Rows |-> 0]
    /\ inserted = 0
    /\ status = [r \in Rows |-> "pending"]
    /\ attempts = [r \in Rows |-> 0]
    /\ due = [r \in Rows |-> TRUE]
    /\ workerPc = "idle"
    /\ row = NoRow
    /\ answer = "none"
    /\ batch = {}
    /\ snapshot = [r \in Rows |-> 0]
    /\ adminPc = [a \in Admins |-> "idle"]
    /\ adminRow = [a \in Admins |-> NoRow]
    /\ accepted = [r \in Rows |-> 0]
    /\ lost = [r \in Rows |-> 0]
    /\ retried = [r \in Rows |-> 0]
    /\ retries = 0
    /\ faults = 0

-----------------------------------------------------------------------------
(***************************************************************************)
(* Send: settings are read once, then the inserts follow one another.      *)
(***************************************************************************)
SendStart(n) ==
    /\ callPc[n] = "idle"
    /\ \E us \in SUBSET Users \ {{}}, chs \in SUBSET Channels :
         /\ todo' = [todo EXCEPT ![n] = us]
         /\ enabled' = [enabled EXCEPT ![n] = chs]
    /\ callPc' = [callPc EXCEPT ![n] = "running"]
    /\ UNCHANGED <<queue, inbox, rowVars, workVars, histVars, adminVars, retries, faults>>

\* Mutant: the outbox rows of a recipient are prepared without the inbox entry.
SendOutboxOnly(n, u) ==
    /\ callPc[n] = "running"
    /\ queue[n] = {}
    /\ u \in todo[n]
    /\ todo' = [todo EXCEPT ![n] = @ \ {u}]
    /\ queue' = [queue EXCEPT ![n] = {n} \X {u} \X enabled[n]]
    /\ UNCHANGED <<callPc, enabled, inbox, rowVars, workVars, histVars, adminVars, retries, faults>>

SendInbox(n, u) ==
    /\ callPc[n] = "running"
    /\ queue[n] = {}
    /\ u \in todo[n]
    /\ inbox' = inbox \cup {<<n, u>>}
    /\ todo' = [todo EXCEPT ![n] = @ \ {u}]
    /\ queue' = [queue EXCEPT ![n] = {n} \X {u} \X enabled[n]]
    /\ UNCHANGED <<callPc, enabled, rowVars, workVars, histVars, adminVars, retries, faults>>

InsertOutboxRow(n, r) ==
    /\ callPc[n] = "running"
    /\ r \in queue[n]
    /\ queue' = [queue EXCEPT ![n] = @ \ {r}]
    /\ inserted' = inserted + 1
    /\ created' = [created EXCEPT ![r] = inserted']
    /\ status' = [status EXCEPT ![r] = "pending"]
    /\ attempts' = [attempts EXCEPT ![r] = 0]
    /\ due' = [due EXCEPT ![r] = TRUE]
    /\ UNCHANGED <<callPc, todo, enabled, inbox, workVars, histVars, adminVars, retries, faults>>

\* The feature is asked for again at each recipient.
SkipGatedChannel(n, r) ==
    /\ callPc[n] = "running"
    /\ r \in queue[n]
    /\ r[3] = GatedChannel
    /\ queue' = [queue EXCEPT ![n] = @ \ {r}]
    /\ UNCHANGED <<callPc, todo, enabled, inbox, rowVars, workVars, histVars, adminVars, retries, faults>>

SendReturn(n) ==
    /\ callPc[n] = "running"
    /\ todo[n] = {}
    /\ queue[n] = {}
    /\ callPc' = [callPc EXCEPT ![n] = "done"]
    /\ UNCHANGED <<todo, queue, enabled, inbox, rowVars, workVars, histVars, adminVars, retries, faults>>

\* Any statement may fail: what was written stays, the caller ignores the error.
SendError(n) ==
    /\ callPc[n] = "running"
    /\ faults < MaxFaults
    /\ faults' = faults + 1
    /\ callPc' = [callPc EXCEPT ![n] = "failed"]
    /\ UNCHANGED <<todo, queue, enabled, inbox, rowVars, workVars, histVars, adminVars, retries>>

-----------------------------------------------------------------------------
(***************************************************************************)
(* The worker: one poll, then row by row provider call and mark.           *)
(***************************************************************************)
\* Mutant: the poll forgets the status.
AllDueRows == {r \in Rows : Exists(r) /\ due[r]}
\* Mutant: the poll forgets the rows that wait for a retry.
PendingDueRows == {r \in Rows : Exists(r) /\ status[r] = "pending" /\ due[r]}

DueRows == {r \in Rows : Exists(r) /\ status[r] \in {"pending", "failed"} /\ due[r]}

\* ORDER BY created_at LIMIT BatchSize
OldestDue(B) ==
    /\ B \subseteq DueRows
    /\ Cardinality(B) <= BatchSize
    /\ Cardinality(B) < BatchSize => B = DueRows
    /\ \A r \in B, q \in DueRows \ B : created[r] < created[q]

ListDueOutbox ==
    /\ workerPc = "idle"
    /\ \E B \in SUBSET DueRows :
         /\ B # {}
         /\ OldestDue(B)
         /\ batch' = B
    /\ snapshot' = [r \in Rows |-> IF r \in batch' THEN attempts[r] ELSE 0]
    /\ LetGo("batch")
    /\ UNCHANGED <<rowVars, sendVars, histVars, adminVars, retries, faults>>

TakeRow(r) ==
    /\ workerPc = "batch"
    /\ r \in batch
    /\ \A q \in batch : created[r] <= created[q]
    /\ workerPc' = "sending"
    /\ row' = r
    /\ answer' = "none"
    /\ batch' = batch \ {r}
    /\ UNCHANGED <<snapshot, rowVars, sendVars, histVars, adminVars, retries, faults>>

BatchDone ==
    /\ workerPc = "batch"
    /\ batch = {}
    /\ LetGo("idle")
    /\ snapshot' = [r \in Rows |-> 0]
    /\ UNCHANGED <<batch, rowVars, sendVars, histVars, adminVars, retries, faults>>

\* provider.Send returns.  A transport error may hide an accepted message.
ProviderAnswers ==
    /\ workerPc = "sending"
    /\ \E ans \in Answers \ {"none"}, took \in BOOLEAN :
         /\ ans = "ok" => took
         /\ ans = "noContact" => ~took /\ row[3] # PushChannel
         /\ ans = "error" /\ took => faults < MaxFaults
         /\ answer' = ans
         /\ accepted' = [accepted EXCEPT ![row] = IF took THEN @ + 1 ELSE @]
         /\ IF ans = "error" /\ took
            THEN /\ lost' = [lost EXCEPT ![row] = @ + 1]
                 /\ faults' = faults + 1
            ELSE UNCHANGED <<lost, faults>>
    /\ workerPc' = "mark"
    /\ UNCHANGED <<row, batch, snapshot, rowVars, sendVars, retried, adminVars, retries>>

\* nextBackoff: the schedule is exhausted at this number of attempts.
Exhausted(n) == n > Backoffs

MarkOutboxSent ==
    /\ workerPc = "mark"
    /\ answer = "ok"
    /\ status' = [status EXCEPT ![row] = "sent"]
    /\ LetGo("batch")
    /\ UNCHANGED <<created, inserted, attempts, due, batch, snapshot, sendVars, histVars, adminVars, retries, faults>>

\* ErrNoContact keeps the attempts of the snapshot, the last failure adds one.
MarkOutboxDead ==
    /\ workerPc = "mark"
    /\ \/ /\ answer = "noContact"
          /\ attempts' = [attempts EXCEPT ![row] = snapshot[row]]
       \/ /\ answer = "error"
          /\ Exhausted(snapshot[row] + 1)
          /\ attempts' = [attempts EXCEPT ![row] = snapshot[row] + 1]
    /\ status' = [status EXCEPT ![row] = "dead"]
    /\ LetGo("batch")
    /\ UNCHANGED <<created, inserted, due, batch, snapshot, sendVars, histVars, adminVars, retries, faults>>

MarkOutboxRetry ==
    /\ workerPc = "mark"
    /\ answer = "error"
    /\ ~Exhausted(snapshot[row] + 1)
    /\ attempts' = [attempts EXCEPT ![row] = snapshot[row] + 1]
    /\ status' = [status EXCEPT ![row] = "failed"]
    /\ due' = [due EXCEPT ![row] = FALSE]
    /\ LetGo("batch")
    /\ UNCHANGED <<created, inserted, batch, snapshot, sendVars, histVars, adminVars, retries, faults>>

\* next_retry_at passes.
BackoffElapses(r) ==
    /\ Exists(r)
    /\ ~due[r]
    /\ due' = [due EXCEPT ![r] = TRUE]
    /\ UNCHANGED <<created, inserted, status, attempts, workVars, sendVars, histVars, adminVars, retries, faults>>

\* What is forgotten when the answer in hand is never recorded.
ForgetAnswer ==
    lost' = IF workerPc = "mark" /\ answer = "ok"
            THEN [lost EXCEPT ![row] = @ + 1] ELSE lost

\* The mark fails: it is only logged and the batch goes on.
MarkFails ==
    /\ workerPc = "mark"
    /\ faults < MaxFaults
    /\ faults' = faults + 1
    /\ ForgetAnswer
    /\ LetGo("batch")
    /\ UNCHANGED <<batch, snapshot, rowVars, sendVars, accepted, retried, adminVars, retries>>

-----------------------------------------------------------------------------
(***************************************************************************)
(* The administrator.  RetryOutbox reads the status in one statement and   *)
(* updates in another, RetryAllOutbox is one guarded statement.            *)
(***************************************************************************)
GetOutboxStatus(a, r) ==
    /\ adminPc[a] = "idle"
    /\ retries < MaxRetries
    /\ retries' = retries + 1
    /\ Exists(r)
    /\ status[r] \in {"failed", "dead"}
    /\ adminPc' = [adminPc EXCEPT ![a] = "checked"]
    /\ adminRow' = [adminRow EXCEPT ![a] = r]
    /\ UNCHANGED <<rowVars, workVars, sendVars, histVars, faults>>

Reopen(R) ==
    /\ status' = [r \in Rows |-> IF r \in R THEN "pending" ELSE status[r]]
    /\ due' = [r \in Rows |-> r \in R \/ due[r]]
    /\ retried' = [r \in Rows |-> IF r \in R THEN retried[r] + 1 ELSE retried[r]]

RetryOutboxRow(a) ==
    /\ adminPc[a] = "checked"
    /\ Reopen({adminRow[a]})
    /\ adminPc' = [adminPc EXCEPT ![a] = "idle"]
    /\ adminRow' = [adminRow EXCEPT ![a] = NoRow]
    /\ UNCHANGED <<created, inserted, attempts, workVars, sendVars, accepted, lost, retries, faults>>

\* Mutant: the statement forgets its condition on the status.
RetryEveryRow(st, scope) ==
    /\ retries < MaxRetries
    /\ retries' = retries + 1
    /\ Reopen({r \in Rows : Exists(r) /\ r[1] \in scope})
    /\ UNCHANGED <<created, inserted, attempts, workVars, sendVars, accepted, lost, adminVars, faults>>

RetryAllOutbox(st, scope) ==
    /\ retries < MaxRetries
    /\ retries' = retries + 1
    /\ Reopen({r \in Rows : Exists(r) /\ status[r] = st /\ r[1] \in scope})
    /\ UNCHANGED <<created, inserted, attempts, workVars, sendVars, accepted, lost, adminVars, faults>>

\* The process restarts: calls, requests and the batch in memory are gone.
Crash ==
    /\ faults < MaxFaults
    /\ faults' = faults + 1
    /\ ForgetAnswer
    /\ callPc' = [n \in Notices |-> IF callPc[n] = "running" THEN "failed" ELSE callPc[n]]
    /\ LetGo("idle")
    /\ batch' = {}
    /\ snapshot' = [r \in Rows |-> 0]
    /\ adminPc' = [a \in Admins |-> "idle"]
    /\ adminRow' = [a \in Admins |-> NoRow]
    /\ UNCHANGED <<todo, queue, enabled, inbox, rowVars, accepted, retried, retries>>

-----------------------------------------------------------------------------
Scopes == {Notices} \cup {{n \in Notices : SchoolOf[n] = s} : s \in Schools}

Sending ==
    \E n \in Notices :
        \/ SendStart(n)
        \/ \E u \in Users : SendInbox(n, u)
        \/ \E r \in Rows : InsertOutboxRow(n, r) \/ SkipGatedChannel(n, r)
        \/ SendReturn(n)
        \/ SendError(n)

\* Steps of the worker goroutine that depend on nothing outside the process.
Working ==
    \/ ListDueOutbox
    \/ \E r \in Rows : TakeRow(r)
    \/ BatchDone
    \/ MarkOutboxSent
    \/ MarkOutboxDead
    \/ MarkOutboxRetry

Administering ==
    \/ \E a \in Admins : RetryOutboxRow(a) \/ \E r \in Rows : GetOutboxStatus(a, r)
    \/ \E st \in {"failed", "dead"}, scope \in Scopes : RetryAllOutbox(st, scope)

Next ==
    \/ Sending
    \/ Working
    \/ ProviderAnswers
    \/ MarkFails
    \/ \E r \in Rows : BackoffElapses(r)
    \/ Administering
    \/ Crash

Spec == Init /\ [][Next]_vars

\* The worker loop never stops and providers answer; clocks advance.
Fairness ==
    /\ WF_vars(Working)
    /\ WF_vars(ProviderAnswers)
    /\ \A r \in Rows : WF_vars(BackoffElapses(r))

FairSpec == Spec /\ Fairness

-----------------------------------------------------------------------------
\* No recipient has an outbox row for a message that is missing from the
\* recipient's inbox, whatever failed in the middle of Send (Service.Send).
OutboxHasInbox == \A r \in Rows : Exists(r) => <<r[1], r[2]>> \in inbox

\* The attempts the poll read are still those of the row when the worker uses
\* them, although statements of administrators run in between: no update of
\* theirs touches the column (ProcessDueOutbox, RetryOutboxRow).
SnapshotFresh ==
    /\ \A r \in batch : snapshot[r] = attempts[r]
    /\ workerPc \in {"sending", "mark"} => snapshot[row] = attempts[row]

\* A row marked sent was accepted by its provider, and a provider accepted a
\* row more than once only when an answer or a mark was lost or when an
\* administrator reopened the row (processOutboxRow, RetryOutbox).
NoUnexplainedDelivery ==
    \A r \in Rows :
        /\ status[r] = "sent" => accepted[r] >= 1
        /\ accepted[r] <= 1 + lost[r] + retried[r]

\* The counter of attempts passes the end of the schedule only by as much as
\* administrators reopened the row (nextBackoff, MarkOutboxDead).
AttemptsBounded ==
    \A r \in Rows :
        /\ attempts[r] <= Backoffs + 1 + retried[r]
        /\ status[r] = "failed" => attempts[r] \in 1..Backoffs

\* A sent row is reopened by nothing but a RetryOutbox whose check of the
\* status had preceded the delivery (RetryOutbox against MarkOutboxSent).
SentReopenedOnlyByStaleRetry ==
    [][\A r \in Rows : status[r] = "sent" /\ status'[r] # "sent" =>
         \E a \in Admins : /\ adminPc[a] = "checked" /\ adminRow[a] = r
                           /\ adminPc'[a] = "idle"]_vars

\* Once faults and retries are used up every row ends up sent or dead, and a
\* row that is dead or sent is then left alone (StartWorker).
EventuallySettled ==
    <>[](\A r \in Rows : Exists(r) => status[r] \in {"sent", "dead"})
=============================================================================
