---------------------------- MODULE OutboxProofs ----------------------------
(***************************************************************************)
(* Proofs about Outbox: type correctness, and the safety properties from   *)
(* one inductive invariant, for any number of calls, recipients, channels, *)
(* administrators, faults and retries.                                     *)
(***************************************************************************)
EXTENDS Outbox, TLAPS

\* The row in the worker's hands.
InHand(r) == workerPc \in {"sending", "mark"} /\ row = r
\* The provider took the row and the worker has not recorded it yet.
Unrecorded(r) == workerPc = "mark" /\ answer = "ok" /\ row = r

\* A row call n is about to insert: its recipient has the inbox entry already.
Awaited(n, r) ==
    r[1] = n /\ r[2] \notin todo[n] /\ ~Exists(r) /\ <<r[1], r[2]>> \in inbox
\* Rows of a call that has not reached them do not exist; the ones that exist
\* have an inbox entry; the ones that do not are untouched.
InvCalls ==
    /\ \A n \in Notices : \A r \in Rows :
         r[1] = n /\ (callPc[n] = "idle" \/ r[2] \in todo[n]) => ~Exists(r)
    /\ \A n \in Notices : callPc[n] = "idle" => queue[n] = {}
    /\ \A n \in Notices : \A r \in queue[n] : Awaited(n, r)
    /\ \A r \in Rows : ~Exists(r) => status[r] = "pending"
\* A row the worker has polled and not handled yet is not sent, and its
\* snapshot is current.
InvBatch ==
    /\ \A r \in batch : Exists(r) /\ status[r] \in {"pending", "failed"}
                        /\ snapshot[r] = attempts[r]
    /\ \A r \in Rows : InHand(r) =>
         /\ r \notin batch
         /\ Exists(r) /\ status[r] \in {"pending", "failed"}
         /\ snapshot[r] = attempts[r]
    /\ \A a \in Admins : adminPc[a] = "checked" => Exists(adminRow[a])
\* One acceptance is accounted for by the status or by the answer in hand, the
\* others by what was lost and by what administrators reopened.
InvAccepted ==
    \A r \in Rows :
        /\ status[r] = "sent" \/ Unrecorded(r) => accepted[r] >= 1
        /\ accepted[r] <= 1 + lost[r] + retried[r]
        /\ status[r] # "sent" /\ ~Unrecorded(r) => accepted[r] <= lost[r] + retried[r]
\* Attempts by status.
InvAttempts ==
    \A r \in Rows :
        /\ status[r] # "dead" => attempts[r] <= Backoffs + retried[r]
        /\ status[r] = "dead" => attempts[r] <= Backoffs + 1 + retried[r]
        /\ status[r] = "failed" => attempts[r] \in 1..Backoffs

IInv == TypeOK /\ InvCalls /\ InvBatch /\ InvAccepted /\ InvAttempts /\ OutboxHasInbox

LEMMA TypeInit == Init => TypeOK
BY OutboxAssumption DEF Init, TypeOK, Answers, Statuses

LEMMA TypeStep == TypeOK /\ [Next]_vars => TypeOK'
<1> SUFFICES ASSUME TypeOK, [Next]_vars PROVE TypeOK'
  OBVIOUS
<1> USE OutboxAssumption DEF TypeOK, Statuses, Answers, LetGo, rowVars, workVars, callVars, sendVars, histVars, adminVars
<1>1. ASSUME NEW n \in Notices, SendStart(n) PROVE TypeOK'
  BY <1>1 DEF SendStart
<1>2. ASSUME NEW n \in Notices, NEW u \in Users, SendInbox(n, u) PROVE TypeOK'
  <2>1. {n} \X {u} \X enabled[n] \in SUBSET Rows
    BY <1>2 DEF Rows
  <2> QED BY <1>2, <2>1 DEF SendInbox
<1>3. ASSUME NEW n \in Notices, NEW r \in Rows, InsertOutboxRow(n, r) PROVE TypeOK'
  BY <1>3 DEF InsertOutboxRow
<1>4. ASSUME NEW n \in Notices, NEW r \in Rows, SkipGatedChannel(n, r) PROVE TypeOK'
  BY <1>4 DEF SkipGatedChannel
<1>5. ASSUME NEW n \in Notices, SendReturn(n) PROVE TypeOK'
  BY <1>5 DEF SendReturn
<1>6. ASSUME NEW n \in Notices, SendError(n) PROVE TypeOK'
  BY <1>6 DEF SendError
<1>7. CASE ListDueOutbox
  <2>1. batch' \in SUBSET Rows
    BY <1>7 DEF ListDueOutbox, DueRows
  <2>2. snapshot' \in [Rows -> Nat]
    BY <1>7 DEF ListDueOutbox
  <2> QED BY <1>7, <2>1, <2>2 DEF ListDueOutbox
<1>8. ASSUME NEW r \in Rows, TakeRow(r) PROVE TypeOK'
  BY <1>8 DEF TakeRow
<1>9. CASE BatchDone
  BY <1>9 DEF BatchDone
<1>10. CASE ProviderAnswers
  BY <1>10 DEF ProviderAnswers
<1>11. CASE MarkOutboxSent
  BY <1>11 DEF MarkOutboxSent
<1>12. CASE MarkOutboxDead
  BY <1>12 DEF MarkOutboxDead
<1>13. CASE MarkOutboxRetry
  BY <1>13 DEF MarkOutboxRetry
<1>14. ASSUME NEW r \in Rows, BackoffElapses(r) PROVE TypeOK'
  BY <1>14 DEF BackoffElapses
<1>15. CASE MarkFails
  BY <1>15 DEF MarkFails, ForgetAnswer
<1>16. ASSUME NEW a \in Admins, NEW r \in Rows, GetOutboxStatus(a, r) PROVE TypeOK'
  BY <1>16 DEF GetOutboxStatus
<1>17. ASSUME NEW a \in Admins, RetryOutboxRow(a) PROVE TypeOK'
  BY <1>17 DEF RetryOutboxRow, Reopen
<1>18. ASSUME NEW st \in {"failed", "dead"}, NEW scope \in Scopes, RetryAllOutbox(st, scope)
       PROVE TypeOK'
  BY <1>18 DEF RetryAllOutbox, Reopen
<1>19. CASE Crash
  BY <1>19 DEF Crash, ForgetAnswer
<1>20. CASE UNCHANGED vars
  BY <1>20 DEF vars
<1> QED
  BY <1>1, <1>2, <1>3, <1>4, <1>5, <1>6, <1>7, <1>8, <1>9, <1>10, <1>11, <1>12, <1>13,
     <1>14, <1>15, <1>16, <1>17, <1>18, <1>19, <1>20
  DEF Next, Sending, Working, Administering

\* Every variable keeps its type in every behaviour of the notification module.
THEOREM OutboxTypeCorrect == Spec => []TypeOK
BY TypeInit, TypeStep, PTL DEF Spec
-----------------------------------------------------------------------------
\* Progress of the calls against the rows and the inbox.
LEMMA CallsStep == TypeOK /\ InvCalls /\ InvBatch /\ [Next]_vars => InvCalls'
<1> SUFFICES ASSUME TypeOK, InvCalls, InvBatch, [Next]_vars PROVE InvCalls'
  OBVIOUS
<1> USE OutboxAssumption DEF TypeOK, Statuses, Answers, LetGo, Exists, Awaited, InvCalls, InvBatch, InHand,
        rowVars, workVars, callVars, sendVars, histVars, adminVars
<1>1. ASSUME NEW n \in Notices, SendStart(n) PROVE InvCalls'
  BY <1>1 DEF SendStart
<1>2. ASSUME NEW n \in Notices, NEW u \in Users, SendInbox(n, u) PROVE InvCalls'
  <2>1. \A r \in queue'[n] : r \in Rows /\ r[1] = n /\ r[2] = u
    BY <1>2 DEF SendInbox, Rows
  <2>2. \A m \in Notices \ {n} : queue'[m] = queue[m] /\ todo'[m] = todo[m]
    BY <1>2 DEF SendInbox
  <2>3. inbox \subseteq inbox' /\ <<n, u>> \in inbox' /\ u \notin todo'[n]
    BY <1>2 DEF SendInbox
  <2>4. u \in todo[n] /\ todo'[n] \subseteq todo[n] /\ UNCHANGED <<created, status, callPc>>
    BY <1>2 DEF SendInbox
  <2>5. \A m \in Notices : \A r \in Rows :
          r[1] = m /\ (callPc'[m] = "idle" \/ r[2] \in todo'[m]) => created'[r] = 0
    BY <2>2, <2>4
  <2>6. \A m \in Notices : \A r \in queue'[m] :
          r[1] = m /\ r[2] \notin todo'[m] /\ created'[r] = 0 /\ <<r[1], r[2]>> \in inbox'
    <3>1. ASSUME NEW r \in queue'[n]
          PROVE  r[1] = n /\ r[2] \notin todo'[n] /\ created'[r] = 0 /\ <<r[1], r[2]>> \in inbox'
      <4>1. r \in Rows /\ r[1] = n /\ r[2] = u
        BY <2>1
      <4>2. ~Exists(r)
        BY <4>1, <2>4
      <4> QED BY <4>1, <4>2, <2>3, <2>4
    <3>2. ASSUME NEW m \in Notices \ {n}, NEW r \in queue'[m]
          PROVE  r[1] = m /\ r[2] \notin todo'[m] /\ created'[r] = 0 /\ <<r[1], r[2]>> \in inbox'
      BY <2>2, <2>3, <2>4
    <3> QED BY <3>1, <3>2
  <2>7. \A m \in Notices : callPc'[m] = "idle" => queue'[m] = {}
    BY <1>2 DEF SendInbox
  <2>8. \A r \in Rows : ~Exists(r)' => status'[r] = "pending"
    BY <2>4
  <2> QED BY <2>5, <2>6, <2>7, <2>8
<1>3. ASSUME NEW n \in Notices, NEW r \in Rows, InsertOutboxRow(n, r) PROVE InvCalls'
  <2>1. inserted' = inserted + 1 /\ created' = [created EXCEPT ![r] = inserted']
    BY <1>3 DEF InsertOutboxRow
  <2>2. r \in queue[n] /\ queue' = [queue EXCEPT ![n] = @ \ {r}] /\ callPc[n] = "running"
        /\ status' = [status EXCEPT ![r] = "pending"] /\ UNCHANGED <<callPc, todo, inbox>>
    BY <1>3 DEF InsertOutboxRow
  <2>3. \A q \in Rows : q # r => created'[q] = created[q]
    BY <2>1
  <2>4. Awaited(n, r)
    BY <2>2 DEF InvCalls
  <2> QED BY <2>2, <2>3, <2>4
<1>4. ASSUME NEW n \in Notices, NEW r \in Rows, SkipGatedChannel(n, r) PROVE InvCalls'
  BY <1>4 DEF SkipGatedChannel
<1>5. ASSUME NEW n \in Notices, SendReturn(n) PROVE InvCalls'
  BY <1>5 DEF SendReturn
<1>6. ASSUME NEW n \in Notices, SendError(n) PROVE InvCalls'
  BY <1>6 DEF SendError
<1>7. CASE ListDueOutbox
  BY <1>7 DEF ListDueOutbox, DueRows
<1>8. ASSUME NEW r \in Rows, TakeRow(r) PROVE InvCalls'
  BY <1>8 DEF TakeRow
<1>9. CASE BatchDone
  BY <1>9 DEF BatchDone
<1>10. CASE ProviderAnswers
  BY <1>10 DEF ProviderAnswers
<1>11. CASE MarkOutboxSent
  BY <1>11 DEF MarkOutboxSent
<1>12. CASE MarkOutboxDead
  BY <1>12 DEF MarkOutboxDead, Exhausted
<1>13. CASE MarkOutboxRetry
  BY <1>13 DEF MarkOutboxRetry, Exhausted
<1>14. ASSUME NEW r \in Rows, BackoffElapses(r) PROVE InvCalls'
  BY <1>14 DEF BackoffElapses
<1>15. CASE MarkFails
  BY <1>15 DEF MarkFails, ForgetAnswer
<1>16. ASSUME NEW a \in Admins, NEW r \in Rows, GetOutboxStatus(a, r) PROVE InvCalls'
  BY <1>16 DEF GetOutboxStatus
<1>17. ASSUME NEW a \in Admins, RetryOutboxRow(a) PROVE InvCalls'
  BY <1>17 DEF RetryOutboxRow, Reopen
<1>18. ASSUME NEW st \in {"failed", "dead"}, NEW scope \in Scopes, RetryAllOutbox(st, scope) PROVE InvCalls'
  BY <1>18 DEF RetryAllOutbox, Reopen
<1>19. CASE Crash
  BY <1>19 DEF Crash, ForgetAnswer
<1>20. CASE UNCHANGED vars
  BY <1>20 DEF vars
<1> QED
  BY <1>1, <1>2, <1>3, <1>4, <1>5, <1>6, <1>7, <1>8, <1>9, <1>10,
     <1>11, <1>12, <1>13, <1>14, <1>15, <1>16, <1>17, <1>18, <1>19, <1>20
  DEF Next, Sending, Working, Administering

\* A row is inserted only after the inbox entry of its recipient.
LEMMA InboxStep == TypeOK /\ InvCalls /\ OutboxHasInbox /\ [Next]_vars => OutboxHasInbox'
<1> SUFFICES ASSUME TypeOK, InvCalls, OutboxHasInbox, [Next]_vars PROVE OutboxHasInbox'
  OBVIOUS
<1> USE OutboxAssumption DEF TypeOK, Statuses, Answers, LetGo, Exists, Awaited, InvCalls, OutboxHasInbox,
        rowVars, workVars, callVars, sendVars, histVars, adminVars
<1>1. ASSUME NEW n \in Notices, SendStart(n) PROVE OutboxHasInbox'
  BY <1>1 DEF SendStart
<1>2. ASSUME NEW n \in Notices, NEW u \in Users, SendInbox(n, u) PROVE OutboxHasInbox'
  BY <1>2 DEF SendInbox
<1>3. ASSUME NEW n \in Notices, NEW r \in Rows, InsertOutboxRow(n, r) PROVE OutboxHasInbox'
  BY <1>3 DEF InsertOutboxRow
<1>4. ASSUME NEW n \in Notices, NEW r \in Rows, SkipGatedChannel(n, r) PROVE OutboxHasInbox'
  BY <1>4 DEF SkipGatedChannel
<1>5. ASSUME NEW n \in Notices, SendReturn(n) PROVE OutboxHasInbox'
  BY <1>5 DEF SendReturn
<1>6. ASSUME NEW n \in Notices, SendError(n) PROVE OutboxHasInbox'
  BY <1>6 DEF SendError
<1>7. CASE ListDueOutbox
  BY <1>7 DEF ListDueOutbox, DueRows
<1>8. ASSUME NEW r \in Rows, TakeRow(r) PROVE OutboxHasInbox'
  BY <1>8 DEF TakeRow
<1>9. CASE BatchDone
  BY <1>9 DEF BatchDone
<1>10. CASE ProviderAnswers
  BY <1>10 DEF ProviderAnswers
<1>11. CASE MarkOutboxSent
  BY <1>11 DEF MarkOutboxSent
<1>12. CASE MarkOutboxDead
  BY <1>12 DEF MarkOutboxDead, Exhausted
<1>13. CASE MarkOutboxRetry
  BY <1>13 DEF MarkOutboxRetry, Exhausted
<1>14. ASSUME NEW r \in Rows, BackoffElapses(r) PROVE OutboxHasInbox'
  BY <1>14 DEF BackoffElapses
<1>15. CASE MarkFails
  BY <1>15 DEF MarkFails, ForgetAnswer
<1>16. ASSUME NEW a \in Admins, NEW r \in Rows, GetOutboxStatus(a, r) PROVE OutboxHasInbox'
  BY <1>16 DEF GetOutboxStatus
<1>17. ASSUME NEW a \in Admins, RetryOutboxRow(a) PROVE OutboxHasInbox'
  BY <1>17 DEF RetryOutboxRow, Reopen
<1>18. ASSUME NEW st \in {"failed", "dead"}, NEW scope \in Scopes, RetryAllOutbox(st, scope) PROVE OutboxHasInbox'
  BY <1>18 DEF RetryAllOutbox, Reopen
<1>19. CASE Crash
  BY <1>19 DEF Crash, ForgetAnswer
<1>20. CASE UNCHANGED vars
  BY <1>20 DEF vars
<1> QED
  BY <1>1, <1>2, <1>3, <1>4, <1>5, <1>6, <1>7, <1>8, <1>9, <1>10,
     <1>11, <1>12, <1>13, <1>14, <1>15, <1>16, <1>17, <1>18, <1>19, <1>20
  DEF Next, Sending, Working, Administering

\* The poll's rows keep their attempts until the worker marks them.
LEMMA BatchStep == TypeOK /\ InvCalls /\ InvBatch /\ [Next]_vars => InvBatch'
<1> SUFFICES ASSUME TypeOK, InvCalls, InvBatch, [Next]_vars PROVE InvBatch'
  OBVIOUS
<1> USE OutboxAssumption DEF TypeOK, Statuses, Answers, LetGo, Exists, Awaited, InvCalls, InvBatch, InHand,
        rowVars, workVars, callVars, sendVars, histVars, adminVars
<1>1. ASSUME NEW n \in Notices, SendStart(n) PROVE InvBatch'
  BY <1>1 DEF SendStart
<1>2. ASSUME NEW n \in Notices, NEW u \in Users, SendInbox(n, u) PROVE InvBatch'
  BY <1>2 DEF SendInbox
<1>3. ASSUME NEW n \in Notices, NEW r \in Rows, InsertOutboxRow(n, r) PROVE InvBatch'
  <2>1. /\ created' = [created EXCEPT ![r] = inserted'] /\ inserted' = inserted + 1
        /\ status' = [status EXCEPT ![r] = "pending"]
        /\ attempts' = [attempts EXCEPT ![r] = 0]
        /\ UNCHANGED <<workVars, histVars, adminVars>>
    BY <1>3 DEF InsertOutboxRow
  <2>2. created[r] = 0 /\ status[r] = "pending"
    <3>1. r \in queue[n]
      BY <1>3 DEF InsertOutboxRow
    <3>2. Awaited(n, r)
      BY <3>1 DEF InvCalls
    <3> QED BY <3>2 DEF InvCalls, Awaited
  <2>3. \A q \in Rows : q # r => created'[q] = created[q] /\ status'[q] = status[q]
                                /\ attempts'[q] = attempts[q]
    BY <2>1
  <2>4. r \notin batch /\ ~InHand(r)
    BY <2>2
  <2> QED BY <2>1, <2>2, <2>3, <2>4
<1>4. ASSUME NEW n \in Notices, NEW r \in Rows, SkipGatedChannel(n, r) PROVE InvBatch'
  BY <1>4 DEF SkipGatedChannel
<1>5. ASSUME NEW n \in Notices, SendReturn(n) PROVE InvBatch'
  BY <1>5 DEF SendReturn
<1>6. ASSUME NEW n \in Notices, SendError(n) PROVE InvBatch'
  BY <1>6 DEF SendError
<1>7. CASE ListDueOutbox
  BY <1>7 DEF ListDueOutbox, DueRows
<1>8. ASSUME NEW r \in Rows, TakeRow(r) PROVE InvBatch'
  BY <1>8 DEF TakeRow
<1>9. CASE BatchDone
  BY <1>9 DEF BatchDone
<1>10. CASE ProviderAnswers
  BY <1>10 DEF ProviderAnswers
<1>11. CASE MarkOutboxSent
  BY <1>11 DEF MarkOutboxSent
<1>12. CASE MarkOutboxDead
  BY <1>12 DEF MarkOutboxDead, Exhausted
<1>13. CASE MarkOutboxRetry
  BY <1>13 DEF MarkOutboxRetry, Exhausted
<1>14. ASSUME NEW r \in Rows, BackoffElapses(r) PROVE InvBatch'
  BY <1>14 DEF BackoffElapses
<1>15. CASE MarkFails
  BY <1>15 DEF MarkFails, ForgetAnswer
<1>16. ASSUME NEW a \in Admins, NEW r \in Rows, GetOutboxStatus(a, r) PROVE InvBatch'
  BY <1>16 DEF GetOutboxStatus
<1>17. ASSUME NEW a \in Admins, RetryOutboxRow(a) PROVE InvBatch'
  BY <1>17 DEF RetryOutboxRow, Reopen
<1>18. ASSUME NEW st \in {"failed", "dead"}, NEW scope \in Scopes, RetryAllOutbox(st, scope) PROVE InvBatch'
  BY <1>18 DEF RetryAllOutbox, Reopen
<1>19. CASE Crash
  BY <1>19 DEF Crash, ForgetAnswer
<1>20. CASE UNCHANGED vars
  BY <1>20 DEF vars
<1> QED
  BY <1>1, <1>2, <1>3, <1>4, <1>5, <1>6, <1>7, <1>8, <1>9, <1>10,
     <1>11, <1>12, <1>13, <1>14, <1>15, <1>16, <1>17, <1>18, <1>19, <1>20
  DEF Next, Sending, Working, Administering

\* Every acceptance is accounted for.
LEMMA AcceptedStep == TypeOK /\ InvCalls /\ InvBatch /\ InvAccepted /\ [Next]_vars => InvAccepted'
<1> SUFFICES ASSUME TypeOK, InvCalls, InvBatch, InvAccepted, [Next]_vars PROVE InvAccepted'
  OBVIOUS
<1> USE OutboxAssumption DEF TypeOK, Statuses, Answers, LetGo, Exists, InvCalls, InvBatch, InHand, InvAccepted, Unrecorded,
        rowVars, workVars, callVars, sendVars, histVars, adminVars
<1>1. ASSUME NEW n \in Notices, SendStart(n) PROVE InvAccepted'
  BY <1>1 DEF SendStart
<1>2. ASSUME NEW n \in Notices, NEW u \in Users, SendInbox(n, u) PROVE InvAccepted'
  BY <1>2 DEF SendInbox
<1>3. ASSUME NEW n \in Notices, NEW r \in Rows, InsertOutboxRow(n, r) PROVE InvAccepted'
  <2>1. /\ created' = [created EXCEPT ![r] = inserted'] /\ inserted' = inserted + 1
        /\ status' = [status EXCEPT ![r] = "pending"]
        /\ attempts' = [attempts EXCEPT ![r] = 0]
        /\ UNCHANGED <<workVars, histVars, adminVars>>
    BY <1>3 DEF InsertOutboxRow
  <2>2. created[r] = 0 /\ status[r] = "pending"
    <3>1. r \in queue[n]
      BY <1>3 DEF InsertOutboxRow
    <3>2. Awaited(n, r)
      BY <3>1 DEF InvCalls
    <3> QED BY <3>2 DEF InvCalls, Awaited
  <2>3. \A q \in Rows : q # r => created'[q] = created[q] /\ status'[q] = status[q]
                                /\ attempts'[q] = attempts[q]
    BY <2>1
  <2>4. r \notin batch /\ ~InHand(r)
    BY <2>2
  <2> QED BY <2>1, <2>2, <2>3, <2>4
<1>4. ASSUME NEW n \in Notices, NEW r \in Rows, SkipGatedChannel(n, r) PROVE InvAccepted'
  BY <1>4 DEF SkipGatedChannel
<1>5. ASSUME NEW n \in Notices, SendReturn(n) PROVE InvAccepted'
  BY <1>5 DEF SendReturn
<1>6. ASSUME NEW n \in Notices, SendError(n) PROVE InvAccepted'
  BY <1>6 DEF SendError
<1>7. CASE ListDueOutbox
  BY <1>7 DEF ListDueOutbox, DueRows
<1>8. ASSUME NEW r \in Rows, TakeRow(r) PROVE InvAccepted'
  BY <1>8 DEF TakeRow
<1>9. CASE BatchDone
  BY <1>9 DEF BatchDone
<1>10. CASE ProviderAnswers
  BY <1>10 DEF ProviderAnswers
<1>11. CASE MarkOutboxSent
  BY <1>11 DEF MarkOutboxSent
<1>12. CASE MarkOutboxDead
  BY <1>12 DEF MarkOutboxDead, Exhausted
<1>13. CASE MarkOutboxRetry
  BY <1>13 DEF MarkOutboxRetry, Exhausted
<1>14. ASSUME NEW r \in Rows, BackoffElapses(r) PROVE InvAccepted'
  BY <1>14 DEF BackoffElapses
<1>15. CASE MarkFails
  BY <1>15 DEF MarkFails, ForgetAnswer
<1>16. ASSUME NEW a \in Admins, NEW r \in Rows, GetOutboxStatus(a, r) PROVE InvAccepted'
  BY <1>16 DEF GetOutboxStatus
<1>17. ASSUME NEW a \in Admins, RetryOutboxRow(a) PROVE InvAccepted'
  BY <1>17 DEF RetryOutboxRow, Reopen
<1>18. ASSUME NEW st \in {"failed", "dead"}, NEW scope \in Scopes, RetryAllOutbox(st, scope) PROVE InvAccepted'
  BY <1>18 DEF RetryAllOutbox, Reopen
<1>19. CASE Crash
  BY <1>19 DEF Crash, ForgetAnswer
<1>20. CASE UNCHANGED vars
  BY <1>20 DEF vars
<1> QED
  BY <1>1, <1>2, <1>3, <1>4, <1>5, <1>6, <1>7, <1>8, <1>9, <1>10,
     <1>11, <1>12, <1>13, <1>14, <1>15, <1>16, <1>17, <1>18, <1>19, <1>20
  DEF Next, Sending, Working, Administering

\* Attempts by status.
LEMMA AttemptsStep == TypeOK /\ InvCalls /\ InvBatch /\ InvAttempts /\ [Next]_vars => InvAttempts'
<1> SUFFICES ASSUME TypeOK, InvCalls, InvBatch, InvAttempts, [Next]_vars PROVE InvAttempts'
  OBVIOUS
<1> USE OutboxAssumption DEF TypeOK, Statuses, Answers, LetGo, Exists, InvCalls, InvBatch, InHand, InvAttempts,
        rowVars, workVars, callVars, sendVars, histVars, adminVars
<1>1. ASSUME NEW n \in Notices, SendStart(n) PROVE InvAttempts'
  BY <1>1 DEF SendStart
<1>2. ASSUME NEW n \in Notices, NEW u \in Users, SendInbox(n, u) PROVE InvAttempts'
  BY <1>2 DEF SendInbox
<1>3. ASSUME NEW n \in Notices, NEW r \in Rows, InsertOutboxRow(n, r) PROVE InvAttempts'
  BY <1>3 DEF InsertOutboxRow
<1>4. ASSUME NEW n \in Notices, NEW r \in Rows, SkipGatedChannel(n, r) PROVE InvAttempts'
  BY <1>4 DEF SkipGatedChannel
<1>5. ASSUME NEW n \in Notices, SendReturn(n) PROVE InvAttempts'
  BY <1>5 DEF SendReturn
<1>6. ASSUME NEW n \in Notices, SendError(n) PROVE InvAttempts'
  BY <1>6 DEF SendError
<1>7. CASE ListDueOutbox
  BY <1>7 DEF ListDueOutbox, DueRows
<1>8. ASSUME NEW r \in Rows, TakeRow(r) PROVE InvAttempts'
  BY <1>8 DEF TakeRow
<1>9. CASE BatchDone
  BY <1>9 DEF BatchDone
<1>10. CASE ProviderAnswers
  BY <1>10 DEF ProviderAnswers
<1>11. CASE MarkOutboxSent
  BY <1>11 DEF MarkOutboxSent
<1>12. CASE MarkOutboxDead
  BY <1>12 DEF MarkOutboxDead, Exhausted
<1>13. CASE MarkOutboxRetry
  BY <1>13 DEF MarkOutboxRetry, Exhausted
<1>14. ASSUME NEW r \in Rows, BackoffElapses(r) PROVE InvAttempts'
  BY <1>14 DEF BackoffElapses
<1>15. CASE MarkFails
  BY <1>15 DEF MarkFails, ForgetAnswer
<1>16. ASSUME NEW a \in Admins, NEW r \in Rows, GetOutboxStatus(a, r) PROVE InvAttempts'
  BY <1>16 DEF GetOutboxStatus
<1>17. ASSUME NEW a \in Admins, RetryOutboxRow(a) PROVE InvAttempts'
  BY <1>17 DEF RetryOutboxRow, Reopen
<1>18. ASSUME NEW st \in {"failed", "dead"}, NEW scope \in Scopes, RetryAllOutbox(st, scope) PROVE InvAttempts'
  BY <1>18 DEF RetryAllOutbox, Reopen
<1>19. CASE Crash
  BY <1>19 DEF Crash, ForgetAnswer
<1>20. CASE UNCHANGED vars
  BY <1>20 DEF vars
<1> QED
  BY <1>1, <1>2, <1>3, <1>4, <1>5, <1>6, <1>7, <1>8, <1>9, <1>10,
     <1>11, <1>12, <1>13, <1>14, <1>15, <1>16, <1>17, <1>18, <1>19, <1>20
  DEF Next, Sending, Working, Administering

\* The body of SentReopenedOnlyByStaleRetry.
Reopened == \A r \in Rows : status[r] = "sent" /\ status'[r] # "sent" =>
    \E a \in Admins : /\ adminPc[a] = "checked" /\ adminRow[a] = r
                      /\ adminPc'[a] = "idle"

\* The rows the worker marks and the rows that are reopened are not sent, but for
\* a row whose status an administrator read before it was.
LEMMA ReopenStep == TypeOK /\ InvCalls /\ InvBatch /\ [Next]_vars => Reopened
<1> SUFFICES ASSUME TypeOK, InvCalls, InvBatch, [Next]_vars PROVE Reopened
  OBVIOUS
<1> USE OutboxAssumption DEF TypeOK, Statuses, Answers, LetGo, Exists, InvCalls, InvBatch, InHand, Reopened,
        rowVars, workVars, callVars, sendVars, histVars, adminVars
<1>1. ASSUME NEW n \in Notices, SendStart(n) PROVE Reopened
  BY <1>1 DEF SendStart
<1>2. ASSUME NEW n \in Notices, NEW u \in Users, SendInbox(n, u) PROVE Reopened
  BY <1>2 DEF SendInbox
<1>3. ASSUME NEW n \in Notices, NEW r \in Rows, InsertOutboxRow(n, r) PROVE Reopened
  <2>1. r \in queue[n] /\ status' = [status EXCEPT ![r] = "pending"]
    BY <1>3 DEF InsertOutboxRow
  <2>2. status[r] = "pending"
    <3>1. Awaited(n, r)
      BY <2>1 DEF InvCalls
    <3> QED BY <3>1 DEF InvCalls, Awaited
  <2>3. \A q \in Rows : status[q] = "sent" => status'[q] = "sent"
    BY <2>1, <2>2
  <2> QED BY <2>3
<1>4. ASSUME NEW n \in Notices, NEW r \in Rows, SkipGatedChannel(n, r) PROVE Reopened
  BY <1>4 DEF SkipGatedChannel
<1>5. ASSUME NEW n \in Notices, SendReturn(n) PROVE Reopened
  BY <1>5 DEF SendReturn
<1>6. ASSUME NEW n \in Notices, SendError(n) PROVE Reopened
  BY <1>6 DEF SendError
<1>7. CASE ListDueOutbox
  BY <1>7 DEF ListDueOutbox, DueRows
<1>8. ASSUME NEW r \in Rows, TakeRow(r) PROVE Reopened
  BY <1>8 DEF TakeRow
<1>9. CASE BatchDone
  BY <1>9 DEF BatchDone
<1>10. CASE ProviderAnswers
  BY <1>10 DEF ProviderAnswers
<1>11. CASE MarkOutboxSent
  BY <1>11 DEF MarkOutboxSent
<1>12. CASE MarkOutboxDead
  BY <1>12 DEF MarkOutboxDead, Exhausted
<1>13. CASE MarkOutboxRetry
  BY <1>13 DEF MarkOutboxRetry, Exhausted
<1>14. ASSUME NEW r \in Rows, BackoffElapses(r) PROVE Reopened
  BY <1>14 DEF BackoffElapses
<1>15. CASE MarkFails
  BY <1>15 DEF MarkFails, ForgetAnswer
<1>16. ASSUME NEW a \in Admins, NEW r \in Rows, GetOutboxStatus(a, r) PROVE Reopened
  BY <1>16 DEF GetOutboxStatus
<1>17. ASSUME NEW a \in Admins, RetryOutboxRow(a) PROVE Reopened
  BY <1>17 DEF RetryOutboxRow, Reopen
<1>18. ASSUME NEW st \in {"failed", "dead"}, NEW scope \in Scopes, RetryAllOutbox(st, scope) PROVE Reopened
  BY <1>18 DEF RetryAllOutbox, Reopen
<1>19. CASE Crash
  BY <1>19 DEF Crash, ForgetAnswer
<1>20. CASE UNCHANGED vars
  BY <1>20 DEF vars
<1> QED
  BY <1>1, <1>2, <1>3, <1>4, <1>5, <1>6, <1>7, <1>8, <1>9, <1>10,
     <1>11, <1>12, <1>13, <1>14, <1>15, <1>16, <1>17, <1>18, <1>19, <1>20
  DEF Next, Sending, Working, Administering

LEMMA InvInit == Init => IInv
BY TypeInit, OutboxAssumption
DEF Init, IInv, TypeOK, InvCalls, InvBatch, InvAccepted, InvAttempts, OutboxHasInbox,
    Exists, Awaited, InHand, Unrecorded, NoRow

LEMMA InvStep == IInv /\ [Next]_vars => IInv'
BY TypeStep, CallsStep, InboxStep, BatchStep, AcceptedStep, AttemptsStep DEF IInv

LEMMA Inductive == Spec => []IInv
BY InvInit, InvStep, PTL DEF Spec

\* No outbox row without its inbox entry, whatever fails in the middle of Send.
THEOREM InboxAlways == Spec => []OutboxHasInbox
<1>1. IInv => OutboxHasInbox
  BY DEF IInv
<1> QED BY Inductive, <1>1, PTL

\* The attempts of the snapshot are current whenever the worker uses them.
THEOREM SnapshotNeverStale == Spec => []SnapshotFresh
<1>1. IInv => SnapshotFresh
  BY DEF IInv, InvBatch, InHand, SnapshotFresh, TypeOK
<1> QED BY Inductive, <1>1, PTL

\* Every delivery but one is explained by a lost record or a reopened row.
THEOREM AtLeastOnceAccounted == Spec => []NoUnexplainedDelivery
<1>1. IInv => NoUnexplainedDelivery
  BY DEF IInv, InvAccepted, NoUnexplainedDelivery
<1> QED BY Inductive, <1>1, PTL

\* The attempts of a row are bounded by the schedule and by its reopenings.
THEOREM AttemptsStayBounded == Spec => []AttemptsBounded
<1>1. IInv => AttemptsBounded
  BY OutboxAssumption DEF IInv, InvAttempts, AttemptsBounded, TypeOK, Statuses
<1> QED BY Inductive, <1>1, PTL

\* Only a retry that read the status before the delivery reopens a sent row.
\* (RetryOutbox, processOutboxRow)
THEOREM SentReopenedByStaleRetry == Spec => SentReopenedOnlyByStaleRetry
<1>1. IInv /\ [Next]_vars => [Reopened]_vars
  BY ReopenStep DEF IInv
<1> QED BY Inductive, <1>1, PTL DEF Spec, SentReopenedOnlyByStaleRetry, Reopened
=============================================================================
