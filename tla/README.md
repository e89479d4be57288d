# NouSchool: a TLA+ model of the concurrent core

NouSchool is a multi-tenant school administration system. One Go process
(`src/cmd/server/main.go`) serves HTTP to a React PWA (`src/web`) over one
PostgreSQL database, and runs two background workers. This directory holds TLA+
modules for the parts of it in which several requests, a worker, an external
provider or the clock meet on the same rows; TLC configurations that check them
on small instances; and TLAPS proofs of their safety properties for every value
of the constants.

Contents: 1 the system, 2 the components, 3 how the modules correspond to the
code, 4 the runs and their bounds, 5 fairness, 6 the proofs, 7 disagreements
between code and comments, 8 what is not modelled, 9 the plan.

To repeat the checks, in this directory:

    tlc -workers 2 -config MCOutbox.cfg MCOutbox      # any run of PROJECT.json
    tlapm OutboxProofs.tla                            # any ...Proofs module

## 1. The system

A request goes through the middleware chain Recover, Logger, SecurityHeaders,
ResolveTenant (host to school, cached), SubscriptionGuard (billing snapshot,
cached) and the router, then to a `Service` method, then to SQL through sqlc
queries. Three facts about this code shape the models:

* **Handlers run concurrently and mostly without a transaction.** A service
  method reads rows, checks them in Go, and writes with further statements. What
  protects it, where something does, is the `WHERE` of the `UPDATE` (exit
  permits, late arrivals, one-use tokens, leave steps) or a unique index
  (attendance sessions and marks). So in every module one action is one SQL
  statement (or one transaction) together with the Go code up to the next one,
  and the steps of all calls interleave.
* **Any statement can fail and the process can stop between two of them.** There
  is no saga or outbox around handlers. In the models a call either has an
  explicit failing action (`CallFails`, `WriterFails`, `MarkFails`, `Crash`) or,
  where failing changes nothing, simply takes no further step.
* **Two workers share the tables with the handlers**: `notification.StartWorker`
  (polls every 10 s, a batch of 50 rows, in sequence) and
  `billing.StartLifecycleWorker` (every hour and once at start).

How components talk: direct calls of Go interfaces wired in `cmd/server`
(exit permits and late arrivals call `teacherqr.ConsumeToken`, duty flags and
the timetable through `b2adapter.go`; the scan of a room in teaching reads the
timetable and the substitutions and opens an attendance session; the activation
of a student's code makes an account and a session in identity), shared tables
(`notification_outbox` is written by Send, by the worker and by platform
administration), caches that writers invalidate (billing snapshot, tenant host),
HTTP to providers (push, WhatsApp, e-mail, the payment gateway) and webhooks
back, and WebSocket events that tell a page to fetch again and are not kept.

## 2. The components

`PROJECT.json` has the same list, with the sources, and the hazards at their
lines. *Modelled* in the table includes parts modelled partly; section 8 says
what of them is left out.

### Modelled

| component | state | operations | what is hard | what makes it correct |
|---|---|---|---|---|
| notification outbox and worker (`internal/notification`, retry in `internal/platformadmin`) | `notifications` (inbox), `notification_outbox` | Send; poll, send, mark; RetryOutbox, RetryAllOutbox | Send is not atomic; a mark is lost after the provider accepted; administrators write the rows the worker holds | every outbox row has its inbox entry, deliveries and attempts are accounted for, every row ends sent or dead |
| teacher QR tokens (`internal/teacherqr`) | `teacher_qr_tokens` | GenerateToken, ConsumeToken, expiry | two scans of one token | a token signs once, for its owner |
| exit permits (`internal/exitpermit`) | `exit_permits` and the gate pass | submit, four scans, cancel, reject, gate scan | each is read, consume, check, update; rejection, cancellation and gate race | four signatures in order by the right people, one outcome, one active permit |
| late arrivals (`internal/latearrival`) | `late_arrivals` | the one scan endpoint in its three stages, numbering | first scans overlap, midnight, change of school year | one record a day, numbered without gap, signatures stand |
| leave approval (`internal/leave`) | `leave_requests`, `leave_approvals`, settings | submit with a snapshot of the chain, decide, cancel | request and steps are read apart from the transaction that writes | status follows the steps, decided in order and for good |
| student leave letters (`internal/studentleave`) | `student_leave_requests`, `letter_sequences` | submit, homeroom and BK decisions, withdraw, letter number | the number is drawn between the check and the guarded update | what a caller was told stays true; one letter per number |
| discipline and warning letters (`internal/discipline`) | records, types, thresholds, `warning_letters` | record, evaluate, number, delete, edit types and thresholds | evaluation is five statements after the record; two recordings race for one level | who reached a threshold has a letter, but for the named causes |
| grading and reports (`internal/grading`) | components, grades, goals, manual scores, publication | edit components, put sheets, publish; a pupil's page, a report | sheets are written row by row without a transaction, goals deleted first; pages read table by table | an answered sheet is saved; a page is of one moment |
| billing: invoices and lifecycle (`internal/billing`) | `subscriptions`, `invoices`, `payments` | create, prove, pay, webhook, verify, void, extend, the two transitions of the worker | activation is three unguarded statements; webhooks repeat and are lost; failure between the statements | paid means granted, granted means paid for, one period per invoice, locked only and surely when overdue |
| billing: cached snapshot and overrides (`internal/billing`) | map of entries with their end, `feature_overrides` | snapshotFor, every writer that invalidates, SetFeatureOverrides | a reader stores after an invalidation; merges overlap; writers fail before they invalidate | bounded staleness with known causes; overrides merge |
| tenant hosts and domains (`internal/tenant`) | `schools` (domains, standing), cache of hosts | Resolve, PutDomain, VerifyDomain, DeleteDomain, CreateSchool, UpdateSchool | a lookup stores after an invalidation; verification acts on what is pending now, not on what it looked up | a host means its school, or one of the named lags explains why not; what is verified is in use |
| realtime hub (`internal/realtime`, `web/src/lib/realtime.ts`) | connections with buffers; the rows a page shows | register, publish, drop, close; fetch, merge of requests, reconnect | events are not kept, a page does not fetch on reconnection, a fetch under way absorbs an event | a page that shows old rows has an event or a fetch on the way, or has missed one in a named way |
| attendance (`internal/attendance`) | `attendance_sessions`, `attendance_records`, `student_qr_cards`, `audit_logs` | open, bulk update, card scan, self check-in, finalize, generate and replace cards | finalization compares two counts; old marks are read before they are overwritten; lock checked at the start of a request | finalized is complete, changes are reported and audited, scans replace nothing, a card is not lost |
| schedule (`internal/schedule`) | slots, periods, rooms; previews in memory | create, update, delete, copy, import, periods | the check reads, the write follows, and no lock or constraint is between | no double booking but between slots never compared; periods in use stay |
| teaching journals (`internal/teaching`) | `teaching_journals` | scan of a room's code, session without a scan | journal and session are two statements, each after a read of the slot; the year changes | journal, session and class agree, and the journal is monitored, but for scans that stopped, slots that moved and years that ended |
| substitutions (`internal/substitution`) | requests | ask, accept, refuse, withdraw | decisions race with each other and with the scan | who taught as a substitute was accepted |
| students and enrolment, import (`internal/student`) | students, `enrollments`, active year; previews in memory | enrol, transfer, import, commit, activate a year | lookup and insert in a transaction that locks nothing; a preview outlives the year | one class per year, and a transfer never leaves a student without a class |
| accounts: invitations, sessions, members (`internal/student`, `internal/identity`) | users, memberships, codes, sessions, the setting for one device | invite, activate, log in, log out, impersonate, deactivate, change the setting | activation is five statements; login makes its session before it reads the setting, and races login, setting and deactivation | a used code left an account; one account a target; one device; no session of an inactive member |

### Not modelled

| component | state and operations | why |
|---|---|---|
| identity: roles, permissions, limits | permission overrides with a cache, login window | the cache has the shape of the two that are modelled; the window is counted under a mutex |
| impersonation of a school by the platform | tokens in memory; issue, redeem | check and mark under one mutex; a restart only loses tokens |
| tenant: interest form | counters per address under one lock | nothing interleaves |
| duty rosters (`internal/duty`) | assignments | seen by others as a roster that changes (`RosterChanges`) |
| employees, counseling, announcements, dashboard | plain rows, or reads | rows of one owner; nothing to interleave |
| platform administration (`internal/platformadmin`) | reads | its writes are in Outbox (RetryOutbox), Billing (ExtendSubscription) and Hosts (schools) |
| platform libraries, server wiring, bootstrap, web screens, backup scripts | no state of the server's own | |

## 3. Modules and code

An `MC` module is an instance for TLC, of one module or of several that interact
(`MCTeaching`) or share a run (`MCRecords`, `MCInMemory`); a `...Proofs` module
holds the theorems. `PROJECT.json` maps every definition to its lines. Definitions called *Mutant*
in a comment are plausible bugs in the definition that follows them; no next-state
relation uses them. They are there to be put in its place: each property is
violated by at least one.

**Outbox** (`notification/service.go`, `worker.go`, `backoff.go`,
`platformadmin/service.go`). A row is `<<notice, user, channel>>`. Send is
`callPc, todo, queue, enabled`: it takes a recipient, inserts the inbox entry,
then the rows of the channels one by one, and a failure ends the whole call. The
worker is `workerPc, batch, snapshot, row, answer`: it polls due rows (oldest
first, at most `BatchSize`) with their attempts, hands one to the provider,
waits for its answer and marks it sent, failed or dead with an unguarded UPDATE.
`created` orders the rows, `due` is `next_attempt_at`. An administrator checks
the status of a row and reopens it in another statement. `Crash` loses what is
in memory; `MarkFails` loses one mark. `accepted`, `lost`, `retried` are history.

**TeacherQR, ExitPermit, ExitChain** (`teacherqr`, `exitpermit`). ExitPermit
extends TeacherQR. A scan reads the permit (`seen`, `seenDuty`), consumes the
token (the only statement safe by itself), checks stage and authority in Go
against the old read, and updates `WHERE status = seen stage`. Cancellation,
rejection and the gate have their own read and guarded update; the rejection's
update accepts any status that is not final. `holders` and `slot` are the duty
flags and the timetable as `b2adapter.go` answers, which `RosterChanges` may
change at any time. `ExitChain` is the abstract promise, a chain of four
signatures without calls or tokens; `ChainSpec` says ExitPermit implements it
(`stage <- status, first <- dutyBy`).

**LateArrival** (`latearrival`) extends TeacherQR too. One endpoint does three
things: it reads the record of today, consumes the token, checks the authority
the stage asks for, and either numbers and creates the record or signs the next
stage. `callDay` and `callYear` are what the scan read when it began; the clock
and the active year may pass on meanwhile.

**LeaveApproval, LeaveDecision** (`leave`). Submission copies the chain of the
settings into steps, skipping those whose approver is the requester, by name or by role. A decision
reads the request, its steps, checks role or person, then runs the transaction
of `repository.go` (guarded step update, and a guarded request update only when
the decision is final for the request). `LeaveDecision` is the abstract engine;
`EngineSpec` says LeaveApproval implements it, with `granted` mapped to the
approved steps of a request that is pending or approved.

**Billing** (`billing/service.go`, `repository.go`, `lifecycle.go`). Days are
numbers. An activation, from the webhook or the verification, is: read the
invoice; return if paid; read the subscription and compute the new end; upsert;
mark paid. `orderState` is the transaction at the gateway: created there before
its row is recorded here, settled by the customer, acknowledged when a webhook
was answered with success. The worker reads the date once and runs its two
UPDATEs. `granted` counts periods written for an invoice, `raced` marks invoices
whose activations overlapped or were interrupted.

**SubscriptionCache** (`billing/service.go`, `guard.go`). The row of a school is
abstracted to a version number; version 0 is the readonly snapshot cached when a
read fails. A lookup hits or misses under the lock, a miss reads the database
without it and stores later. A writer writes, then invalidates, or fails in
between. `SetFeatureOverrides` is read, merge, write, invalidate.

**Attendance** (`attendance`). The key of a session stands for its row (unique
index). Four kinds of writes: the bulk update reads session, window, roster and
the old marks, upserts in one transaction, then notifies and audits; the card
scan and the check-in insert only where no mark exists; finalization compares
two counts and locks. Cards: generation for students without one, and
replacement as revoke, then insert. `stale` and `raced` are history: marks that
changed after a call read them, and marks such a call wrote over.

**Hosts** (`tenant/resolver.go`, `domain.go`, `service.go`) runs beside
SubscriptionCache in `MCInMemory`. A lookup takes the cached school of a host,
or misses, reads and stores later; an entry lives 60 s. The three operations on
a domain read the school, check (free; resolves to this server), write, and drop
entries, one at a time. Verification looks up the domain it has read, and
`VerifyPendingDomain` then puts in use whatever is pending. The platform writes
the same columns and drops nothing. `lagging` is history: the entries whose
writer will not drop them; `overtaken`, the changes another one came between.

**Realtime** (`realtime/hub.go`, `ws.go`, the client in `web/src/lib`). The rows
are a version. A handler writes, copies the connections under the lock, then
puts the event into each buffer; a full buffer drops the connection. A
connection is accepted before it is registered; its events wait in the buffer,
then in the socket. A page fetches when it is opened and on an event; while a
fetch is under way a second one replaces it, except the first one of all, which
is joined. `missed` is history: the pages no event or fetch will tell.

**Roster, Accounts** (`student`, `identity`). Accounts extends Roster. To enrol
is two actions, the lookup with its checks and the delete with the insert; an
import does the same for a class found at its preview, in the year active at its
commit. A code is given out for a student whether he has an account or not
(section 7), and for a guardian where the student has none. An account is made by
the activation of a code: account with membership, link, mark, session. Login
reads the membership, makes its session, reads the setting for one device
(`singleDevice`, which `PutSecurity` changes at any time), and then ends the other
sessions or keeps them: `KeepOtherSessions` is the setting that is off and the
read that fails, which the code ignores alike. An activation and an impersonation
add a session and end none. Deactivation marks the member and then ends his
sessions. Each step of a call may be its last. `split`, `behind`, `crossed`,
`reinvited`, `cut`, `kept`, `loose` and `late` are history: the exceptions the
properties allow.

**Timetable, Teaching** (`schedule`; `teaching`, `substitution`, and what the scan
needs of `attendance`). A writer of Timetable is a request between its reading
and its writing, or the preview of a file. `unread` and `unchecked` are history:
which slots a writer has not seen as they are, and which pairs no check has
compared. Teaching extends Timetable: a scan reads slot and substitution,
inserts the journal, reads the class again and inserts the session, each in a
statement of its own; a session asked for without a scan, for any date, reads and
inserts in two as well. `activeYear` may change at any time: SlotNow and the
monitoring list slots of the active year only, what finds a slot by its
identifier asks for no year. `shifted` and `cut` are history: lessons in use
whose slot got another day or class, and lessons of scans that stopped half way.

**WarningLetters, StudentLeave** (`discipline`, `studentleave`). A recording
inserts, adds up, reads thresholds, reads letters, draws a number, inserts the
letter; any step may fail. Types, points and thresholds are edited meanwhile.
StudentLeave is the two-stage request with its number; it implements the
`LeaveDecision` of the staff's leave, with two positions (`LeaveDecisionSpec`).

**Grading** (`grading`) is one subject of one class. A sheet (grades of a
component, manual scores, goals of components) is checked as a whole, `Put`, and
its rows, `rest`, are then written one at a time; the goals are all deleted
before. It ends with its answer, or where a statement fails or the table refuses
a row. A page of a pupil reads publication, components and marks, a report
components, marks and manual scores, each in a statement of its own, and then
computes. `Truth` is what the tables say at once; `touched`, `moments` and
`changes` are history: sheets another request has written into, what has been
true since a reader began, and how often its tables have changed.

## 4. The runs

Each run asks a question of its own. `CHECK_DEADLOCK FALSE` is set where the
bounds get used up and the database then rests, which is no defect (`outbox`,
`exit_permits`, both `billing` runs, `in_memory`, `late_arrival`,
`leave_approval`, `attendance`, `records`); the other runs check that something can always
happen. Symmetry is used only in runs without liveness, and a `CONSTRAINT` too.

| run | instance | shows |
|---|---|---|
| `outbox` | 1 notice to 1 user over 2 channels, batch 1, 2 backoffs, 1 administrator with 1 retry, 1 fault | `NoUnexplainedDelivery` (at-least-once, each repetition explained), `SentReopenedOnlyByStaleRetry`, `EventuallySettled` |
| `exit_permits` | 2 permits of 1 student, 3 users, 4 tokens, 2 calls, 1 roster change | `OneTokenPerSignature`, `OneActiveUnlessOverlap`, `ChainSpec` |
| `late_arrival` | 2 records, 4 tokens, 2 calls, 2 days, 2 years, 1 roster change | `OneRecordPerDayUnlessOverlap`, `NumberedUnlessOverlap` |
| `leave_approval` | 1 request, 3 users, chains of one to three steps, 2 calls, 2 changes of settings or role | `StatusFollowsSteps`, `EngineSpec` |
| `records` | 1 student, 1 type, 3 records, 2 recordings, 2 triples of thresholds, 1 edit, 2 numbers; or 2 requests, 2 deciders, 3 numbers; or 2 pupils, 2 components, 2 teachers, 2 sheets, 2 years; or these and 1 reader | `ReachedIsWarned`, `LeaveDecisionSpec`, `AnsweredIsSaved`, `ReportIsOfOneMoment` |
| `billing` | 1 school, 1 invoice, 1 order, 2 calls, 3 days, no grace, 1 upload or extension, 1 fault | `NeverLockedEarly`, `PaidAndGranted`, `SettledIsHonoured`, `OverdueIsLocked` |
| `billing_activated_twice` | two calls, no fault | *violated:* `ActivatedOnce` |
| `in_memory` | subscriptions: 1 school, 1 request, 2 writers, 2 features, 3 versions, 1 fault; hosts: 2 schools, 2 domains, 1 lookup, 2 managers, 1 edit by the platform; events: 2 pages, 2 handlers, buffers of 1, 2 changes | `BoundedStaleness`, `StaleIsExplained`, `OverridesMergeUnlessRaced`, `HostIsExplained`, `VerifiedIsInUse`, `PageIsTold` |
| `attendance` | 1 daily session, 2 students, 2 cards, 3 calls of which 1 an administrator's, 3 statuses, 3 bodies, 1 roster change | `FinalizedComplete`, `ChangesReported`, `CardKept`, `MarksKept` |
| `timetable` | 3 slots, 2 requests, 1 preview; 2 classes of a year and 1 of the year before, 2 teachers, 1 room, 2 periods | `ConflictsUnchecked`, `PeriodsKept` |
| `teaching` | 1 slot given to another class on another weekday, 2 dates, 2 active years, 2 teachers, 2 calls, 1 request of the timetable; one lesson in use at a time | `SubstituteAccepted`, `JournalHasSession`, `SameClass`, `JournalMonitored` |
| `people` | 1 student, 3 classes of 2 years, 2 calls, 1 file; 2 users, codes, sessions, 4 requests, the setting on or off at first | `OneClassUnlessOverlap`, `OneAccountUnlessCrossed`, `UsedIsLinked`, `OneDevice`, `InactiveHasNoSession`, `EnrolledStays` |

Why the bounds are enough to see the interesting cases:

* *Two calls* are enough for every race of a read with a write, and calls return
  to idle and run again, so long sequences are covered; attendance takes three
  because a bulk update has to meet a scan and a finalization at once.
* *Four tokens* let a permit go through its whole chain and one failed scan burn
  a token of a run that stops earlier; in `late_arrival` they let one record be
  completed and the second one begin.
* *One row, invoice, request or student* is enough where rows do not influence
  each other; the properties that relate rows (one active permit, one record
  a day, slots, hosts, requests that share a numbering) have two or three.
* *Two backoffs* cover failed, failed again, dead, and a dead row reopened.
* *One fault* puts a failure at every point; two only repeat it.
* *Day bounds* pass the end of the period. The billing run has no grace days:
  the day after the end is already overdue. Grace days are a constant, and
  `NeverLockedEarlyAlways` holds for each number of them.
* *Constraints* cut products of parts that have no variable in common, or do not
  meet in the code, down to unions: transfers before codes, or accounts after
  one class (`TransfersOrAccounts`); the whole chain of one permit, or
  submissions of two while the roster changes and one token is used
  (`ChainOrSubmissions`). In `MCInMemory` and `MCRecords` the variable `part`
  says which module moves. `AtMostTwo` lets any two of the four complications of
  the hosts occur together. `Sheets` has two requests write with nobody reading,
  `Pages` one write while a page is read; a reader is followed until two changes
  have come between its reads, after which nothing is promised. `MCOneLesson` has
  one date of the slot in use: the properties of Teaching relate no two lessons.
* The theorems of section 6 have none of these bounds. What they prove is not
  all run again: `SnapshotFresh`, `AttemptsBounded`, `OutboxHasInbox`,
  `SignaturesInOrder`, `OneOutcome`, `SignedByTokenOwner`, `OnePeriodUnlessRaced`, `RecordsOnlyAdvance`, `DecidedInOrder`,
  `DecisionsStand`, `AnswerStands`, `OneLetterPerNumber`, `MeanInRange` and the type invariants are proved only.

Sizes, in distinct states: `outbox` 111 000, `exit_permits` 375 000, `billing`
431 000, `in_memory` 1 255 000, `late_arrival` 344 000, `leave_approval`
531 000, `attendance` 448 000, `timetable` 546 000, `teaching` 711 000, `people`
564 000, `records` 309 000; each takes between one and four minutes with two workers.
Every action of every next-state relation fires in them.

## 5. Fairness

Safety runs use a specification without fairness. Two runs check liveness.

*Outbox, `FairSpec`*: weak fairness of the worker (`for { select { ... ticker } }`
has no exit but the context's, and after a crash the process is started again),
of the provider's answer, and of the passing of each backoff. The second is an
assumption the code does not secure: `http.DefaultClient` in `whatsapp.go` has no
timeout, so a gateway that never answers stops the only worker. It is a hazard
in `PROJECT.json`, and no property claims otherwise. Faults and retries are
bounded, as a database that fails forever settles nothing.

*Billing, `FairSpec`*: weak fairness of the steps of a running call (Go runs a
handler to its end), of the worker's steps (hourly ticker) and of the passing of
days up to the bound; strong fairness of `HandleGatewayWebhook` for each order,
since the gateway repeats a notification until it is answered with success,
while a call is now and then busy. Creating invoices, paying and everything else
a person decides is not fair.

## 6. The proofs

For each module with theorems, an inductive invariant, `IInv`, with `Init => IInv` and
`IInv /\ [Next]_vars => IInv'`; the safety property follows from it and PTL does
the temporal step. Where a proof module is about several modules, each invariant is
named for its own (`HostsInv`, `TimetableInv`). The eight proof modules:
`OutboxProofs`, `ExitPermitProofs`, `LateArrivalProofs` and `LeaveApprovalProofs`
are about the module they are named for; `PlatformProofs` is about Billing,
SubscriptionCache, Hosts and Realtime; `PeopleProofs` about Roster and Accounts;
`RecordsProofs` about WarningLetters, StudentLeave and Grading; `SchoolDayProofs`
about Attendance, Timetable and Teaching. Assumptions are those named in the modules
(`OutboxAssumption`, ...): they say that the null values are not members of the
sets, that bounds are naturals, and that initial tables are well typed. Nothing
bounds the number of calls, rows, users or steps.

| theorem | states | the strengthening, and why it is needed |
|---|---|---|
| `OutboxTypeCorrect`, `InboxAlways`, `SnapshotNeverStale`, `AtLeastOnceAccounted`, `AttemptsStayBounded`, `SentReopenedByStaleRetry` | the four safety invariants of Outbox, and its action property | `InvCalls`: rows a call has not reached do not exist, those in its queue have their inbox entry. `InvBatch`: rows in the worker's hands are due and not sent. `InvAccepted`: an acceptance is held by the status, by the answer in hand, or counted as lost. `InvAttempts`: attempts by status |
| `ExitTypeCorrect`, `TokensSignOnce`, `SignaturesAlwaysInOrder`, `OneOutcomeAlways`, `OneActiveWithoutOverlap` | the invariants of ExitPermit | `InvTokens`: the token of a scan in flight is held by it alone. `InvCalls`: who saw the second stage knows the duty teacher for good, so the stale check that the two differ remains right. `InvGate`, `InvSubmit`: a submission that counted nothing still finds nothing |
| `ExitImplementsChain` | `Spec => ChainSpec` | step simulation under the same invariant; a step is one step of the chain or a stutter |
| `LateArrivalTypeCorrect`, `OneRecordWithoutOverlap`, `NumberedWithoutOverlap`, `SignaturesAreTheOwners`, `RecordsAlwaysAdvance` | records and signatures | `InvCalls`, `InvSigned`: what a scan read remains true of its record. `InvCalm`: outside overlaps one scan is on the way to a record. `InvTokens`, `InvBacked`; the numbering counts the records of a year as finite sets |
| `LeaveTypeCorrect`, `StatusAlwaysFollowsSteps`, `StepsDecidedInOrder`, `DecisionsAlwaysStand` | the leave engine | `InvCalls`: a call about to write has seen the earlier steps decided, and decided steps stay so. `InvSteps`: only steps of a request are decided |
| `LeaveImplementsDecision` | `Spec => EngineSpec` | step simulation; a late approval of a request that is final is a stutter |
| `BillingTypeCorrect`, `NeverLockedEarlyAlways`, `PaidAndGrantedAlways`, `OnePeriodWithoutRace` | billing | `InvDates`: the worker's date is not in the future. `InvOrders`: a transaction not yet recorded is known to one call only. `InvPayments`: activations run for invoices that were paid for. `InvRaces`: outside races one activation runs, none of a paid invoice |
| `CacheTypeCorrect`, `StalenessIsBounded`, `StaleAlwaysExplained`, `OverridesMerge` | the cache | `InvClock`, `InvOrder`, `InvRead`, `InvEntry`: when what was read, or stored, was last current. `InvStale`: the explanation outlives the entry |
| `HostsTypeCorrect`, `HostAlwaysExplained`, `VerifiedAlwaysInUse` | hosts | `HostsInv`: a lookup knows its host, a change its school; what a change has read stands unless another change of the school came between |
| `RealtimeTypeCorrect`, `PageAlwaysTold` | events | `RealtimeInv`: only a handler that is sending has connections to serve; a page whose connection is not registered is told by a handler that has still to copy the connections |
| `AttendanceTypeCorrect`, `FinalizedAlwaysComplete`, `ChangesAlwaysReported`, `CardsAlwaysKept`, `MarksAlwaysKept` | attendance | `InvBarred`: a call that began too late ends without writing. `InvOld`: old marks read are current or known to be stale. `InvReported`: a difference between reports and marks is that of a call about to report. `InvExists`, `InvItem`, `InvClass`: among them, that equal counts of an unchanged class mean that everyone has a mark (finite sets) |
| `TimetableTypeCorrect`, `ConflictsAlwaysUnchecked`, `PeriodsAlwaysKept` | the timetable | `TimetableInv`: a writer has compared its rows with each other and with every slot but its `unread` ones (`BatchCompared`); who replaces the periods has seen those used by the slots it has read (`PeriodsCompared`) |
| `DayTypeCorrect`, `SubstituteAlwaysAccepted`, `JournalAlwaysHasSession`, `AlwaysSameClass`, `JournalAlwaysMonitored` | teaching and substitutions, with the timetable edited by steps of its own | `DayInv`: what is stored of a lesson, and what a call has read of it, fits its slot unless that was shifted (`StoredStands`, `CallsStand`), whatever year is active; a foreign key keeps the slot |
| `PeopleTypeCorrect`, `TwoClassesOnlyByOverlap`, `EnrolledAlwaysStays` | rosters | a call about to delete has read an enrolment of its student in the year it looked up, or another call has written since and the pair is in `split` |
| `UsedAlwaysLinked`, `OneAccountUnlessCalled`, `OneDeviceUnlessLoose`, `InactiveWithoutSession` | accounts | what an activation has made so far is there while it runs and stays for good; a target whom no two calls met has one code or one account, and only a student a call about to give him another code (`Orderly`); who is between two statements is crossed, cut or late when another call passes; an account with several sessions is loose or a login of it is still to read the setting or to end the others (`Tidy`) |
| `ReachedAlwaysWarned`, `LettersNumberedApart` | warning letters | `WarningInv`: every level that the points of a student reach has its letter, or a call of his is still to see it (`Evaluated`, `WillWarn`): one that has not added up yet will see all records, one that has carries a sum the points have not passed since, unless an edit made him overdue. Points grow only by a record whose call is still to add up, and fall by a deletion: facts about sums. `NumbersApart`: a number is in the hands of one call or on one letter |
| `StudentLeaveTypeCorrect`, `AnswersAlwaysStand`, `StudentLeaveImplementsDecision` | student leave letters | a call about to write has seen the earlier stage decided; what is drawn is held by one call or on one letter |
| `AnsweredAlwaysSaved` | sheets of grades | `SheetInv`: a sheet has one row for each pupil or component, and a row that is written is in the tables unless another request has touched it |
| `ReportAlwaysOfOneMoment`, `MeanAlwaysInRange`, `GradingTypeCorrect` | pages and reports | `PagesInv`. `Upcoming` is the answer a reader would give if the tables stood still from now on; until a second change comes it is a moment the reader has seen, though it need not be the present one (`ReadsOneMoment`). What has been read is current until the first change (`ReadIsCurrent`), and the first change leaves the upcoming answer as it was or makes it what the tables now say (`FirstChange`). `ComponentTypes`, `ReaderTypes`: a component in a list has a weight above 0, a mark is at most 100, and every answer is in range (`InRange`) |

*Sums and induction.* Points and means are sums over finite sets, `SumFunction` of
the community modules, which is a fold and so a recursive function on sets.
tlapm cannot instantiate the induction theorems of its library, which take a
predicate. `RecordsProofs` does without them: a set takes the place of the
predicate, and that the proper subsets of a finite set are well-founded
(`FS_StrictSubsetOrderingWellFounded`, `WFMin`) gives `SubsetInduction` and
`GrowingInduction`. From these follow the lemmas the invariants need: a sum takes off
one element at a time, in any order (`SumSplit`), is of naturals a natural
(`SumNat`), grows with its set (`SumFewer`), is the same under a renaming of the
indices (`SumRenamed`), bounded by a multiple of another (`SumAtMost`), and above
0 where a term is (`SumPositive`).

Only model-checked: the three liveness properties (`EventuallySettled`,
`SettledIsHonoured`, `OverdueIsLocked`), since this prover has no rule for
fairness and ENABLED; and the violation, which is a counterexample. Every other
property of a run is a theorem.

## 7. Where comments and code disagree

One disagreement has a run of its own, with a counterexample:

* `billing/service.go:299` calls activation idempotent. Two activations that both
  read before either marks the invoice paid, or a webhook repeated after a
  failure between the last two statements, extend the subscription twice
  (`billing_activated_twice`).

The others appear as an exception in a property, so that the property says
exactly what is left, or are described here.

*Permits, late arrivals, leave*

* At most one active permit (`exitpermit/service.go:171`) and one late record a
  day (`migrations/00016_exit_late.sql:61`) hold only when submissions, or first
  scans, do not overlap: the count and the insert are two statements.
* `exitpermit/service.go:407` lets the approver of the running stage reject; the
  check uses an old status, so one of an earlier stage can (`OneOutcome` shows the
  permit still has one outcome, `ChainSpec` that the chain is kept).
* `leave/repository.go:389` says the guards prevent deciding after a request is
  final. An approval that is not the last one does not look at the request:
  `DecidedOnlyWhilePending` in LeaveApproval does not hold. The status of the
  request is not affected, which is what `EngineSpec` shows.

*Caches*

* `billing/service.go:933` says the request after SetFeatureOverrides surely gets
  the new version. A reader that read the old row stores it after the
  invalidation: `NextRequestSeesUpdate` in SubscriptionCache does not hold.
* `tenant/resolver.go:152` says a change of domain takes effect at once; besides
  the same race, the domain a verification replaces is never dropped, nor is
  anything by UpdateSchool and CreateSchool (`HostIsExplained` names each case).
  `permoverride.go:211` says the same of permissions, whose cache is filled the
  same way.
* `VerifyDomain` looks up the domain it has read, and the statement puts in use
  what is pending then: a domain nobody looked up if PutDomain came between,
  and none, against the comment of the query in `tenant/queries.sql`, if
  two verifications overlap (`VerifiedIsInUse` excepts both). That a name is not
  the pending or custom domain of two schools is checked across columns before
  the write, and no index covers it.
* `realtime/hub.go:190` expects a page to fetch when it is connected; the client
  fetches on events only, after its first fetch (`PageIsTold`).

*Notification, attendance*

* `platformadmin/service.go:276` refuses to retry a row that is neither failed nor
  dead; the check precedes the update (`SentReopenedOnlyByStaleRetry`).
* `docs/05-attendance.md:80-81`: a finalized session locks out teachers, and every
  change is audited; a call that began earlier still writes, and a mark that
  changed between the read and the upsert is replaced unaudited (`MarksKept`,
  `ChangesReported` except them). Line 68 calls the scan an upsert; it only inserts.

*Students, schedule, letters*

* `docs/04-schedule.md:42-49` refuses every overlap. Two requests that read before
  either writes, an import committed long after its preview, a preview committed
  twice, or an update that gives a slot a class of another year are not compared
  (`ConflictsUnchecked` says a conflict is a pair never compared).
* `docs/03-student.md:65` says old data is untouched when a year begins. A file
  previewed in one year and committed in the next deletes the enrolment of the
  new year (`EnrolledStays`, `split`). And `GetStudentByUserID`
  (`student/queries.sql:46`) joins the enrolments of all years and takes one row:
  once a student has two, MyClassID and MyStudentID may say that he has no class.
  No property covers this query, which writes nothing; the same join is
  in the queries of discipline, student leave, late arrivals, exit permits and
  counseling.
* `student/repository.go:369` promises a transfer; overlapping ones leave the
  student in two classes (`OneClassUnlessOverlap`). That one year is active is
  ensured by the index `academic_years_one_active`.
* `student/service.go:821-824` says that codes are for students without an account.
  The test, `st.UserID == 0` at line 843, is of rows of `ListStudents`, whose query
  (`student/queries.sql:7-9`) does not select `user_id`: it is always true. A
  student who has an account gets a new code when his class is invited again; using it
  makes a second account, and the student is linked to that one
  (`OneAccountUnlessCrossed` excepts students in `reinvited`; guardians are counted
  in the table, and the property has no such exception for them).
* One device: two logins at once may end each other's sessions. The setting is read
  after the session is made, and the comment at `identity/service.go:221-224` grants
  that a failed read is ignored: the others then stay, as they do when the
  deletion fails, when the setting is switched on after a login read it, and
  beside the session of an activation or an impersonation (`OneDevice`).
* An impersonation reads the membership and inserts its session as a login does, so
  that one which overlaps the deactivation leaves an inactive member a session
  (`InactiveHasNoSession`, `late`).
* The scan and the monitoring list slots of the active year only
  (`schedule/service.go:943-962`, `998-1026`). When the year changes, the journals of a
  date of the year before are not listed for it any more; a substitute, whose slot is
  found by his request, may still start a journal of such a slot, and it is not
  monitored (`JournalMonitored`).
* A session of attendance stores the class its call has read before: a slot given to
  another class in between leaves journal and session of one lesson with two
  classes (`SameClass`). And `attendance/service.go` opens one for any date,
  of whatever weekday.
* `substitution/service.go:140` refuses who asks for himself; an administrator may name
  the owner of the slot as its substitute.
* A recording that reaches several levels at once issues the highest only; a
  number whose letter is refused is lost (`ReachedIsWarned` asks for the
  highest).

*Grading*

* `grading/service.go:588` admits that a failure of the database leaves half a
  sheet. A component deleted meanwhile does the same, and goals are deleted before
  the new ones are inserted, so that a call which fails loses the old ones
  (`AnsweredIsSaved` is about calls that answer).
* `migrations/00023` keeps goals to components of type "tp"; `UpdateComponent`
  gives a component that has one another type.
* Manual scores are written and read under the year active at the request, not
  the year of the class: a report of last year's class shows computed scores
  where it had manual ones. PutPublication likewise takes a class of any year.

A renewal computes the new end from an earlier read, so that a goodwill extension
in between is lost. No document says otherwise, no property either.

## 8. What is left out, and why

Within the modelled parts: lists, exports, summaries and histories (reads);
texts, reasons, attachments, coordinates, times of day; permissions that do not
depend on state the module keeps (middleware); inputs refused before any
statement. By module:

* Outbox: MarkRead and push subscriptions. Billing: plans, prices, settings.
* LeaveApproval, StudentLeave: dates, files, the verification token of a letter.
* WarningLetters: the snapshot and the PDF of a letter, the year of a record.
* Hosts: the name and the time zone in a cached school, settings, the refusal of
  verification while `SERVER_IP` is unset.
* Realtime: the roles and users an event is meant for, which only select
  connections; presence; pings, which end in `Disconnect`.
* Roster, Accounts: rows of classes, teachers and subjects; teachers in a file;
  passwords, the limit of attempts, the sliding life of a session, the super
  administrator on the platform's host. Administrators have no account here; the
  end of an impersonation is a logout and a session of the administrator, which is
  outside.
* Grading: stars, exports, the recap of a class, labels, the minimum of a component
  and the scores of kind "previous", which only inform; a sheet that names a pupil
  twice, where the last row stands; the notice of publication.
* Timetable, Teaching: periods of a single weekday, names of rooms, journals
  without a slot (CreateUnscheduled), their notes and end (UpdateJournal,
  EndJournal), the compliance report.

Two schools never share a row: `school_id` is in every query the models use, so
one school is enough except where an action ranges over several (RetryAllOutbox,
the caches, domains).

Some reads are one action with the statement that follows or precedes them, where
nothing a property says depends on what comes between: in Timetable the years
of source and destination of a copy (`CopySchedule`), in Roster the active year and
the lookup of a commit (`CommitStudentImport`), in Grading the roster and the active
year of a sheet (`Put`) and the year and the insert of a component
(`CreateComponent`), in Accounts the new account and its membership
(`CreateAccount`), in Teaching the teacher of a session and its class, since a
refusal is a stop at any later point.

Concurrency is at the level of statements. PostgreSQL runs each one atomically
under read committed, and a single guarded UPDATE re-evaluates its condition on
the current row; a transaction of several statements is one action only where
its guards make it so, as noted in the module.

External: providers, the gateway, the DNS and the query library of the web
client are modelled by what the code here does with their answers.

## 9. Plan

Done: Outbox; TeacherQR, ExitChain, ExitPermit; Billing; SubscriptionCache;
LateArrival; LeaveDecision, LeaveApproval; Attendance; Timetable, Teaching;
Roster, Accounts; WarningLetters, StudentLeave, Grading; Hosts, Realtime; and the proofs
of section 6.

Next, most important first:

1. The cache of permission overrides (`identity/permoverride.go`) beside Hosts,
   and administrators as members, whose session at the end of an impersonation is
   made without reading their membership again.
2. Pure functions against reference definitions: `nextBackoff`,
   `resolveDayStatus`, price brackets, report averages.
3. The stars of a pupil (`grading`).
