------------------------------ MODULE Attendance ------------------------------
(***************************************************************************)
(* Attendance of one class (src/internal/attendance).  A session is a      *)
(* class on a date (daily) or a slot of the timetable on a date; a partial *)
(* unique index allows one row for each, so the key stands for the row.    *)
(* Teachers write marks in bulk, scan the QR cards of students, or         *)
(* students check themselves in; finalizing a session locks it for all but *)
(* administrators.  Cards are generated for a class and replaced when lost.*)
(*                                                                         *)
(* Every handler is a sequence of statements without a transaction around  *)
(* them (BulkUpsertRecords is one transaction).  A call is one request; it *)
(* may stop after any statement, which here is a call that takes no        *)
(* further step.  Only statuses matter: notes, coordinates and the time of *)
(* a mark are left out, and the clock is the choice of what it allows.     *)
(***************************************************************************)
EXTENDS Naturals, FiniteSets

CONSTANTS
    Sessions, Daily,       \* keys of sessions; the daily session of today
    Students, Tokens,      \* students; random tokens for QR cards
    Calls, Admins,         \* requests; those of an administrator
    Marks, Bodies,         \* statuses; the bodies of PUT records
    NoMark, NoStudent, NoSession,
    FirstEnrolled, FirstHolder,   \* the class, and the cards, at the start
    MaxRosterChanges              \* bound

ASSUME AttendanceAssumption ==
    /\ Daily \in Sessions /\ NoSession \notin Sessions
    /\ IsFiniteSet(Students) /\ NoStudent \notin Students
    /\ {"hadir", "terlambat"} \subseteq Marks /\ NoMark \notin Marks
    /\ Bodies \subseteq [Students -> Marks \cup {NoMark}]
    /\ Admins \subseteq Calls
    /\ FirstEnrolled \subseteq Students
    /\ FirstHolder \in [Tokens -> Students \cup {NoStudent}]
    /\ \A t, u \in Tokens : FirstHolder[t] = FirstHolder[u] /\ FirstHolder[t] # NoStudent => t = u
    /\ MaxRosterChanges \in Nat

VARIABLES
    session,               \* "absent", "open" or "finalized"
    mark,                  \* status of a student in a session
    windowOver,            \* sessions whose edit window has passed
    enrolled, rosterChanges,
    card, holder,          \* state and student of each token
    audited, told,         \* rows of audit_logs; notices to guardians
    callPc, target,        \* each call: the next statement, its session,
    item, old,             \*   the marks to write and those it read,
    who, todo, total,      \*   its student, students to give cards, a count
    barred,                \* history: calls that began on a locked session
    first,                 \* history: the first mark of a student
    stale,                 \* history: marks replaced since a call read them
    raced,                 \* history: marks written by such a call
    moved                  \* history: sessions whose roster changed

records == <<session, mark>>
roster == <<enrolled, rosterChanges>>
cards == <<card, holder>>
reports == <<audited, told>>
locals == <<item, old, who, todo, total>>
callVars == <<callPc, target, locals>>
history == <<barred, first, stale, raced, moved>>
vars == <<records, windowOver, roster, cards, reports, callVars, history>>

Keys == Sessions \X Students
AnyMark == Marks \cup {NoMark}
Steps == {"idle", "roster", "old", "upsert", "report", "count", "compare", "lock",
          "resolve", "member", "insert", "session", "look", "generate", "reissue", "done"}

TablesTypeOK ==
    /\ session \in [Sessions -> {"absent", "open", "finalized"}]
    /\ mark \in [Keys -> AnyMark]
    /\ windowOver \in SUBSET Sessions
    /\ enrolled \in SUBSET Students
    /\ rosterChanges \in Nat
    /\ card \in [Tokens -> {"unused", "active", "revoked"}]
    /\ holder \in [Tokens -> Students \cup {NoStudent}]
    /\ audited \in SUBSET (Keys \X Marks \X Marks)
    /\ told \in SUBSET (Keys \X Marks)

CallsTypeOK ==
    /\ callPc \in [Calls -> Steps]
    /\ target \in [Calls -> Sessions \cup {NoSession}]
    /\ item \in [Calls \X Students -> AnyMark]
    /\ old \in [Calls \X Students -> AnyMark]
    /\ who \in [Calls -> Students \cup {NoStudent}]
    /\ todo \in [Calls -> SUBSET Students]
    /\ total \in [Calls -> Nat]

HistoryTypeOK ==
    /\ barred \in SUBSET Calls
    /\ first \in [Keys -> AnyMark]
    /\ stale \in SUBSET (Calls \X Students)
    /\ raced \in SUBSET Keys
    /\ moved \in SUBSET Sessions

\* What the later statements of a call rely on.
CallsNamed ==
    /\ \A c \in Calls :
         /\ callPc[c] \in {"roster", "old", "upsert", "report", "count", "compare", "lock",
                           "resolve", "member", "insert", "session", "look"} => target[c] \in Sessions
         /\ callPc[c] \in {"member", "insert", "session", "look", "reissue"} => who[c] \in Students
    /\ \A t \in Tokens : card[t] # "unused" => holder[t] \in Students

TypeOK == TablesTypeOK /\ CallsTypeOK /\ HistoryTypeOK /\ CallsNamed

Init ==
    /\ session = [k \in Sessions |-> "absent"]
    /\ mark = [x \in Keys |-> NoMark]
    /\ windowOver = {}
    /\ enrolled = FirstEnrolled /\ rosterChanges = 0
    /\ holder = FirstHolder
    /\ card = [t \in Tokens |-> IF FirstHolder[t] = NoStudent THEN "unused" ELSE "active"]
    /\ audited = {} /\ told = {}
    /\ callPc = [c \in Calls |-> "idle"] /\ target = [c \in Calls |-> NoSession]
    /\ item = [x \in Calls \X Students |-> NoMark]
    /\ old = [x \in Calls \X Students |-> NoMark]
    /\ who = [c \in Calls |-> NoStudent] /\ todo = [c \in Calls |-> {}]
    /\ total = [c \in Calls |-> 0]
    /\ barred = {} /\ first = [x \in Keys |-> NoMark]
    /\ stale = {} /\ raced = {} /\ moved = {}

Go(c, from, to) == callPc[c] = from /\ callPc' = [callPc EXCEPT ![c] = to]

\* The call returns; what it has read goes with it.
Finish(c, from) ==
    /\ Go(c, from, "done")
    /\ target' = [target EXCEPT ![c] = NoSession]
    /\ item' = [x \in Calls \X Students |-> IF x[1] = c THEN NoMark ELSE item[x]]
    /\ old' = [x \in Calls \X Students |-> IF x[1] = c THEN NoMark ELSE old[x]]
    /\ who' = [who EXCEPT ![c] = NoStudent]
    /\ todo' = [todo EXCEPT ![c] = {}]
    /\ total' = [total EXCEPT ![c] = 0]

Begin(c, to, k) == Go(c, "idle", to) /\ target' = [target EXCEPT ![c] = k]

\* The call began when it was no longer allowed to write.
Bar(c, late) == barred' = IF late THEN barred \cup {c} ELSE barred

-----------------------------------------------------------------------------
\* Create-or-get; when the row exists nothing changes.  A teacher opens a daily
\* session or that of a slot, and the scan of a room opens that of its slot.
CreateSession(k) ==
    /\ session[k] = "absent"
    /\ session' = [session EXCEPT ![k] = "open"]
    /\ UNCHANGED <<mark, windowOver, roster, cards, reports, callVars, history>>

\* EditWindowHours after the session was created (checkEditWindow).
WindowCloses(k) ==
    /\ session[k] # "absent" /\ k \notin windowOver
    /\ windowOver' = windowOver \cup {k}
    /\ UNCHANGED <<records, roster, cards, reports, callVars, history>>

-----------------------------------------------------------------------------
\* Mutant: the check of the status of the session is left out.
UpdateAllowedUnlocked(c, k) ==
    session[k] # "absent" /\ (c \in Admins \/ k \notin windowOver)

UpdateAllowed(c, k) ==
    /\ session[k] # "absent"
    /\ c \in Admins \/ (session[k] # "finalized" /\ k \notin windowOver)

\* PUT records: the session and the edit window are checked ...
UpdateRecords(c, k, body) ==
    /\ UpdateAllowed(c, k)
    /\ \E s \in Students : body[s] # NoMark
    /\ Begin(c, "roster", k)
    /\ item' = [x \in Calls \X Students |-> IF x[1] = c THEN body[x[2]] ELSE item[x]]
    /\ Bar(c, session[k] = "finalized" \/ k \in windowOver)
    /\ UNCHANGED <<records, windowOver, roster, cards, reports, old, who, todo, total,
                   first, stale, raced, moved>>

\* ... every student of the body must be of the class ...
ListClassStudents(c) ==
    /\ Go(c, "roster", "old")
    /\ \A s \in Students : item[<<c, s>>] # NoMark => s \in enrolled
    /\ UNCHANGED <<records, windowOver, roster, cards, reports, target, locals, history>>

\* ... the marks so far are read, to be compared with the new ones ...
ListSessionRecords(c) ==
    /\ Go(c, "old", "upsert")
    /\ old' = [x \in Calls \X Students |-> IF x[1] = c THEN mark[<<target[c], x[2]>>] ELSE old[x]]
    /\ stale' = {x \in stale : x[1] # c}
    /\ UNCHANGED <<records, windowOver, roster, cards, reports, target, item, who, todo, total,
                   barred, first, raced, moved>>

\* The marks of a call replace those of its session, and are new to the calls
\* that have read the session and are about to write.
Write(c, written) ==
    LET k == target[c] IN
    /\ mark' = [x \in Keys |->
         IF x[1] = k /\ x[2] \in written THEN item[<<c, x[2]>>] ELSE mark[x]]
    /\ first' = [x \in Keys |->
         IF x[1] = k /\ x[2] \in written /\ mark[x] = NoMark THEN item[<<c, x[2]>>] ELSE first[x]]
    /\ stale' = stale \cup {x \in Calls \X Students :
         x[1] # c /\ callPc[x[1]] = "upsert" /\ target[x[1]] = k /\ x[2] \in written}
    /\ raced' = raced \cup {x \in Keys : x[1] = k /\ x[2] \in written /\ <<c, x[2]>> \in stale}

\* ... and one transaction writes the new ones.
BulkUpsertRecords(c) ==
    /\ Go(c, "upsert", "report")
    /\ Write(c, {s \in Students : item[<<c, s>>] # NoMark})
    /\ UNCHANGED <<session, windowOver, roster, cards, reports, target, locals, barred, moved>>

\* Mutant: the guardians hear only of a student who had no mark before.
NoticesOfFirst(c) ==
    {<<<<target[c], s>>, item[<<c, s>>]>> : s \in
        {st \in Students : item[<<c, st>>] \notin {NoMark, "hadir"} /\ old[<<c, st>>] = NoMark}}

\* notifyAbsentIfNeeded: a new mark, or another one than was read, and not
\* "hadir".
Notices(c) ==
    {<<<<target[c], s>>, item[<<c, s>>]>> : s \in
        {st \in Students : item[<<c, st>>] \notin {NoMark, "hadir", old[<<c, st>>]}}}

\* The entry of audit_logs: the marks that existed and have changed.
Changes(c) ==
    {<<<<target[c], s>>, old[<<c, s>>], item[<<c, s>>]>> : s \in
        {st \in Students : item[<<c, st>>] # NoMark /\ old[<<c, st>>] \notin {NoMark, item[<<c, st>>]}}}

\* After the marks are written guardians are told and the changes are logged;
\* errors of either are ignored.
Report(c) ==
    /\ Finish(c, "report")
    /\ told' = told \cup Notices(c)
    /\ audited' = audited \cup Changes(c)
    /\ UNCHANGED <<records, windowOver, roster, cards, history>>

-----------------------------------------------------------------------------
FinalizeStart(c, k) ==
    /\ session[k] = "open"
    /\ Begin(c, "count", k)
    /\ UNCHANGED <<records, windowOver, roster, cards, reports, locals, history>>

CountEnrolledForClass(c) ==
    /\ Go(c, "count", "compare")
    /\ total' = [total EXCEPT ![c] = Cardinality(enrolled)]
    /\ UNCHANGED <<records, windowOver, roster, cards, reports, target,
                   item, old, who, todo, history>>

Marked(k) == {s \in Students : mark[<<k, s>>] # NoMark}

\* Mutant: one student without a mark is let through.
NoneUnmarkedButOne(c) == total[c] <= Cardinality(Marked(target[c])) + 1

\* unmarked <= 0: the two counts are compared, not the students.
NoneUnmarked(c) == total[c] <= Cardinality(Marked(target[c]))

CountRecordsForSession(c) ==
    /\ Go(c, "compare", "lock")
    /\ NoneUnmarked(c)
    /\ UNCHANGED <<records, windowOver, roster, cards, reports, target, locals, history>>

\* The update has no condition on the status: a second finalization passes too.
FinalizeSession(c) ==
    /\ Finish(c, "lock")
    /\ session' = [session EXCEPT ![target[c]] = "finalized"]
    /\ UNCHANGED <<mark, windowOver, roster, cards, reports, history>>

-----------------------------------------------------------------------------
\* POST scan: the session is checked ...
ScanQRCard(c, k) ==
    /\ session[k] # "absent"
    /\ c \in Admins \/ session[k] # "finalized"
    /\ Begin(c, "resolve", k)
    /\ Bar(c, session[k] = "finalized")
    /\ UNCHANGED <<records, windowOver, roster, cards, reports, locals,
                   first, stale, raced, moved>>

Resolves(t) == card[t] = "active"

\* ... the token must be an active card ...
ResolveActiveQRToken(c, t) ==
    /\ Go(c, "resolve", "member")
    /\ Resolves(t)
    /\ who' = [who EXCEPT ![c] = holder[t]]
    /\ UNCHANGED <<records, windowOver, roster, cards, reports, target,
                   item, old, todo, total, history>>

\* ... of a student of the class, who is then present.
ScanRoster(c) ==
    /\ Go(c, "member", "insert")
    /\ who[c] \in enrolled
    /\ item' = [item EXCEPT ![<<c, who[c]>>] = "hadir"]
    /\ UNCHANGED <<records, windowOver, roster, cards, reports, target,
                   old, who, todo, total, history>>

\* UNIQUE (session_id, student_id).
CanInsert(c) == mark[<<target[c], who[c]>>] = NoMark

InsertRecordWithMeta(c) ==
    /\ Go(c, "insert", "report")
    /\ CanInsert(c)
    /\ Write(c, {who[c]})
    /\ UNCHANGED <<session, windowOver, roster, cards, reports, target, locals, barred, moved>>

\* A conflict: the scan answers with the mark that is there ("already_marked"),
\* the check-in is refused.
InsertConflicts(c) ==
    /\ Finish(c, "insert")
    /\ ~ CanInsert(c)
    /\ UNCHANGED <<records, windowOver, roster, cards, reports, history>>

-----------------------------------------------------------------------------
\* A student checks in inside the hours and the radius (the choice of the
\* caller's clock and place); late_after_min decides the status.
SelfCheckin(c, s, status) ==
    /\ c \notin Admins
    /\ s \in enrolled
    /\ status \in {"hadir", "terlambat"}
    /\ Begin(c, "session", Daily)
    /\ who' = [who EXCEPT ![c] = s]
    /\ item' = [item EXCEPT ![<<c, s>>] = status]
    /\ Bar(c, session[Daily] = "finalized")
    /\ UNCHANGED <<records, windowOver, roster, cards, reports, old, todo, total,
                   first, stale, raced, moved>>

\* Get-or-create of the daily session; a finalized one refuses.
SelfCheckinSession(c) ==
    /\ Go(c, "session", "look")
    /\ session[target[c]] # "finalized"
    /\ session' = [session EXCEPT ![target[c]] = "open"]
    /\ UNCHANGED <<mark, windowOver, roster, cards, reports, target, locals, history>>

GetRecordForStudent(c) ==
    /\ Go(c, "look", "insert")
    /\ CanInsert(c)
    /\ UNCHANGED <<records, windowOver, roster, cards, reports, target, locals, history>>

-----------------------------------------------------------------------------
HasCard(s) == \E t \in Tokens : card[t] = "active" /\ holder[t] = s

\* INSERT of a random token that nobody has; the partial unique index allows
\* one active card for a student.
InsertQRToken(s, t) ==
    /\ ~ HasCard(s)
    /\ card[t] = "unused"
    /\ card' = [card EXCEPT ![t] = "active"]
    /\ holder' = [holder EXCEPT ![t] = s]

\* The students of the class without a card are listed ...
GenerateQRCards(c) ==
    /\ Go(c, "idle", "generate")
    /\ todo' = [todo EXCEPT ![c] = {s \in enrolled : ~ HasCard(s)}]
    /\ UNCHANGED <<records, windowOver, roster, cards, reports, target,
                   item, old, who, total, history>>

\* ... and get one, unless another call has given them one meanwhile.
GenerateOne(c, s) ==
    /\ callPc[c] = "generate" /\ s \in todo[c]
    /\ todo' = [todo EXCEPT ![c] = @ \ {s}]
    /\ callPc' = [callPc EXCEPT ![c] = IF todo[c] = {s} THEN "done" ELSE @]
    /\ \/ \E t \in Tokens : InsertQRToken(s, t)
       \/ HasCard(s) /\ UNCHANGED cards
    /\ UNCHANGED <<records, windowOver, roster, reports, target,
                   item, old, who, total, history>>

\* Mutant: the new card is left to a later call of GenerateQRCards.
RevokeActiveOnly(c, s) ==
    /\ Go(c, "idle", "done")
    /\ who' = [who EXCEPT ![c] = s]
    /\ card' = [t \in Tokens |-> IF holder[t] = s /\ card[t] = "active" THEN "revoked" ELSE card[t]]
    /\ UNCHANGED <<records, windowOver, roster, holder, reports, target,
                   item, old, todo, total, history>>

\* A lost card: one statement revokes it, another issues the new one.
RevokeActiveQRToken(c, s) ==
    /\ Go(c, "idle", "reissue")
    /\ who' = [who EXCEPT ![c] = s]
    /\ card' = [t \in Tokens |-> IF holder[t] = s /\ card[t] = "active" THEN "revoked" ELSE card[t]]
    /\ UNCHANGED <<records, windowOver, roster, holder, reports, target,
                   item, old, todo, total, history>>

\* A conflict with a card issued in between is an error of the call.
RevokeReissue(c) ==
    /\ Finish(c, "reissue")
    /\ \/ \E t \in Tokens : InsertQRToken(who[c], t)
       \/ HasCard(who[c]) /\ UNCHANGED cards
    /\ UNCHANGED <<records, windowOver, roster, reports, history>>

-----------------------------------------------------------------------------
InFlight(k) == \E c \in Calls : target[c] = k

\* The student module enrols students and moves them to other classes.
RosterChanges(s) ==
    /\ rosterChanges < MaxRosterChanges
    /\ rosterChanges' = rosterChanges + 1
    /\ enrolled' = IF s \in enrolled THEN enrolled \ {s} ELSE enrolled \cup {s}
    /\ moved' = moved \cup {k \in Sessions : session[k] # "absent" \/ InFlight(k)}
    /\ UNCHANGED <<records, windowOver, cards, reports, callVars, barred, first, stale, raced>>

CallSteps(c) ==
    \/ \E k \in Sessions :
         \/ \E body \in Bodies : UpdateRecords(c, k, body)
         \/ FinalizeStart(c, k) \/ ScanQRCard(c, k)
    \/ ListClassStudents(c) \/ ListSessionRecords(c) \/ BulkUpsertRecords(c) \/ Report(c)
    \/ CountEnrolledForClass(c) \/ CountRecordsForSession(c) \/ FinalizeSession(c)
    \/ \E t \in Tokens : ResolveActiveQRToken(c, t)
    \/ ScanRoster(c) \/ InsertRecordWithMeta(c) \/ InsertConflicts(c)
    \/ \E s \in Students, status \in Marks : SelfCheckin(c, s, status)
    \/ SelfCheckinSession(c) \/ GetRecordForStudent(c)
    \/ GenerateQRCards(c) \/ \E s \in Students : GenerateOne(c, s)
    \/ \E s \in Students : RevokeActiveQRToken(c, s)
    \/ RevokeReissue(c)

Next ==
    \/ \E k \in Sessions : CreateSession(k) \/ WindowCloses(k)
    \/ \E s \in Students : RosterChanges(s)
    \/ \E c \in Calls : CallSteps(c)

Spec == Init /\ [][Next]_vars

-----------------------------------------------------------------------------
\* A finalized session has a mark for every student of the class, although the
\* check compares two counts taken at different times and the lock comes later.
\* It needs a roster that stays as it was: a student who leaves after a mark
\* makes up for one who has none, and one who joins late has none.
FinalizedComplete ==
    \A k \in Sessions \ moved : session[k] = "finalized" => enrolled \subseteq Marked(k)

\* A mark changes only by a write that began while its writer was allowed to
\* (or is an administrator's), and only the bulk update replaces one: neither a
\* scan nor a check-in takes back what a teacher has entered.
MarksKept ==
    [][\A x \in Keys : mark'[x] # mark[x] => \E c \in Calls :
         /\ target[c] = x[1] /\ callPc[c] \in {"upsert", "insert"} /\ callPc'[c] = "report"
         /\ c \in Admins \/ c \notin barred
         /\ mark[x] # NoMark => callPc[c] = "upsert"
         /\ mark'[x] # NoMark]_vars

\* Guardians of a student who is not present have been told so, and a mark that
\* is no longer the first one is in the audit log, once the calls that wrote to
\* the session have reported: except where a call wrote over a mark that had
\* changed since it read it.
ChangesReported ==
    \A x \in Keys \ raced :
        (\A c \in Calls : callPc[c] = "report" => target[c] # x[1]) =>
            /\ mark[x] \notin {NoMark, "hadir"} => <<x, mark[x]>> \in told
            /\ mark[x] \notin {NoMark, first[x]} => \E m \in Marks : <<x, m, mark[x]>> \in audited

\* A student who was given a card has one: whatever generations and
\* replacements overlap, only a replacement that stopped halfway leaves none.
CardKept ==
    \A t \in Tokens : card[t] # "unused" =>
        \/ HasCard(holder[t])
        \/ \E c \in Calls : callPc[c] = "reissue" /\ who[c] = holder[t]
=============================================================================
