----------------------------- MODULE LateArrival -----------------------------
(***************************************************************************)
(* Late arrivals of students (src/internal/latearrival).  A late student   *)
(* scans the QR token of the duty teacher, then of a school leader, then   *)
(* of a teacher of the class; one endpoint, Scan, does all three.  The     *)
(* first scan of a day creates the record and numbers it in the school     *)
(* year; the number decides whether parents are called or the student is   *)
(* sent home.                                                              *)
(*                                                                         *)
(* Scan runs statement by statement outside any transaction.  There is no  *)
(* unique index on student and day: what keeps one record a day is the     *)
(* read at the start of the scan.                                          *)
(***************************************************************************)
EXTENDS TeacherQR, Naturals, FiniteSets

CONSTANTS
    Records,             \* rows of student_late_arrivals
    Students, Years, Calls,
    NoRecord, NoStudent, NoToken, NoYear,
    FirstHolders, FirstTeaches, FirstYear,  \* the roster at the start
    MaxDay, MaxRosterChanges                \* bounds

Flags == {"late_arrival_duty", "late_arrival_leadership"}

ASSUME LateArrivalAssumption ==
    /\ IsFiniteSet(Records)
    /\ NoRecord \notin Records /\ NoStudent \notin Students
    /\ NoToken \notin Tokens /\ NoYear \notin Years
    /\ FirstHolders \in [Flags -> SUBSET Users]
    /\ FirstTeaches \in [Students -> SUBSET Users]
    /\ FirstYear \in Years
    /\ MaxDay \in Nat /\ MaxRosterChanges \in Nat

VARIABLES
    recStudent, recYear, recDay, lateCount, action, status,
    dutyBy, leadershipBy, classBy,  \* columns of each record
    day,           \* local date of the school
    holders,       \* users with each duty flag
    teaches,       \* users with a slot today in the class of each student
    activeYear, rosterChanges,
    callPc,
    subject, callYear, callDay,     \* each call: its student, and year and day as read
    record, seen,                   \* the record of the day as read, and its status
    actor, token,                   \* owner of the token, and the token
    counted,                        \* late_count computed
    backing,       \* history: the token behind each signature of each record
    overlapped     \* history: students with two first scans in flight at a time

columns == <<recStudent, recYear, recDay, lateCount, action, status, dutyBy, leadershipBy, classBy>>
roster == <<holders, teaches, activeYear, rosterChanges>>
locals == <<subject, callYear, callDay, record, seen, actor, token, counted>>
callVars == <<callPc, locals>>
history == <<backing, overlapped>>
vars == <<qrVars, columns, day, roster, callVars, history>>

Stages == {"pending_duty_teacher", "pending_leadership", "pending_class_teacher"}
Statuses == {"pending_leadership", "pending_class_teacher", "completed"}
Actions == {"none", "call_parent", "send_home"}

TypeOK ==
    /\ TokensTypeOK
    /\ recStudent \in [Records -> Students \cup {NoStudent}]
    /\ recYear \in [Records -> Years \cup {NoYear}]
    /\ recDay \in [Records -> Nat]
    /\ lateCount \in [Records -> Nat]
    /\ action \in [Records -> Actions]
    /\ status \in [Records -> Statuses \cup {"none"}]
    /\ dutyBy \in [Records -> Users \cup {NoUser}]
    /\ leadershipBy \in [Records -> Users \cup {NoUser}]
    /\ classBy \in [Records -> Users \cup {NoUser}]
    /\ day \in Nat
    /\ holders \in [Flags -> SUBSET Users]
    /\ teaches \in [Students -> SUBSET Users]
    /\ activeYear \in Years \cup {NoYear}
    /\ rosterChanges \in Nat
    /\ callPc \in [Calls -> {"idle", "read", "consumed", "allowed", "counted"}]
    /\ subject \in [Calls -> Students \cup {NoStudent}]
    /\ callYear \in [Calls -> Years \cup {NoYear}]
    /\ callDay \in [Calls -> Nat]
    /\ record \in [Calls -> Records \cup {NoRecord}]
    /\ seen \in [Calls -> Statuses \cup {"none"}]
    /\ actor \in [Calls -> Users \cup {NoUser}]
    /\ token \in [Calls -> Tokens \cup {NoToken}]
    /\ counted \in [Calls -> Nat]
    /\ backing \in [Records \X Stages -> Tokens \cup {NoToken}]
    /\ overlapped \in SUBSET Students

Init ==
    /\ TokensInit
    /\ recStudent = [r \in Records |-> NoStudent]
    /\ recYear = [r \in Records |-> NoYear]
    /\ recDay = [r \in Records |-> 0]
    /\ lateCount = [r \in Records |-> 0]
    /\ action = [r \in Records |-> "none"]
    /\ status = [r \in Records |-> "none"]
    /\ dutyBy = [r \in Records |-> NoUser]
    /\ leadershipBy = [r \in Records |-> NoUser]
    /\ classBy = [r \in Records |-> NoUser]
    /\ day = 1
    /\ holders = FirstHolders
    /\ teaches = FirstTeaches
    /\ activeYear = FirstYear
    /\ rosterChanges = 0
    /\ callPc = [c \in Calls |-> "idle"]
    /\ subject = [c \in Calls |-> NoStudent]
    /\ callYear = [c \in Calls |-> NoYear]
    /\ callDay = [c \in Calls |-> 0]
    /\ record = [c \in Calls |-> NoRecord]
    /\ seen = [c \in Calls |-> "none"]
    /\ actor = [c \in Calls |-> NoUser]
    /\ token = [c \in Calls |-> NoToken]
    /\ counted = [c \in Calls |-> 0]
    /\ backing = [x \in Records \X Stages |-> NoToken]
    /\ overlapped = {}

\* The call returns: with an answer, or with an error.
Return(c) ==
    /\ callPc' = [callPc EXCEPT ![c] = "idle"]
    /\ subject' = [subject EXCEPT ![c] = NoStudent]
    /\ callYear' = [callYear EXCEPT ![c] = NoYear]
    /\ callDay' = [callDay EXCEPT ![c] = 0]
    /\ record' = [record EXCEPT ![c] = NoRecord]
    /\ seen' = [seen EXCEPT ![c] = "none"]
    /\ actor' = [actor EXCEPT ![c] = NoUser]
    /\ token' = [token EXCEPT ![c] = NoToken]
    /\ counted' = [counted EXCEPT ![c] = 0]

Continue(c, pc) == callPc' = [callPc EXCEPT ![c] = pc]

-----------------------------------------------------------------------------
\* Mutant: the bounds of the day are those of the day before.
RecordsOfYesterday(s) == {r \in Records : recStudent[r] = s /\ recDay[r] + 1 = day}

RecordsOfToday(s) == {r \in Records : recStudent[r] = s /\ recDay[r] = day}

\* Call c is on the way to create a record for student s.
Creating(c, s) == callPc[c] # "idle" /\ subject[c] = s /\ record[c] = NoRecord

\* Scan begins: active year, date, and the record of the day (the latest; two
\* exist after overlapping first scans only, and then either may be).
GetTodayForStudent(c, s) ==
    /\ callPc[c] = "idle"
    /\ activeYear # NoYear
    /\ Continue(c, "read")
    /\ subject' = [subject EXCEPT ![c] = s]
    /\ callYear' = [callYear EXCEPT ![c] = activeYear]
    /\ callDay' = [callDay EXCEPT ![c] = day]
    /\ \/ /\ RecordsOfToday(s) = {}
          /\ overlapped' = IF \E d \in Calls : Creating(d, s) THEN overlapped \cup {s} ELSE overlapped
          /\ UNCHANGED <<record, seen>>
       \/ \E r \in RecordsOfToday(s) :
            /\ record' = [record EXCEPT ![c] = r]
            /\ seen' = [seen EXCEPT ![c] = status[r]]
            /\ UNCHANGED overlapped
    /\ UNCHANGED <<actor, token, counted, qrVars, columns, day, roster, backing>>

ScanConsume(c, k) ==
    /\ callPc[c] = "read"
    /\ ConsumeToken(k)
    /\ actor' = [actor EXCEPT ![c] = qrOwner[k]]
    /\ token' = [token EXCEPT ![c] = k]
    /\ Continue(c, "consumed")
    /\ UNCHANGED <<subject, callYear, callDay, record, seen, counted,
                   columns, day, roster, history>>

\* Who may sign, given the status read ("none": there is no record yet).  A
\* record read as completed is a conflict for everyone.
Authority(s, st, u) ==
    \/ st = "none" /\ u \in holders["late_arrival_duty"]
    \/ st = "pending_leadership" /\ u \in holders["late_arrival_leadership"]
    \/ st = "pending_class_teacher" /\ u \in teaches[s]

\* A teacher who fails the check is CallFails: the token stays burnt.
ScanCheck(c) ==
    /\ callPc[c] = "consumed"
    /\ Authority(subject[c], seen[c], actor[c])
    /\ Continue(c, "allowed")
    /\ UNCHANGED <<locals, qrVars, columns, day, roster, history>>

-----------------------------------------------------------------------------
\* Mutant: the number of the record is the count before it.
CountSoFar(s, y) == Cardinality({r \in Records : recStudent[r] = s /\ recYear[r] = y})

NextLateCount(s, y) == Cardinality({r \in Records : recStudent[r] = s /\ recYear[r] = y}) + 1

CountForStudentYear(c) ==
    /\ callPc[c] = "allowed"
    /\ record[c] = NoRecord
    /\ counted' = [counted EXCEPT ![c] = NextLateCount(subject[c], callYear[c])]
    /\ Continue(c, "counted")
    /\ UNCHANGED <<subject, callYear, callDay, record, seen, actor, token,
                   qrVars, columns, day, roster, history>>

lateArrivalAction(n) ==
    IF n \in {2, 5} THEN "call_parent" ELSE IF n \in {3, 6} THEN "send_home" ELSE "none"

\* The record is born with the stage of the duty teacher signed, and dated by
\* the clock as the scan began.
CreateRecord(c, r) ==
    /\ callPc[c] = "counted"
    /\ status[r] = "none"
    /\ recStudent' = [recStudent EXCEPT ![r] = subject[c]]
    /\ recYear' = [recYear EXCEPT ![r] = callYear[c]]
    /\ recDay' = [recDay EXCEPT ![r] = callDay[c]]
    /\ lateCount' = [lateCount EXCEPT ![r] = counted[c]]
    /\ action' = [action EXCEPT ![r] = lateArrivalAction(counted[c])]
    /\ status' = [status EXCEPT ![r] = "pending_leadership"]
    /\ dutyBy' = [dutyBy EXCEPT ![r] = actor[c]]
    /\ backing' = [backing EXCEPT ![<<r, "pending_duty_teacher">>] = token[c]]
    /\ Return(c)
    /\ UNCHANGED <<leadershipBy, classBy, qrVars, day, roster, overlapped>>

\* Mutant: the updates of the stages have no condition on the status.
AtStageUnguarded(c, st) == callPc[c] = "allowed" /\ seen[c] = st /\ record[c] # NoRecord

\* The condition of the two updates; on zero rows the call fails (errStageRace).
AtStage(c, st) ==
    /\ callPc[c] = "allowed" /\ seen[c] = st /\ record[c] # NoRecord
    /\ status[record[c]] = st

Sign(c, st, next) ==
    /\ status' = [status EXCEPT ![record[c]] = next]
    /\ backing' = [backing EXCEPT ![<<record[c], st>>] = token[c]]
    /\ Return(c)
    /\ UNCHANGED <<recStudent, recYear, recDay, lateCount, action, dutyBy,
                   qrVars, day, roster, overlapped>>

UpdateLeadershipStage(c) ==
    /\ AtStage(c, "pending_leadership")
    /\ leadershipBy' = [leadershipBy EXCEPT ![record[c]] = actor[c]]
    /\ Sign(c, "pending_leadership", "pending_class_teacher")
    /\ UNCHANGED classBy

UpdateClassStage(c) ==
    /\ AtStage(c, "pending_class_teacher")
    /\ classBy' = [classBy EXCEPT ![record[c]] = actor[c]]
    /\ Sign(c, "pending_class_teacher", "completed")
    /\ UNCHANGED leadershipBy

\* A failed check, a refused token, zero rows, an error, a lost connection.
CallFails(c) ==
    /\ callPc[c] # "idle"
    /\ Return(c)
    /\ UNCHANGED <<qrVars, columns, day, roster, history>>

-----------------------------------------------------------------------------
DayPasses ==
    /\ day < MaxDay
    /\ day' = day + 1
    /\ UNCHANGED <<qrVars, columns, roster, callVars, history>>

\* Duty assignments, the timetable and the active year are edited meanwhile.
RosterChanges ==
    /\ rosterChanges < MaxRosterChanges
    /\ rosterChanges' = rosterChanges + 1
    /\ \/ \E f \in Flags, u \in Users :
            /\ holders' = [holders EXCEPT ![f] = IF u \in @ THEN @ \ {u} ELSE @ \cup {u}]
            /\ UNCHANGED <<teaches, activeYear>>
       \/ \E s \in Students, u \in Users :
            /\ teaches' = [teaches EXCEPT ![s] = IF u \in @ THEN @ \ {u} ELSE @ \cup {u}]
            /\ UNCHANGED <<holders, activeYear>>
       \/ /\ activeYear' \in Years \cup {NoYear}
          /\ UNCHANGED <<holders, teaches>>
    /\ UNCHANGED <<qrVars, columns, day, callVars, history>>

TokenSteps ==
    /\ \E k \in Tokens : (\E u \in Users : GenerateToken(u, k)) \/ TokenExpires(k)
    /\ UNCHANGED <<columns, day, roster, callVars, history>>

CallSteps(c) ==
    \/ \E s \in Students : GetTodayForStudent(c, s)
    \/ \E k \in Tokens : ScanConsume(c, k)
    \/ ScanCheck(c) \/ CountForStudentYear(c)
    \/ \E r \in Records : CreateRecord(c, r)
    \/ UpdateLeadershipStage(c) \/ UpdateClassStage(c)
    \/ CallFails(c)

Next == DayPasses \/ RosterChanges \/ TokenSteps \/ \E c \in Calls : CallSteps(c)

Spec == Init /\ [][Next]_vars

-----------------------------------------------------------------------------
\* A student whose first scans never overlapped has one record a day: a scan
\* after a restart, after midnight or after the record is complete adds none.
OneRecordPerDayUnlessOverlap ==
    \A s \in Students \ overlapped : \A q, r \in Records :
        recStudent[q] = s /\ recStudent[r] = s /\ recDay[q] = recDay[r] => q = r

\* ... and the records of a school year are numbered 1, 2, 3 ... without gap or
\* repetition, so that no action of lateArrivalAction is skipped.
NumberedUnlessOverlap ==
    \A s \in Students \ overlapped, y \in Years :
        LET mine == {r \in Records : recStudent[r] = s /\ recYear[r] = y}
        IN  {lateCount[r] : r \in mine} = 1 .. Cardinality(mine)

\* The UPDATEs sign the next stage only: no signature is replaced, no record
\* falls back, whatever the scans in flight have read.
RecordsOnlyAdvance ==
    [][\A r \in Records :
         /\ dutyBy[r] # NoUser => dutyBy'[r] = dutyBy[r]
         /\ leadershipBy[r] # NoUser => leadershipBy'[r] = leadershipBy[r]
         /\ classBy[r] # NoUser => classBy'[r] = classBy[r]
         /\ status[r] = "completed" => status'[r] = "completed"]_vars

\* Every signature is that of the owner of a token which signs nothing else
\* (ConsumeToken).
SignedByTokenOwner ==
    /\ \A r \in Records :
         /\ dutyBy[r] # NoUser => dutyBy[r] = qrOwner[backing[<<r, "pending_duty_teacher">>]]
         /\ leadershipBy[r] # NoUser => leadershipBy[r] = qrOwner[backing[<<r, "pending_leadership">>]]
         /\ classBy[r] # NoUser => classBy[r] = qrOwner[backing[<<r, "pending_class_teacher">>]]
    /\ \A x, y \in Records \X Stages : backing[x] = backing[y] /\ backing[x] # NoToken => x = y
=============================================================================
