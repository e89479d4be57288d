------------------------------- MODULE Teaching -------------------------------
(***************************************************************************)
(* A school day on top of the timetable: substitute teachers               *)
(* (src/internal/substitution), the teaching journal started by scanning   *)
(* the code of a room (src/internal/teaching), and the attendance session  *)
(* that the same scan opens (src/internal/attendance).  The slots they     *)
(* refer to are edited meanwhile by the steps of Timetable; foreign keys   *)
(* keep those that a journal, a session or a request refers to.            *)
(*                                                                         *)
(* A lesson is a slot on a date: a unique index allows one journal, one    *)
(* session and one pending or accepted request for each.  A scan reads the *)
(* timetable, inserts the journal, reads the class of the slot and creates *)
(* the session, each on its own.  The scan and the monitoring go through   *)
(* the slots of the active academic year; what finds a slot by its         *)
(* identifier does not ask for its year.  Decisions on a request are one   *)
(* step: what they check cannot change except the status, which their      *)
(* statement checks again.  Every user here is a teacher or an             *)
(* administrator in place of one, and the time of day is the choice of a   *)
(* period.                                                                 *)
(***************************************************************************)
EXTENDS Timetable

CONSTANTS Handlers, Dates, DayOf,  \* requests of teachers; dates, as numbers; their weekday
          SchoolYears,             \* the academic years that can be activated
          NoClass, NoTeacher, NoLesson

ASSUME TeachingAssumption ==
    /\ Dates \subseteq Nat /\ 0 \in Dates /\ DayOf \in [Dates -> Nat]
    /\ NoClass \notin Classes /\ NoTeacher \notin Teachers
    /\ NoLesson \notin Slots \X Dates

VARIABLES
    today,
    activeYear,                \* the active academic year of the school
    substitute, decision,      \* of the live request of a lesson
    requested,                 \* slots of any request, for the foreign key
    taughtBy, taught, flagged, \* the journal of a lesson: teacher, class, the flag "substitute"
    attendanceOf,              \* the class of its attendance session
    handlerPc, lesson,         \* each call: its next statement, its lesson,
    user, as, class,           \*   its user, whether as a substitute, the class it read
    shifted,                   \* history: lessons in use whose slot changed day or class
    cut                        \* history: lessons of scans that stopped half way

calendar == <<today, activeYear>>
requests == <<substitute, decision, requested>>
journals == <<taughtBy, taught, flagged>>
calls == <<handlerPc, lesson, user, as, class>>
schoolVars == <<calendar, requests, journals, attendanceOf, calls, shifted, cut>>
allVars == <<timetableVars, schoolVars>>

Lessons == Slots \X Dates

DayTypeOK ==
    /\ TimetableTypeOK
    /\ today \in Dates /\ activeYear \in SchoolYears
    /\ substitute \in [Lessons -> Teachers \cup {NoTeacher}]
    /\ decision \in [Lessons -> {"none", "pending", "accepted"}]
    /\ requested \subseteq Slots
    /\ taughtBy \in [Lessons -> Teachers \cup {NoTeacher}]
    /\ taught \in [Lessons -> Classes \cup {NoClass}]
    /\ flagged \subseteq Lessons
    /\ attendanceOf \in [Lessons -> Classes \cup {NoClass}]
    /\ handlerPc \in [Handlers -> {"idle", "request", "insert", "open", "create", "session"}]
    /\ lesson \in [Handlers -> Lessons \cup {NoLesson}]
    /\ user \in [Handlers -> Teachers \cup {NoTeacher}]
    /\ as \in [Handlers -> BOOLEAN]
    /\ class \in [Handlers -> Classes \cup {NoClass}]
    /\ shifted \subseteq Lessons /\ cut \subseteq Lessons

DayInit ==
    /\ TimetableInit
    /\ today = 0 /\ activeYear \in SchoolYears
    /\ substitute = [k \in Lessons |-> NoTeacher] /\ decision = [k \in Lessons |-> "none"]
    /\ requested = {}
    /\ taughtBy = [k \in Lessons |-> NoTeacher] /\ taught = [k \in Lessons |-> NoClass]
    /\ flagged = {}
    /\ attendanceOf = [k \in Lessons |-> NoClass]
    /\ handlerPc = [c \in Handlers |-> "idle"] /\ lesson = [c \in Handlers |-> NoLesson]
    /\ user = [c \in Handlers |-> NoTeacher] /\ as = [c \in Handlers |-> FALSE]
    /\ class = [c \in Handlers |-> NoClass]
    /\ shifted = {} /\ cut = {}

Step(c, from, to) == handlerPc[c] = from /\ handlerPc' = [handlerPc EXCEPT ![c] = to]

End(c, from) ==
    /\ Step(c, from, "idle")
    /\ lesson' = [lesson EXCEPT ![c] = NoLesson] /\ user' = [user EXCEPT ![c] = NoTeacher]
    /\ as' = [as EXCEPT ![c] = FALSE] /\ class' = [class EXCEPT ![c] = NoClass]

\* Something already refers to this slot on this date, or is about to.
InUse(k) ==
    \/ decision[k] # "none" \/ taughtBy[k] # NoTeacher \/ attendanceOf[k] # NoClass
    \/ \E c \in Handlers : lesson[c] = k

\* A step of the timetable.  The foreign keys of the other tables hold on to a slot.
EditTimetable ==
    /\ TimetableNext
    /\ \A s \in Taken : slot'[s] = Gone =>
         s \notin requested /\ \A d \in Dates : taughtBy[<<s, d>>] = NoTeacher /\ attendanceOf[<<s, d>>] = NoClass
    /\ shifted' = shifted \cup {k \in Lessons : /\ InUse(k) /\ k[1] \in Taken /\ slot'[k[1]] \in Row
                                                /\ \/ slot'[k[1]].day # slot[k[1]].day
                                                   \/ slot'[k[1]].class # slot[k[1]].class}
    /\ UNCHANGED <<calendar, requests, journals, attendanceOf, calls, cut>>

Tomorrow ==
    /\ today + 1 \in Dates /\ today' = today + 1
    /\ UNCHANGED <<timetableVars, activeYear, requests, journals, attendanceOf, calls, shifted, cut>>

\* All years of the school are deactivated and one is activated, in a transaction.
ActivateYear(y) ==
    /\ activeYear' = y
    /\ UNCHANGED <<timetableVars, today, requests, journals, attendanceOf, calls, shifted, cut>>

-----------------------------------------------------------------------------
\* Mutant: the weekday of the slot is not compared with the date.
RequestAnyDay(c, s, d, u) ==
    /\ Step(c, "idle", "request")
    /\ d >= today /\ s \in Taken
    /\ lesson' = [lesson EXCEPT ![c] = <<s, d>>] /\ user' = [user EXCEPT ![c] = u]
    /\ UNCHANGED <<timetableVars, calendar, requests, journals, attendanceOf, as, class, shifted, cut>>

\* POST substitutions: the owner of the slot asks another teacher, or an
\* administrator any teacher, for a date to come on which the slot is taught ...
Request(c, s, d, u) ==
    /\ Step(c, "idle", "request")
    /\ d >= today /\ s \in Taken /\ slot[s].day = DayOf[d]
    /\ lesson' = [lesson EXCEPT ![c] = <<s, d>>] /\ user' = [user EXCEPT ![c] = u]
    /\ UNCHANGED <<timetableVars, calendar, requests, journals, attendanceOf, as, class, shifted, cut>>

\* ... unless the lesson has a live request, or the slot has gone.
CreateRequest(c) ==
    LET k == lesson[c] IN
    /\ End(c, "request")
    /\ decision[k] = "none" /\ k[1] \in Taken
    /\ decision' = [decision EXCEPT ![k] = "pending"]
    /\ substitute' = [substitute EXCEPT ![k] = user[c]]
    /\ requested' = requested \cup {k[1]}
    /\ UNCHANGED <<timetableVars, calendar, journals, attendanceOf, shifted, cut>>

Accept(k) ==
    /\ decision[k] = "pending" /\ decision' = [decision EXCEPT ![k] = "accepted"]
    /\ UNCHANGED <<timetableVars, calendar, substitute, requested, journals, attendanceOf, calls, shifted, cut>>

\* Mutant: a request that was accepted can be taken back.
RejectOrCancelLive(k) ==
    /\ decision[k] # "none"
    /\ decision' = [decision EXCEPT ![k] = "none"] /\ substitute' = [substitute EXCEPT ![k] = NoTeacher]
    /\ UNCHANGED <<timetableVars, calendar, requested, journals, attendanceOf, calls, shifted, cut>>

\* By the substitute, or by who asked; another request may follow.
RejectOrCancel(k) ==
    /\ decision[k] = "pending"
    /\ decision' = [decision EXCEPT ![k] = "none"] /\ substitute' = [substitute EXCEPT ![k] = NoTeacher]
    /\ UNCHANGED <<timetableVars, calendar, requested, journals, attendanceOf, calls, shifted, cut>>

-----------------------------------------------------------------------------
SlotsForDayOfWeek(day) == {s \in Taken : slot[s].day = day /\ slot[s].year = activeYear}

In(s, p) == slot[s].from <= p /\ p <= slot[s].to

SlotNow(t, p) == {s \in SlotsForDayOfWeek(DayOf[today]) : slot[s].teacher = t /\ In(s, p)}

\* The slots that t has accepted for today, in the room that was scanned; their
\* weekday was checked when they were requested.
SubstituteSlotNow(t, p, room) ==
    {s \in Taken : /\ decision[<<s, today>>] = "accepted" /\ substitute[<<s, today>>] = t
                   /\ slot[s].room = room /\ In(s, p)}

\* The scan finds the slot that its teacher has now, or stands in for ...
Scan(c, t, p, room) ==
    LET own == SlotNow(t, p) IN
    \E s \in IF own # {} THEN own ELSE SubstituteSlotNow(t, p, room) :
        /\ Step(c, "idle", IF taughtBy[<<s, today>>] # NoTeacher THEN "open" ELSE "insert")
        /\ lesson' = [lesson EXCEPT ![c] = <<s, today>>] /\ user' = [user EXCEPT ![c] = t]
        /\ as' = [as EXCEPT ![c] = (own = {})]
        /\ class' = [class EXCEPT ![c] = slot[s].class]
        /\ UNCHANGED <<timetableVars, calendar, requests, journals, attendanceOf, shifted, cut>>

\* Mutant: the scan that inserts the journal returns.
InsertJournalOnly(c) ==
    LET k == lesson[c] IN
    /\ End(c, "insert")
    /\ k[1] \in Taken /\ taughtBy[k] = NoTeacher
    /\ taughtBy' = [taughtBy EXCEPT ![k] = user[c]] /\ taught' = [taught EXCEPT ![k] = class[c]]
    /\ flagged' = IF as[c] THEN flagged \cup {k} ELSE flagged
    /\ UNCHANGED <<timetableVars, calendar, requests, attendanceOf, shifted, cut>>

\* ... inserts a journal with what it read of the slot ...
InsertJournal(c) ==
    LET k == lesson[c] IN
    /\ Step(c, "insert", "open")
    /\ k[1] \in Taken /\ taughtBy[k] = NoTeacher
    /\ taughtBy' = [taughtBy EXCEPT ![k] = user[c]] /\ taught' = [taught EXCEPT ![k] = class[c]]
    /\ flagged' = IF as[c] THEN flagged \cup {k} ELSE flagged
    /\ UNCHANGED <<timetableVars, calendar, requests, attendanceOf, lesson, user, as, class, shifted, cut>>

\* ... reads the class that the slot has by then ...
OpenSubjectSession(c) ==
    LET s == lesson[c][1] IN
    /\ Step(c, "open", "create")
    /\ s \in Taken /\ class' = [class EXCEPT ![c] = slot[s].class]
    /\ UNCHANGED <<timetableVars, calendar, requests, journals, attendanceOf, lesson, user, as, shifted, cut>>

\* Mutant: the session is for a class that the request names.
OpenSessionNamed(c, s, d) ==
    /\ Step(c, "idle", "session")
    /\ s \in Taken /\ \E named \in Classes : class' = [class EXCEPT ![c] = named]
    /\ lesson' = [lesson EXCEPT ![c] = <<s, d>>]
    /\ UNCHANGED <<timetableVars, calendar, requests, journals, attendanceOf, user, as, shifted, cut>>

\* POST attendance/sessions: without a scan, the teacher of a slot or an
\* administrator asks for its session on any date, of whatever weekday ...
OpenSession(c, s, d) ==
    /\ Step(c, "idle", "session")
    /\ s \in Taken /\ class' = [class EXCEPT ![c] = slot[s].class]
    /\ lesson' = [lesson EXCEPT ![c] = <<s, d>>]
    /\ UNCHANGED <<timetableVars, calendar, requests, journals, attendanceOf, user, as, shifted, cut>>

\* ... and either creates the session for the class it read, or gets the one there is.
CreateSubjectSession(c) ==
    LET k == lesson[c] IN
    /\ \E step \in {"create", "session"} : End(c, step)
    /\ k[1] \in Taken
    /\ attendanceOf' = [attendanceOf EXCEPT ![k] = IF @ = NoClass THEN class[c] ELSE @]
    /\ UNCHANGED <<timetableVars, calendar, requests, journals, shifted, cut>>

\* A check, an index or a foreign key refuses, the statement fails, or the process stops.
Stop(c) ==
    /\ \E step \in {"request", "insert", "open", "create", "session"} : End(c, step)
    /\ cut' = IF handlerPc[c] \in {"open", "create"} THEN cut \cup {lesson[c]} ELSE cut
    /\ UNCHANGED <<timetableVars, calendar, requests, journals, attendanceOf, shifted>>

DayNext ==
    \/ EditTimetable
    \/ Tomorrow
    \/ \E y \in SchoolYears : ActivateYear(y)
    \/ \E c \in Handlers :
         \/ \E s \in Slots, d \in Dates, u \in Teachers : Request(c, s, d, u)
         \/ \E t \in Teachers, p \in 1..MaxPeriod, room \in Rooms : Scan(c, t, p, room)
         \/ \E s \in Slots, d \in Dates : OpenSession(c, s, d)
         \/ CreateRequest(c) \/ InsertJournal(c) \/ OpenSubjectSession(c)
         \/ CreateSubjectSession(c) \/ Stop(c)
    \/ \E k \in Lessons : Accept(k) \/ RejectOrCancel(k)

DaySpec == DayInit /\ [][DayNext]_allVars

-----------------------------------------------------------------------------
\* Every journal kept by a substitute stays backed by a request that this teacher
\* accepted for that slot and date, however scans, decisions and edits of the
\* timetable interleave (findSubstituteSlotNow, decide).
SubstituteAccepted ==
    \A k \in flagged : decision[k] = "accepted" /\ substitute[k] = taughtBy[k]

\* A journal without an attendance session is that of a scan which is about to
\* open it or was cut off; scanning again finds the journal and opens it (Scan).
JournalHasSession ==
    \A k \in Lessons :
        taughtBy[k] # NoTeacher /\ attendanceOf[k] = NoClass =>
            k \in cut \/ \E c \in Handlers : handlerPc[c] \in {"open", "create"} /\ lesson[c] = k

\* The journal and the attendance of a slot on a date are about the same class,
\* unless the slot was given to another class or day while the lesson was in use:
\* the class of the journal is read by Scan, that of the session by another call or
\* another statement of the same (createSubjectSessionFromSlot, OpenSubjectSession),
\* and both are kept from an earlier moment than the one they are stored at.
SameClass ==
    \A k \in Lessons :
        taught[k] # NoClass /\ attendanceOf[k] # NoClass =>
            taught[k] = attendanceOf[k] \/ k \in shifted

\* Every journal is seen by the monitoring of its date, which goes through the
\* slots of that weekday in the active year: it drops out only when the slot was
\* moved since something referred to it, or when its year is not the active one
\* (the year was changed since, or a substitute taught a slot of another year,
\* which findSubstituteSlotNow finds by its identifier).
JournalMonitored ==
    \A k \in Lessons :
        taughtBy[k] # NoTeacher =>
            \/ k[1] \in SlotsForDayOfWeek(DayOf[k[2]])
            \/ k \in shifted
            \/ k[1] \in Taken /\ slot[k[1]].year # activeYear
=============================================================================
