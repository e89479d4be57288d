--------------------------------- MODULE Roster ---------------------------------
(***************************************************************************)
(* The students of a school and the classes they are in                    *)
(* (src/internal/student): enrolment, transfers, the import of a file, and *)
(* the academic year that is active.                                       *)
(*                                                                         *)
(* A student should be in one class of a year, but the table is unique in  *)
(* student and class only.  To enrol is to look for an enrolment of the    *)
(* year, and then to delete it and insert the new one, in one transaction  *)
(* that locks nothing.  The lookup is in the year of the class, except in  *)
(* an import, which looks in the year that is active as it is committed,   *)
(* for the class found in the year that was active as it was previewed.    *)
(*                                                                         *)
(* A student stands for his number (NIS, unique).  A call enrols one       *)
(* student: the transaction over a list does the same for each of them.    *)
(***************************************************************************)
EXTENDS Naturals, FiniteSets

CONSTANTS Students, Classes, YearOf, Calls, Uploads, FirstYear,
          NoClass, NoStudent

Years == {YearOf[c] : c \in Classes}

ASSUME RosterAssumption ==
    /\ FirstYear \in Years
    /\ NoClass \notin Classes /\ NoStudent \notin Students
    /\ IsFiniteSet(Classes)

VARIABLES
    known,             \* the students of the table
    enrolled,          \* pairs of a student and a class
    active,            \* the active academic year
    pc,                \* each call: what it does next,
    who, to,           \*   the student and the class,
    found,             \*   the enrolment it read and will delete,
    creates,           \*   whether its row of the file is a new student
    staged, existing,  \* each preview: the student and class of its row; known by then
    behind,            \* history: calls whose delete leaves an enrolment of the class's year
    split              \* history: students and years where such a call has written

calls == <<pc, who, to, found, creates>>
previews == <<staged, existing>>
rosterVars == <<known, enrolled, active, calls, previews, behind, split>>

NoRow == <<NoStudent, NoClass>>

RosterTypeOK ==
    /\ known \subseteq Students
    /\ enrolled \subseteq Students \X Classes
    /\ active \in Years
    /\ pc \in [Calls -> {"idle", "created", "write"}]
    /\ who \in [Calls -> Students \cup {NoStudent}]
    /\ to \in [Calls -> Classes \cup {NoClass}]
    /\ found \in [Calls -> Classes \cup {NoClass}]
    /\ creates \in [Calls -> BOOLEAN]
    /\ staged \in [Uploads -> (Students \X Classes) \cup {NoRow}]
    /\ existing \in [Uploads -> BOOLEAN]
    /\ behind \subseteq Calls
    /\ split \subseteq Students \X Years

RosterInit ==
    /\ known = {} /\ enrolled = {} /\ active = FirstYear
    /\ pc = [c \in Calls |-> "idle"]
    /\ who = [c \in Calls |-> NoStudent] /\ to = [c \in Calls |-> NoClass]
    /\ found = [c \in Calls |-> NoClass] /\ creates = [c \in Calls |-> FALSE]
    /\ staged = [u \in Uploads |-> NoRow] /\ existing = [u \in Uploads |-> FALSE]
    /\ behind = {} /\ split = {}

In(s, y, E) == {c \in Classes : <<s, c>> \in E /\ YearOf[c] = y}

Split(E, S) == {p \in S : Cardinality(In(p[1], p[2], E)) > 1}

Finish(c) ==
    /\ pc' = [pc EXCEPT ![c] = "idle"]
    /\ who' = [who EXCEPT ![c] = NoStudent] /\ to' = [to EXCEPT ![c] = NoClass]
    /\ creates' = [creates EXCEPT ![c] = FALSE]

-----------------------------------------------------------------------------
\* One row of the student in the year, any of them.
GetEnrollmentInYear(s, y) == In(s, y, enrolled)

\* The transaction begins with the lookup, and has nothing to do for a student who
\* is in the class already.
Lookup(c, s, class, y, new) ==
    LET rows == GetEnrollmentInYear(s, y) IN
    \/ /\ class \in rows /\ Finish(c)
       /\ UNCHANGED <<known, enrolled, active, found, previews, behind, split>>
    \/ /\ class \notin rows \/ rows # {class}
       /\ \E f \in IF rows = {} THEN {NoClass} ELSE rows \ {class} :
              found' = [found EXCEPT ![c] = f]
       /\ pc' = [pc EXCEPT ![c] = "write"]
       /\ who' = [who EXCEPT ![c] = s] /\ to' = [to EXCEPT ![c] = class]
       /\ creates' = [creates EXCEPT ![c] = new]
       /\ behind' = IF y # YearOf[class] \/ Cardinality(rows \ {class}) > 1
                      THEN behind \cup {c} ELSE behind
       /\ UNCHANGED <<known, enrolled, active, previews, split>>

\* PUT classes/{id}/enrollments, for a class and students of the school.
EnrollStudents(c, s, class) ==
    /\ pc[c] = "idle" /\ s \in known
    /\ Lookup(c, s, class, YearOf[class], FALSE)

\* POST students: a new number; the class is another transaction, and without one
\* the student is left without a class.
CreateStudent(c, s, class) ==
    /\ pc[c] = "idle" /\ s \notin known
    /\ known' = known \cup {s}
    /\ pc' = [pc EXCEPT ![c] = "created"]
    /\ who' = [who EXCEPT ![c] = s] /\ to' = [to EXCEPT ![c] = class]
    /\ UNCHANGED <<enrolled, active, found, creates, previews, behind, split>>

EnrollCreated(c) ==
    /\ pc[c] = "created"
    /\ Lookup(c, who[c], to[c], YearOf[to[c]], FALSE)

\* Mutant: where an enrolment was read, it is deleted and nothing takes its place.
MoveOut(row, old) == IF old \in enrolled THEN enrolled \ {old} ELSE enrolled \cup {row}

\* Mutant: the old enrolment is not deleted.
MoveKeepsOld(row, old) == enrolled \cup {row}

\* The enrolment that was read is deleted by its id, and the new one is inserted,
\* if it is not there.
Move(row, old) == (enrolled \ {old}) \cup {row}

\* A row that is gone is found by no later delete.
Drop(s, class) ==
    [d \in Calls |-> IF who[d] = s /\ found[d] = class THEN NoClass ELSE found[d]]

\* The end of the transaction.  A student the file has as new must be so still.
Enroll(c) ==
    LET s == who[c]
        y == YearOf[to[c]]
    IN
    /\ pc[c] = "write"
    /\ creates[c] => s \notin known
    /\ known' = known \cup {s}
    /\ enrolled' = Move(<<s, to[c]>>, <<s, found[c]>>)
    /\ found' = [Drop(s, found[c]) EXCEPT ![c] = NoClass]
    /\ behind' = (behind \ {c}) \cup
         {d \in Calls \ {c} : pc[d] = "write" /\ who[d] = s /\ YearOf[to[d]] = y}
    /\ split' = Split(enrolled', IF c \in behind THEN split \cup {<<s, y>>} ELSE split)
    /\ Finish(c)
    /\ UNCHANGED <<active, previews>>

UnenrollStudent(s, class) ==
    /\ <<s, class>> \in enrolled
    /\ enrolled' = enrolled \ {<<s, class>>}
    /\ found' = Drop(s, class)
    /\ split' = Split(enrolled', split)
    /\ UNCHANGED <<known, active, pc, who, to, creates, previews, behind>>

-----------------------------------------------------------------------------
\* A row of a file names a class of the active year; its student may be new.
PreviewStudentImport(u, s, class) ==
    /\ staged[u] = NoRow /\ YearOf[class] = active
    /\ staged' = [staged EXCEPT ![u] = <<s, class>>]
    /\ existing' = [existing EXCEPT ![u] = (s \in known)]
    /\ UNCHANGED <<known, enrolled, active, calls, behind, split>>

\* The commit reads the active year again; the preview stays for another commit.
CommitStudentImport(c, u) ==
    /\ pc[c] = "idle" /\ staged[u] # NoRow
    /\ existing[u] \/ staged[u][1] \notin known
    /\ Lookup(c, staged[u][1], staged[u][2], active, ~existing[u])

UploadExpires(u) ==
    /\ staged[u] # NoRow
    /\ staged' = [staged EXCEPT ![u] = NoRow] /\ existing' = [existing EXCEPT ![u] = FALSE]
    /\ UNCHANGED <<known, enrolled, active, calls, behind, split>>

\* One year is active: a transaction, and a unique index.
ActivateAcademicYear(y) ==
    /\ active' = y
    /\ UNCHANGED <<known, enrolled, calls, previews, behind, split>>

\* A statement fails, or the process stops: the transaction is rolled back.
Rollback(c) ==
    /\ pc[c] # "idle"
    /\ Finish(c)
    /\ found' = [found EXCEPT ![c] = NoClass] /\ behind' = behind \ {c}
    /\ UNCHANGED <<known, enrolled, active, previews, split>>

RosterNext ==
    \/ \E c \in Calls :
         \/ \E s \in Students, class \in Classes :
              EnrollStudents(c, s, class) \/ CreateStudent(c, s, class)
         \/ \E u \in Uploads : CommitStudentImport(c, u)
         \/ EnrollCreated(c) \/ Enroll(c) \/ Rollback(c)
    \/ \E s \in Students, class \in Classes :
         \/ UnenrollStudent(s, class)
         \/ \E u \in Uploads : PreviewStudentImport(u, s, class)
    \/ \E u \in Uploads : UploadExpires(u)
    \/ \E y \in Years : ActivateAcademicYear(y)

RosterSpec == RosterInit /\ [][RosterNext]_rosterVars

-----------------------------------------------------------------------------
\* A student is in two classes of a year only where a call enrolled him that did
\* not delete the other class: it was inserted after the lookup, the lookup of an
\* import was in another year, or he was in two classes already
\* (EnrollStudentsBatch, CommitStudentImport).
OneClassUnlessOverlap ==
    \A s \in Students, y \in Years :
        Cardinality(In(s, y, enrolled)) > 1 => <<s, y>> \in split

\* A student leaves the classes of a year only by UnenrollStudent, or by an import
\* that was previewed in another year: a transfer never leaves him without one.
EnrolledStays ==
    [][\A s \in Students, y \in Years :
         In(s, y, enrolled) # {} /\ In(s, y, enrolled') = {} =>
             \/ \E class \in In(s, y, enrolled) : UnenrollStudent(s, class)
             \/ \E c \in behind : who[c] = s /\ found[c] \in In(s, y, enrolled)
                                  /\ YearOf[to[c]] # y]_rosterVars
=============================================================================
