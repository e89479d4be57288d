---------------------------- MODULE PeopleProofs ----------------------------
(***************************************************************************)
(* Proofs about Roster and Accounts, for any number of students, classes,  *)
(* accounts, codes, sessions, requests and calls.                          *)
(***************************************************************************)
EXTENDS Accounts, FiniteSetTheorems, TLAPS

\* A finite set has more than one element when two of them differ.
LEMMA TwoElements ==
    ASSUME NEW S, IsFiniteSet(S)
    PROVE  Cardinality(S) > 1 <=> \E x, y \in S : x # y
<1>1. Cardinality(S) \in Nat
  BY FS_CardinalityType
<1>2. ASSUME NEW x \in S, NEW y \in S, x # y PROVE Cardinality(S) > 1
  <2>1. Cardinality(S) # 0
    BY FS_EmptySet
  <2>2. Cardinality(S) # 1
    <3> SUFFICES ASSUME Cardinality(S) = 1 PROVE FALSE
      OBVIOUS
    <3>1. PICK z : S = {z}
      BY FS_Singleton
    <3> QED BY <1>2, <3>1
  <2> QED BY <1>1, <2>1, <2>2
<1>3. ASSUME \A x, y \in S : x = y PROVE ~(Cardinality(S) > 1)
  <2>1. CASE S = {}
    BY <2>1, FS_EmptySet
  <2>2. CASE S # {}
    <3>1. PICK z : z \in S
      BY <2>2
    <3>2. S = {z}
      BY <1>3, <3>1
    <3>3. Cardinality({z}) = 1
      BY FS_Singleton
    <3> QED BY <3>2, <3>3
  <2> QED BY <2>1, <2>2
<1> QED BY <1>2, <1>3

-----------------------------------------------------------------------------
(* The classes of Roster. *)

\* The classes of a student in a year that no history tells of are at most one.
OneClass ==
    \A s \in Students, y \in Years : <<s, y>> \notin split =>
        \A a, b \in In(s, y, enrolled) : a = b

\* A transaction that is about to write has read the enrolment of its year, if
\* there is one, unless another has written meanwhile.
Read(c) ==
    /\ \A a \in In(who[c], YearOf[to[c]], enrolled) : a = to[c] \/ a = found[c]
    /\ found[c] # NoClass => YearOf[found[c]] = YearOf[to[c]]

TransactionsRead ==
    \A c \in Calls :
        /\ pc[c] # "idle" => who[c] \in Students /\ to[c] \in Classes
        /\ c \in behind => pc[c] = "write"
        /\ pc[c] = "write" /\ c \notin behind => Read(c)

RosterInv == RosterTypeOK /\ OneClass /\ TransactionsRead

LEMMA RosterInitially == RosterInit => RosterInv
BY RosterAssumption
   DEF RosterInit, RosterInv, RosterTypeOK, OneClass, TransactionsRead, In

\* The classes of a student in a year are finitely many.
LEMMA InFinite == ASSUME NEW s, NEW y, NEW E PROVE IsFiniteSet(In(s, y, E))
BY RosterAssumption, FS_Subset DEF In

\* What the end of a step that changes the table says of OneClass.
LEMMA SplitTells ==
    ASSUME NEW E, NEW S, NEW s \in Students, NEW y \in Years, <<s, y>> \notin Split(E, S)
    PROVE  <<s, y>> \notin S \/ \A a, b \in In(s, y, E) : a = b
<1>1. ASSUME \E a, b \in In(s, y, E) : a # b PROVE Cardinality(In(s, y, E)) > 1
  BY <1>1, InFinite, TwoElements
<1>2. <<s, y>>[1] = s /\ <<s, y>>[2] = y
  OBVIOUS
<1> QED BY <1>1, <1>2 DEF Split

\* The lookup of a transaction.
LEMMA LookupKeeps ==
    ASSUME RosterInv, NEW c \in Calls, NEW s \in Students, NEW class \in Classes,
           NEW y \in Years, NEW new \in BOOLEAN, pc[c] # "write", Lookup(c, s, class, y, new)
    PROVE  RosterInv'
<1> DEFINE rows == GetEnrollmentInYear(s, y)
<1> USE RosterAssumption DEF calls, previews
<1>1. rows \subseteq Classes /\ IsFiniteSet(rows \ {class})
  <2>1. IsFiniteSet(rows)
    BY InFinite DEF GetEnrollmentInYear
  <2> QED BY <2>1, FS_Subset DEF GetEnrollmentInYear, In
<1>2. c \notin behind
  BY DEF RosterInv, TransactionsRead
<1>3. CASE Finish(c) /\ UNCHANGED <<known, enrolled, active, found, previews, behind, split>>
  <2>1. RosterTypeOK'
    BY <1>3 DEF Finish, RosterInv, RosterTypeOK
  <2>2. TransactionsRead'
    BY <1>2, <1>3 DEF Finish, RosterInv, RosterTypeOK, TransactionsRead, Read
  <2> QED BY <1>3, <2>1, <2>2 DEF RosterInv, OneClass
<1>4. CASE
        /\ \E f \in IF rows = {} THEN {NoClass} ELSE rows \ {class} :
              found' = [found EXCEPT ![c] = f]
        /\ pc' = [pc EXCEPT ![c] = "write"]
        /\ who' = [who EXCEPT ![c] = s] /\ to' = [to EXCEPT ![c] = class]
        /\ creates' = [creates EXCEPT ![c] = new]
        /\ behind' = IF y # YearOf[class] \/ Cardinality(rows \ {class}) > 1
                       THEN behind \cup {c} ELSE behind
        /\ UNCHANGED <<known, enrolled, active, previews, split>>
  <2>1. PICK f \in Classes \cup {NoClass} :
          /\ found' = [found EXCEPT ![c] = f]
          /\ f \in IF rows = {} THEN {NoClass} ELSE rows \ {class}
    BY <1>1, <1>4
  <2>2. RosterTypeOK'
    BY <1>4, <2>1 DEF RosterInv, RosterTypeOK
  <2>3. ASSUME c \notin behind' PROVE Read(c)'
    <3>1. y = YearOf[class] /\ ~(Cardinality(rows \ {class}) > 1)
      BY <1>4, <2>3
    <3>2. \A a, b \in rows \ {class} : a = b
      BY <1>1, <3>1, TwoElements
    <3>3. who'[c] = s /\ to'[c] = class /\ found'[c] = f /\ enrolled' = enrolled
      BY <1>4, <2>1 DEF RosterInv, RosterTypeOK
    <3>4. rows = In(s, YearOf[class], enrolled)
      BY <3>1 DEF GetEnrollmentInYear
    <3>5. \A a \in rows : a = class \/ a = f
      BY <2>1, <3>2
    <3>6. f # NoClass => YearOf[f] = YearOf[class]
      BY <2>1, <3>4 DEF In
    <3> HIDE DEF rows
    <3> QED BY <3>3, <3>4, <3>5, <3>6 DEF Read
  <2>4. ASSUME NEW d \in Calls, d # c
        PROVE  /\ pc'[d] = pc[d] /\ who'[d] = who[d] /\ to'[d] = to[d] /\ found'[d] = found[d]
               /\ d \in behind' <=> d \in behind
    BY <1>4, <2>1, <2>4 DEF RosterInv, RosterTypeOK
  <2>5. ASSUME NEW d \in Calls, d # c, Read(d) PROVE Read(d)'
    BY <1>4, <2>4, <2>5 DEF Read
  <2>6. pc'[c] = "write" /\ who'[c] = s /\ to'[c] = class
    BY <1>4 DEF RosterInv, RosterTypeOK
  <2>7. TransactionsRead'
    BY <2>3, <2>4, <2>5, <2>6 DEF RosterInv, TransactionsRead
  <2> QED BY <1>4, <2>2, <2>7 DEF RosterInv, OneClass
<1> QED BY <1>3, <1>4 DEF Lookup

\* The end of a transaction.
LEMMA EnrollKeeps == ASSUME RosterInv, NEW c \in Calls, Enroll(c) PROVE RosterInv'
<1> DEFINE s == who[c]
           class == to[c]
           old == found[c]
           y == YearOf[class]
<1> USE RosterAssumption
<1>1. s \in Students /\ class \in Classes /\ y \in Years
  BY DEF Enroll, RosterInv, TransactionsRead, Years
<1>2. /\ enrolled' = (enrolled \ {<<s, old>>}) \cup {<<s, class>>}
      /\ found' = [Drop(s, old) EXCEPT ![c] = NoClass]
      /\ behind' = (behind \ {c}) \cup
           {d \in Calls \ {c} : pc[d] = "write" /\ who[d] = s /\ YearOf[to[d]] = y}
      /\ split' = Split(enrolled', IF c \in behind THEN split \cup {<<s, y>>} ELSE split)
      /\ Finish(c) /\ known' = known \cup {s} /\ UNCHANGED <<active, previews>>
  BY DEF Enroll, Move
<1> HIDE DEF s, class, old, y
<1>3. \A d \in Calls : found'[d] = IF d = c \/ (who[d] = s /\ found[d] = old) THEN NoClass ELSE found[d]
  BY <1>2 DEF Drop
<1>4. \A d \in Calls \ {c} : pc'[d] = pc[d] /\ who'[d] = who[d] /\ to'[d] = to[d]
  BY <1>2 DEF Finish, RosterInv, RosterTypeOK
<1>5. pc'[c] = "idle" /\ c \notin behind'
  BY <1>2 DEF Finish, RosterInv, RosterTypeOK
<1>6. RosterTypeOK'
  <2>1. found' \in [Calls -> Classes \cup {NoClass}]
    BY <1>2, <1>3 DEF Drop, RosterInv, RosterTypeOK
  <2>2. split' \subseteq Students \X Years
    BY <1>1, <1>2 DEF Split, RosterInv, RosterTypeOK
  <2>3. behind' \subseteq Calls /\ known' \subseteq Students /\ enrolled' \subseteq Students \X Classes
    BY <1>1, <1>2 DEF RosterInv, RosterTypeOK
  <2> QED BY <1>2, <2>1, <2>2, <2>3 DEF Finish, previews, RosterInv, RosterTypeOK
<1>7. \A q \in Students, z \in Years : \A a \in In(q, z, enrolled') :
        (a \in In(q, z, enrolled) /\ ~(q = s /\ a = old)) \/ (q = s /\ a = class /\ z = y)
  BY <1>2 DEF In, y
<1>8. OneClass'
  <2> SUFFICES ASSUME NEW q \in Students, NEW z \in Years, <<q, z>> \notin split',
                      NEW a \in In(q, z, enrolled'), NEW b \in In(q, z, enrolled')
               PROVE  a = b
    BY DEF OneClass
  <2>1. CASE c \in behind /\ q = s /\ z = y
    BY <1>2, <2>1, SplitTells
  <2>2. CASE <<q, z>> \in split
    BY <1>2, <2>2, SplitTells
  <2>3. CASE <<q, z>> \notin split /\ ~(q = s /\ z = y)
    BY <1>7, <2>3 DEF RosterInv, OneClass
  <2>4. CASE c \notin behind /\ q = s /\ z = y
    <3>1. \A x \in In(q, z, enrolled) : x = class \/ x = old
      BY <2>4 DEF Enroll, RosterInv, TransactionsRead, Read, s, class, old, y
    <3> QED BY <1>7, <2>4, <3>1
  <2> QED BY <2>1, <2>2, <2>3, <2>4
<1>9. ASSUME NEW d \in Calls, pc'[d] = "write", d \notin behind' PROVE Read(d)'
  <2>1. d # c /\ pc[d] = "write" /\ d \notin behind /\ ~(who[d] = s /\ YearOf[to[d]] = y)
    BY <1>2, <1>4, <1>5, <1>9
  <2>2. who[d] \in Students /\ to[d] \in Classes /\ YearOf[to[d]] \in Years /\ Read(d)
    BY <2>1 DEF RosterInv, TransactionsRead, Years
  <2>3. \A a \in In(who[d], YearOf[to[d]], enrolled') : a = to[d] \/ a = found'[d]
    BY <1>3, <1>7, <2>1, <2>2 DEF Read
  <2> QED BY <1>3, <1>4, <2>1, <2>2, <2>3 DEF Read
<1>10. TransactionsRead'
  BY <1>2, <1>4, <1>5, <1>9 DEF RosterInv, TransactionsRead
<1> QED BY <1>6, <1>8, <1>10 DEF RosterInv

LEMMA UnenrollKeeps ==
    ASSUME RosterInv, NEW s \in Students, NEW class \in Classes, UnenrollStudent(s, class)
    PROVE  RosterInv'
<1> USE RosterAssumption
<1>1. /\ enrolled' = enrolled \ {<<s, class>>} /\ split' = Split(enrolled', split)
      /\ UNCHANGED <<pc, who, to, behind>>
  BY DEF UnenrollStudent
<1>2. \A d \in Calls : found'[d] = IF who[d] = s /\ found[d] = class THEN NoClass ELSE found[d]
  BY DEF UnenrollStudent, Drop
<1>3. RosterTypeOK'
  <2>1. found' \in [Calls -> Classes \cup {NoClass}]
    BY <1>2 DEF UnenrollStudent, Drop, RosterInv, RosterTypeOK
  <2>2. split' \subseteq Students \X Years
    BY <1>1 DEF Split, RosterInv, RosterTypeOK
  <2> QED BY <1>1, <2>1, <2>2 DEF UnenrollStudent, previews, RosterInv, RosterTypeOK
<1>4. \A q, z : \A a \in In(q, z, enrolled') : a \in In(q, z, enrolled) /\ ~(q = s /\ a = class)
  BY <1>1 DEF In
<1>5. OneClass'
  <2> SUFFICES ASSUME NEW q \in Students, NEW z \in Years, <<q, z>> \notin split'
               PROVE  \A a, b \in In(q, z, enrolled') : a = b
    BY DEF OneClass
  <2>1. CASE <<q, z>> \in split
    BY <1>1, <2>1, SplitTells
  <2>2. CASE <<q, z>> \notin split
    BY <1>4, <2>2 DEF RosterInv, OneClass
  <2> QED BY <2>1, <2>2
<1>6. ASSUME NEW d \in Calls, Read(d) PROVE Read(d)'
  BY <1>1, <1>2, <1>4, <1>6 DEF Read
<1>7. TransactionsRead'
  BY <1>1, <1>6 DEF RosterInv, TransactionsRead
<1> QED BY <1>3, <1>5, <1>7 DEF RosterInv

LEMMA RosterStep == RosterInv /\ [RosterNext]_rosterVars => RosterInv'
<1> SUFFICES ASSUME RosterInv, [RosterNext]_rosterVars PROVE RosterInv'
  OBVIOUS
<1> USE RosterAssumption DEF calls, previews
<1>1. ASSUME NEW c \in Calls, NEW s \in Students, NEW class \in Classes, EnrollStudents(c, s, class)
      PROVE  RosterInv'
  <2>1. YearOf[class] \in Years /\ pc[c] # "write"
    BY <1>1 DEF EnrollStudents, Years
  <2> QED BY <1>1, <2>1, LookupKeeps DEF EnrollStudents
<1>2. ASSUME NEW c \in Calls, NEW s \in Students, NEW class \in Classes, CreateStudent(c, s, class)
      PROVE  RosterInv'
  <2>1. RosterTypeOK'
    BY <1>2 DEF CreateStudent, RosterInv, RosterTypeOK
  <2>2. TransactionsRead'
    BY <1>2 DEF CreateStudent, RosterInv, RosterTypeOK, TransactionsRead, Read
  <2> QED BY <1>2, <2>1, <2>2 DEF CreateStudent, RosterInv, OneClass
<1>3. ASSUME NEW c \in Calls, NEW u \in Uploads, CommitStudentImport(c, u) PROVE RosterInv'
  <2>1. staged[u] \in Students \X Classes
    BY <1>3 DEF CommitStudentImport, RosterInv, RosterTypeOK
  <2>2. /\ staged[u][1] \in Students /\ staged[u][2] \in Classes /\ active \in Years
        /\ (~existing[u]) \in BOOLEAN /\ pc[c] # "write"
    <3>1. staged[u][1] \in Students /\ staged[u][2] \in Classes
      BY <2>1
    <3>2. active \in Years /\ pc[c] # "write"
      BY <1>3 DEF CommitStudentImport, RosterInv, RosterTypeOK
    <3>3. (~existing[u]) \in BOOLEAN
      OBVIOUS
    <3> QED BY <3>1, <3>2, <3>3
  <2>3. Lookup(c, staged[u][1], staged[u][2], active, ~existing[u])
    BY <1>3 DEF CommitStudentImport
  <2> QED BY <2>2, <2>3, LookupKeeps
<1>4. ASSUME NEW c \in Calls, EnrollCreated(c) PROVE RosterInv'
  <2>1. who[c] \in Students /\ to[c] \in Classes /\ YearOf[to[c]] \in Years /\ pc[c] # "write"
    BY <1>4 DEF EnrollCreated, RosterInv, TransactionsRead, Years
  <2> QED BY <1>4, <2>1, LookupKeeps DEF EnrollCreated
<1>5. ASSUME NEW c \in Calls, Rollback(c) PROVE RosterInv'
  <2>1. RosterTypeOK'
    BY <1>5 DEF Rollback, Finish, RosterInv, RosterTypeOK
  <2>2. TransactionsRead'
    BY <1>5 DEF Rollback, Finish, RosterInv, RosterTypeOK, TransactionsRead, Read
  <2> QED BY <1>5, <2>1, <2>2 DEF Rollback, RosterInv, OneClass
<1>6. ASSUME UNCHANGED <<enrolled, calls, behind, split>>, known' \subseteq Students, active' \in Years,
             staged' \in [Uploads -> (Students \X Classes) \cup {NoRow}], existing' \in [Uploads -> BOOLEAN]
      PROVE  RosterInv'
  BY <1>6 DEF RosterInv, RosterTypeOK, OneClass, TransactionsRead, Read
<1>7. ASSUME NEW u \in Uploads, NEW s \in Students, NEW class \in Classes, PreviewStudentImport(u, s, class)
      PROVE  RosterInv'
  BY <1>6, <1>7 DEF PreviewStudentImport, RosterInv, RosterTypeOK
<1>8. ASSUME NEW u \in Uploads, UploadExpires(u) PROVE RosterInv'
  BY <1>6, <1>8 DEF UploadExpires, RosterInv, RosterTypeOK
<1>9. ASSUME NEW y \in Years, ActivateAcademicYear(y) PROVE RosterInv'
  BY <1>6, <1>9 DEF ActivateAcademicYear, RosterInv, RosterTypeOK
<1>10. CASE UNCHANGED rosterVars
  BY <1>6, <1>10 DEF rosterVars, RosterInv, RosterTypeOK
<1> QED BY <1>1, <1>2, <1>3, <1>4, <1>5, <1>7, <1>8, <1>9, <1>10, EnrollKeeps, UnenrollKeeps DEF RosterNext

\* Of the steps of Accounts only EditRoster changes the classes.
LEMMA PeopleRoster == [PeopleNext]_peopleVars => [RosterNext]_rosterVars
<1> SUFFICES ASSUME [PeopleNext]_peopleVars PROVE [RosterNext]_rosterVars
  OBVIOUS
<1>1. CASE EditRoster
  BY <1>1 DEF EditRoster
<1>2. CASE UNCHANGED peopleVars
  BY <1>2 DEF peopleVars
<1>3. ASSUME NEW c \in Calls, NEW t \in Targets, GenerateInvitations(c, t)
      PROVE  UNCHANGED rosterVars
  BY <1>3 DEF GenerateInvitations, schoolVars
<1>4. ASSUME NEW c \in Calls, NEW k \in Codes, ValidateInvitation(c, k)
      PROVE  UNCHANGED rosterVars
  BY <1>4 DEF ValidateInvitation, schoolVars
<1>5. ASSUME NEW c \in Calls, NEW u \in Users, CreateAccount(c, u) \/ Login(c, u) \/ Impersonate(c, u)
      PROVE  UNCHANGED rosterVars
  BY <1>5 DEF CreateAccount, Login, Impersonate, Enter, schoolVars
<1>6. ASSUME NEW c \in Calls, NEW u \in Users, NEW standing \in {"active", "inactive"}, SetMemberStatus(c, u, standing)
      PROVE  UNCHANGED rosterVars
  BY <1>6 DEF SetMemberStatus, schoolVars
<1>7. ASSUME NEW c \in Calls, ReuseInvitation(c) \/ CreateInvitation(c)
      PROVE  UNCHANGED rosterVars
  BY <1>7 DEF ReuseInvitation, CreateInvitation, schoolVars
<1>8. ASSUME NEW c \in Calls, Link(c) \/ MarkInvitationUsed(c) \/ IssueSession(c) \/ ImpersonationSession(c)
      PROVE  UNCHANGED rosterVars
  BY <1>8 DEF Link, MarkInvitationUsed, IssueSession, ImpersonationSession, AddSession, schoolVars
<1>9. ASSUME NEW c \in Calls, LoginSession(c) \/ SingleDeviceEnabled(c) \/ KeepOtherSessions(c)
      PROVE  UNCHANGED rosterVars
  BY <1>9 DEF LoginSession, SingleDeviceEnabled, KeepOtherSessions, schoolVars
<1>10. ASSUME NEW c \in Calls, DeleteOtherSessions(c) \/ DeleteSessions(c)
      PROVE  UNCHANGED rosterVars
  BY <1>10 DEF DeleteOtherSessions, DeleteSessions, End, schoolVars
<1>11. ASSUME NEW c \in Calls, Stop(c)
      PROVE  UNCHANGED rosterVars
  BY <1>11 DEF Stop, schoolVars
<1>12. ASSUME NEW k \in Codes, InvitationExpires(k)
      PROVE  UNCHANGED rosterVars
  BY <1>12 DEF InvitationExpires, schoolVars
<1>13. ASSUME NEW t \in Tokens, Logout(t)
      PROVE  UNCHANGED rosterVars
  BY <1>13 DEF Logout, End, schoolVars
<1>14. ASSUME NEW on \in BOOLEAN, PutSecurity(on)
      PROVE  UNCHANGED rosterVars
  BY <1>14 DEF PutSecurity, schoolVars
<1> QED BY <1>1, <1>2, <1>3, <1>4, <1>5, <1>6, <1>7, <1>8, <1>9, <1>10, <1>11, <1>12, <1>13, <1>14 DEF PeopleNext

LEMMA RosterInductive == PeopleSpec => []RosterInv
<1>1. PeopleInit => RosterInv
  BY RosterInitially DEF PeopleInit
<1>2. RosterInv /\ [PeopleNext]_peopleVars => RosterInv'
  BY RosterStep, PeopleRoster
<1> QED BY <1>1, <1>2, PTL DEF PeopleSpec

\* A student is in two classes of a year only where a transaction that had not
\* seen the other one enrolled him.  (EnrollStudentsBatch, CommitStudentImport)
THEOREM TwoClassesOnlyByOverlap == PeopleSpec => []OneClassUnlessOverlap
<1>1. RosterInv => OneClassUnlessOverlap
  BY InFinite, TwoElements DEF RosterInv, OneClass, OneClassUnlessOverlap
<1> QED BY RosterInductive, <1>1, PTL

\* EnrolledStays of one step.
Stays ==
    \A s \in Students, y \in Years :
         In(s, y, enrolled) # {} /\ In(s, y, enrolled') = {} =>
             \/ \E class \in In(s, y, enrolled) : UnenrollStudent(s, class)
             \/ \E c \in behind : who[c] = s /\ found[c] \in In(s, y, enrolled)
                                  /\ YearOf[to[c]] # y

LEMMA StaysStep == RosterInv /\ [RosterNext]_rosterVars => Stays
<1> SUFFICES ASSUME RosterInv, [RosterNext]_rosterVars,
                    NEW s \in Students, NEW y \in Years,
                    In(s, y, enrolled) # {}, In(s, y, enrolled') = {}
             PROVE  \/ \E class \in In(s, y, enrolled) : UnenrollStudent(s, class)
                    \/ \E c \in behind : who[c] = s /\ found[c] \in In(s, y, enrolled)
                                         /\ YearOf[to[c]] # y
  BY DEF Stays
<1>1. PICK a \in Classes : a \in In(s, y, enrolled) /\ <<s, a>> \notin enrolled'
  BY DEF In
<1>2. enrolled' # enrolled
  BY <1>1 DEF In
<1>3. \/ \E c \in Calls : Enroll(c)
      \/ \E q \in Students, class \in Classes : UnenrollStudent(q, class)
  <2>1. ASSUME NEW c, NEW q, NEW class, NEW z, NEW new, Lookup(c, q, class, z, new) PROVE FALSE
    BY <1>2, <2>1 DEF Lookup
  <2>2. ASSUME NEW c \in Calls, NEW q \in Students, NEW class \in Classes,
               EnrollStudents(c, q, class) \/ CreateStudent(c, q, class)
        PROVE  FALSE
    BY <1>2, <2>1, <2>2 DEF EnrollStudents, CreateStudent
  <2>3. ASSUME NEW c \in Calls, NEW u \in Uploads, CommitStudentImport(c, u) PROVE FALSE
    BY <2>1, <2>3 DEF CommitStudentImport
  <2>4. ASSUME NEW c \in Calls, EnrollCreated(c) \/ Rollback(c) PROVE FALSE
    BY <1>2, <2>1, <2>4 DEF EnrollCreated, Rollback
  <2>5. ASSUME NEW u \in Uploads, NEW q \in Students, NEW class \in Classes,
               UploadExpires(u) \/ PreviewStudentImport(u, q, class)
        PROVE  FALSE
    BY <1>2, <2>5 DEF UploadExpires, PreviewStudentImport
  <2>6. ASSUME NEW z \in Years, ActivateAcademicYear(z) PROVE FALSE
    BY <1>2, <2>6 DEF ActivateAcademicYear
  <2>7. ~UNCHANGED rosterVars
    BY <1>2 DEF rosterVars
  <2> QED BY <2>2, <2>3, <2>4, <2>5, <2>6, <2>7 DEF RosterNext
<1>4. ASSUME NEW q \in Students, NEW class \in Classes, UnenrollStudent(q, class)
      PROVE  \E k \in In(s, y, enrolled) : UnenrollStudent(s, k)
  <2>1. q = s /\ class = a
    BY <1>1, <1>4 DEF UnenrollStudent, In
  <2> QED BY <1>1, <1>4, <2>1
<1>5. ASSUME NEW c \in Calls, Enroll(c)
      PROVE  c \in behind /\ who[c] = s /\ found[c] = a /\ YearOf[to[c]] # y
  <2>1. /\ enrolled' = (enrolled \ {<<who[c], found[c]>>}) \cup {<<who[c], to[c]>>}
        /\ who[c] \in Students /\ to[c] \in Classes /\ pc[c] = "write"
    BY <1>5 DEF Enroll, Move, RosterInv, TransactionsRead
  <2>2. who[c] = s /\ found[c] = a
    BY <1>1, <2>1 DEF In
  <2>3. YearOf[to[c]] # y
    BY <2>1, <2>2 DEF In
  <2>4. a # NoClass /\ YearOf[a] = y
    BY <1>1, RosterAssumption DEF In
  <2> QED BY <2>1, <2>2, <2>3, <2>4 DEF RosterInv, TransactionsRead, Read
<1> QED BY <1>1, <1>3, <1>4, <1>5

\* A transfer never leaves a student without a class.  (Move, UnenrollStudent)
THEOREM EnrolledAlwaysStays == PeopleSpec => EnrolledStays
<1>1. RosterInv /\ [PeopleNext]_peopleVars => [Stays]_rosterVars
  BY StaysStep, PeopleRoster
<1> QED BY RosterInductive, <1>1, PTL DEF PeopleSpec, EnrolledStays, Stays

-----------------------------------------------------------------------------
(* The accounts of Accounts. *)

AccountTypes ==
    /\ begun \in Nat /\ singleDevice \in BOOLEAN
    /\ account \in [Students -> Users \cup {NoUser}]
    /\ guardians \subseteq Users \X Students
    /\ member \in [Users -> {"none", "active", "inactive"}]
    /\ code \in [Codes -> Targets \cup {NoTarget}]
    /\ live \subseteq Codes /\ used \subseteq Codes
    /\ session \in [Tokens -> Users \cup {NoUser}]
    /\ step \in [Calls -> Steps]
    /\ target \in [Calls -> Targets \cup {NoTarget}]
    /\ by \in [Calls -> Codes \cup {NoCode}]
    /\ user \in [Calls -> Users \cup {NoUser}]
    /\ own \in [Calls -> Tokens \cup {NoToken}]
    /\ madeFor \in [Users -> Targets \cup {NoTarget}]
    /\ crossed \subseteq Targets /\ reinvited \subseteq Targets /\ cut \subseteq Targets
    /\ kept \subseteq Users /\ loose \subseteq Users
    /\ overtaken \subseteq Calls /\ late \subseteq Tokens

OnTarget == {"code", "invite", "account", "link", "mark", "session"}
OnUser == {"link", "mark", "session", "login", "setting", "others", "impersonate", "drop"}

\* A call at a step has what the step works on; a code in use has a target.
Frames ==
    /\ \A c \in Calls : target[c] # NoTarget <=> step[c] \in OnTarget
    /\ \A c \in Calls : step[c] \in {"account", "link", "mark"} =>
                           by[c] \in Codes /\ code[by[c]] = target[c]
    /\ \A c \in Calls : step[c] \in OnUser => user[c] \in Users
    /\ \A k \in live \cup used : code[k] # NoTarget

AccountInv == AccountTypes /\ Frames

LEMMA AccountInit == PeopleInit => AccountInv
BY AccountsAssumption DEF PeopleInit, AccountInv, AccountTypes, Frames, Steps, OnTarget, OnUser

LEMMA TargetParts == \A t \in Targets : t[1] \in Roles /\ t[2] \in Students
BY DEF Targets

\* Types are preserved.
LEMMA AccountTypesStep == AccountTypes /\ Frames /\ [PeopleNext]_peopleVars => AccountTypes'
<1> SUFFICES ASSUME AccountTypes, Frames, [PeopleNext]_peopleVars PROVE AccountTypes'
  OBVIOUS
<1> USE AccountsAssumption DEF schoolVars, accountTables, requests, accountHistory, accountVars, AccountTypes, Frames, Steps, OnTarget, OnUser
<1>1. CASE EditRoster
  BY <1>1 DEF EditRoster
<1>2. ASSUME NEW c \in Calls, NEW t \in Targets, GenerateInvitations(c, t) PROVE AccountTypes'
  BY <1>2 DEF GenerateInvitations, Begin, Advance
<1>3. ASSUME NEW c \in Calls, NEW k \in Codes, ValidateInvitation(c, k) PROVE AccountTypes'
  <2>1. code[k] \in Targets
    BY <1>3 DEF ValidateInvitation, Begin, Advance
  <2> QED BY <1>3, <2>1 DEF ValidateInvitation, Begin, Advance
<1>4. ASSUME NEW c \in Calls, NEW u \in Users, CreateAccount(c, u) PROVE AccountTypes'
  BY <1>4 DEF CreateAccount, Advance
<1>5. ASSUME NEW c \in Calls, NEW u \in Users, Login(c, u) PROVE AccountTypes'
  BY <1>5 DEF Login, Enter, Advance
<1>6. ASSUME NEW c \in Calls, NEW u \in Users, NEW standing \in {"active", "inactive"}, SetMemberStatus(c, u, standing) PROVE AccountTypes'
  BY <1>6 DEF SetMemberStatus, Advance
<1>7. ASSUME NEW c \in Calls, ReuseInvitation(c) PROVE AccountTypes'
  BY <1>7 DEF ReuseInvitation, Return, Advance
<1>8. ASSUME NEW c \in Calls, CreateInvitation(c) PROVE AccountTypes'
  BY <1>8 DEF CreateInvitation, Return, Advance
<1>9. ASSUME NEW c \in Calls, Link(c) PROVE AccountTypes'
  <2>1. user[c] \in Users /\ target[c] \in Targets
    BY <1>9 DEF Link, Advance
  <2>2. target[c][2] \in Students
    BY <2>1, TargetParts
  <2> QED BY <1>9, <2>1, <2>2 DEF Link, Advance
<1>10. ASSUME NEW c \in Calls, MarkInvitationUsed(c) PROVE AccountTypes'
  BY <1>10 DEF MarkInvitationUsed, Advance
<1>11. ASSUME NEW c \in Calls, IssueSession(c) PROVE AccountTypes'
  BY <1>11 DEF IssueSession, AddSession, Return, Advance, CreateSession
<1>12. ASSUME NEW c \in Calls, LoginSession(c) PROVE AccountTypes'
  BY <1>12 DEF LoginSession, Advance, CreateSession
<1>13. ASSUME NEW c \in Calls, DeleteOtherSessions(c) PROVE AccountTypes'
  BY <1>13 DEF DeleteOtherSessions, Advance, End, Forget
<1>14. ASSUME NEW c \in Calls, DeleteSessions(c) PROVE AccountTypes'
  BY <1>14 DEF DeleteSessions, Advance, End, Forget
<1>15. ASSUME NEW c \in Calls, Stop(c) PROVE AccountTypes'
  BY <1>15 DEF Stop, Return, Advance
<1>16. ASSUME NEW k \in Codes, InvitationExpires(k) PROVE AccountTypes'
  BY <1>16 DEF InvitationExpires
<1>17. ASSUME NEW t \in Tokens, Logout(t) PROVE AccountTypes'
  BY <1>17 DEF Logout, End, Forget
<1>18. CASE UNCHANGED peopleVars
  BY <1>18 DEF peopleVars
<1>19. ASSUME NEW c \in Calls, NEW u \in Users, Impersonate(c, u) PROVE AccountTypes'
  BY <1>19 DEF Impersonate, Enter, Advance
<1>20. ASSUME NEW c \in Calls, ImpersonationSession(c) PROVE AccountTypes'
  BY <1>20 DEF ImpersonationSession, AddSession, Return, Advance, CreateSession
<1>21. ASSUME NEW c \in Calls, SingleDeviceEnabled(c) PROVE AccountTypes'
  BY <1>21 DEF SingleDeviceEnabled, Advance
<1>22. ASSUME NEW c \in Calls, KeepOtherSessions(c) PROVE AccountTypes'
  BY <1>22 DEF KeepOtherSessions, Return, Advance
<1>23. ASSUME NEW on \in BOOLEAN, PutSecurity(on) PROVE AccountTypes'
  BY <1>23 DEF PutSecurity
<1> QED BY <1>1, <1>2, <1>3, <1>4, <1>5, <1>6, <1>7, <1>8, <1>9, <1>10, <1>11, <1>12, <1>13, <1>14, <1>15, <1>16, <1>17, <1>18, <1>19, <1>20, <1>21, <1>22, <1>23 DEF PeopleNext


\* So is what a call works on.
LEMMA FramesStep == AccountTypes /\ Frames /\ [PeopleNext]_peopleVars => Frames'
<1> SUFFICES ASSUME AccountTypes, Frames, [PeopleNext]_peopleVars PROVE Frames'
  OBVIOUS
<1> USE AccountsAssumption DEF accountTables, requests, accountHistory, accountVars, AccountTypes, Frames, Steps, OnTarget, OnUser
<1>1. CASE EditRoster
  BY <1>1 DEF EditRoster
<1>2. ASSUME NEW c \in Calls, NEW t \in Targets, GenerateInvitations(c, t) PROVE Frames'
  BY <1>2 DEF GenerateInvitations, Begin, Advance
<1>3. ASSUME NEW c \in Calls, NEW k \in Codes, ValidateInvitation(c, k) PROVE Frames'
  BY <1>3 DEF ValidateInvitation, Begin, Advance
<1>4. ASSUME NEW c \in Calls, NEW u \in Users, CreateAccount(c, u) PROVE Frames'
  BY <1>4 DEF CreateAccount, Advance
<1>5. ASSUME NEW c \in Calls, NEW u \in Users, Login(c, u) PROVE Frames'
  BY <1>5 DEF Login, Enter, Advance
<1>6. ASSUME NEW c \in Calls, NEW u \in Users, NEW standing \in {"active", "inactive"}, SetMemberStatus(c, u, standing) PROVE Frames'
  BY <1>6 DEF SetMemberStatus, Advance
<1>7. ASSUME NEW c \in Calls, ReuseInvitation(c) PROVE Frames'
  BY <1>7 DEF ReuseInvitation, Return, Advance
<1>8. ASSUME NEW c \in Calls, CreateInvitation(c) PROVE Frames'
  BY <1>8 DEF CreateInvitation, Return, Advance
<1>9. ASSUME NEW c \in Calls, Link(c) PROVE Frames'
  BY <1>9 DEF Link, Advance
<1>10. ASSUME NEW c \in Calls, MarkInvitationUsed(c) PROVE Frames'
  BY <1>10 DEF MarkInvitationUsed, Advance
<1>11. ASSUME NEW c \in Calls, IssueSession(c) PROVE Frames'
  BY <1>11 DEF IssueSession, AddSession, Return, Advance, CreateSession
<1>12. ASSUME NEW c \in Calls, LoginSession(c) PROVE Frames'
  BY <1>12 DEF LoginSession, Advance, CreateSession
<1>13. ASSUME NEW c \in Calls, DeleteOtherSessions(c) PROVE Frames'
  BY <1>13 DEF DeleteOtherSessions, Advance, End, Forget
<1>14. ASSUME NEW c \in Calls, DeleteSessions(c) PROVE Frames'
  BY <1>14 DEF DeleteSessions, Advance, End, Forget
<1>15. ASSUME NEW c \in Calls, Stop(c) PROVE Frames'
  BY <1>15 DEF Stop, Return, Advance
<1>16. ASSUME NEW k \in Codes, InvitationExpires(k) PROVE Frames'
  BY <1>16 DEF InvitationExpires
<1>17. ASSUME NEW t \in Tokens, Logout(t) PROVE Frames'
  BY <1>17 DEF Logout, End, Forget
<1>18. CASE UNCHANGED peopleVars
  BY <1>18 DEF peopleVars
<1>19. ASSUME NEW c \in Calls, NEW u \in Users, Impersonate(c, u) PROVE Frames'
  BY <1>19 DEF Impersonate, Enter, Advance
<1>20. ASSUME NEW c \in Calls, ImpersonationSession(c) PROVE Frames'
  BY <1>20 DEF ImpersonationSession, AddSession, Return, Advance, CreateSession
<1>21. ASSUME NEW c \in Calls, SingleDeviceEnabled(c) PROVE Frames'
  BY <1>21 DEF SingleDeviceEnabled, Advance
<1>22. ASSUME NEW c \in Calls, KeepOtherSessions(c) PROVE Frames'
  BY <1>22 DEF KeepOtherSessions, Return, Advance
<1>23. ASSUME NEW on \in BOOLEAN, PutSecurity(on) PROVE Frames'
  BY <1>23 DEF PutSecurity
<1> QED BY <1>1, <1>2, <1>3, <1>4, <1>5, <1>6, <1>7, <1>8, <1>9, <1>10, <1>11, <1>12, <1>13, <1>14, <1>15, <1>16, <1>17, <1>18, <1>19, <1>20, <1>21, <1>22, <1>23 DEF PeopleNext


\* What is left of the targets after a step.
Linked ==
    /\ \A k \in used : HasAccount(code[k])
    /\ \A c \in Calls : step[c] = "mark" => HasAccount(target[c])

\* What a step may do to accounts, guardians and codes.
TablesGrow ==
    /\ guardians \subseteq guardians'
    /\ account' = account \/ \E c \in Calls : Link(c)
    /\ \A k \in Codes : code[k] # NoTarget => code'[k] = code[k]
    /\ \A k \in used' : k \in used \/ \E c \in Calls : MarkInvitationUsed(c) /\ k = by[c]

LEMMA TablesStep == AccountInv /\ [PeopleNext]_peopleVars => TablesGrow
<1> SUFFICES ASSUME AccountInv, [PeopleNext]_peopleVars PROVE TablesGrow
  OBVIOUS
<1> USE DEF accountTables, TablesGrow
<1>1. CASE EditRoster
  BY <1>1 DEF EditRoster, accountVars
<1>2. CASE UNCHANGED peopleVars
  BY <1>2 DEF peopleVars, accountVars
<1>3. ASSUME NEW c \in Calls, NEW t \in Targets, GenerateInvitations(c, t)
      PROVE  TablesGrow
  BY <1>3 DEF GenerateInvitations
<1>4. ASSUME NEW c \in Calls, NEW k \in Codes, ValidateInvitation(c, k)
      PROVE  TablesGrow
  BY <1>4 DEF ValidateInvitation
<1>5. ASSUME NEW c \in Calls, NEW u \in Users, CreateAccount(c, u) \/ Login(c, u) \/ Impersonate(c, u)
      PROVE  TablesGrow
  BY <1>5 DEF CreateAccount, Login, Impersonate, Enter
<1>6. ASSUME NEW c \in Calls, NEW u \in Users, NEW standing \in {"active", "inactive"}, SetMemberStatus(c, u, standing)
      PROVE  TablesGrow
  BY <1>6 DEF SetMemberStatus
<1>7. ASSUME NEW c \in Calls, ReuseInvitation(c)
      PROVE  TablesGrow
  BY <1>7 DEF ReuseInvitation
<1>8. ASSUME NEW c \in Calls, CreateInvitation(c)
      PROVE  TablesGrow
  BY <1>8 DEF CreateInvitation, AccountInv, AccountTypes
<1>9. ASSUME NEW c \in Calls, Link(c)
      PROVE  TablesGrow
  BY <1>9 DEF Link
<1>10. ASSUME NEW c \in Calls, MarkInvitationUsed(c)
      PROVE  TablesGrow
  BY <1>10 DEF MarkInvitationUsed
<1>11. ASSUME NEW c \in Calls, IssueSession(c) \/ ImpersonationSession(c)
      PROVE  TablesGrow
  BY <1>11 DEF IssueSession, ImpersonationSession, AddSession
<1>12. ASSUME NEW c \in Calls, LoginSession(c) \/ SingleDeviceEnabled(c) \/ KeepOtherSessions(c)
      PROVE  TablesGrow
  BY <1>12 DEF LoginSession, SingleDeviceEnabled, KeepOtherSessions
<1>13. ASSUME NEW c \in Calls, DeleteOtherSessions(c) \/ DeleteSessions(c)
      PROVE  TablesGrow
  BY <1>13 DEF DeleteOtherSessions, DeleteSessions, End
<1>14. ASSUME NEW c \in Calls, Stop(c)
      PROVE  TablesGrow
  BY <1>14 DEF Stop
<1>15. ASSUME NEW k \in Codes, InvitationExpires(k)
      PROVE  TablesGrow
  BY <1>15 DEF InvitationExpires
<1>16. ASSUME NEW t \in Tokens, Logout(t)
      PROVE  TablesGrow
  BY <1>16 DEF Logout, End
<1>17. ASSUME NEW on \in BOOLEAN, PutSecurity(on)
      PROVE  TablesGrow
  BY <1>17 DEF PutSecurity
<1> QED BY <1>1, <1>2, <1>3, <1>4, <1>5, <1>6, <1>7, <1>8, <1>9, <1>10, <1>11, <1>12, <1>13, <1>14, <1>15, <1>16, <1>17 DEF PeopleNext

\* An account that is there stays.
LEMMA AccountStays ==
    ASSUME AccountInv, [PeopleNext]_peopleVars, NEW t, HasAccount(t), t[1] = "siswa" => t[2] \in Students
    PROVE  HasAccount(t)'
<1>1. guardians \subseteq guardians'
  BY TablesStep DEF TablesGrow
<1>2. account' = account \/ \E c \in Calls : Link(c)
  BY TablesStep DEF TablesGrow
<1>3. CASE account' = account
  BY <1>1, <1>3 DEF HasAccount, HasGuardian
<1>4. ASSUME NEW c \in Calls, Link(c) PROVE HasAccount(t)'
  <2>1. user[c] \in Users /\ user[c] # NoUser
    BY <1>4, AccountsAssumption DEF Link, Advance, AccountInv, Frames, OnUser
  <2>2. \A s \in Students : account[s] # NoUser => account'[s] # NoUser
    BY <1>4, <2>1 DEF Link, AccountInv, AccountTypes
  <2> QED BY <1>1, <2>2 DEF HasAccount, HasGuardian
<1> QED BY <1>2, <1>3, <1>4

\* Who is about to mark a code has just linked, or was about to before.
MarkFrom ==
    \A d \in Calls : step'[d] = "mark" => target'[d] = target[d] /\ (step[d] = "mark" \/ Link(d))

LEMMA MarkStep == AccountInv /\ [PeopleNext]_peopleVars => MarkFrom
<1> SUFFICES ASSUME AccountInv, [PeopleNext]_peopleVars PROVE MarkFrom
  OBVIOUS
<1> USE AccountsAssumption DEF accountTables, requests, accountHistory, accountVars, MarkFrom, AccountInv, AccountTypes, Frames
<1>1. CASE EditRoster
  BY <1>1 DEF EditRoster
<1>2. ASSUME NEW c \in Calls, NEW t \in Targets, GenerateInvitations(c, t) PROVE MarkFrom
  BY <1>2 DEF GenerateInvitations, Begin, Advance
<1>3. ASSUME NEW c \in Calls, NEW k \in Codes, ValidateInvitation(c, k) PROVE MarkFrom
  BY <1>3 DEF ValidateInvitation, Begin, Advance
<1>4. ASSUME NEW c \in Calls, NEW u \in Users, CreateAccount(c, u) PROVE MarkFrom
  BY <1>4 DEF CreateAccount, Advance
<1>5. ASSUME NEW c \in Calls, NEW u \in Users, Login(c, u) PROVE MarkFrom
  BY <1>5 DEF Login, Enter, Advance
<1>6. ASSUME NEW c \in Calls, NEW u \in Users, NEW standing \in {"active", "inactive"}, SetMemberStatus(c, u, standing) PROVE MarkFrom
  BY <1>6 DEF SetMemberStatus, Advance
<1>7. ASSUME NEW c \in Calls, ReuseInvitation(c) PROVE MarkFrom
  BY <1>7 DEF ReuseInvitation, Return, Advance
<1>8. ASSUME NEW c \in Calls, CreateInvitation(c) PROVE MarkFrom
  BY <1>8 DEF CreateInvitation, Return, Advance
<1>9. ASSUME NEW c \in Calls, Link(c) PROVE MarkFrom
  BY <1>9 DEF Advance, Link
<1>10. ASSUME NEW c \in Calls, MarkInvitationUsed(c) PROVE MarkFrom
  BY <1>10 DEF MarkInvitationUsed, Advance
<1>11. ASSUME NEW c \in Calls, IssueSession(c) PROVE MarkFrom
  BY <1>11 DEF IssueSession, AddSession, Return, Advance, CreateSession
<1>12. ASSUME NEW c \in Calls, LoginSession(c) PROVE MarkFrom
  BY <1>12 DEF LoginSession, Advance, CreateSession
<1>13. ASSUME NEW c \in Calls, DeleteOtherSessions(c) PROVE MarkFrom
  BY <1>13 DEF DeleteOtherSessions, Advance, End, Forget
<1>14. ASSUME NEW c \in Calls, DeleteSessions(c) PROVE MarkFrom
  BY <1>14 DEF DeleteSessions, Advance, End, Forget
<1>15. ASSUME NEW c \in Calls, Stop(c) PROVE MarkFrom
  BY <1>15 DEF Stop, Return, Advance
<1>16. ASSUME NEW k \in Codes, InvitationExpires(k) PROVE MarkFrom
  BY <1>16 DEF InvitationExpires
<1>17. ASSUME NEW t \in Tokens, Logout(t) PROVE MarkFrom
  BY <1>17 DEF Logout, End, Forget
<1>18. CASE UNCHANGED peopleVars
  BY <1>18 DEF peopleVars
<1>19. ASSUME NEW c \in Calls, NEW u \in Users, Impersonate(c, u) PROVE MarkFrom
  BY <1>19 DEF Impersonate, Enter, Advance
<1>20. ASSUME NEW c \in Calls, ImpersonationSession(c) PROVE MarkFrom
  BY <1>20 DEF ImpersonationSession, AddSession, Return, Advance, CreateSession
<1>21. ASSUME NEW c \in Calls, SingleDeviceEnabled(c) PROVE MarkFrom
  BY <1>21 DEF SingleDeviceEnabled, Advance
<1>22. ASSUME NEW c \in Calls, KeepOtherSessions(c) PROVE MarkFrom
  BY <1>22 DEF KeepOtherSessions, Return, Advance
<1>23. ASSUME NEW on \in BOOLEAN, PutSecurity(on) PROVE MarkFrom
  BY <1>23 DEF PutSecurity
<1> QED BY <1>1, <1>2, <1>3, <1>4, <1>5, <1>6, <1>7, <1>8, <1>9, <1>10, <1>11, <1>12, <1>13, <1>14, <1>15, <1>16, <1>17, <1>18, <1>19, <1>20, <1>21, <1>22, <1>23 DEF PeopleNext


LEMMA LinkedStep == AccountInv /\ AccountInv' /\ Linked /\ [PeopleNext]_peopleVars => Linked'
<1> SUFFICES ASSUME AccountInv, AccountInv', Linked, [PeopleNext]_peopleVars PROVE Linked'
  OBVIOUS
<1>1. \A t \in Targets : HasAccount(t) => HasAccount(t)'
  BY AccountStays, TargetParts
<1>2. \A k \in Codes : code[k] # NoTarget => code'[k] = code[k]
  BY TablesStep DEF TablesGrow
<1>3. ASSUME NEW k \in used' PROVE k \in used \/ \E c \in Calls : MarkInvitationUsed(c) /\ k = by[c]
  BY TablesStep DEF TablesGrow
<1>4. \A c \in Calls : step'[c] = "mark" => target'[c] = target[c] /\ (step[c] = "mark" \/ Link(c))
  BY MarkStep DEF MarkFrom
<1>5. ASSUME NEW k \in used' PROVE HasAccount(code[k]) /\ code[k] \in Targets /\ k \in Codes
  <2>1. k \in Codes
    BY DEF AccountInv, AccountTypes
  <2>2. ASSUME NEW c \in Calls, MarkInvitationUsed(c), k = by[c] PROVE HasAccount(code[k]) /\ code[k] # NoTarget
    BY <2>2 DEF MarkInvitationUsed, Advance, Linked, AccountInv, Frames, OnTarget
  <2>3. k \in used => HasAccount(code[k]) /\ code[k] # NoTarget
    BY DEF Linked, AccountInv, Frames
  <2> QED BY <1>3, <2>1, <2>2, <2>3 DEF AccountInv, AccountTypes
<1>6. ASSUME NEW k \in used' PROVE HasAccount(code[k])'
  <2>1. PICK t \in Targets : t = code[k] /\ HasAccount(t) /\ code'[k] = t
    BY <1>2, <1>5, AccountsAssumption
  <2>2. HasAccount(t)'
    BY <1>1, <2>1
  <2> QED BY <2>1, <2>2 DEF HasAccount, HasGuardian
<1>7. ASSUME NEW c \in Calls, Link(c) PROVE HasAccount(target[c])'
  <2>1. /\ user[c] \in Users /\ user[c] # NoUser /\ target[c] \in Targets
        /\ target[c][2] \in Students
    BY <1>7, AccountsAssumption, TargetParts DEF Link, Advance, AccountInv, AccountTypes, Frames, OnUser, OnTarget
  <2>2. CASE target[c][1] = "siswa"
    <3>1. account'[target[c][2]] = user[c]
      BY <1>7, <2>1, <2>2 DEF Link, AccountInv, AccountTypes
    <3>2. target'[c] = target[c]
      BY <1>7 DEF Link
    <3> QED BY <2>1, <2>2, <3>1, <3>2 DEF HasAccount, HasGuardian
  <2>3. CASE target[c][1] = "orang_tua"
    <3>1. <<user[c], target[c][2]>> \in guardians' /\ target'[c] = target[c]
      BY <1>7, <2>3 DEF Link
    <3> QED BY <2>1, <2>3, <3>1 DEF HasAccount, HasGuardian
  <2> QED BY <1>7, <2>2, <2>3 DEF Link
<1>8. ASSUME NEW c \in Calls, step'[c] = "mark" PROVE HasAccount(target[c])'
  <2>1. CASE Link(c)
    BY <1>7, <2>1
  <2>2. CASE step[c] = "mark"
    <3>1. PICK t \in Targets : t = target[c] /\ HasAccount(t) /\ target'[c] = t
      BY <1>4, <1>8, <2>2 DEF Linked, AccountInv, AccountTypes, Frames, OnTarget
    <3>2. HasAccount(t)'
      BY <1>1, <3>1
    <3> QED BY <3>1, <3>2 DEF HasAccount, HasGuardian
  <2> QED BY <1>4, <1>8, <2>1, <2>2
<1> QED BY <1>6, <1>8 DEF Linked

\* Two calls at a target have crossed.
Alone ==
    \A c, d \in Calls : c # d /\ target[c] = target[d] /\ target[c] # NoTarget => target[c] \in crossed

LEMMA AloneStep == AccountInv /\ Alone /\ [PeopleNext]_peopleVars => Alone'
<1> SUFFICES ASSUME AccountInv, Alone, [PeopleNext]_peopleVars PROVE Alone'
  OBVIOUS
<1> USE AccountsAssumption DEF accountTables, requests, accountHistory, accountVars, AccountInv, AccountTypes, Frames, OnTarget, Steps, Alone
<1>1. CASE EditRoster
  BY <1>1 DEF EditRoster
<1>2. ASSUME NEW c \in Calls, NEW t \in Targets, GenerateInvitations(c, t) PROVE Alone'
  BY <1>2 DEF GenerateInvitations, Begin, Advance
<1>3. ASSUME NEW c \in Calls, NEW k \in Codes, ValidateInvitation(c, k) PROVE Alone'
  BY <1>3 DEF ValidateInvitation, Begin, Advance
<1>4. ASSUME NEW c \in Calls, NEW u \in Users, CreateAccount(c, u) PROVE Alone'
  BY <1>4 DEF CreateAccount, Advance
<1>5. ASSUME NEW c \in Calls, NEW u \in Users, Login(c, u) PROVE Alone'
  BY <1>5 DEF Login, Enter, Advance
<1>6. ASSUME NEW c \in Calls, NEW u \in Users, NEW standing \in {"active", "inactive"}, SetMemberStatus(c, u, standing) PROVE Alone'
  BY <1>6 DEF SetMemberStatus, Advance
<1>7. ASSUME NEW c \in Calls, ReuseInvitation(c) PROVE Alone'
  BY <1>7 DEF ReuseInvitation, Return, Advance
<1>8. ASSUME NEW c \in Calls, CreateInvitation(c) PROVE Alone'
  BY <1>8 DEF CreateInvitation, Return, Advance
<1>9. ASSUME NEW c \in Calls, Link(c) PROVE Alone'
  BY <1>9 DEF Link, Advance
<1>10. ASSUME NEW c \in Calls, MarkInvitationUsed(c) PROVE Alone'
  BY <1>10 DEF MarkInvitationUsed, Advance
<1>11. ASSUME NEW c \in Calls, IssueSession(c) PROVE Alone'
  BY <1>11 DEF IssueSession, AddSession, Return, Advance, CreateSession
<1>12. ASSUME NEW c \in Calls, LoginSession(c) PROVE Alone'
  BY <1>12 DEF LoginSession, Advance, CreateSession
<1>13. ASSUME NEW c \in Calls, DeleteOtherSessions(c) PROVE Alone'
  BY <1>13 DEF DeleteOtherSessions, Advance, End, Forget
<1>14. ASSUME NEW c \in Calls, DeleteSessions(c) PROVE Alone'
  BY <1>14 DEF DeleteSessions, Advance, End, Forget
<1>15. ASSUME NEW c \in Calls, Stop(c) PROVE Alone'
  BY <1>15 DEF Stop, Return, Advance
<1>16. ASSUME NEW k \in Codes, InvitationExpires(k) PROVE Alone'
  BY <1>16 DEF InvitationExpires
<1>17. ASSUME NEW t \in Tokens, Logout(t) PROVE Alone'
  BY <1>17 DEF Logout, End, Forget
<1>18. CASE UNCHANGED peopleVars
  BY <1>18 DEF peopleVars
<1>19. ASSUME NEW c \in Calls, NEW u \in Users, Impersonate(c, u) PROVE Alone'
  BY <1>19 DEF Impersonate, Enter, Advance
<1>20. ASSUME NEW c \in Calls, ImpersonationSession(c) PROVE Alone'
  BY <1>20 DEF ImpersonationSession, AddSession, Return, Advance, CreateSession
<1>21. ASSUME NEW c \in Calls, SingleDeviceEnabled(c) PROVE Alone'
  BY <1>21 DEF SingleDeviceEnabled, Advance
<1>22. ASSUME NEW c \in Calls, KeepOtherSessions(c) PROVE Alone'
  BY <1>22 DEF KeepOtherSessions, Return, Advance
<1>23. ASSUME NEW on \in BOOLEAN, PutSecurity(on) PROVE Alone'
  BY <1>23 DEF PutSecurity
<1> QED BY <1>1, <1>2, <1>3, <1>4, <1>5, <1>6, <1>7, <1>8, <1>9, <1>10, <1>11, <1>12, <1>13, <1>14, <1>15, <1>16, <1>17, <1>18, <1>19, <1>20, <1>21, <1>22, <1>23 DEF PeopleNext


\* A target whose calls came one at a time and did not stop half way, and who got no
\* code while he had an account, has one code that can be used, or one account:
\* whoever made it for him is about to link it and to mark the code, or has done so,
\* and then only a student may be about to get another code.
Orderly(T) ==
    /\ \A k, l \in ActiveInvitation(T) : k = l
    /\ \A c \in Calls : target[c] = T /\ step[c] = "invite" => ActiveInvitation(T) = {}
    /\ \A c \in Calls : target[c] = T /\ step[c] \in {"account", "link", "mark"} =>
                           ActiveInvitation(T) \subseteq {by[c]}
    /\ \A u \in Users : madeFor[u] = T =>
         \/ \E c \in Calls : target[c] = T /\ step[c] \in {"link", "mark"}
         \/ /\ HasAccount(T) /\ ActiveInvitation(T) = {}
            /\ \A c \in Calls : target[c] = T =>
                 step[c] = "session" \/ (T[1] = "siswa" /\ step[c] \in {"code", "invite"})
    /\ \A u, v \in Users : madeFor[u] = T /\ madeFor[v] = T => u = v

\* What is known of such a target at a step.
Quiet(T) ==
    /\ T \in Targets /\ T \notin crossed \cup cut \cup reinvited
    /\ T \notin crossed' \cup cut' \cup reinvited'
    /\ HasAccount(T) => HasAccount(T)'
    /\ AccountInv /\ Linked /\ Alone /\ Orderly(T)

\* A target that no call of the step is on keeps what it has.
LEMMA OrderlyFrame ==
    ASSUME NEW T, Quiet(T), \A u \in Users : madeFor'[u] = T => madeFor[u] = T,
           ActiveInvitation(T)' \subseteq ActiveInvitation(T),
           \A c \in Calls : (target'[c] = T <=> target[c] = T)
                            /\ (target[c] = T => step'[c] = step[c] /\ by'[c] = by[c])
    PROVE  Orderly(T)'
BY DEF Quiet, Orderly

\* The step of a call whose target is another one.
LEMMA OrderlyElsewhere ==
    ASSUME NEW T, Quiet(T), UNCHANGED <<code, live>>, used \subseteq used',
           \A u \in Users : madeFor'[u] = T => madeFor[u] = T,
           NEW c \in Calls, target[c] # T, target'[c] # T,
           \A d \in Calls \ {c} : target'[d] = target[d] /\ step'[d] = step[d] /\ by'[d] = by[d]
    PROVE  Orderly(T)'
<1>1. ActiveInvitation(T)' \subseteq ActiveInvitation(T)
  BY DEF ActiveInvitation
<1> QED BY <1>1, OrderlyFrame

\* Nobody else is at the target of a call.
LEMMA OnlyCall ==
    ASSUME NEW T, Quiet(T), NEW c \in Calls, target[c] = T
    PROVE  /\ \A d \in Calls \ {c} : target[d] # T
           /\ step[c] \in OnTarget /\ NoTarget # T
           /\ step[c] = "account" => \A u \in Users : madeFor[u] # T
           /\ step[c] \in {"code", "invite", "session"} =>
                \A u \in Users : madeFor[u] = T => HasAccount(T) /\ ActiveInvitation(T) = {}
           /\ step[c] \in {"code", "invite"} => \A u \in Users : madeFor[u] = T => T[1] = "siswa"
<1>1. \A d \in Calls \ {c} : target[d] # T
  BY AccountsAssumption DEF Quiet, Alone
<1>2. step[c] \in OnTarget /\ NoTarget # T
  BY AccountsAssumption DEF Quiet, AccountInv, Frames
<1> QED BY <1>1, <1>2 DEF Quiet, Orderly

LEMMA OrderlyStep == ASSUME NEW T, Quiet(T), [PeopleNext]_peopleVars PROVE Orderly(T)'
<1> USE AccountsAssumption DEF accountTables, requests, accountHistory, accountVars
<1>1. CASE EditRoster
  <2>1. ActiveInvitation(T)' \subseteq ActiveInvitation(T)
    BY <1>1 DEF EditRoster, ActiveInvitation
  <2> QED BY <1>1, <2>1, OrderlyFrame DEF EditRoster, AccountInv, AccountTypes, Frames, OnTarget, Quiet
<1>2. ASSUME NEW c \in Calls, NEW t \in Targets, GenerateInvitations(c, t) PROVE Orderly(T)'
  <2>1. CASE t # T
    BY <1>2, <2>1, OrderlyElsewhere DEF GenerateInvitations, Begin, Advance, AccountInv, AccountTypes, Frames, OnTarget, Quiet
  <2>2. CASE t = T
    <3>1. /\ \A d \in Calls : target[d] # T
          /\ NoTarget # T /\ target'[c] = T /\ \A d \in Calls \ {c} : target'[d] # T
      BY <1>2, <2>2, AccountsAssumption DEF GenerateInvitations, Begin, Advance, Quiet, AccountInv, AccountTypes
    <3>2. \A u \in Users : madeFor[u] = T => HasAccount(T) /\ ActiveInvitation(T) = {} /\ T[1] = "siswa"
      <4>1. \A u \in Users : madeFor[u] = T => HasAccount(T) /\ ActiveInvitation(T) = {}
        BY <3>1 DEF Quiet, Orderly
      <4>2. T[1] = "siswa" \/ ~HasAccount(T)
        BY <1>2, <2>2 DEF GenerateInvitations, HasAccount
      <4> QED BY <4>1, <4>2
    <3>3. ActiveInvitation(T)' = ActiveInvitation(T) /\ madeFor' = madeFor /\ step'[c] = "code"
      BY <1>2 DEF GenerateInvitations, Begin, Advance, ActiveInvitation, Quiet, AccountInv, AccountTypes
    <3> QED BY <3>1, <3>2, <3>3 DEF Quiet, Orderly
  <2> QED BY <2>1, <2>2
<1>3. ASSUME NEW c \in Calls, NEW k \in Codes, ValidateInvitation(c, k) PROVE Orderly(T)'
  <2>1. CASE code[k] # T
    BY <1>3, <2>1, OrderlyElsewhere DEF ValidateInvitation, Begin, Advance, AccountInv, AccountTypes, Frames, OnTarget, Quiet
  <2>2. CASE code[k] = T
    <3>1. /\ \A d \in Calls : target[d] # T
          /\ NoTarget # T /\ target'[c] = T /\ \A d \in Calls \ {c} : target'[d] # T
      BY <1>3, <2>2, AccountsAssumption DEF ValidateInvitation, Begin, Advance, Quiet, AccountInv, AccountTypes
    <3>2. k \in ActiveInvitation(T)
      BY <1>3, <2>2 DEF ValidateInvitation, ActiveInvitation
    <3>3. \A u \in Users : madeFor[u] # T
      BY <3>1, <3>2 DEF Quiet, Orderly
    <3>4. /\ ActiveInvitation(T)' = ActiveInvitation(T) /\ madeFor' = madeFor /\ step'[c] = "account"
          /\ by'[c] = k
      BY <1>3 DEF ValidateInvitation, Begin, Advance, ActiveInvitation, Quiet, AccountInv, AccountTypes
    <3> QED BY <3>1, <3>2, <3>3, <3>4 DEF Quiet, Orderly
  <2> QED BY <2>1, <2>2
<1>4. ASSUME NEW c \in Calls, NEW u \in Users, CreateAccount(c, u) PROVE Orderly(T)'
  <2>1. CASE target[c] # T
    BY <1>4, <2>1, OrderlyElsewhere DEF CreateAccount, Advance, AccountInv, AccountTypes, Frames, OnTarget, Quiet
  <2>2. CASE target[c] = T
    <3>1. /\ \A d \in Calls \ {c} : target[d] # T
          /\ step[c] = "account" => \A v \in Users : madeFor[v] # T
          /\ step[c] \in {"code", "invite", "session"} =>
                \A v \in Users : madeFor[v] = T => HasAccount(T) /\ ActiveInvitation(T) = {}
          /\ step[c] \in {"code", "invite"} => \A v \in Users : madeFor[v] = T => T[1] = "siswa"
          /\ NoTarget # T
      BY <2>2, OnlyCall
    <3>2. /\ ActiveInvitation(T)' = ActiveInvitation(T) /\ UNCHANGED <<target, by>>
          /\ step[c] = "account" /\ step'[c] = "link"
          /\ \A v \in Users : madeFor'[v] = IF v = u THEN T ELSE madeFor[v]
      BY <1>4, <2>2 DEF CreateAccount, Advance, ActiveInvitation, Quiet, AccountInv, AccountTypes
    <3> QED BY <2>2, <3>1, <3>2 DEF Quiet, Orderly
  <2> QED BY <2>1, <2>2
<1>5. ASSUME NEW c \in Calls, NEW u \in Users, Login(c, u) PROVE Orderly(T)'
  <2>1. ActiveInvitation(T)' \subseteq ActiveInvitation(T)
    BY <1>5 DEF Login, Enter, Advance, ActiveInvitation
  <2> QED BY <1>5, <2>1, OrderlyFrame DEF Login, Enter, Advance, AccountInv, AccountTypes, Frames, OnTarget, Quiet
<1>6. ASSUME NEW c \in Calls, NEW u \in Users, NEW standing \in {"active", "inactive"}, SetMemberStatus(c, u, standing) PROVE Orderly(T)'
  <2>1. ActiveInvitation(T)' \subseteq ActiveInvitation(T)
    BY <1>6 DEF SetMemberStatus, Advance, ActiveInvitation
  <2> QED BY <1>6, <2>1, OrderlyFrame DEF SetMemberStatus, Advance, AccountInv, AccountTypes, Frames, OnTarget, Quiet
<1>7. ASSUME NEW c \in Calls, ReuseInvitation(c) PROVE Orderly(T)'
  <2>1. CASE target[c] # T
    BY <1>7, <2>1, OrderlyElsewhere DEF ReuseInvitation, Return, Advance, AccountInv, AccountTypes, Frames, OnTarget, Quiet
  <2>2. CASE target[c] = T
    <3>1. /\ \A d \in Calls \ {c} : target[d] # T
          /\ step[c] = "account" => \A v \in Users : madeFor[v] # T
          /\ step[c] \in {"code", "invite", "session"} =>
                \A v \in Users : madeFor[v] = T => HasAccount(T) /\ ActiveInvitation(T) = {}
          /\ step[c] \in {"code", "invite"} => \A v \in Users : madeFor[v] = T => T[1] = "siswa"
          /\ NoTarget # T
      BY <2>2, OnlyCall
    <3>2. /\ ActiveInvitation(T)' = ActiveInvitation(T) /\ madeFor' = madeFor /\ step[c] = "code"
          /\ \A d \in Calls \ {c} : target'[d] = target[d]
      BY <1>7 DEF ReuseInvitation, Return, Advance, ActiveInvitation, Quiet, AccountInv, AccountTypes, accountHistory
    <3>3. target'[c] = T => step'[c] = "invite" /\ ActiveInvitation(T) = {}
      BY <1>7, <2>2, <3>1 DEF ReuseInvitation, Return, Advance, Quiet, AccountInv, AccountTypes
    <3> QED BY <3>1, <3>2, <3>3 DEF Quiet, Orderly
  <2> QED BY <2>1, <2>2
<1>8. ASSUME NEW c \in Calls, CreateInvitation(c) PROVE Orderly(T)'
  <2>0. PICK k \in Codes : code[k] = NoTarget /\ code' = [code EXCEPT ![k] = target[c]] /\ live' = live \cup {k}
    BY <1>8 DEF CreateInvitation, Return, Advance
  <2>1. CASE target[c] # T
    <3>1. ActiveInvitation(T)' \subseteq ActiveInvitation(T)
      BY <1>8, <2>0, <2>1 DEF CreateInvitation, Return, Advance, ActiveInvitation, Quiet, AccountInv, AccountTypes
    <3> QED BY <1>8, <2>1, <3>1, OrderlyFrame DEF CreateInvitation, Return, Advance, AccountInv, AccountTypes, Frames, OnTarget, Quiet
  <2>2. CASE target[c] = T
    <3>1. /\ \A d \in Calls \ {c} : target[d] # T
          /\ step[c] = "account" => \A v \in Users : madeFor[v] # T
          /\ step[c] \in {"code", "invite", "session"} =>
                \A v \in Users : madeFor[v] = T => HasAccount(T) /\ ActiveInvitation(T) = {}
          /\ step[c] \in {"code", "invite"} => \A v \in Users : madeFor[v] = T => T[1] = "siswa"
          /\ NoTarget # T
      BY <2>2, OnlyCall
    <3>2. ActiveInvitation(T) = {} /\ step[c] = "invite"
      BY <1>8, <2>2 DEF CreateInvitation, Return, Advance, Quiet, Orderly
    <3>5. \A u \in Users : madeFor[u] # T
      <4>1. ~(T[1] = "siswa" /\ HasAccount(T))
        BY <1>8, <2>2 DEF CreateInvitation, Quiet, HasAccount
      <4> QED BY <3>1, <3>2, <4>1
    <3>3. ActiveInvitation(T)' \subseteq {k}
      BY <1>8, <2>0, <2>2, <3>2 DEF CreateInvitation, Return, Advance, ActiveInvitation, Quiet, AccountInv, AccountTypes
    <3>4. madeFor' = madeFor /\ \A d \in Calls : target'[d] # T
      BY <1>8, <2>2, <3>1 DEF CreateInvitation, Return, Advance, Quiet, AccountInv, AccountTypes, accountHistory
    <3> QED BY <3>3, <3>4, <3>5 DEF Quiet, Orderly
  <2> QED BY <2>1, <2>2
<1>9. ASSUME NEW c \in Calls, Link(c) PROVE Orderly(T)'
  <2>1. CASE target[c] # T
    BY <1>9, <2>1, OrderlyElsewhere DEF Link, Advance, AccountInv, AccountTypes, Frames, OnTarget, Quiet
  <2>2. CASE target[c] = T
    <3>1. /\ \A d \in Calls \ {c} : target[d] # T
          /\ step[c] = "account" => \A v \in Users : madeFor[v] # T
          /\ step[c] \in {"code", "invite", "session"} =>
                \A v \in Users : madeFor[v] = T => HasAccount(T) /\ ActiveInvitation(T) = {}
          /\ step[c] \in {"code", "invite"} => \A v \in Users : madeFor[v] = T => T[1] = "siswa"
          /\ NoTarget # T
      BY <2>2, OnlyCall
    <3>2. /\ ActiveInvitation(T)' = ActiveInvitation(T) /\ UNCHANGED <<target, by, madeFor>>
          /\ step[c] = "link" /\ step'[c] = "mark"
      BY <1>9, <2>2 DEF Link, Advance, ActiveInvitation, Quiet, AccountInv, AccountTypes, accountHistory
    <3> QED BY <2>2, <3>1, <3>2 DEF Quiet, Orderly
  <2> QED BY <2>1, <2>2
<1>10. ASSUME NEW c \in Calls, MarkInvitationUsed(c) PROVE Orderly(T)'
  <2>1. CASE target[c] # T
    BY <1>10, <2>1, OrderlyElsewhere DEF MarkInvitationUsed, Advance, AccountInv, AccountTypes, Frames, OnTarget, Quiet
  <2>2. CASE target[c] = T
    <3>1. /\ \A d \in Calls \ {c} : target[d] # T
          /\ step[c] = "account" => \A v \in Users : madeFor[v] # T
          /\ step[c] \in {"code", "invite", "session"} =>
                \A v \in Users : madeFor[v] = T => HasAccount(T) /\ ActiveInvitation(T) = {}
          /\ step[c] \in {"code", "invite"} => \A v \in Users : madeFor[v] = T => T[1] = "siswa"
          /\ NoTarget # T
      BY <2>2, OnlyCall
    <3>2. /\ UNCHANGED <<target, by, madeFor>> /\ step[c] = "mark" /\ step'[c] = "session"
      BY <1>10, <2>2 DEF MarkInvitationUsed, Advance, Quiet, AccountInv, AccountTypes, accountHistory
    <3>3. ActiveInvitation(T) \subseteq {by[c]}
      BY <2>2, <3>2 DEF Quiet, Orderly
    <3>4. ActiveInvitation(T)' = {}
      BY <1>10, <3>3 DEF MarkInvitationUsed, ActiveInvitation
    <3>5. HasAccount(T)'
      <4>1. HasAccount(T)
        BY <2>2, <3>2 DEF Quiet, Linked
      <4> QED BY <4>1 DEF Quiet
    <3>6. \A d \in Calls : target'[d] = T => step'[d] = "session"
      BY <3>1, <3>2
    <3>7. \A u, v \in Users : madeFor'[u] = T /\ madeFor'[v] = T => u = v
      BY <3>2 DEF Quiet, Orderly
    <3> QED BY <3>4, <3>5, <3>6, <3>7 DEF Orderly
  <2> QED BY <2>1, <2>2
<1>11. ASSUME NEW c \in Calls, IssueSession(c) PROVE Orderly(T)'
  <2>1. CASE target[c] # T
    BY <1>11, <2>1, OrderlyElsewhere DEF IssueSession, AddSession, Return, Advance, CreateSession, AccountInv, AccountTypes, Frames, OnTarget, Quiet
  <2>2. CASE target[c] = T
    <3>1. /\ \A d \in Calls \ {c} : target[d] # T
          /\ step[c] = "account" => \A v \in Users : madeFor[v] # T
          /\ step[c] \in {"code", "invite", "session"} =>
                \A v \in Users : madeFor[v] = T => HasAccount(T) /\ ActiveInvitation(T) = {}
          /\ step[c] \in {"code", "invite"} => \A v \in Users : madeFor[v] = T => T[1] = "siswa"
          /\ NoTarget # T
      BY <2>2, OnlyCall
    <3>2. /\ ActiveInvitation(T)' = ActiveInvitation(T) /\ madeFor' = madeFor
          /\ \A d \in Calls : target'[d] # T
      BY <1>11, <2>2, <3>1 DEF IssueSession, AddSession, Return, Advance, CreateSession, ActiveInvitation, Quiet, AccountInv, AccountTypes, accountTables
    <3>3. step[c] = "session"
      BY <1>11 DEF IssueSession, AddSession, Return, Advance, CreateSession
    <3> QED BY <3>1, <3>2, <3>3 DEF Quiet, Orderly
  <2> QED BY <2>1, <2>2
<1>12. ASSUME NEW c \in Calls, LoginSession(c) PROVE Orderly(T)'
  <2>1. ActiveInvitation(T)' \subseteq ActiveInvitation(T)
    BY <1>12 DEF LoginSession, Advance, CreateSession, ActiveInvitation
  <2> QED BY <1>12, <2>1, OrderlyFrame DEF LoginSession, Advance, CreateSession, AccountInv, AccountTypes, Frames, OnTarget, Quiet
<1>13. ASSUME NEW c \in Calls, DeleteOtherSessions(c) PROVE Orderly(T)'
  <2>1. ActiveInvitation(T)' \subseteq ActiveInvitation(T)
    BY <1>13 DEF DeleteOtherSessions, Advance, End, Forget, ActiveInvitation
  <2> QED BY <1>13, <2>1, OrderlyFrame DEF DeleteOtherSessions, Advance, End, Forget, AccountInv, AccountTypes, Frames, OnTarget, Quiet
<1>14. ASSUME NEW c \in Calls, DeleteSessions(c) PROVE Orderly(T)'
  <2>1. ActiveInvitation(T)' \subseteq ActiveInvitation(T)
    BY <1>14 DEF DeleteSessions, Advance, End, Forget, ActiveInvitation
  <2> QED BY <1>14, <2>1, OrderlyFrame DEF DeleteSessions, Advance, End, Forget, AccountInv, AccountTypes, Frames, OnTarget, Quiet
<1>15. ASSUME NEW c \in Calls, Stop(c) PROVE Orderly(T)'
  <2>1. CASE target[c] # T
    BY <1>15, <2>1, OrderlyElsewhere DEF Stop, Return, Advance, AccountInv, AccountTypes, Frames, OnTarget, Quiet
  <2>2. CASE target[c] = T
    <3>1. /\ \A d \in Calls \ {c} : target[d] # T
          /\ step[c] = "account" => \A v \in Users : madeFor[v] # T
          /\ step[c] \in {"code", "invite", "session"} =>
                \A v \in Users : madeFor[v] = T => HasAccount(T) /\ ActiveInvitation(T) = {}
          /\ step[c] \in {"code", "invite"} => \A v \in Users : madeFor[v] = T => T[1] = "siswa"
          /\ NoTarget # T
      BY <2>2, OnlyCall
    <3>2. /\ ActiveInvitation(T)' = ActiveInvitation(T) /\ madeFor' = madeFor
          /\ \A d \in Calls : target'[d] # T
      BY <1>15, <2>2, <3>1 DEF Stop, Return, Advance, ActiveInvitation, Quiet, AccountInv, AccountTypes, accountTables
    <3>3. step[c] \in {"code", "invite", "account", "session"}
      <4>1. step[c] \in OnTarget
        BY <2>2, OnlyCall
      <4>2. step[c] \notin {"link", "mark"}
        BY <1>15, <2>2 DEF Stop, Quiet
      <4> QED BY <4>1, <4>2 DEF OnTarget
    <3> QED BY <3>1, <3>2, <3>3 DEF Quiet, Orderly
  <2> QED BY <2>1, <2>2
<1>16. ASSUME NEW k \in Codes, InvitationExpires(k) PROVE Orderly(T)'
  <2>1. ActiveInvitation(T)' \subseteq ActiveInvitation(T)
    BY <1>16 DEF InvitationExpires, ActiveInvitation
  <2> QED BY <1>16, <2>1, OrderlyFrame DEF InvitationExpires, AccountInv, AccountTypes, Frames, OnTarget, Quiet
<1>17. ASSUME NEW t \in Tokens, Logout(t) PROVE Orderly(T)'
  <2>1. ActiveInvitation(T)' \subseteq ActiveInvitation(T)
    BY <1>17 DEF Logout, End, Forget, ActiveInvitation
  <2> QED BY <1>17, <2>1, OrderlyFrame DEF Logout, End, Forget, AccountInv, AccountTypes, Frames, OnTarget, Quiet
<1>18. CASE UNCHANGED peopleVars
  <2>1. ActiveInvitation(T)' \subseteq ActiveInvitation(T)
    BY <1>18 DEF peopleVars, ActiveInvitation
  <2> QED BY <1>18, <2>1, OrderlyFrame DEF peopleVars, AccountInv, AccountTypes, Frames, OnTarget, Quiet
<1>19. ASSUME NEW c \in Calls, NEW u \in Users, Impersonate(c, u) PROVE Orderly(T)'
  <2>1. ActiveInvitation(T)' \subseteq ActiveInvitation(T)
    BY <1>19 DEF Impersonate, Enter, Advance, ActiveInvitation
  <2> QED BY <1>19, <2>1, OrderlyFrame DEF Impersonate, Enter, Advance, AccountInv, AccountTypes, Frames, OnTarget, Quiet
<1>20. ASSUME NEW c \in Calls, ImpersonationSession(c) PROVE Orderly(T)'
  <2>1. ActiveInvitation(T)' \subseteq ActiveInvitation(T)
    BY <1>20 DEF ImpersonationSession, AddSession, Return, Advance, CreateSession, ActiveInvitation
  <2> QED BY <1>20, <2>1, OrderlyFrame DEF ImpersonationSession, AddSession, Return, Advance, CreateSession, AccountInv, AccountTypes, Frames, OnTarget, Quiet
<1>21. ASSUME NEW c \in Calls, SingleDeviceEnabled(c) PROVE Orderly(T)'
  <2>1. ActiveInvitation(T)' \subseteq ActiveInvitation(T)
    BY <1>21 DEF SingleDeviceEnabled, Advance, ActiveInvitation
  <2> QED BY <1>21, <2>1, OrderlyFrame DEF SingleDeviceEnabled, Advance, AccountInv, AccountTypes, Frames, OnTarget, Quiet
<1>22. ASSUME NEW c \in Calls, KeepOtherSessions(c) PROVE Orderly(T)'
  <2>1. ActiveInvitation(T)' \subseteq ActiveInvitation(T)
    BY <1>22 DEF KeepOtherSessions, Return, Advance, ActiveInvitation
  <2> QED BY <1>22, <2>1, OrderlyFrame DEF KeepOtherSessions, Return, Advance, AccountInv, AccountTypes, Frames, OnTarget, Quiet
<1>23. ASSUME NEW on \in BOOLEAN, PutSecurity(on) PROVE Orderly(T)'
  <2>1. ActiveInvitation(T)' \subseteq ActiveInvitation(T)
    BY <1>23 DEF PutSecurity, ActiveInvitation
  <2> QED BY <1>23, <2>1, OrderlyFrame DEF PutSecurity, AccountInv, AccountTypes, Frames, OnTarget, Quiet
<1> QED BY <1>1, <1>2, <1>3, <1>4, <1>5, <1>6, <1>7, <1>8, <1>9, <1>10, <1>11, <1>12, <1>13, <1>14, <1>15, <1>16, <1>17, <1>18, <1>19, <1>20, <1>21, <1>22, <1>23 DEF PeopleNext


\* What is known of a target is not forgotten.
Grows == crossed \subseteq crossed' /\ cut \subseteq cut' /\ reinvited \subseteq reinvited'

LEMMA HistoryGrows == AccountInv /\ [PeopleNext]_peopleVars => Grows
<1> SUFFICES ASSUME AccountInv, [PeopleNext]_peopleVars PROVE Grows
  OBVIOUS
<1> USE AccountsAssumption DEF accountTables, requests, accountHistory, accountVars, Grows
<1>1. CASE EditRoster
  BY <1>1 DEF EditRoster
<1>2. ASSUME NEW c \in Calls, NEW t \in Targets, GenerateInvitations(c, t) PROVE Grows
  BY <1>2 DEF GenerateInvitations, Begin, Advance, End
<1>3. ASSUME NEW c \in Calls, NEW k \in Codes, ValidateInvitation(c, k) PROVE Grows
  BY <1>3 DEF ValidateInvitation, Begin, Advance, End
<1>4. ASSUME NEW c \in Calls, NEW u \in Users, CreateAccount(c, u) PROVE Grows
  BY <1>4 DEF CreateAccount, Advance, End
<1>5. ASSUME NEW c \in Calls, NEW u \in Users, Login(c, u) PROVE Grows
  BY <1>5 DEF Login, Enter, Advance, End
<1>6. ASSUME NEW c \in Calls, NEW u \in Users, NEW standing \in {"active", "inactive"}, SetMemberStatus(c, u, standing) PROVE Grows
  BY <1>6 DEF SetMemberStatus, Advance, End
<1>7. ASSUME NEW c \in Calls, ReuseInvitation(c) PROVE Grows
  BY <1>7 DEF ReuseInvitation, Return, Advance, End
<1>8. ASSUME NEW c \in Calls, CreateInvitation(c) PROVE Grows
  BY <1>8 DEF CreateInvitation, Return, Advance, End
<1>9. ASSUME NEW c \in Calls, Link(c) PROVE Grows
  BY <1>9 DEF Link, Advance, End
<1>10. ASSUME NEW c \in Calls, MarkInvitationUsed(c) PROVE Grows
  BY <1>10 DEF MarkInvitationUsed, Advance, End
<1>11. ASSUME NEW c \in Calls, IssueSession(c) PROVE Grows
  BY <1>11 DEF IssueSession, AddSession, Return, Advance, CreateSession, End
<1>12. ASSUME NEW c \in Calls, LoginSession(c) PROVE Grows
  BY <1>12 DEF LoginSession, Advance, CreateSession, End
<1>13. ASSUME NEW c \in Calls, DeleteOtherSessions(c) PROVE Grows
  BY <1>13 DEF DeleteOtherSessions, Advance, Forget, End
<1>14. ASSUME NEW c \in Calls, DeleteSessions(c) PROVE Grows
  BY <1>14 DEF DeleteSessions, Advance, Forget, End
<1>15. ASSUME NEW c \in Calls, Stop(c) PROVE Grows
  BY <1>15 DEF Stop, Return, Advance, End
<1>16. ASSUME NEW k \in Codes, InvitationExpires(k) PROVE Grows
  BY <1>16 DEF InvitationExpires, End
<1>17. ASSUME NEW t \in Tokens, Logout(t) PROVE Grows
  BY <1>17 DEF Logout, Forget, End
<1>18. CASE UNCHANGED peopleVars
  BY <1>18 DEF peopleVars, accountVars, accountHistory
<1>19. ASSUME NEW c \in Calls, NEW u \in Users, Impersonate(c, u) PROVE Grows
  BY <1>19 DEF Impersonate, Enter, Advance, End
<1>20. ASSUME NEW c \in Calls, ImpersonationSession(c) PROVE Grows
  BY <1>20 DEF ImpersonationSession, AddSession, Return, Advance, CreateSession, End
<1>21. ASSUME NEW c \in Calls, SingleDeviceEnabled(c) PROVE Grows
  BY <1>21 DEF SingleDeviceEnabled, Advance, End
<1>22. ASSUME NEW c \in Calls, KeepOtherSessions(c) PROVE Grows
  BY <1>22 DEF KeepOtherSessions, Return, Advance, End
<1>23. ASSUME NEW on \in BOOLEAN, PutSecurity(on) PROVE Grows
  BY <1>23 DEF PutSecurity, End
<1> QED BY <1>1, <1>2, <1>3, <1>4, <1>5, <1>6, <1>7, <1>8, <1>9, <1>10, <1>11, <1>12, <1>13, <1>14, <1>15, <1>16, <1>17, <1>18, <1>19, <1>20, <1>21, <1>22, <1>23 DEF PeopleNext


CodesInv ==
    /\ AccountInv /\ Linked /\ Alone
    /\ \A T \in Targets \ (crossed \cup cut \cup reinvited) : Orderly(T)

LEMMA CodesInit == PeopleInit => CodesInv
BY AccountInit, AccountsAssumption
   DEF PeopleInit, CodesInv, Linked, Alone, Orderly, ActiveInvitation

LEMMA CodesStep == CodesInv /\ [PeopleNext]_peopleVars => CodesInv'
<1> SUFFICES ASSUME CodesInv, [PeopleNext]_peopleVars PROVE CodesInv'
  OBVIOUS
<1>1. AccountInv'
  BY AccountTypesStep, FramesStep DEF CodesInv, AccountInv
<1>2. Linked' /\ Alone'
  BY <1>1, LinkedStep, AloneStep DEF CodesInv
<1>3. crossed \subseteq crossed' /\ cut \subseteq cut' /\ reinvited \subseteq reinvited'
  BY HistoryGrows DEF CodesInv, Grows
<1>4. ASSUME NEW T \in Targets \ (crossed' \cup cut' \cup reinvited') PROVE Orderly(T)'
  <2>1. HasAccount(T) => HasAccount(T)'
    BY AccountStays, TargetParts DEF CodesInv
  <2>2. Quiet(T)
    BY <1>3, <1>4, <2>1 DEF CodesInv, Quiet
  <2> QED BY <2>2, OrderlyStep
<1> QED BY <1>1, <1>2, <1>4 DEF CodesInv

LEMMA CodesInductive == PeopleSpec => []CodesInv
BY CodesInit, CodesStep, PTL DEF PeopleSpec

\* The values of the handlers of students, accounts and members are well typed.
THEOREM PeopleTypeCorrect == PeopleSpec => []PeopleTypeOK
<1>1. RosterInv /\ CodesInv => PeopleTypeOK
  BY DEF RosterInv, CodesInv, AccountInv, AccountTypes, PeopleTypeOK
<1> QED BY RosterInductive, CodesInductive, <1>1, PTL

\* Wherever an activation stops, a code that is used up left an account.  (Activate)
THEOREM UsedAlwaysLinked == PeopleSpec => []UsedIsLinked
<1>1. CodesInv => UsedIsLinked
  BY DEF CodesInv, Linked, UsedIsLinked
<1> QED BY CodesInductive, <1>1, PTL

\* Two accounts for a target need two calls at it at once, one that stopped, or a code
\* given out to a student who had an account.
\* (GenerateInvitations, Activate)
THEOREM OneAccountUnlessCalled == PeopleSpec => []OneAccountUnlessCrossed
<1>1. CodesInv => OneAccountUnlessCrossed
  <2> SUFFICES ASSUME CodesInv, NEW u \in Users, NEW v \in Users, madeFor[u] = madeFor[v],
                      madeFor[u] # NoTarget, madeFor[u] \notin crossed \cup cut \cup reinvited
               PROVE  u = v
    BY DEF OneAccountUnlessCrossed
  <2>1. madeFor[u] \in Targets \ (crossed \cup cut \cup reinvited)
    BY DEF CodesInv, AccountInv, AccountTypes
  <2> QED BY <2>1 DEF CodesInv, Orderly
<1> QED BY CodesInductive, <1>1, PTL

-----------------------------------------------------------------------------
(* Sessions. *)

\* A user who has two sessions is loose, or one of his logins is not done with the others.
Several(u) == \E s, t \in Tokens : s # t /\ session[s] = u /\ session[t] = u

Tidy == \A u \in Users : Several(u) =>
    u \in loose \/ \E c \in Calls : step[c] \in {"setting", "others"} /\ user[c] = u

LEMMA SeveralCounts == \A u, S : Cardinality(Sessions(u) \ S) > 1 <=>
    \E s, t \in Tokens \ S : s # t /\ session[s] = u /\ session[t] = u
<1> SUFFICES ASSUME NEW u, NEW S
             PROVE  Cardinality(Sessions(u) \ S) > 1 <=>
                        \E s, t \in Tokens \ S : s # t /\ session[s] = u /\ session[t] = u
  OBVIOUS
<1>1. IsFiniteSet(Sessions(u) \ S)
  BY AccountsAssumption, FS_Subset DEF Sessions
<1> QED BY <1>1, TwoElements DEF Sessions

\* The sessions in S end.
LEMMA EndTidies ==
    ASSUME AccountInv, Tidy, NEW S, End(S, loose), NEW u \in Users, Several(u)'
    PROVE  Several(u) /\ (u \in loose => u \in loose')
<1>1. \A t \in Tokens : session'[t] = u => t \notin S /\ session[t] = u
  BY AccountsAssumption DEF End
<1>2. \E s, t \in Tokens \ S : s # t /\ session[s] = u /\ session[t] = u
  BY <1>1 DEF Several
<1>3. Cardinality(Sessions(u) \ S) > 1
  BY <1>2, SeveralCounts
<1> QED BY <1>2, <1>3 DEF Several, End

\* A session is added.
LEMMA AddTidies ==
    ASSUME AccountInv, Tidy, NEW c \in Calls, NEW from, from \notin {"setting", "others"},
           AddSession(c, from)
    PROVE  Tidy'
<1>1. PICK t \in Tokens : session[t] = NoUser /\ session' = [session EXCEPT ![t] = user[c]]
  BY DEF AddSession, Return, Advance, CreateSession
<1>2. \A s \in Tokens : session'[s] = IF s = t THEN user[c] ELSE session[s]
  BY <1>1 DEF AccountInv, AccountTypes
<1>3. /\ \A d \in Calls : step[d] \in {"setting", "others"} => step'[d] = step[d] /\ user'[d] = user[d]
      /\ loose' = IF Sessions(user[c]) # {} THEN loose \cup {user[c]} ELSE loose
  BY DEF AddSession, Return, Advance, CreateSession, AccountInv, AccountTypes
<1>4. ASSUME NEW u \in Users, Several(u)' PROVE Several(u) \/ u \in loose'
  <2>1. PICK s, r \in Tokens : s # r /\ session'[s] = u /\ session'[r] = u
    BY <1>4 DEF Several
  <2>2. CASE s # t /\ r # t
    BY <1>2, <2>1, <2>2 DEF Several
  <2>3. CASE s = t \/ r = t
    BY <1>2, <1>3, <2>1, <2>3 DEF Sessions
  <2> QED BY <2>2, <2>3
<1> QED BY <1>3, <1>4 DEF Tidy

\* A login ends the other sessions or leaves their user loose.
LEMMA TidyStep == AccountInv /\ Tidy /\ [PeopleNext]_peopleVars => Tidy'
<1> SUFFICES ASSUME AccountInv, Tidy, [PeopleNext]_peopleVars PROVE Tidy'
  OBVIOUS
<1> USE AccountsAssumption DEF accountTables, requests, accountHistory, accountVars
<1>1. CASE EditRoster
  BY <1>1 DEF EditRoster, AccountInv, AccountTypes, Frames, Steps, OnUser, Tidy, Several
<1>2. ASSUME NEW c \in Calls, NEW t \in Targets, GenerateInvitations(c, t) PROVE Tidy'
  BY <1>2 DEF GenerateInvitations, Begin, Advance, AccountInv, AccountTypes, Frames, Steps, OnUser, Tidy, Several
<1>3. ASSUME NEW c \in Calls, NEW k \in Codes, ValidateInvitation(c, k) PROVE Tidy'
  BY <1>3 DEF ValidateInvitation, Begin, Advance, AccountInv, AccountTypes, Frames, Steps, OnUser, Tidy, Several
<1>4. ASSUME NEW c \in Calls, NEW u \in Users, CreateAccount(c, u) PROVE Tidy'
  BY <1>4 DEF CreateAccount, Advance, AccountInv, AccountTypes, Frames, Steps, OnUser, Tidy, Several
<1>5. ASSUME NEW c \in Calls, NEW u \in Users, Login(c, u) PROVE Tidy'
  BY <1>5 DEF Login, Enter, Advance, AccountInv, AccountTypes, Frames, Steps, OnUser, Tidy, Several
<1>6. ASSUME NEW c \in Calls, NEW u \in Users, NEW standing \in {"active", "inactive"}, SetMemberStatus(c, u, standing) PROVE Tidy'
  BY <1>6 DEF SetMemberStatus, Advance, AccountInv, AccountTypes, Frames, Steps, OnUser, Tidy, Several
<1>7. ASSUME NEW c \in Calls, ReuseInvitation(c) PROVE Tidy'
  BY <1>7 DEF ReuseInvitation, Return, Advance, AccountInv, AccountTypes, Frames, Steps, OnUser, Tidy, Several
<1>8. ASSUME NEW c \in Calls, CreateInvitation(c) PROVE Tidy'
  BY <1>8 DEF CreateInvitation, Return, Advance, AccountInv, AccountTypes, Frames, Steps, OnUser, Tidy, Several
<1>9. ASSUME NEW c \in Calls, Link(c) PROVE Tidy'
  BY <1>9 DEF Link, Advance, AccountInv, AccountTypes, Frames, Steps, OnUser, Tidy, Several
<1>10. ASSUME NEW c \in Calls, MarkInvitationUsed(c) PROVE Tidy'
  BY <1>10 DEF MarkInvitationUsed, Advance, AccountInv, AccountTypes, Frames, Steps, OnUser, Tidy, Several
<1>11. ASSUME NEW c \in Calls, IssueSession(c) PROVE Tidy'
  BY <1>11, AddTidies DEF IssueSession
<1>12. ASSUME NEW c \in Calls, LoginSession(c) PROVE Tidy'
  <2>1. PICK t \in Tokens : session[t] = NoUser /\ session' = [session EXCEPT ![t] = user[c]]
    BY <1>12 DEF LoginSession, Advance, CreateSession
  <2>2. \A s \in Tokens : session'[s] = IF s = t THEN user[c] ELSE session[s]
    BY <2>1 DEF AccountInv, AccountTypes
  <2>3. /\ \A d \in Calls : step[d] \in {"setting", "others"} => step'[d] = step[d] /\ user'[d] = user[d]
        /\ step'[c] = "setting" /\ user'[c] = user[c]
        /\ loose' = loose
    BY <1>12 DEF LoginSession, Advance, CreateSession, AccountInv, AccountTypes
  <2>4. ASSUME NEW u \in Users, Several(u)', user[c] # u PROVE Several(u)
    BY <2>2, <2>4 DEF Several
  <2> QED BY <2>3, <2>4 DEF Tidy
<1>13. ASSUME NEW c \in Calls, DeleteOtherSessions(c) PROVE Tidy'
  <2>1. ASSUME NEW u \in Users, Several(u)'
        PROVE  u \in loose' \/ \E d \in Calls : step'[d] \in {"setting", "others"} /\ user'[d] = u
    <3>1. End(Sessions(user[c]) \ {own[c]}, loose)
      BY <1>13 DEF DeleteOtherSessions
    <3>2. Several(u) /\ (u \in loose => u \in loose')
      BY <2>1, <3>1, EndTidies
    <3>3. u \in loose \/ \E d \in Calls : step[d] \in {"setting", "others"} /\ user[d] = u
      BY <2>1, <3>2 DEF Tidy
    <3>4. \A d \in Calls \ {c} : step[d] \in {"setting", "others"} => step'[d] = step[d] /\ user'[d] = user[d]
      BY <1>13 DEF DeleteOtherSessions, Advance, End, Forget, AccountInv, AccountTypes
    <3>5. user[c] # u
      <4> SUFFICES ASSUME user[c] = u PROVE FALSE
        OBVIOUS
      <4>1. \A s \in Tokens : session'[s] = u => s = own[c]
        BY <1>13, AccountsAssumption DEF DeleteOtherSessions, Advance, End, Forget, Sessions
      <4> QED BY <2>1, <4>1 DEF Several
    <3> QED BY <3>2, <3>3, <3>4, <3>5
  <2> QED BY <2>1 DEF Tidy
<1>14. ASSUME NEW c \in Calls, DeleteSessions(c) PROVE Tidy'
  <2>1. ASSUME NEW u \in Users, Several(u)'
        PROVE  u \in loose' \/ \E d \in Calls : step'[d] \in {"setting", "others"} /\ user'[d] = u
    <3>1. End(Sessions(user[c]), loose)
      BY <1>14 DEF DeleteSessions
    <3>2. Several(u) /\ (u \in loose => u \in loose')
      BY <2>1, <3>1, EndTidies
    <3>3. u \in loose \/ \E d \in Calls : step[d] \in {"setting", "others"} /\ user[d] = u
      BY <2>1, <3>2 DEF Tidy
    <3>4. \A d \in Calls : step[d] \in {"setting", "others"} => step'[d] = step[d] /\ user'[d] = user[d]
      BY <1>14 DEF DeleteSessions, Advance, End, Forget, AccountInv, AccountTypes
    <3> QED BY <3>2, <3>3, <3>4
  <2> QED BY <2>1 DEF Tidy
<1>15. ASSUME NEW c \in Calls, Stop(c) PROVE Tidy'
  BY <1>15 DEF Stop, Return, Advance, AccountInv, AccountTypes, Frames, Steps, OnUser, Tidy, Several
<1>16. ASSUME NEW k \in Codes, InvitationExpires(k) PROVE Tidy'
  BY <1>16 DEF InvitationExpires, AccountInv, AccountTypes, Frames, Steps, OnUser, Tidy, Several
<1>17. ASSUME NEW t \in Tokens, Logout(t) PROVE Tidy'
  <2>1. ASSUME NEW u \in Users, Several(u)'
        PROVE  u \in loose' \/ \E d \in Calls : step'[d] \in {"setting", "others"} /\ user'[d] = u
    <3>1. End({t}, loose)
      BY <1>17 DEF Logout
    <3>2. Several(u) /\ (u \in loose => u \in loose')
      BY <2>1, <3>1, EndTidies
    <3>3. u \in loose \/ \E d \in Calls : step[d] \in {"setting", "others"} /\ user[d] = u
      BY <2>1, <3>2 DEF Tidy
    <3>4. \A d \in Calls : step[d] \in {"setting", "others"} => step'[d] = step[d] /\ user'[d] = user[d]
      BY <1>17 DEF Logout, End, Forget, AccountInv, AccountTypes
    <3> QED BY <3>2, <3>3, <3>4
  <2> QED BY <2>1 DEF Tidy
<1>18. CASE UNCHANGED peopleVars
  BY <1>18 DEF peopleVars, AccountInv, AccountTypes, Frames, Steps, OnUser, Tidy, Several
<1>20. ASSUME NEW c \in Calls, ImpersonationSession(c) PROVE Tidy'
  BY <1>20, AddTidies DEF ImpersonationSession
<1>21. ASSUME NEW c \in Calls, SingleDeviceEnabled(c) PROVE Tidy'
  BY <1>21 DEF SingleDeviceEnabled, Advance, AccountInv, AccountTypes, Frames, Steps, OnUser, Tidy, Several
<1>22. ASSUME NEW c \in Calls, KeepOtherSessions(c) PROVE Tidy'
  <2>1. /\ session' = session /\ loose \subseteq loose'
        /\ \A d \in Calls \ {c} : step'[d] = step[d] /\ user'[d] = user[d]
    BY <1>22 DEF KeepOtherSessions, Return, Advance, AccountInv, AccountTypes
  <2>2. Several(user[c]) => user[c] \in loose'
    <3>1. SUFFICES ASSUME Several(user[c]) PROVE user[c] \in loose'
      OBVIOUS
    <3>2. \E s, t \in Tokens \ {} : s # t /\ session[s] = user[c] /\ session[t] = user[c]
      BY <3>1 DEF Several
    <3>3. Cardinality(Sessions(user[c]) \ {}) > 1
      BY <3>2, SeveralCounts
    <3>4. Sessions(user[c]) \ {} = Sessions(user[c])
      OBVIOUS
    <3> QED BY <1>22, <3>3, <3>4 DEF KeepOtherSessions
  <2> QED BY <2>1, <2>2 DEF Tidy, Several
<1>19. ASSUME NEW c \in Calls, NEW u \in Users, Impersonate(c, u) PROVE Tidy'
  BY <1>19 DEF Impersonate, Enter, Advance, AccountInv, AccountTypes, Frames, Steps, OnUser, Tidy, Several
<1>23. ASSUME NEW on \in BOOLEAN, PutSecurity(on) PROVE Tidy'
  BY <1>23 DEF PutSecurity, AccountInv, AccountTypes, Frames, Steps, OnUser, Tidy, Several
<1> QED BY <1>1, <1>2, <1>3, <1>4, <1>5, <1>6, <1>7, <1>8, <1>9, <1>10, <1>11, <1>12, <1>13, <1>14, <1>15, <1>16, <1>17, <1>18, <1>19, <1>20, <1>21, <1>22, <1>23 DEF PeopleNext


\* An account keeps several sessions only for a reason, however logins overlap and
\* whenever the setting for one device is changed.  (Login)
THEOREM OneDeviceUnlessLoose == PeopleSpec => []OneDevice
<1>1. PeopleInit => Tidy
  BY AccountsAssumption DEF PeopleInit, Tidy, Several
<1>2. CodesInv /\ Tidy /\ [PeopleNext]_peopleVars => Tidy'
  BY TidyStep DEF CodesInv
<1>3. Tidy => OneDevice
  <2>1. \A u : Sessions(u) \ {} = Sessions(u)
    OBVIOUS
  <2>2. \A u : Cardinality(Sessions(u)) > 1 => Several(u)
    BY <2>1, SeveralCounts DEF Several
  <2> QED BY <2>2 DEF Tidy, OneDevice
<1> QED BY CodesInductive, <1>1, <1>2, <1>3, PTL DEF PeopleSpec

\* A call about to make a session knows of a deactivation of its account, and
\* the sessions of who is inactive are accounted for.
Barred ==
    /\ \A c \in Calls : step[c] \in MakeSession /\ member[user[c]] = "inactive" => c \in overtaken
    /\ InactiveHasNoSession

LEMMA BarredStep == AccountInv /\ Barred /\ [PeopleNext]_peopleVars => Barred'
<1> SUFFICES ASSUME AccountInv, Barred, [PeopleNext]_peopleVars PROVE Barred'
  OBVIOUS
<1> USE AccountsAssumption DEF accountTables, requests, accountHistory, accountVars
<1>1. CASE EditRoster
  BY <1>1 DEF EditRoster, AccountInv, AccountTypes, Frames, Steps, OnUser, Barred, InactiveHasNoSession, MakeSession
<1>2. ASSUME NEW c \in Calls, NEW t \in Targets, GenerateInvitations(c, t) PROVE Barred'
  BY <1>2 DEF GenerateInvitations, Begin, Advance, AccountInv, AccountTypes, Frames, Steps, OnUser, Barred, InactiveHasNoSession, MakeSession
<1>3. ASSUME NEW c \in Calls, NEW k \in Codes, ValidateInvitation(c, k) PROVE Barred'
  BY <1>3 DEF ValidateInvitation, Begin, Advance, AccountInv, AccountTypes, Frames, Steps, OnUser, Barred, InactiveHasNoSession, MakeSession
<1>4. ASSUME NEW c \in Calls, NEW u \in Users, CreateAccount(c, u) PROVE Barred'
  BY <1>4 DEF CreateAccount, Advance, AccountInv, AccountTypes, Frames, Steps, OnUser, Barred, InactiveHasNoSession, MakeSession
<1>5. ASSUME NEW c \in Calls, NEW u \in Users, Login(c, u) PROVE Barred'
  BY <1>5 DEF Login, Enter, Advance, AccountInv, AccountTypes, Frames, Steps, OnUser, Barred, InactiveHasNoSession, MakeSession
<1>6. ASSUME NEW c \in Calls, NEW u \in Users, NEW standing \in {"active", "inactive"}, SetMemberStatus(c, u, standing) PROVE Barred'
  BY <1>6 DEF SetMemberStatus, Advance, AccountInv, AccountTypes, Frames, Steps, OnUser, Barred, InactiveHasNoSession, MakeSession
<1>7. ASSUME NEW c \in Calls, ReuseInvitation(c) PROVE Barred'
  BY <1>7 DEF ReuseInvitation, Return, Advance, AccountInv, AccountTypes, Frames, Steps, OnUser, Barred, InactiveHasNoSession, MakeSession
<1>8. ASSUME NEW c \in Calls, CreateInvitation(c) PROVE Barred'
  BY <1>8 DEF CreateInvitation, Return, Advance, AccountInv, AccountTypes, Frames, Steps, OnUser, Barred, InactiveHasNoSession, MakeSession
<1>9. ASSUME NEW c \in Calls, Link(c) PROVE Barred'
  BY <1>9 DEF Link, Advance, AccountInv, AccountTypes, Frames, Steps, OnUser, Barred, InactiveHasNoSession, MakeSession
<1>10. ASSUME NEW c \in Calls, MarkInvitationUsed(c) PROVE Barred'
  BY <1>10 DEF MarkInvitationUsed, Advance, AccountInv, AccountTypes, Frames, Steps, OnUser, Barred, InactiveHasNoSession, MakeSession
<1>11. ASSUME NEW c \in Calls, IssueSession(c) PROVE Barred'
  BY <1>11 DEF IssueSession, AddSession, Return, Advance, CreateSession, AccountInv, AccountTypes, Frames, Steps, OnUser, Barred, InactiveHasNoSession, MakeSession
<1>12. ASSUME NEW c \in Calls, LoginSession(c) PROVE Barred'
  BY <1>12 DEF LoginSession, Advance, CreateSession, AccountInv, AccountTypes, Frames, Steps, OnUser, Barred, InactiveHasNoSession, MakeSession
<1>13. ASSUME NEW c \in Calls, DeleteOtherSessions(c) PROVE Barred'
  BY <1>13 DEF DeleteOtherSessions, Advance, End, Forget, AccountInv, AccountTypes, Frames, Steps, OnUser, Barred, InactiveHasNoSession, MakeSession, Sessions
<1>14. ASSUME NEW c \in Calls, DeleteSessions(c) PROVE Barred'
  BY <1>14 DEF DeleteSessions, Advance, End, Forget, AccountInv, AccountTypes, Frames, Steps, OnUser, Barred, InactiveHasNoSession, MakeSession, Sessions
<1>15. ASSUME NEW c \in Calls, Stop(c) PROVE Barred'
  BY <1>15 DEF Stop, Return, Advance, AccountInv, AccountTypes, Frames, Steps, OnUser, Barred, InactiveHasNoSession, MakeSession
<1>16. ASSUME NEW k \in Codes, InvitationExpires(k) PROVE Barred'
  BY <1>16 DEF InvitationExpires, AccountInv, AccountTypes, Frames, Steps, OnUser, Barred, InactiveHasNoSession, MakeSession
<1>17. ASSUME NEW t \in Tokens, Logout(t) PROVE Barred'
  BY <1>17 DEF Logout, End, Forget, AccountInv, AccountTypes, Frames, Steps, OnUser, Barred, InactiveHasNoSession, MakeSession
<1>18. CASE UNCHANGED peopleVars
  BY <1>18 DEF peopleVars, AccountInv, AccountTypes, Frames, Steps, OnUser, Barred, InactiveHasNoSession, MakeSession
<1>19. ASSUME NEW c \in Calls, NEW u \in Users, Impersonate(c, u) PROVE Barred'
  BY <1>19 DEF Impersonate, Enter, Advance, AccountInv, AccountTypes, Frames, Steps, OnUser, Barred, InactiveHasNoSession, MakeSession
<1>20. ASSUME NEW c \in Calls, ImpersonationSession(c) PROVE Barred'
  BY <1>20 DEF ImpersonationSession, AddSession, Return, Advance, CreateSession, AccountInv, AccountTypes, Frames, Steps, OnUser, Barred, InactiveHasNoSession, MakeSession
<1>21. ASSUME NEW c \in Calls, SingleDeviceEnabled(c) PROVE Barred'
  BY <1>21 DEF SingleDeviceEnabled, Advance, AccountInv, AccountTypes, Frames, Steps, OnUser, Barred, InactiveHasNoSession, MakeSession
<1>22. ASSUME NEW c \in Calls, KeepOtherSessions(c) PROVE Barred'
  BY <1>22 DEF KeepOtherSessions, Return, Advance, AccountInv, AccountTypes, Frames, Steps, OnUser, Barred, InactiveHasNoSession, MakeSession
<1>23. ASSUME NEW on \in BOOLEAN, PutSecurity(on) PROVE Barred'
  BY <1>23 DEF PutSecurity, AccountInv, AccountTypes, Frames, Steps, OnUser, Barred, InactiveHasNoSession, MakeSession
<1> QED BY <1>1, <1>2, <1>3, <1>4, <1>5, <1>6, <1>7, <1>8, <1>9, <1>10, <1>11, <1>12, <1>13, <1>14, <1>15, <1>16, <1>17, <1>18, <1>19, <1>20, <1>21, <1>22, <1>23 DEF PeopleNext


\* Who is inactive has a session only for a reason.  (SetMemberStatus)
THEOREM InactiveWithoutSession == PeopleSpec => []InactiveHasNoSession
<1>1. PeopleInit => Barred
  BY AccountsAssumption DEF PeopleInit, Barred, InactiveHasNoSession, MakeSession
<1>2. CodesInv /\ Barred /\ [PeopleNext]_peopleVars => Barred'
  BY BarredStep DEF CodesInv
<1>3. Barred => InactiveHasNoSession
  BY DEF Barred
<1> QED BY CodesInductive, <1>1, <1>2, <1>3, PTL DEF PeopleSpec
=============================================================================
