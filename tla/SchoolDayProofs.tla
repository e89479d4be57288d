--------------------------- MODULE SchoolDayProofs ---------------------------
(***************************************************************************)
(* Proofs about what happens on a school day.  Attendance: sessions, marks *)
(* and cards, for any number of sessions, students, tokens, calls and      *)
(* statuses.  Timetable: slots that conflict were never compared, and      *)
(* periods in use stay.  Teaching: what journals, attendance sessions and  *)
(* requests for substitutes say of a lesson stays in agreement.            *)
(***************************************************************************)
EXTENDS Attendance, Teaching, FiniteSetTheorems, TLAPS

-----------------------------------------------------------------------------
LEMMA TypeInit == Init => TypeOK
BY AttendanceAssumption
   DEF Init, TypeOK, TablesTypeOK, CallsTypeOK, HistoryTypeOK, CallsNamed, Keys, AnyMark, Steps

\* What Write does, point by point.
LEMMA WriteTypes ==
  ASSUME TypeOK, NEW c \in Calls, NEW written \in SUBSET Students, target[c] \in Sessions,
         Write(c, written)
  PROVE  /\ mark' \in [Keys -> AnyMark] /\ first' \in [Keys -> AnyMark]
         /\ stale' \in SUBSET (Calls \X Students) /\ raced' \in SUBSET Keys
<1> USE DEF TypeOK, TablesTypeOK, CallsTypeOK, HistoryTypeOK
<1>1. \A s \in Students : <<c, s>> \in Calls \X Students /\ item[<<c, s>>] \in AnyMark
  OBVIOUS
<1>2. \A x \in Keys : x[2] \in Students
  BY DEF Keys
<1> QED BY <1>1, <1>2 DEF Write

LEMMA ReportTypes ==
  ASSUME TypeOK, NEW c \in Calls, target[c] \in Sessions
  PROVE  Notices(c) \in SUBSET (Keys \X Marks) /\ Changes(c) \in SUBSET (Keys \X Marks \X Marks)
<1> USE DEF TypeOK, CallsTypeOK, AnyMark, Keys
<1>1. \A s \in Students : /\ <<c, s>> \in Calls \X Students
                          /\ item[<<c, s>>] \in Marks \cup {NoMark} /\ old[<<c, s>>] \in Marks \cup {NoMark}
                          /\ <<target[c], s>> \in Sessions \X Students
  OBVIOUS
<1>2. Notices(c) \in SUBSET (Keys \X Marks)
  <2> SUFFICES ASSUME NEW s \in Students, item[<<c, s>>] # NoMark
               PROVE  <<<<target[c], s>>, item[<<c, s>>]>> \in Keys \X Marks
    BY DEF Notices
  <2> QED BY <1>1
<1>3. Changes(c) \in SUBSET (Keys \X Marks \X Marks)
  <2> SUFFICES ASSUME NEW y \in Changes(c) PROVE y \in Keys \X Marks \X Marks
    OBVIOUS
  <2>1. PICK s \in Students : /\ item[<<c, s>>] # NoMark /\ old[<<c, s>>] # NoMark
                              /\ y = <<<<target[c], s>>, old[<<c, s>>], item[<<c, s>>]>>
    BY Zenon DEF Changes
  <2> QED BY <1>1, <2>1
<1> QED BY <1>2, <1>3

LEMMA InsertTypes ==
  ASSUME TypeOK, NEW s \in Students, \/ \E t \in Tokens : InsertQRToken(s, t)
                                     \/ UNCHANGED cards
  PROVE  /\ card' \in [Tokens -> {"unused", "active", "revoked"}]
         /\ holder' \in [Tokens -> Students \cup {NoStudent}]
         /\ \A t \in Tokens : card'[t] # "unused" => holder'[t] \in Students
BY DEF TypeOK, TablesTypeOK, CallsNamed, InsertQRToken, cards


-----------------------------------------------------------------------------
\* A call that began too late is not an administrator's, or it has ended, or it
\* is a check-in that has yet to look at its session and will be refused.
InvBarred ==
    \A c \in Calls \ Admins : c \in barred =>
        \/ callPc[c] = "done"
        \/ callPc[c] = "session" /\ session[target[c]] = "finalized"

\* A scan or a check-in about to insert has a mark to insert.
InvItem ==
    \A c \in Calls : callPc[c] \in {"insert", "session", "look"} => item[<<c, who[c]>>] # NoMark

\* Marks and calls belong to sessions that exist, except that a check-in may be
\* about to create its own.
InvExists ==
    /\ \A k \in Sessions : session[k] = "absent" => Marked(k) = {}
    /\ \A c \in Calls : target[c] \in Sessions =>
         callPc[c] = "session" \/ session[target[c]] # "absent"

\* What a call knows of its class, as long as the roster has not changed.
KnowsClass(c) ==
    /\ callPc[c] \in {"old", "upsert"} => \A s \in Students : item[<<c, s>>] # NoMark => s \in enrolled
    /\ callPc[c] \in {"insert", "session", "look"} => who[c] \in enrolled
    /\ callPc[c] = "compare" => total[c] = Cardinality(enrolled)
    /\ callPc[c] = "lock" => enrolled \subseteq Marked(target[c])

InvClass ==
    /\ \A k \in Sessions \ moved : Marked(k) \subseteq enrolled
    /\ \A c \in Calls : target[c] \in Sessions \ moved => KnowsClass(c)

\* A call that has not written yet has read no marks, or has read them and is
\* told (stale) of those that have changed.
InvOld ==
    /\ \A c \in Calls : callPc[c] \notin {"upsert", "report"} => \A s \in Students : old[<<c, s>>] = NoMark
    /\ \A c \in Calls, s \in Students : <<c, s>> \in stale => callPc[c] \in {"upsert", "report", "done"}
    /\ \A c \in Calls, s \in Students : callPc[c] = "upsert" /\ <<c, s>> \notin stale =>
         old[<<c, s>>] = mark[<<target[c], s>>]

\* The mark of a student is explained, or a call is about to do so.
Told(k, s) ==
    mark[<<k, s>>] \in {NoMark, "hadir"} \/ <<<<k, s>>, mark[<<k, s>>]>> \in told
Logged(k, s) ==
    \/ mark[<<k, s>>] \in {NoMark, first[<<k, s>>]}
    \/ \E m \in Marks : <<<<k, s>>, m, mark[<<k, s>>]>> \in audited
Reports(c, k, s) ==
    callPc[c] = "report" /\ target[c] = k /\ item[<<c, s>>] = mark[<<k, s>>]

InvReported ==
    \A k \in Sessions, s \in Students : <<k, s>> \notin raced =>
        /\ Told(k, s) \/ \E c \in Calls : Reports(c, k, s) /\ old[<<c, s>>] # mark[<<k, s>>]
        /\ Logged(k, s) \/ \E c \in Calls :
             Reports(c, k, s) /\ old[<<c, s>>] \notin {NoMark, mark[<<k, s>>]}

LEMMA TypeStep == TypeOK /\ [Next]_vars => TypeOK'
<1> SUFFICES ASSUME TypeOK, [Next]_vars PROVE TypeOK'
  OBVIOUS
<1> USE AttendanceAssumption DEF TypeOK, TablesTypeOK, CallsTypeOK, HistoryTypeOK, CallsNamed, Keys, AnyMark, Steps, records, roster, cards, reports, locals, callVars, history
<1>1. ASSUME NEW k \in Sessions, CreateSession(k) PROVE TypeOK'
  BY <1>1 DEF CreateSession
<1>2. ASSUME NEW k \in Sessions, WindowCloses(k) PROVE TypeOK'
  BY <1>2 DEF WindowCloses
<1>3. ASSUME NEW s \in Students, RosterChanges(s) PROVE TypeOK'
  BY <1>3 DEF RosterChanges
<1>4. ASSUME NEW c \in Calls, NEW k \in Sessions, NEW body \in Bodies, UpdateRecords(c, k, body) PROVE TypeOK'
  BY <1>4 DEF UpdateRecords, Begin, Go, Bar, UpdateAllowed
<1>5. ASSUME NEW c \in Calls, ListClassStudents(c) PROVE TypeOK'
  BY <1>5 DEF ListClassStudents, Go
<1>6. ASSUME NEW c \in Calls, ListSessionRecords(c) PROVE TypeOK'
  BY <1>6 DEF ListSessionRecords, Go
<1>7. ASSUME NEW c \in Calls, BulkUpsertRecords(c) PROVE TypeOK'
  <2>1. target[c] \in Sessions
    BY <1>7 DEF BulkUpsertRecords, Go
  <2>2. /\ mark' \in [Keys -> AnyMark] /\ first' \in [Keys -> AnyMark]
        /\ stale' \in SUBSET (Calls \X Students) /\ raced' \in SUBSET Keys
    BY <1>7, <2>1, WriteTypes DEF BulkUpsertRecords, Go
  <2> QED BY <1>7, <2>2 DEF BulkUpsertRecords, Go
<1>8. ASSUME NEW c \in Calls, Report(c) PROVE TypeOK'
  <2>1. target[c] \in Sessions
    BY <1>8 DEF Report, Finish, Go
  <2>2. told' \in SUBSET (Keys \X Marks) /\ audited' \in SUBSET (Keys \X Marks \X Marks)
    BY <1>8, <2>1, ReportTypes DEF Report, Finish, Go
  <2> QED BY <1>8, <2>2 DEF Report, Finish, Go
<1>9. ASSUME NEW c \in Calls, NEW k \in Sessions, FinalizeStart(c, k) PROVE TypeOK'
  BY <1>9 DEF FinalizeStart, Begin, Go
<1>10. ASSUME NEW c \in Calls, CountEnrolledForClass(c) PROVE TypeOK'
  <2>1. Cardinality(enrolled) \in Nat
    BY FS_Subset, FS_CardinalityType
  <2> QED BY <1>10, <2>1 DEF CountEnrolledForClass, Go
<1>11. ASSUME NEW c \in Calls, CountRecordsForSession(c) PROVE TypeOK'
  BY <1>11 DEF CountRecordsForSession, Go
<1>12. ASSUME NEW c \in Calls, FinalizeSession(c) PROVE TypeOK'
  BY <1>12 DEF FinalizeSession, Finish, Go
<1>13. ASSUME NEW c \in Calls, NEW k \in Sessions, ScanQRCard(c, k) PROVE TypeOK'
  BY <1>13 DEF ScanQRCard, Begin, Go, Bar
<1>14. ASSUME NEW c \in Calls, NEW t \in Tokens, ResolveActiveQRToken(c, t) PROVE TypeOK'
  BY <1>14 DEF ResolveActiveQRToken, Go, Resolves
<1>15. ASSUME NEW c \in Calls, ScanRoster(c) PROVE TypeOK'
  BY <1>15 DEF ScanRoster, Go
<1>16. ASSUME NEW c \in Calls, InsertRecordWithMeta(c) PROVE TypeOK'
  <2>1. target[c] \in Sessions /\ who[c] \in Students
    BY <1>16 DEF InsertRecordWithMeta, Go
  <2>2. /\ mark' \in [Keys -> AnyMark] /\ first' \in [Keys -> AnyMark]
        /\ stale' \in SUBSET (Calls \X Students) /\ raced' \in SUBSET Keys
    BY <1>16, <2>1, WriteTypes DEF InsertRecordWithMeta, Go
  <2> QED BY <1>16, <2>2 DEF InsertRecordWithMeta, Go
<1>17. ASSUME NEW c \in Calls, InsertConflicts(c) PROVE TypeOK'
  BY <1>17 DEF InsertConflicts, Finish, Go
<1>18. ASSUME NEW c \in Calls, NEW s \in Students, NEW status \in Marks, SelfCheckin(c, s, status) PROVE TypeOK'
  BY <1>18 DEF SelfCheckin, Begin, Go, Bar
<1>19. ASSUME NEW c \in Calls, SelfCheckinSession(c) PROVE TypeOK'
  BY <1>19 DEF SelfCheckinSession, Go
<1>20. ASSUME NEW c \in Calls, GetRecordForStudent(c) PROVE TypeOK'
  BY <1>20 DEF GetRecordForStudent, Go
<1>21. ASSUME NEW c \in Calls, GenerateQRCards(c) PROVE TypeOK'
  BY <1>21 DEF GenerateQRCards, Go
<1>22. ASSUME NEW c \in Calls, NEW s \in Students, GenerateOne(c, s) PROVE TypeOK'
  <2>1. (\E t \in Tokens : InsertQRToken(s, t)) \/ UNCHANGED cards
    BY <1>22 DEF GenerateOne
  <2>2. /\ card' \in [Tokens -> {"unused", "active", "revoked"}]
        /\ holder' \in [Tokens -> Students \cup {NoStudent}]
        /\ \A t \in Tokens : card'[t] # "unused" => holder'[t] \in Students
    BY <2>1, InsertTypes
  <2> QED BY <1>22, <2>2 DEF GenerateOne
<1>23. ASSUME NEW c \in Calls, NEW s \in Students, RevokeActiveQRToken(c, s) PROVE TypeOK'
  BY <1>23 DEF RevokeActiveQRToken, Go
<1>24. ASSUME NEW c \in Calls, RevokeReissue(c) PROVE TypeOK'
  <2>1. (\E t \in Tokens : InsertQRToken(who[c], t)) \/ UNCHANGED cards
    BY <1>24 DEF RevokeReissue, Finish, Go
  <2>2. who[c] \in Students
    BY <1>24 DEF RevokeReissue, Finish, Go
  <2>3. /\ card' \in [Tokens -> {"unused", "active", "revoked"}]
        /\ holder' \in [Tokens -> Students \cup {NoStudent}]
        /\ \A t \in Tokens : card'[t] # "unused" => holder'[t] \in Students
    BY <2>1, <2>2, InsertTypes
  <2> QED BY <1>24, <2>3 DEF RevokeReissue, Finish, Go
<1>25. CASE UNCHANGED vars
  BY <1>25 DEF vars
<1> HIDE DEF TypeOK, TablesTypeOK, CallsTypeOK, HistoryTypeOK, CallsNamed, Keys, AnyMark, Steps, records, roster, cards, reports, locals, callVars, history
<1> QED BY <1>1, <1>2, <1>3, <1>4, <1>5, <1>6, <1>7, <1>8, <1>9, <1>10, <1>11, <1>12, <1>13, <1>14, <1>15, <1>16, <1>17, <1>18, <1>19, <1>20, <1>21, <1>22, <1>23, <1>24, <1>25 DEF Next, CallSteps


-----------------------------------------------------------------------------
\* Write and Finish, entry by entry.
LEMMA WriteEffect ==
  ASSUME TypeOK, NEW c \in Calls, NEW written \in SUBSET Students, target[c] \in Sessions,
         Write(c, written)
  PROVE  /\ \A k \in Sessions, s \in Students :
              mark'[<<k, s>>] = IF k = target[c] /\ s \in written THEN item[<<c, s>>] ELSE mark[<<k, s>>]
         /\ \A k \in Sessions, s \in Students :
              first'[<<k, s>>] = IF k = target[c] /\ s \in written /\ mark[<<k, s>>] = NoMark
                                 THEN item[<<c, s>>] ELSE first[<<k, s>>]
         /\ \A d \in Calls, s \in Students : <<d, s>> \in stale' <=>
              \/ <<d, s>> \in stale
              \/ d # c /\ callPc[d] = "upsert" /\ target[d] = target[c] /\ s \in written
         /\ \A k \in Sessions, s \in Students : <<k, s>> \in raced' <=>
              \/ <<k, s>> \in raced
              \/ k = target[c] /\ s \in written /\ <<c, s>> \in stale
<1>1. \A k \in Sessions, s \in Students : <<k, s>> \in Keys /\ <<k, s>>[1] = k /\ <<k, s>>[2] = s
  BY DEF Keys
<1>2. \A d \in Calls, s \in Students : <<d, s>> \in Calls \X Students /\ <<d, s>>[1] = d /\ <<d, s>>[2] = s
  OBVIOUS
<1> QED BY <1>1, <1>2 DEF Write

LEMMA FinishEffect ==
  ASSUME NEW c \in Calls, NEW from, Finish(c, from)
  PROVE  \A d \in Calls, s \in Students :
           /\ item'[<<d, s>>] = IF d = c THEN NoMark ELSE item[<<d, s>>]
           /\ old'[<<d, s>>] = IF d = c THEN NoMark ELSE old[<<d, s>>]
<1>1. \A d \in Calls, s \in Students : <<d, s>> \in Calls \X Students /\ <<d, s>>[1] = d /\ <<d, s>>[2] = s
  OBVIOUS
<1> QED BY <1>1 DEF Finish


LEMMA InsertKeeps ==
  ASSUME TypeOK, NEW s \in Students, \/ \E t \in Tokens : InsertQRToken(s, t)
                                     \/ HasCard(s) /\ UNCHANGED cards
  PROVE  /\ \A v \in Students : HasCard(v) => HasCard(v)'
         /\ HasCard(s)'
         /\ \A u \in Tokens : card'[u] # "unused" =>
              (card[u] # "unused" /\ holder'[u] = holder[u]) \/ holder'[u] = s
BY DEF TypeOK, TablesTypeOK, HasCard, InsertQRToken, cards

LEMMA MarkedGrows ==
  ASSUME TypeOK, NEW c \in Calls, NEW written \in SUBSET Students, target[c] \in Sessions,
         Write(c, written), \A s \in written : item[<<c, s>>] # NoMark
  PROVE  \A k \in Sessions : Marked(k)' = IF k = target[c] THEN Marked(k) \cup written ELSE Marked(k)
<1> SUFFICES ASSUME NEW k \in Sessions
             PROVE  Marked(k)' = IF k = target[c] THEN Marked(k) \cup written ELSE Marked(k)
  OBVIOUS
<1>1. \A s \in Students : mark'[<<k, s>>] =
        IF k = target[c] /\ s \in written THEN item[<<c, s>>] ELSE mark[<<k, s>>]
  BY WriteEffect
<1>2. CASE k = target[c]
  BY <1>1, <1>2 DEF Marked
<1>3. CASE k # target[c]
  BY <1>1, <1>3 DEF Marked
<1> QED BY <1>2, <1>3

LEMMA BarredStep == TypeOK /\ InvBarred /\ [Next]_vars => InvBarred'
<1> SUFFICES ASSUME TypeOK, InvBarred, [Next]_vars PROVE InvBarred'
  OBVIOUS
<1> USE DEF InvBarred, TypeOK, CallsTypeOK, CallsNamed, TablesTypeOK, records, roster, cards, reports, locals, callVars, history
<1>1. ASSUME NEW k \in Sessions, CreateSession(k) PROVE InvBarred'
  BY <1>1 DEF CreateSession
<1>2. ASSUME NEW k \in Sessions, WindowCloses(k) PROVE InvBarred'
  BY <1>2 DEF WindowCloses
<1>3. ASSUME NEW s \in Students, RosterChanges(s) PROVE InvBarred'
  BY <1>3 DEF RosterChanges
<1>4. ASSUME NEW c \in Calls, NEW k \in Sessions, NEW body \in Bodies, UpdateRecords(c, k, body) PROVE InvBarred'
  BY <1>4 DEF UpdateRecords, Begin, Go, Bar, UpdateAllowed
<1>5. ASSUME NEW c \in Calls, ListClassStudents(c) PROVE InvBarred'
  BY <1>5 DEF ListClassStudents, Go
<1>6. ASSUME NEW c \in Calls, ListSessionRecords(c) PROVE InvBarred'
  BY <1>6 DEF ListSessionRecords, Go
<1>7. ASSUME NEW c \in Calls, BulkUpsertRecords(c) PROVE InvBarred'
  BY <1>7 DEF BulkUpsertRecords, Go
<1>8. ASSUME NEW c \in Calls, Report(c) PROVE InvBarred'
  BY <1>8 DEF Report, Finish, Go
<1>9. ASSUME NEW c \in Calls, NEW k \in Sessions, FinalizeStart(c, k) PROVE InvBarred'
  BY <1>9 DEF FinalizeStart, Begin, Go
<1>10. ASSUME NEW c \in Calls, CountEnrolledForClass(c) PROVE InvBarred'
  BY <1>10 DEF CountEnrolledForClass, Go
<1>11. ASSUME NEW c \in Calls, CountRecordsForSession(c) PROVE InvBarred'
  BY <1>11 DEF CountRecordsForSession, Go
<1>12. ASSUME NEW c \in Calls, FinalizeSession(c) PROVE InvBarred'
  BY <1>12 DEF FinalizeSession, Finish, Go
<1>13. ASSUME NEW c \in Calls, NEW k \in Sessions, ScanQRCard(c, k) PROVE InvBarred'
  BY <1>13 DEF ScanQRCard, Begin, Go, Bar
<1>14. ASSUME NEW c \in Calls, NEW t \in Tokens, ResolveActiveQRToken(c, t) PROVE InvBarred'
  BY <1>14 DEF ResolveActiveQRToken, Go, Resolves
<1>15. ASSUME NEW c \in Calls, ScanRoster(c) PROVE InvBarred'
  BY <1>15 DEF ScanRoster, Go
<1>16. ASSUME NEW c \in Calls, InsertRecordWithMeta(c) PROVE InvBarred'
  BY <1>16 DEF InsertRecordWithMeta, Go
<1>17. ASSUME NEW c \in Calls, InsertConflicts(c) PROVE InvBarred'
  BY <1>17 DEF InsertConflicts, Finish, Go
<1>18. ASSUME NEW c \in Calls, NEW s \in Students, NEW status \in Marks, SelfCheckin(c, s, status) PROVE InvBarred'
  BY <1>18 DEF SelfCheckin, Begin, Go, Bar
<1>19. ASSUME NEW c \in Calls, SelfCheckinSession(c) PROVE InvBarred'
  BY <1>19 DEF SelfCheckinSession, Go
<1>20. ASSUME NEW c \in Calls, GetRecordForStudent(c) PROVE InvBarred'
  BY <1>20 DEF GetRecordForStudent, Go
<1>21. ASSUME NEW c \in Calls, GenerateQRCards(c) PROVE InvBarred'
  BY <1>21 DEF GenerateQRCards, Go
<1>22. ASSUME NEW c \in Calls, NEW s \in Students, GenerateOne(c, s) PROVE InvBarred'
  BY <1>22 DEF GenerateOne
<1>23. ASSUME NEW c \in Calls, NEW s \in Students, RevokeActiveQRToken(c, s) PROVE InvBarred'
  BY <1>23 DEF RevokeActiveQRToken, Go
<1>24. ASSUME NEW c \in Calls, RevokeReissue(c) PROVE InvBarred'
  BY <1>24 DEF RevokeReissue, Finish, Go
<1>25. CASE UNCHANGED vars
  BY <1>25 DEF vars
<1> HIDE DEF InvBarred, TypeOK, CallsTypeOK, CallsNamed, TablesTypeOK, records, roster, cards, reports, locals, callVars, history
<1> QED BY <1>1, <1>2, <1>3, <1>4, <1>5, <1>6, <1>7, <1>8, <1>9, <1>10, <1>11, <1>12, <1>13, <1>14, <1>15, <1>16, <1>17, <1>18, <1>19, <1>20, <1>21, <1>22, <1>23, <1>24, <1>25 DEF Next, CallSteps

LEMMA ItemStep == TypeOK /\ InvItem /\ [Next]_vars => InvItem'
<1> SUFFICES ASSUME TypeOK, InvItem, [Next]_vars PROVE InvItem'
  OBVIOUS
<1> USE AttendanceAssumption DEF InvItem, TypeOK, CallsTypeOK, CallsNamed, TablesTypeOK, records, roster, cards, reports, locals, callVars, history
<1>1. ASSUME NEW k \in Sessions, CreateSession(k) PROVE InvItem'
  BY <1>1 DEF CreateSession
<1>2. ASSUME NEW k \in Sessions, WindowCloses(k) PROVE InvItem'
  BY <1>2 DEF WindowCloses
<1>3. ASSUME NEW s \in Students, RosterChanges(s) PROVE InvItem'
  BY <1>3 DEF RosterChanges
<1>4. ASSUME NEW c \in Calls, NEW k \in Sessions, NEW body \in Bodies, UpdateRecords(c, k, body) PROVE InvItem'
  BY <1>4 DEF UpdateRecords, Begin, Go, Bar, UpdateAllowed
<1>5. ASSUME NEW c \in Calls, ListClassStudents(c) PROVE InvItem'
  BY <1>5 DEF ListClassStudents, Go
<1>6. ASSUME NEW c \in Calls, ListSessionRecords(c) PROVE InvItem'
  BY <1>6 DEF ListSessionRecords, Go
<1>7. ASSUME NEW c \in Calls, BulkUpsertRecords(c) PROVE InvItem'
  BY <1>7 DEF BulkUpsertRecords, Go
<1>8. ASSUME NEW c \in Calls, Report(c) PROVE InvItem'
  BY <1>8 DEF Report, Finish, Go
<1>9. ASSUME NEW c \in Calls, NEW k \in Sessions, FinalizeStart(c, k) PROVE InvItem'
  BY <1>9 DEF FinalizeStart, Begin, Go
<1>10. ASSUME NEW c \in Calls, CountEnrolledForClass(c) PROVE InvItem'
  BY <1>10 DEF CountEnrolledForClass, Go
<1>11. ASSUME NEW c \in Calls, CountRecordsForSession(c) PROVE InvItem'
  BY <1>11 DEF CountRecordsForSession, Go
<1>12. ASSUME NEW c \in Calls, FinalizeSession(c) PROVE InvItem'
  BY <1>12 DEF FinalizeSession, Finish, Go
<1>13. ASSUME NEW c \in Calls, NEW k \in Sessions, ScanQRCard(c, k) PROVE InvItem'
  BY <1>13 DEF ScanQRCard, Begin, Go, Bar
<1>14. ASSUME NEW c \in Calls, NEW t \in Tokens, ResolveActiveQRToken(c, t) PROVE InvItem'
  BY <1>14 DEF ResolveActiveQRToken, Go, Resolves
<1>15. ASSUME NEW c \in Calls, ScanRoster(c) PROVE InvItem'
  BY <1>15 DEF ScanRoster, Go
<1>16. ASSUME NEW c \in Calls, InsertRecordWithMeta(c) PROVE InvItem'
  BY <1>16 DEF InsertRecordWithMeta, Go
<1>17. ASSUME NEW c \in Calls, InsertConflicts(c) PROVE InvItem'
  BY <1>17 DEF InsertConflicts, Finish, Go
<1>18. ASSUME NEW c \in Calls, NEW s \in Students, NEW status \in Marks, SelfCheckin(c, s, status) PROVE InvItem'
  BY <1>18 DEF SelfCheckin, Begin, Go, Bar
<1>19. ASSUME NEW c \in Calls, SelfCheckinSession(c) PROVE InvItem'
  BY <1>19 DEF SelfCheckinSession, Go
<1>20. ASSUME NEW c \in Calls, GetRecordForStudent(c) PROVE InvItem'
  BY <1>20 DEF GetRecordForStudent, Go
<1>21. ASSUME NEW c \in Calls, GenerateQRCards(c) PROVE InvItem'
  BY <1>21 DEF GenerateQRCards, Go
<1>22. ASSUME NEW c \in Calls, NEW s \in Students, GenerateOne(c, s) PROVE InvItem'
  BY <1>22 DEF GenerateOne
<1>23. ASSUME NEW c \in Calls, NEW s \in Students, RevokeActiveQRToken(c, s) PROVE InvItem'
  BY <1>23 DEF RevokeActiveQRToken, Go
<1>24. ASSUME NEW c \in Calls, RevokeReissue(c) PROVE InvItem'
  BY <1>24 DEF RevokeReissue, Finish, Go
<1>25. CASE UNCHANGED vars
  BY <1>25 DEF vars
<1> HIDE DEF InvItem, TypeOK, CallsTypeOK, CallsNamed, TablesTypeOK, records, roster, cards, reports, locals, callVars, history
<1> QED BY <1>1, <1>2, <1>3, <1>4, <1>5, <1>6, <1>7, <1>8, <1>9, <1>10, <1>11, <1>12, <1>13, <1>14, <1>15, <1>16, <1>17, <1>18, <1>19, <1>20, <1>21, <1>22, <1>23, <1>24, <1>25 DEF Next, CallSteps

LEMMA CardStep == TypeOK /\ CardKept /\ [Next]_vars => CardKept'
<1> SUFFICES ASSUME TypeOK, CardKept, [Next]_vars PROVE CardKept'
  OBVIOUS
<1> USE DEF CardKept, TypeOK, CallsTypeOK, CallsNamed, TablesTypeOK, records, roster, cards, reports, locals, callVars, history
<1>1. ASSUME NEW k \in Sessions, CreateSession(k) PROVE CardKept'
  BY <1>1 DEF CreateSession, HasCard
<1>2. ASSUME NEW k \in Sessions, WindowCloses(k) PROVE CardKept'
  BY <1>2 DEF WindowCloses, HasCard
<1>3. ASSUME NEW s \in Students, RosterChanges(s) PROVE CardKept'
  BY <1>3 DEF RosterChanges, HasCard
<1>4. ASSUME NEW c \in Calls, NEW k \in Sessions, NEW body \in Bodies, UpdateRecords(c, k, body) PROVE CardKept'
  BY <1>4 DEF UpdateRecords, Begin, Go, Bar, UpdateAllowed, HasCard
<1>5. ASSUME NEW c \in Calls, ListClassStudents(c) PROVE CardKept'
  BY <1>5 DEF ListClassStudents, Go, HasCard
<1>6. ASSUME NEW c \in Calls, ListSessionRecords(c) PROVE CardKept'
  BY <1>6 DEF ListSessionRecords, Go, HasCard
<1>7. ASSUME NEW c \in Calls, BulkUpsertRecords(c) PROVE CardKept'
  BY <1>7 DEF BulkUpsertRecords, Go, HasCard
<1>8. ASSUME NEW c \in Calls, Report(c) PROVE CardKept'
  BY <1>8 DEF Report, Finish, Go, HasCard
<1>9. ASSUME NEW c \in Calls, NEW k \in Sessions, FinalizeStart(c, k) PROVE CardKept'
  BY <1>9 DEF FinalizeStart, Begin, Go, HasCard
<1>10. ASSUME NEW c \in Calls, CountEnrolledForClass(c) PROVE CardKept'
  BY <1>10 DEF CountEnrolledForClass, Go, HasCard
<1>11. ASSUME NEW c \in Calls, CountRecordsForSession(c) PROVE CardKept'
  BY <1>11 DEF CountRecordsForSession, Go, HasCard
<1>12. ASSUME NEW c \in Calls, FinalizeSession(c) PROVE CardKept'
  BY <1>12 DEF FinalizeSession, Finish, Go, HasCard
<1>13. ASSUME NEW c \in Calls, NEW k \in Sessions, ScanQRCard(c, k) PROVE CardKept'
  BY <1>13 DEF ScanQRCard, Begin, Go, Bar, HasCard
<1>14. ASSUME NEW c \in Calls, NEW t \in Tokens, ResolveActiveQRToken(c, t) PROVE CardKept'
  BY <1>14 DEF ResolveActiveQRToken, Go, Resolves, HasCard
<1>15. ASSUME NEW c \in Calls, ScanRoster(c) PROVE CardKept'
  BY <1>15 DEF ScanRoster, Go, HasCard
<1>16. ASSUME NEW c \in Calls, InsertRecordWithMeta(c) PROVE CardKept'
  BY <1>16 DEF InsertRecordWithMeta, Go, HasCard
<1>17. ASSUME NEW c \in Calls, InsertConflicts(c) PROVE CardKept'
  BY <1>17 DEF InsertConflicts, Finish, Go, HasCard
<1>18. ASSUME NEW c \in Calls, NEW s \in Students, NEW status \in Marks, SelfCheckin(c, s, status) PROVE CardKept'
  BY <1>18 DEF SelfCheckin, Begin, Go, Bar, HasCard
<1>19. ASSUME NEW c \in Calls, SelfCheckinSession(c) PROVE CardKept'
  BY <1>19 DEF SelfCheckinSession, Go, HasCard
<1>20. ASSUME NEW c \in Calls, GetRecordForStudent(c) PROVE CardKept'
  BY <1>20 DEF GetRecordForStudent, Go, HasCard
<1>21. ASSUME NEW c \in Calls, GenerateQRCards(c) PROVE CardKept'
  BY <1>21 DEF GenerateQRCards, Go, HasCard
<1>22. ASSUME NEW c \in Calls, NEW s \in Students, GenerateOne(c, s) PROVE CardKept'
  <2>1. (\E t \in Tokens : InsertQRToken(s, t)) \/ (HasCard(s) /\ UNCHANGED cards)
    BY <1>22 DEF GenerateOne
  <2>2. callPc[c] = "generate" /\ who' = who /\ \A d \in Calls \ {c} : callPc'[d] = callPc[d]
    BY <1>22 DEF GenerateOne
  <2> SUFFICES ASSUME NEW u \in Tokens, card'[u] # "unused"
                 PROVE  HasCard(holder[u])' \/ \E d \in Calls : callPc'[d] = "reissue" /\ who'[d] = holder'[u]
    OBVIOUS
  <2>4. CASE holder'[u] = s
    BY <2>4, <2>1, InsertKeeps
  <2>5. CASE card[u] # "unused" /\ holder'[u] = holder[u]
    <3>1. holder[u] \in Students
      BY <2>5
    <3>2. CASE HasCard(holder[u])
      <4>1. \A v \in Students : HasCard(v) => HasCard(v)'
        BY <2>1, InsertKeeps
      <4>2. PICK t \in Tokens : card'[t] = "active" /\ holder'[t] = holder[u]
        BY <4>1, <3>1, <3>2 DEF HasCard
      <4> QED BY <4>2, <2>5 DEF HasCard
    <3>3. CASE \E d \in Calls : callPc[d] = "reissue" /\ who[d] = holder[u]
      BY <2>2, <2>5, <3>3
    <3> QED BY <2>5, <3>2, <3>3
  <2> QED BY <2>1, <2>4, <2>5, InsertKeeps
<1>23. ASSUME NEW c \in Calls, NEW s \in Students, RevokeActiveQRToken(c, s) PROVE CardKept'
  BY <1>23 DEF RevokeActiveQRToken, Go, HasCard
<1>24. ASSUME NEW c \in Calls, RevokeReissue(c) PROVE CardKept'
  <2>1. (\E t \in Tokens : InsertQRToken(who[c], t)) \/ (HasCard(who[c]) /\ UNCHANGED cards)
    BY <1>24 DEF RevokeReissue, Finish, Go
  <2>2. callPc[c] = "reissue" /\ who[c] \in Students
        /\ \A d \in Calls \ {c} : callPc'[d] = callPc[d] /\ who'[d] = who[d]
    BY <1>24 DEF RevokeReissue, Finish, Go
  <2> SUFFICES ASSUME NEW u \in Tokens, card'[u] # "unused"
                 PROVE  HasCard(holder[u])' \/ \E d \in Calls : callPc'[d] = "reissue" /\ who'[d] = holder'[u]
    OBVIOUS
  <2>4. CASE holder'[u] = who[c]
    BY <2>4, <2>1, <2>2, InsertKeeps DEF HasCard
  <2>5. CASE card[u] # "unused" /\ holder'[u] = holder[u] /\ holder[u] # who[c]
    <3>1. holder[u] \in Students
      BY <2>5
    <3>2. CASE HasCard(holder[u])
      BY <2>1, <2>2, <2>5, <3>1, <3>2, InsertKeeps DEF HasCard
    <3>3. CASE \E d \in Calls : callPc[d] = "reissue" /\ who[d] = holder[u]
      BY <2>2, <2>5, <3>3
    <3> QED BY <2>5, <3>2, <3>3
  <2> QED BY <2>1, <2>2, <2>4, <2>5, InsertKeeps
<1>25. CASE UNCHANGED vars
  BY <1>25 DEF vars, HasCard
<1> HIDE DEF CardKept, TypeOK, CallsTypeOK, CallsNamed, TablesTypeOK, records, roster, cards, reports, locals, callVars, history
<1> QED BY <1>1, <1>2, <1>3, <1>4, <1>5, <1>6, <1>7, <1>8, <1>9, <1>10, <1>11, <1>12, <1>13, <1>14, <1>15, <1>16, <1>17, <1>18, <1>19, <1>20, <1>21, <1>22, <1>23, <1>24, <1>25 DEF Next, CallSteps

LEMMA ExistsStep == TypeOK /\ InvItem /\ InvExists /\ [Next]_vars => InvExists'
<1> SUFFICES ASSUME TypeOK, InvItem, InvExists, [Next]_vars PROVE InvExists'
  OBVIOUS
<1> USE AttendanceAssumption DEF InvExists, TypeOK, CallsTypeOK, CallsNamed, TablesTypeOK, records, roster, cards, reports, locals, callVars, history
<1>1. ASSUME NEW k \in Sessions, CreateSession(k) PROVE InvExists'
  BY <1>1 DEF CreateSession, Marked
<1>2. ASSUME NEW k \in Sessions, WindowCloses(k) PROVE InvExists'
  BY <1>2 DEF WindowCloses, Marked
<1>3. ASSUME NEW s \in Students, RosterChanges(s) PROVE InvExists'
  BY <1>3 DEF RosterChanges, Marked
<1>4. ASSUME NEW c \in Calls, NEW k \in Sessions, NEW body \in Bodies, UpdateRecords(c, k, body) PROVE InvExists'
  BY <1>4 DEF UpdateRecords, Begin, Go, Bar, UpdateAllowed, Marked
<1>5. ASSUME NEW c \in Calls, ListClassStudents(c) PROVE InvExists'
  BY <1>5 DEF ListClassStudents, Go, Marked
<1>6. ASSUME NEW c \in Calls, ListSessionRecords(c) PROVE InvExists'
  BY <1>6 DEF ListSessionRecords, Go, Marked
<1>7. ASSUME NEW c \in Calls, BulkUpsertRecords(c) PROVE InvExists'
  <2>1. target[c] \in Sessions /\ session[target[c]] # "absent"
    BY <1>7 DEF BulkUpsertRecords, Go, InvExists
  <2> DEFINE written == {s \in Students : item[<<c, s>>] # NoMark}
  <2>w. /\ written \in SUBSET Students /\ Write(c, written)
        /\ \A s \in written : item[<<c, s>>] # NoMark
    BY <1>7 DEF BulkUpsertRecords, Go
  <2> HIDE DEF written
  <2>2. \A k \in Sessions : Marked(k)' = IF k = target[c] THEN Marked(k) \cup written ELSE Marked(k)
    BY <2>w, <2>1, MarkedGrows
  <2> QED BY <1>7, <2>1, <2>2 DEF BulkUpsertRecords, Go
<1>8. ASSUME NEW c \in Calls, Report(c) PROVE InvExists'
  BY <1>8 DEF Report, Finish, Go, Marked
<1>9. ASSUME NEW c \in Calls, NEW k \in Sessions, FinalizeStart(c, k) PROVE InvExists'
  BY <1>9 DEF FinalizeStart, Begin, Go, Marked
<1>10. ASSUME NEW c \in Calls, CountEnrolledForClass(c) PROVE InvExists'
  BY <1>10 DEF CountEnrolledForClass, Go, Marked
<1>11. ASSUME NEW c \in Calls, CountRecordsForSession(c) PROVE InvExists'
  BY <1>11 DEF CountRecordsForSession, Go, Marked
<1>12. ASSUME NEW c \in Calls, FinalizeSession(c) PROVE InvExists'
  BY <1>12 DEF FinalizeSession, Finish, Go, Marked
<1>13. ASSUME NEW c \in Calls, NEW k \in Sessions, ScanQRCard(c, k) PROVE InvExists'
  BY <1>13 DEF ScanQRCard, Begin, Go, Bar, Marked
<1>14. ASSUME NEW c \in Calls, NEW t \in Tokens, ResolveActiveQRToken(c, t) PROVE InvExists'
  BY <1>14 DEF ResolveActiveQRToken, Go, Resolves, Marked
<1>15. ASSUME NEW c \in Calls, ScanRoster(c) PROVE InvExists'
  BY <1>15 DEF ScanRoster, Go, Marked
<1>16. ASSUME NEW c \in Calls, InsertRecordWithMeta(c) PROVE InvExists'
  <2>1. target[c] \in Sessions /\ session[target[c]] # "absent" /\ who[c] \in Students
    BY <1>16 DEF InsertRecordWithMeta, Go, InvExists
  <2> DEFINE written == {who[c]}
  <2>2. \A k \in Sessions : Marked(k)' = IF k = target[c] THEN Marked(k) \cup written ELSE Marked(k)
    BY <1>16, <2>1, MarkedGrows DEF InsertRecordWithMeta, Go, InvItem
  <2> QED BY <1>16, <2>1, <2>2 DEF InsertRecordWithMeta, Go
<1>17. ASSUME NEW c \in Calls, InsertConflicts(c) PROVE InvExists'
  BY <1>17 DEF InsertConflicts, Finish, Go, Marked
<1>18. ASSUME NEW c \in Calls, NEW s \in Students, NEW status \in Marks, SelfCheckin(c, s, status) PROVE InvExists'
  BY <1>18 DEF SelfCheckin, Begin, Go, Bar, Marked
<1>19. ASSUME NEW c \in Calls, SelfCheckinSession(c) PROVE InvExists'
  BY <1>19 DEF SelfCheckinSession, Go, Marked
<1>20. ASSUME NEW c \in Calls, GetRecordForStudent(c) PROVE InvExists'
  BY <1>20 DEF GetRecordForStudent, Go, Marked
<1>21. ASSUME NEW c \in Calls, GenerateQRCards(c) PROVE InvExists'
  BY <1>21 DEF GenerateQRCards, Go, Marked
<1>22. ASSUME NEW c \in Calls, NEW s \in Students, GenerateOne(c, s) PROVE InvExists'
  BY <1>22 DEF GenerateOne, Marked
<1>23. ASSUME NEW c \in Calls, NEW s \in Students, RevokeActiveQRToken(c, s) PROVE InvExists'
  BY <1>23 DEF RevokeActiveQRToken, Go, Marked
<1>24. ASSUME NEW c \in Calls, RevokeReissue(c) PROVE InvExists'
  BY <1>24 DEF RevokeReissue, Finish, Go, Marked
<1>25. CASE UNCHANGED vars
  BY <1>25 DEF vars, Marked
<1> HIDE DEF InvExists, TypeOK, CallsTypeOK, CallsNamed, TablesTypeOK, records, roster, cards, reports, locals, callVars, history
<1> QED BY <1>1, <1>2, <1>3, <1>4, <1>5, <1>6, <1>7, <1>8, <1>9, <1>10, <1>11, <1>12, <1>13, <1>14, <1>15, <1>16, <1>17, <1>18, <1>19, <1>20, <1>21, <1>22, <1>23, <1>24, <1>25 DEF Next, CallSteps

LEMMA ClassStep == TypeOK /\ InvItem /\ InvExists /\ InvClass /\ [Next]_vars => InvClass'
<1> SUFFICES ASSUME TypeOK, InvItem, InvExists, InvClass, [Next]_vars PROVE InvClass'
  OBVIOUS
<1> USE AttendanceAssumption DEF InvExists, InvClass, KnowsClass, TypeOK, CallsTypeOK, CallsNamed, TablesTypeOK, records, roster, cards, reports, locals, callVars, history
<1>1. ASSUME NEW k \in Sessions, CreateSession(k) PROVE InvClass'
  BY <1>1 DEF CreateSession, Marked
<1>2. ASSUME NEW k \in Sessions, WindowCloses(k) PROVE InvClass'
  BY <1>2 DEF WindowCloses, Marked
<1>3. ASSUME NEW s \in Students, RosterChanges(s) PROVE InvClass'
  <2>1. \A k \in Sessions \ moved' : session[k] = "absent" /\ \A c \in Calls : target[c] # k
    BY <1>3 DEF RosterChanges, InFlight
  <2>2. \A k \in Sessions \ moved' : Marked(k)' = {}
    BY <1>3, <2>1 DEF RosterChanges, Marked
  <2> QED BY <1>3, <2>1, <2>2 DEF RosterChanges
<1>4. ASSUME NEW c \in Calls, NEW k \in Sessions, NEW body \in Bodies, UpdateRecords(c, k, body) PROVE InvClass'
  BY <1>4 DEF UpdateRecords, Begin, Go, Bar, UpdateAllowed, Marked
<1>5. ASSUME NEW c \in Calls, ListClassStudents(c) PROVE InvClass'
  BY <1>5 DEF ListClassStudents, Go, Marked
<1>6. ASSUME NEW c \in Calls, ListSessionRecords(c) PROVE InvClass'
  BY <1>6 DEF ListSessionRecords, Go, Marked
<1>7. ASSUME NEW c \in Calls, BulkUpsertRecords(c) PROVE InvClass'
  <2>1. target[c] \in Sessions /\ session[target[c]] # "absent"
    BY <1>7 DEF BulkUpsertRecords, Go, InvExists
  <2> DEFINE written == {s \in Students : item[<<c, s>>] # NoMark}
  <2>w. /\ written \in SUBSET Students /\ Write(c, written)
        /\ \A s \in written : item[<<c, s>>] # NoMark
    BY <1>7 DEF BulkUpsertRecords, Go
  <2> HIDE DEF written
  <2>2. \A k \in Sessions : Marked(k)' = IF k = target[c] THEN Marked(k) \cup written ELSE Marked(k)
    BY <2>w, <2>1, MarkedGrows
  <2> HIDE DEF written
  <2>3. target[c] \notin moved => written \subseteq enrolled
    BY <1>7, <2>1 DEF BulkUpsertRecords, Go, written
  <2> QED BY <1>7, <2>1, <2>2, <2>3 DEF BulkUpsertRecords, Go
<1>8. ASSUME NEW c \in Calls, Report(c) PROVE InvClass'
  BY <1>8 DEF Report, Finish, Go, Marked
<1>9. ASSUME NEW c \in Calls, NEW k \in Sessions, FinalizeStart(c, k) PROVE InvClass'
  BY <1>9 DEF FinalizeStart, Begin, Go, Marked
<1>10. ASSUME NEW c \in Calls, CountEnrolledForClass(c) PROVE InvClass'
  BY <1>10 DEF CountEnrolledForClass, Go, Marked
<1>11. ASSUME NEW c \in Calls, CountRecordsForSession(c) PROVE InvClass'
  <2>1. ASSUME target[c] \in Sessions \ moved PROVE enrolled \subseteq Marked(target[c])
    <3>1. Marked(target[c]) \in SUBSET enrolled /\ total[c] = Cardinality(enrolled)
      BY <1>11, <2>1 DEF CountRecordsForSession, Go
    <3>2. IsFiniteSet(enrolled)
      BY FS_Subset
    <3>3. Cardinality(enrolled) \in Nat /\ Cardinality(Marked(target[c])) \in Nat
      BY <3>1, <3>2, FS_Subset, FS_CardinalityType
    <3>4. Cardinality(enrolled) <= Cardinality(Marked(target[c]))
      BY <1>11, <3>1 DEF CountRecordsForSession, Go, NoneUnmarked
    <3> HIDE DEF InvExists, InvClass, KnowsClass, TypeOK, CallsTypeOK, CallsNamed, TablesTypeOK
    <3> QED BY <3>1, <3>2, <3>3, <3>4, FS_Subset
  <2> QED BY <1>11, <2>1 DEF CountRecordsForSession, Go, Marked
<1>12. ASSUME NEW c \in Calls, FinalizeSession(c) PROVE InvClass'
  BY <1>12 DEF FinalizeSession, Finish, Go, Marked
<1>13. ASSUME NEW c \in Calls, NEW k \in Sessions, ScanQRCard(c, k) PROVE InvClass'
  BY <1>13 DEF ScanQRCard, Begin, Go, Bar, Marked
<1>14. ASSUME NEW c \in Calls, NEW t \in Tokens, ResolveActiveQRToken(c, t) PROVE InvClass'
  BY <1>14 DEF ResolveActiveQRToken, Go, Resolves, Marked
<1>15. ASSUME NEW c \in Calls, ScanRoster(c) PROVE InvClass'
  BY <1>15 DEF ScanRoster, Go, Marked
<1>16. ASSUME NEW c \in Calls, InsertRecordWithMeta(c) PROVE InvClass'
  <2>1. target[c] \in Sessions /\ session[target[c]] # "absent" /\ who[c] \in Students
    BY <1>16 DEF InsertRecordWithMeta, Go, InvExists
  <2> DEFINE written == {who[c]}
  <2>2. \A k \in Sessions : Marked(k)' = IF k = target[c] THEN Marked(k) \cup written ELSE Marked(k)
    BY <1>16, <2>1, MarkedGrows DEF InsertRecordWithMeta, Go, InvItem
  <2> HIDE DEF written
  <2>3. target[c] \notin moved => written \subseteq enrolled
    BY <1>16, <2>1 DEF InsertRecordWithMeta, Go, written
  <2> QED BY <1>16, <2>1, <2>2, <2>3 DEF InsertRecordWithMeta, Go
<1>17. ASSUME NEW c \in Calls, InsertConflicts(c) PROVE InvClass'
  BY <1>17 DEF InsertConflicts, Finish, Go, Marked
<1>18. ASSUME NEW c \in Calls, NEW s \in Students, NEW status \in Marks, SelfCheckin(c, s, status) PROVE InvClass'
  BY <1>18 DEF SelfCheckin, Begin, Go, Bar, Marked
<1>19. ASSUME NEW c \in Calls, SelfCheckinSession(c) PROVE InvClass'
  BY <1>19 DEF SelfCheckinSession, Go, Marked
<1>20. ASSUME NEW c \in Calls, GetRecordForStudent(c) PROVE InvClass'
  BY <1>20 DEF GetRecordForStudent, Go, Marked
<1>21. ASSUME NEW c \in Calls, GenerateQRCards(c) PROVE InvClass'
  BY <1>21 DEF GenerateQRCards, Go, Marked
<1>22. ASSUME NEW c \in Calls, NEW s \in Students, GenerateOne(c, s) PROVE InvClass'
  BY <1>22 DEF GenerateOne, Marked
<1>23. ASSUME NEW c \in Calls, NEW s \in Students, RevokeActiveQRToken(c, s) PROVE InvClass'
  BY <1>23 DEF RevokeActiveQRToken, Go, Marked
<1>24. ASSUME NEW c \in Calls, RevokeReissue(c) PROVE InvClass'
  BY <1>24 DEF RevokeReissue, Finish, Go, Marked
<1>25. CASE UNCHANGED vars
  BY <1>25 DEF vars, Marked
<1> HIDE DEF InvExists, InvClass, KnowsClass, TypeOK, CallsTypeOK, CallsNamed, TablesTypeOK, records, roster, cards, reports, locals, callVars, history
<1> QED BY <1>1, <1>2, <1>3, <1>4, <1>5, <1>6, <1>7, <1>8, <1>9, <1>10, <1>11, <1>12, <1>13, <1>14, <1>15, <1>16, <1>17, <1>18, <1>19, <1>20, <1>21, <1>22, <1>23, <1>24, <1>25 DEF Next, CallSteps

LEMMA OldStep == TypeOK /\ InvOld /\ [Next]_vars => InvOld'
<1> SUFFICES ASSUME TypeOK, InvOld, [Next]_vars PROVE InvOld'
  OBVIOUS
<1> USE AttendanceAssumption DEF InvOld, HistoryTypeOK, TypeOK, CallsTypeOK, CallsNamed, TablesTypeOK, records, roster, cards, reports, locals, callVars, history
<1>1. ASSUME NEW k \in Sessions, CreateSession(k) PROVE InvOld'
  BY <1>1 DEF CreateSession
<1>2. ASSUME NEW k \in Sessions, WindowCloses(k) PROVE InvOld'
  BY <1>2 DEF WindowCloses
<1>3. ASSUME NEW s \in Students, RosterChanges(s) PROVE InvOld'
  BY <1>3 DEF RosterChanges
<1>4. ASSUME NEW c \in Calls, NEW k \in Sessions, NEW body \in Bodies, UpdateRecords(c, k, body) PROVE InvOld'
  BY <1>4 DEF UpdateRecords, Begin, Go, Bar, UpdateAllowed
<1>5. ASSUME NEW c \in Calls, ListClassStudents(c) PROVE InvOld'
  BY <1>5 DEF ListClassStudents, Go
<1>6. ASSUME NEW c \in Calls, ListSessionRecords(c) PROVE InvOld'
  BY <1>6 DEF ListSessionRecords, Go
<1>7. ASSUME NEW c \in Calls, BulkUpsertRecords(c) PROVE InvOld'
  <2>1. target[c] \in Sessions
    BY <1>7 DEF BulkUpsertRecords, Go
  <2> DEFINE written == {s \in Students : item[<<c, s>>] # NoMark}
  <2>2. written \in SUBSET Students /\ Write(c, written)
    BY <1>7 DEF BulkUpsertRecords, Go
  <2> HIDE DEF written
  <2>3. /\ \A k \in Sessions, s \in Students :
              mark'[<<k, s>>] = IF k = target[c] /\ s \in written THEN item[<<c, s>>] ELSE mark[<<k, s>>]
        /\ \A d \in Calls, s \in Students : <<d, s>> \in stale' <=>
              \/ <<d, s>> \in stale
              \/ d # c /\ callPc[d] = "upsert" /\ target[d] = target[c] /\ s \in written
    <3> HIDE DEF InvOld, HistoryTypeOK, TypeOK, CallsTypeOK, CallsNamed, TablesTypeOK
    <3> QED BY <2>1, <2>2, WriteEffect
  <2>4. callPc[c] # "report" /\ callPc' = [callPc EXCEPT ![c] = "report"] /\ target' = target /\ old' = old
    BY <1>7 DEF BulkUpsertRecords, Go
  <2>5. \A d \in Calls : callPc'[d] \notin {"upsert", "report"} => \A s \in Students : old'[<<d, s>>] = NoMark
    BY <2>4
  <2>6. \A d \in Calls, s \in Students : <<d, s>> \in stale' => callPc'[d] \in {"upsert", "report", "done"}
    BY <2>3, <2>4
  <2>7. \A d \in Calls, s \in Students : callPc'[d] = "upsert" /\ <<d, s>> \notin stale' =>
          old'[<<d, s>>] = mark'[<<target'[d], s>>]
    <3> SUFFICES ASSUME NEW d \in Calls, NEW s \in Students, callPc'[d] = "upsert", <<d, s>> \notin stale'
                 PROVE  old'[<<d, s>>] = mark'[<<target'[d], s>>]
      OBVIOUS
    <3>1. d # c /\ callPc[d] = "upsert" /\ target[d] \in Sessions /\ <<d, s>> \notin stale
      BY <2>3, <2>4
    <3>2. ~ (target[d] = target[c] /\ s \in written)
      BY <2>3, <3>1
    <3>3. mark'[<<target[d], s>>] = mark[<<target[d], s>>]
      BY <2>3, <3>1, <3>2
    <3> QED BY <2>4, <3>1, <3>3
  <2> QED BY <2>5, <2>6, <2>7
<1>8. ASSUME NEW c \in Calls, Report(c) PROVE InvOld'
  BY <1>8 DEF Report, Finish, Go
<1>9. ASSUME NEW c \in Calls, NEW k \in Sessions, FinalizeStart(c, k) PROVE InvOld'
  BY <1>9 DEF FinalizeStart, Begin, Go
<1>10. ASSUME NEW c \in Calls, CountEnrolledForClass(c) PROVE InvOld'
  BY <1>10 DEF CountEnrolledForClass, Go
<1>11. ASSUME NEW c \in Calls, CountRecordsForSession(c) PROVE InvOld'
  BY <1>11 DEF CountRecordsForSession, Go
<1>12. ASSUME NEW c \in Calls, FinalizeSession(c) PROVE InvOld'
  BY <1>12 DEF FinalizeSession, Finish, Go
<1>13. ASSUME NEW c \in Calls, NEW k \in Sessions, ScanQRCard(c, k) PROVE InvOld'
  BY <1>13 DEF ScanQRCard, Begin, Go, Bar
<1>14. ASSUME NEW c \in Calls, NEW t \in Tokens, ResolveActiveQRToken(c, t) PROVE InvOld'
  BY <1>14 DEF ResolveActiveQRToken, Go, Resolves
<1>15. ASSUME NEW c \in Calls, ScanRoster(c) PROVE InvOld'
  BY <1>15 DEF ScanRoster, Go
<1>16. ASSUME NEW c \in Calls, InsertRecordWithMeta(c) PROVE InvOld'
  <2>1. target[c] \in Sessions
    BY <1>16 DEF InsertRecordWithMeta, Go
  <2> DEFINE written == {who[c]}
  <2>2. written \in SUBSET Students /\ Write(c, written)
    BY <1>16 DEF InsertRecordWithMeta, Go
  <2> HIDE DEF written
  <2>3. /\ \A k \in Sessions, s \in Students :
              mark'[<<k, s>>] = IF k = target[c] /\ s \in written THEN item[<<c, s>>] ELSE mark[<<k, s>>]
        /\ \A d \in Calls, s \in Students : <<d, s>> \in stale' <=>
              \/ <<d, s>> \in stale
              \/ d # c /\ callPc[d] = "upsert" /\ target[d] = target[c] /\ s \in written
    <3> HIDE DEF InvOld, HistoryTypeOK, TypeOK, CallsTypeOK, CallsNamed, TablesTypeOK
    <3> QED BY <2>1, <2>2, WriteEffect
  <2>4. callPc[c] # "report" /\ callPc' = [callPc EXCEPT ![c] = "report"] /\ target' = target /\ old' = old
    BY <1>16 DEF InsertRecordWithMeta, Go
  <2>5. \A d \in Calls : callPc'[d] \notin {"upsert", "report"} => \A s \in Students : old'[<<d, s>>] = NoMark
    BY <2>4
  <2>6. \A d \in Calls, s \in Students : <<d, s>> \in stale' => callPc'[d] \in {"upsert", "report", "done"}
    BY <2>3, <2>4
  <2>7. \A d \in Calls, s \in Students : callPc'[d] = "upsert" /\ <<d, s>> \notin stale' =>
          old'[<<d, s>>] = mark'[<<target'[d], s>>]
    <3> SUFFICES ASSUME NEW d \in Calls, NEW s \in Students, callPc'[d] = "upsert", <<d, s>> \notin stale'
                 PROVE  old'[<<d, s>>] = mark'[<<target'[d], s>>]
      OBVIOUS
    <3>1. d # c /\ callPc[d] = "upsert" /\ target[d] \in Sessions /\ <<d, s>> \notin stale
      BY <2>3, <2>4
    <3>2. ~ (target[d] = target[c] /\ s \in written)
      BY <2>3, <3>1
    <3>3. mark'[<<target[d], s>>] = mark[<<target[d], s>>]
      BY <2>3, <3>1, <3>2
    <3> QED BY <2>4, <3>1, <3>3
  <2> QED BY <2>5, <2>6, <2>7
<1>17. ASSUME NEW c \in Calls, InsertConflicts(c) PROVE InvOld'
  BY <1>17 DEF InsertConflicts, Finish, Go
<1>18. ASSUME NEW c \in Calls, NEW s \in Students, NEW status \in Marks, SelfCheckin(c, s, status) PROVE InvOld'
  BY <1>18 DEF SelfCheckin, Begin, Go, Bar
<1>19. ASSUME NEW c \in Calls, SelfCheckinSession(c) PROVE InvOld'
  BY <1>19 DEF SelfCheckinSession, Go
<1>20. ASSUME NEW c \in Calls, GetRecordForStudent(c) PROVE InvOld'
  BY <1>20 DEF GetRecordForStudent, Go
<1>21. ASSUME NEW c \in Calls, GenerateQRCards(c) PROVE InvOld'
  BY <1>21 DEF GenerateQRCards, Go
<1>22. ASSUME NEW c \in Calls, NEW s \in Students, GenerateOne(c, s) PROVE InvOld'
  BY <1>22 DEF GenerateOne
<1>23. ASSUME NEW c \in Calls, NEW s \in Students, RevokeActiveQRToken(c, s) PROVE InvOld'
  BY <1>23 DEF RevokeActiveQRToken, Go
<1>24. ASSUME NEW c \in Calls, RevokeReissue(c) PROVE InvOld'
  BY <1>24 DEF RevokeReissue, Finish, Go
<1>25. CASE UNCHANGED vars
  BY <1>25 DEF vars
<1> HIDE DEF InvOld, HistoryTypeOK, TypeOK, CallsTypeOK, CallsNamed, TablesTypeOK, records, roster, cards, reports, locals, callVars, history
<1> QED BY <1>1, <1>2, <1>3, <1>4, <1>5, <1>6, <1>7, <1>8, <1>9, <1>10, <1>11, <1>12, <1>13, <1>14, <1>15, <1>16, <1>17, <1>18, <1>19, <1>20, <1>21, <1>22, <1>23, <1>24, <1>25 DEF Next, CallSteps


\* An explanation lasts while the mark does.
LEMMA ReportedKept ==
  ASSUME InvReported, mark' = mark, first' = first, told \subseteq told', audited \subseteq audited',
         raced \subseteq raced',
         \A c \in Calls : callPc[c] = "report" =>
           /\ callPc'[c] = "report" /\ target'[c] = target[c]
           /\ \A s \in Students : item'[<<c, s>>] = item[<<c, s>>] /\ old'[<<c, s>>] = old[<<c, s>>]
  PROVE  InvReported'
<1> SUFFICES ASSUME NEW k \in Sessions, NEW s \in Students, <<k, s>> \notin raced'
             PROVE  /\ Told(k, s)' \/ \E c \in Calls : Reports(c, k, s)' /\ old'[<<c, s>>] # mark'[<<k, s>>]
                    /\ Logged(k, s)' \/ \E c \in Calls :
                         Reports(c, k, s)' /\ old'[<<c, s>>] \notin {NoMark, mark'[<<k, s>>]}
  BY DEF InvReported
<1>1. <<k, s>> \notin raced
  OBVIOUS
<1>2. \A c \in Calls : Reports(c, k, s) => Reports(c, k, s)' /\ old'[<<c, s>>] = old[<<c, s>>]
  BY DEF Reports
<1>3. Told(k, s) => Told(k, s)'
  BY DEF Told
<1>4. Logged(k, s) => Logged(k, s)'
  BY DEF Logged
<1>5. /\ Told(k, s) \/ \E c \in Calls : Reports(c, k, s) /\ old[<<c, s>>] # mark[<<k, s>>]
      /\ Logged(k, s) \/ \E c \in Calls : Reports(c, k, s) /\ old[<<c, s>>] \notin {NoMark, mark[<<k, s>>]}
  BY <1>1 DEF InvReported
<1> QED BY <1>2, <1>3, <1>4, <1>5

\* The step of a call that writes and turns to its report.
WritesToReport(c, written) ==
    /\ target[c] \in Sessions /\ Write(c, written)
    /\ callPc[c] # "report" /\ callPc' = [callPc EXCEPT ![c] = "report"]
    /\ target' = target /\ item' = item /\ old' = old /\ told' = told /\ audited' = audited
    /\ \A s \in written : item[<<c, s>>] # NoMark
    /\ \A s \in written : <<c, s>> \in stale \/ old[<<c, s>>] = mark[<<target[c], s>>]

\* A mark written is explained by the call that wrote it, or was there before.
LEMMA ReportedWrite ==
  ASSUME TypeOK, InvReported, NEW c \in Calls, NEW written \in SUBSET Students, WritesToReport(c, written)
  PROVE  InvReported'
<1> SUFFICES ASSUME NEW k \in Sessions, NEW s \in Students, <<k, s>> \notin raced'
             PROVE  /\ Told(k, s)' \/ \E d \in Calls : Reports(d, k, s)' /\ old'[<<d, s>>] # mark'[<<k, s>>]
                    /\ Logged(k, s)' \/ \E d \in Calls :
                         Reports(d, k, s)' /\ old'[<<d, s>>] \notin {NoMark, mark'[<<k, s>>]}
  BY DEF InvReported
<1> USE DEF WritesToReport
<1>1. /\ mark'[<<k, s>>] = IF k = target[c] /\ s \in written THEN item[<<c, s>>] ELSE mark[<<k, s>>]
      /\ first'[<<k, s>>] = IF k = target[c] /\ s \in written /\ mark[<<k, s>>] = NoMark
                            THEN item[<<c, s>>] ELSE first[<<k, s>>]
      /\ <<k, s>> \notin raced
      /\ k = target[c] /\ s \in written => <<c, s>> \notin stale
  BY WriteEffect
<1>2. /\ Told(k, s) \/ \E d \in Calls : Reports(d, k, s) /\ old[<<d, s>>] # mark[<<k, s>>]
      /\ Logged(k, s) \/ \E d \in Calls : Reports(d, k, s) /\ old[<<d, s>>] \notin {NoMark, mark[<<k, s>>]}
  BY <1>1 DEF InvReported
<1>3. callPc'[c] = "report" /\ \A d \in Calls : callPc[d] = "report" => callPc'[d] = "report"
  BY DEF TypeOK, CallsTypeOK
<1>4. CASE mark'[<<k, s>>] = mark[<<k, s>>] /\ first'[<<k, s>>] = first[<<k, s>>]
  <2>1. \A d \in Calls : Reports(d, k, s) => Reports(d, k, s)' /\ old'[<<d, s>>] = old[<<d, s>>]
    BY <1>3, <1>4 DEF Reports
  <2>2. Told(k, s) => Told(k, s)'
    BY <1>4 DEF Told
  <2>3. Logged(k, s) => Logged(k, s)'
    BY <1>4 DEF Logged
  <2> QED BY <1>2, <1>4, <2>1, <2>2, <2>3
<1>5. CASE ~ (mark'[<<k, s>>] = mark[<<k, s>>] /\ first'[<<k, s>>] = first[<<k, s>>])
  <2>1. /\ k = target[c] /\ s \in written /\ mark'[<<k, s>>] = item[<<c, s>>]
        /\ old[<<c, s>>] = mark[<<k, s>>] /\ item[<<c, s>>] # NoMark
    BY <1>1, <1>5
  <2>2. Reports(c, k, s)' /\ old'[<<c, s>>] = mark[<<k, s>>]
    BY <1>3, <2>1 DEF Reports
  <2>3. CASE mark[<<k, s>>] = NoMark
    <3>1. Logged(k, s)'
      BY <1>1, <2>1, <2>3 DEF Logged
    <3> QED BY <2>1, <2>2, <2>3, <3>1
  <2>4. CASE mark[<<k, s>>] # NoMark
    <3>1. mark'[<<k, s>>] # mark[<<k, s>>]
      BY <1>1, <1>5, <2>4
    <3> QED BY <2>2, <2>4, <3>1
  <2> QED BY <2>3, <2>4
<1> QED BY <1>4, <1>5

LEMMA ReportedStep == TypeOK /\ InvItem /\ InvOld /\ InvReported /\ [Next]_vars => InvReported'
<1> SUFFICES ASSUME TypeOK, InvItem, InvOld, InvReported, [Next]_vars PROVE InvReported'
  OBVIOUS
<1> USE DEF HistoryTypeOK, TypeOK, CallsTypeOK, CallsNamed, TablesTypeOK, records, roster, cards, reports, locals, callVars, history
<1>1. ASSUME NEW k \in Sessions, CreateSession(k) PROVE InvReported'
  <2>1. \A d \in Calls : callPc[d] = "report" =>
          /\ callPc'[d] = "report" /\ target'[d] = target[d]
          /\ \A x \in Students : item'[<<d, x>>] = item[<<d, x>>] /\ old'[<<d, x>>] = old[<<d, x>>]
    BY <1>1 DEF CreateSession
  <2>2. mark' = mark /\ first' = first /\ told \subseteq told' /\ audited \subseteq audited' /\ raced \subseteq raced'
    BY <1>1 DEF CreateSession
  <2> QED BY <2>1, <2>2, ReportedKept
<1>2. ASSUME NEW k \in Sessions, WindowCloses(k) PROVE InvReported'
  <2>1. \A d \in Calls : callPc[d] = "report" =>
          /\ callPc'[d] = "report" /\ target'[d] = target[d]
          /\ \A x \in Students : item'[<<d, x>>] = item[<<d, x>>] /\ old'[<<d, x>>] = old[<<d, x>>]
    BY <1>2 DEF WindowCloses
  <2>2. mark' = mark /\ first' = first /\ told \subseteq told' /\ audited \subseteq audited' /\ raced \subseteq raced'
    BY <1>2 DEF WindowCloses
  <2> QED BY <2>1, <2>2, ReportedKept
<1>3. ASSUME NEW s \in Students, RosterChanges(s) PROVE InvReported'
  <2>1. \A d \in Calls : callPc[d] = "report" =>
          /\ callPc'[d] = "report" /\ target'[d] = target[d]
          /\ \A x \in Students : item'[<<d, x>>] = item[<<d, x>>] /\ old'[<<d, x>>] = old[<<d, x>>]
    BY <1>3 DEF RosterChanges
  <2>2. mark' = mark /\ first' = first /\ told \subseteq told' /\ audited \subseteq audited' /\ raced \subseteq raced'
    BY <1>3 DEF RosterChanges
  <2> QED BY <2>1, <2>2, ReportedKept
<1>4. ASSUME NEW c \in Calls, NEW k \in Sessions, NEW body \in Bodies, UpdateRecords(c, k, body) PROVE InvReported'
  <2>1. \A d \in Calls : callPc[d] = "report" =>
          /\ callPc'[d] = "report" /\ target'[d] = target[d]
          /\ \A x \in Students : item'[<<d, x>>] = item[<<d, x>>] /\ old'[<<d, x>>] = old[<<d, x>>]
    BY <1>4 DEF UpdateRecords, Begin, Go, Bar, UpdateAllowed
  <2>2. mark' = mark /\ first' = first /\ told \subseteq told' /\ audited \subseteq audited' /\ raced \subseteq raced'
    BY <1>4 DEF UpdateRecords, Begin, Go, Bar, UpdateAllowed
  <2> QED BY <2>1, <2>2, ReportedKept
<1>5. ASSUME NEW c \in Calls, ListClassStudents(c) PROVE InvReported'
  <2>1. \A d \in Calls : callPc[d] = "report" =>
          /\ callPc'[d] = "report" /\ target'[d] = target[d]
          /\ \A x \in Students : item'[<<d, x>>] = item[<<d, x>>] /\ old'[<<d, x>>] = old[<<d, x>>]
    BY <1>5 DEF ListClassStudents, Go
  <2>2. mark' = mark /\ first' = first /\ told \subseteq told' /\ audited \subseteq audited' /\ raced \subseteq raced'
    BY <1>5 DEF ListClassStudents, Go
  <2> QED BY <2>1, <2>2, ReportedKept
<1>6. ASSUME NEW c \in Calls, ListSessionRecords(c) PROVE InvReported'
  <2>1. \A d \in Calls : callPc[d] = "report" =>
          /\ callPc'[d] = "report" /\ target'[d] = target[d]
          /\ \A x \in Students : item'[<<d, x>>] = item[<<d, x>>] /\ old'[<<d, x>>] = old[<<d, x>>]
    BY <1>6 DEF ListSessionRecords, Go
  <2>2. mark' = mark /\ first' = first /\ told \subseteq told' /\ audited \subseteq audited' /\ raced \subseteq raced'
    BY <1>6 DEF ListSessionRecords, Go
  <2> QED BY <2>1, <2>2, ReportedKept
<1>7. ASSUME NEW c \in Calls, BulkUpsertRecords(c) PROVE InvReported'
  <2>1. target[c] \in Sessions
    BY <1>7 DEF BulkUpsertRecords, Go
  <2> DEFINE written == {s \in Students : item[<<c, s>>] # NoMark}
  <2>2. written \in SUBSET Students /\ Write(c, written)
    BY <1>7 DEF BulkUpsertRecords, Go
  <2>3. /\ \A s \in written : item[<<c, s>>] # NoMark
        /\ \A s \in written : <<c, s>> \in stale \/ old[<<c, s>>] = mark[<<target[c], s>>]
    BY <1>7 DEF BulkUpsertRecords, Go, InvOld
  <2>4. /\ callPc[c] # "report" /\ callPc' = [callPc EXCEPT ![c] = "report"]
        /\ target' = target /\ item' = item /\ old' = old /\ told' = told /\ audited' = audited
    BY <1>7 DEF BulkUpsertRecords, Go
  <2> HIDE DEF written, HistoryTypeOK, TypeOK, CallsTypeOK, CallsNamed, TablesTypeOK
  <2>5. WritesToReport(c, written)
    BY <2>1, <2>2, <2>3, <2>4 DEF WritesToReport
  <2> QED BY <2>2, <2>5, ReportedWrite
<1>8. ASSUME NEW c \in Calls, Report(c) PROVE InvReported'
  <2> SUFFICES ASSUME NEW k \in Sessions, NEW s \in Students, <<k, s>> \notin raced'
               PROVE  /\ Told(k, s)' \/ \E d \in Calls : Reports(d, k, s)' /\ old'[<<d, s>>] # mark'[<<k, s>>]
                      /\ Logged(k, s)' \/ \E d \in Calls :
                           Reports(d, k, s)' /\ old'[<<d, s>>] \notin {NoMark, mark'[<<k, s>>]}
    BY DEF InvReported
  <2>1. /\ callPc[c] = "report" /\ \A d \in Calls \ {c} : callPc'[d] = callPc[d] /\ target'[d] = target[d]
        /\ \A d \in Calls \ {c} : item'[<<d, s>>] = item[<<d, s>>] /\ old'[<<d, s>>] = old[<<d, s>>]
    BY <1>8, FinishEffect DEF Report, Finish, Go
  <2>2. mark' = mark /\ first' = first /\ raced' = raced
        /\ told' = told \cup Notices(c) /\ audited' = audited \cup Changes(c)
    BY <1>8 DEF Report, Finish, Go
  <2>3. /\ Told(k, s) \/ \E d \in Calls : Reports(d, k, s) /\ old[<<d, s>>] # mark[<<k, s>>]
        /\ Logged(k, s) \/ \E d \in Calls : Reports(d, k, s) /\ old[<<d, s>>] \notin {NoMark, mark[<<k, s>>]}
    BY <2>2 DEF InvReported
  <2>4. Told(k, s) => Told(k, s)'
    BY <2>2 DEF Told
  <2>5. Logged(k, s) => Logged(k, s)'
    BY <2>2 DEF Logged
  <2>6. \A d \in Calls \ {c} : Reports(d, k, s) => Reports(d, k, s)'
    BY <2>1, <2>2 DEF Reports
  <2>7. Reports(c, k, s) /\ old[<<c, s>>] # mark[<<k, s>>] => Told(k, s)'
    BY <2>2 DEF Reports, Told, Notices
  <2>8. <<c, s>> \in Calls \X Students /\ <<k, s>> \in Sessions \X Students
    OBVIOUS
  <2>9. Reports(c, k, s) /\ old[<<c, s>>] \notin {NoMark, mark[<<k, s>>]} => Logged(k, s)'
    <3> SUFFICES ASSUME Reports(c, k, s), old[<<c, s>>] \notin {NoMark, mark[<<k, s>>]} PROVE Logged(k, s)'
      OBVIOUS
    <3>1. CASE mark[<<k, s>>] = NoMark
      BY <2>2, <3>1 DEF Logged
    <3>2. CASE mark[<<k, s>>] # NoMark
      <4>1. old[<<c, s>>] \in Marks
        BY <2>8 DEF AnyMark
      <4>2. <<<<k, s>>, old[<<c, s>>], mark[<<k, s>>]>> \in Changes(c)
        BY <3>2 DEF Reports, Changes
      <4> QED BY <2>2, <4>1, <4>2 DEF Logged
    <3> QED BY <3>1, <3>2
  <2> QED BY <2>1, <2>2, <2>3, <2>4, <2>5, <2>6, <2>7, <2>9
<1>9. ASSUME NEW c \in Calls, NEW k \in Sessions, FinalizeStart(c, k) PROVE InvReported'
  <2>1. \A d \in Calls : callPc[d] = "report" =>
          /\ callPc'[d] = "report" /\ target'[d] = target[d]
          /\ \A x \in Students : item'[<<d, x>>] = item[<<d, x>>] /\ old'[<<d, x>>] = old[<<d, x>>]
    BY <1>9 DEF FinalizeStart, Begin, Go
  <2>2. mark' = mark /\ first' = first /\ told \subseteq told' /\ audited \subseteq audited' /\ raced \subseteq raced'
    BY <1>9 DEF FinalizeStart, Begin, Go
  <2> QED BY <2>1, <2>2, ReportedKept
<1>10. ASSUME NEW c \in Calls, CountEnrolledForClass(c) PROVE InvReported'
  <2>1. \A d \in Calls : callPc[d] = "report" =>
          /\ callPc'[d] = "report" /\ target'[d] = target[d]
          /\ \A x \in Students : item'[<<d, x>>] = item[<<d, x>>] /\ old'[<<d, x>>] = old[<<d, x>>]
    BY <1>10 DEF CountEnrolledForClass, Go
  <2>2. mark' = mark /\ first' = first /\ told \subseteq told' /\ audited \subseteq audited' /\ raced \subseteq raced'
    BY <1>10 DEF CountEnrolledForClass, Go
  <2> QED BY <2>1, <2>2, ReportedKept
<1>11. ASSUME NEW c \in Calls, CountRecordsForSession(c) PROVE InvReported'
  <2>1. \A d \in Calls : callPc[d] = "report" =>
          /\ callPc'[d] = "report" /\ target'[d] = target[d]
          /\ \A x \in Students : item'[<<d, x>>] = item[<<d, x>>] /\ old'[<<d, x>>] = old[<<d, x>>]
    BY <1>11 DEF CountRecordsForSession, Go
  <2>2. mark' = mark /\ first' = first /\ told \subseteq told' /\ audited \subseteq audited' /\ raced \subseteq raced'
    BY <1>11 DEF CountRecordsForSession, Go
  <2> QED BY <2>1, <2>2, ReportedKept
<1>12. ASSUME NEW c \in Calls, FinalizeSession(c) PROVE InvReported'
  <2>1. \A d \in Calls : callPc[d] = "report" =>
          /\ callPc'[d] = "report" /\ target'[d] = target[d]
          /\ \A x \in Students : item'[<<d, x>>] = item[<<d, x>>] /\ old'[<<d, x>>] = old[<<d, x>>]
    BY <1>12 DEF FinalizeSession, Finish, Go
  <2>2. mark' = mark /\ first' = first /\ told \subseteq told' /\ audited \subseteq audited' /\ raced \subseteq raced'
    BY <1>12 DEF FinalizeSession, Finish, Go
  <2> QED BY <2>1, <2>2, ReportedKept
<1>13. ASSUME NEW c \in Calls, NEW k \in Sessions, ScanQRCard(c, k) PROVE InvReported'
  <2>1. \A d \in Calls : callPc[d] = "report" =>
          /\ callPc'[d] = "report" /\ target'[d] = target[d]
          /\ \A x \in Students : item'[<<d, x>>] = item[<<d, x>>] /\ old'[<<d, x>>] = old[<<d, x>>]
    BY <1>13 DEF ScanQRCard, Begin, Go, Bar
  <2>2. mark' = mark /\ first' = first /\ told \subseteq told' /\ audited \subseteq audited' /\ raced \subseteq raced'
    BY <1>13 DEF ScanQRCard, Begin, Go, Bar
  <2> QED BY <2>1, <2>2, ReportedKept
<1>14. ASSUME NEW c \in Calls, NEW t \in Tokens, ResolveActiveQRToken(c, t) PROVE InvReported'
  <2>1. \A d \in Calls : callPc[d] = "report" =>
          /\ callPc'[d] = "report" /\ target'[d] = target[d]
          /\ \A x \in Students : item'[<<d, x>>] = item[<<d, x>>] /\ old'[<<d, x>>] = old[<<d, x>>]
    BY <1>14 DEF ResolveActiveQRToken, Go, Resolves
  <2>2. mark' = mark /\ first' = first /\ told \subseteq told' /\ audited \subseteq audited' /\ raced \subseteq raced'
    BY <1>14 DEF ResolveActiveQRToken, Go, Resolves
  <2> QED BY <2>1, <2>2, ReportedKept
<1>15. ASSUME NEW c \in Calls, ScanRoster(c) PROVE InvReported'
  <2>1. \A d \in Calls : callPc[d] = "report" =>
          /\ callPc'[d] = "report" /\ target'[d] = target[d]
          /\ \A x \in Students : item'[<<d, x>>] = item[<<d, x>>] /\ old'[<<d, x>>] = old[<<d, x>>]
    BY <1>15 DEF ScanRoster, Go
  <2>2. mark' = mark /\ first' = first /\ told \subseteq told' /\ audited \subseteq audited' /\ raced \subseteq raced'
    BY <1>15 DEF ScanRoster, Go
  <2> QED BY <2>1, <2>2, ReportedKept
<1>16. ASSUME NEW c \in Calls, InsertRecordWithMeta(c) PROVE InvReported'
  <2>1. target[c] \in Sessions /\ who[c] \in Students
    BY <1>16 DEF InsertRecordWithMeta, Go
  <2> DEFINE written == {who[c]}
  <2>2. written \in SUBSET Students /\ Write(c, written)
    BY <1>16, <2>1 DEF InsertRecordWithMeta, Go
  <2>3. /\ \A s \in written : item[<<c, s>>] # NoMark
        /\ \A s \in written : <<c, s>> \in stale \/ old[<<c, s>>] = mark[<<target[c], s>>]
    BY <1>16, <2>1 DEF InsertRecordWithMeta, Go, CanInsert, InvOld, InvItem
  <2>4. /\ callPc[c] # "report" /\ callPc' = [callPc EXCEPT ![c] = "report"]
        /\ target' = target /\ item' = item /\ old' = old /\ told' = told /\ audited' = audited
    BY <1>16 DEF InsertRecordWithMeta, Go
  <2> HIDE DEF written, HistoryTypeOK, TypeOK, CallsTypeOK, CallsNamed, TablesTypeOK
  <2>5. WritesToReport(c, written)
    BY <2>1, <2>2, <2>3, <2>4 DEF WritesToReport
  <2> QED BY <2>2, <2>5, ReportedWrite
<1>17. ASSUME NEW c \in Calls, InsertConflicts(c) PROVE InvReported'
  <2>1. \A d \in Calls : callPc[d] = "report" =>
          /\ callPc'[d] = "report" /\ target'[d] = target[d]
          /\ \A x \in Students : item'[<<d, x>>] = item[<<d, x>>] /\ old'[<<d, x>>] = old[<<d, x>>]
    BY <1>17 DEF InsertConflicts, Finish, Go
  <2>2. mark' = mark /\ first' = first /\ told \subseteq told' /\ audited \subseteq audited' /\ raced \subseteq raced'
    BY <1>17 DEF InsertConflicts, Finish, Go
  <2> QED BY <2>1, <2>2, ReportedKept
<1>18. ASSUME NEW c \in Calls, NEW s \in Students, NEW status \in Marks, SelfCheckin(c, s, status) PROVE InvReported'
  <2>1. \A d \in Calls : callPc[d] = "report" =>
          /\ callPc'[d] = "report" /\ target'[d] = target[d]
          /\ \A x \in Students : item'[<<d, x>>] = item[<<d, x>>] /\ old'[<<d, x>>] = old[<<d, x>>]
    BY <1>18 DEF SelfCheckin, Begin, Go, Bar
  <2>2. mark' = mark /\ first' = first /\ told \subseteq told' /\ audited \subseteq audited' /\ raced \subseteq raced'
    BY <1>18 DEF SelfCheckin, Begin, Go, Bar
  <2> QED BY <2>1, <2>2, ReportedKept
<1>19. ASSUME NEW c \in Calls, SelfCheckinSession(c) PROVE InvReported'
  <2>1. \A d \in Calls : callPc[d] = "report" =>
          /\ callPc'[d] = "report" /\ target'[d] = target[d]
          /\ \A x \in Students : item'[<<d, x>>] = item[<<d, x>>] /\ old'[<<d, x>>] = old[<<d, x>>]
    BY <1>19 DEF SelfCheckinSession, Go
  <2>2. mark' = mark /\ first' = first /\ told \subseteq told' /\ audited \subseteq audited' /\ raced \subseteq raced'
    BY <1>19 DEF SelfCheckinSession, Go
  <2> QED BY <2>1, <2>2, ReportedKept
<1>20. ASSUME NEW c \in Calls, GetRecordForStudent(c) PROVE InvReported'
  <2>1. \A d \in Calls : callPc[d] = "report" =>
          /\ callPc'[d] = "report" /\ target'[d] = target[d]
          /\ \A x \in Students : item'[<<d, x>>] = item[<<d, x>>] /\ old'[<<d, x>>] = old[<<d, x>>]
    BY <1>20 DEF GetRecordForStudent, Go
  <2>2. mark' = mark /\ first' = first /\ told \subseteq told' /\ audited \subseteq audited' /\ raced \subseteq raced'
    BY <1>20 DEF GetRecordForStudent, Go
  <2> QED BY <2>1, <2>2, ReportedKept
<1>21. ASSUME NEW c \in Calls, GenerateQRCards(c) PROVE InvReported'
  <2>1. \A d \in Calls : callPc[d] = "report" =>
          /\ callPc'[d] = "report" /\ target'[d] = target[d]
          /\ \A x \in Students : item'[<<d, x>>] = item[<<d, x>>] /\ old'[<<d, x>>] = old[<<d, x>>]
    BY <1>21 DEF GenerateQRCards, Go
  <2>2. mark' = mark /\ first' = first /\ told \subseteq told' /\ audited \subseteq audited' /\ raced \subseteq raced'
    BY <1>21 DEF GenerateQRCards, Go
  <2> QED BY <2>1, <2>2, ReportedKept
<1>22. ASSUME NEW c \in Calls, NEW s \in Students, GenerateOne(c, s) PROVE InvReported'
  <2>1. \A d \in Calls : callPc[d] = "report" =>
          /\ callPc'[d] = "report" /\ target'[d] = target[d]
          /\ \A x \in Students : item'[<<d, x>>] = item[<<d, x>>] /\ old'[<<d, x>>] = old[<<d, x>>]
    BY <1>22 DEF GenerateOne
  <2>2. mark' = mark /\ first' = first /\ told \subseteq told' /\ audited \subseteq audited' /\ raced \subseteq raced'
    BY <1>22 DEF GenerateOne
  <2> QED BY <2>1, <2>2, ReportedKept
<1>23. ASSUME NEW c \in Calls, NEW s \in Students, RevokeActiveQRToken(c, s) PROVE InvReported'
  <2>1. \A d \in Calls : callPc[d] = "report" =>
          /\ callPc'[d] = "report" /\ target'[d] = target[d]
          /\ \A x \in Students : item'[<<d, x>>] = item[<<d, x>>] /\ old'[<<d, x>>] = old[<<d, x>>]
    BY <1>23 DEF RevokeActiveQRToken, Go
  <2>2. mark' = mark /\ first' = first /\ told \subseteq told' /\ audited \subseteq audited' /\ raced \subseteq raced'
    BY <1>23 DEF RevokeActiveQRToken, Go
  <2> QED BY <2>1, <2>2, ReportedKept
<1>24. ASSUME NEW c \in Calls, RevokeReissue(c) PROVE InvReported'
  <2>1. \A d \in Calls : callPc[d] = "report" =>
          /\ callPc'[d] = "report" /\ target'[d] = target[d]
          /\ \A x \in Students : item'[<<d, x>>] = item[<<d, x>>] /\ old'[<<d, x>>] = old[<<d, x>>]
    BY <1>24 DEF RevokeReissue, Finish, Go
  <2>2. mark' = mark /\ first' = first /\ told \subseteq told' /\ audited \subseteq audited' /\ raced \subseteq raced'
    BY <1>24 DEF RevokeReissue, Finish, Go
  <2> QED BY <2>1, <2>2, ReportedKept
<1>25. CASE UNCHANGED vars
  <2>1. \A d \in Calls : callPc[d] = "report" =>
          /\ callPc'[d] = "report" /\ target'[d] = target[d]
          /\ \A x \in Students : item'[<<d, x>>] = item[<<d, x>>] /\ old'[<<d, x>>] = old[<<d, x>>]
    BY <1>25 DEF vars
  <2>2. mark' = mark /\ first' = first /\ told \subseteq told' /\ audited \subseteq audited' /\ raced \subseteq raced'
    BY <1>25 DEF vars
  <2> QED BY <2>1, <2>2, ReportedKept
<1> HIDE DEF HistoryTypeOK, TypeOK, CallsTypeOK, CallsNamed, TablesTypeOK, records, roster, cards, reports, locals, callVars, history
<1> QED BY <1>1, <1>2, <1>3, <1>4, <1>5, <1>6, <1>7, <1>8, <1>9, <1>10, <1>11, <1>12, <1>13, <1>14, <1>15, <1>16, <1>17, <1>18, <1>19, <1>20, <1>21, <1>22, <1>23, <1>24, <1>25 DEF Next, CallSteps

LEMMA FinalizedStep == TypeOK /\ InvItem /\ InvExists /\ InvClass /\ FinalizedComplete /\ [Next]_vars => FinalizedComplete'
<1> SUFFICES ASSUME TypeOK, InvItem, InvExists, InvClass, FinalizedComplete, [Next]_vars PROVE FinalizedComplete'
  OBVIOUS
<1> USE DEF FinalizedComplete, TypeOK, CallsTypeOK, CallsNamed, TablesTypeOK, records, roster, cards, reports, locals, callVars, history
<1>1. ASSUME NEW k \in Sessions, CreateSession(k) PROVE FinalizedComplete'
  BY <1>1 DEF CreateSession, Marked
<1>2. ASSUME NEW k \in Sessions, WindowCloses(k) PROVE FinalizedComplete'
  BY <1>2 DEF WindowCloses, Marked
<1>3. ASSUME NEW s \in Students, RosterChanges(s) PROVE FinalizedComplete'
  BY <1>3 DEF RosterChanges
<1>4. ASSUME NEW c \in Calls, NEW k \in Sessions, NEW body \in Bodies, UpdateRecords(c, k, body) PROVE FinalizedComplete'
  BY <1>4 DEF UpdateRecords, Begin, Go, Bar, UpdateAllowed, Marked
<1>5. ASSUME NEW c \in Calls, ListClassStudents(c) PROVE FinalizedComplete'
  BY <1>5 DEF ListClassStudents, Go, Marked
<1>6. ASSUME NEW c \in Calls, ListSessionRecords(c) PROVE FinalizedComplete'
  BY <1>6 DEF ListSessionRecords, Go, Marked
<1>7. ASSUME NEW c \in Calls, BulkUpsertRecords(c) PROVE FinalizedComplete'
  <2>1. target[c] \in Sessions /\ session[target[c]] # "absent"
    BY <1>7 DEF BulkUpsertRecords, Go, InvExists
  <2> DEFINE written == {s \in Students : item[<<c, s>>] # NoMark}
  <2>w. /\ written \in SUBSET Students /\ Write(c, written)
        /\ \A s \in written : item[<<c, s>>] # NoMark
    BY <1>7 DEF BulkUpsertRecords, Go
  <2> HIDE DEF written
  <2>2. \A k \in Sessions : Marked(k)' = IF k = target[c] THEN Marked(k) \cup written ELSE Marked(k)
    BY <2>w, <2>1, MarkedGrows
  <2> QED BY <1>7, <2>1, <2>2 DEF BulkUpsertRecords, Go
<1>8. ASSUME NEW c \in Calls, Report(c) PROVE FinalizedComplete'
  BY <1>8 DEF Report, Finish, Go, Marked
<1>9. ASSUME NEW c \in Calls, NEW k \in Sessions, FinalizeStart(c, k) PROVE FinalizedComplete'
  BY <1>9 DEF FinalizeStart, Begin, Go, Marked
<1>10. ASSUME NEW c \in Calls, CountEnrolledForClass(c) PROVE FinalizedComplete'
  BY <1>10 DEF CountEnrolledForClass, Go, Marked
<1>11. ASSUME NEW c \in Calls, CountRecordsForSession(c) PROVE FinalizedComplete'
  BY <1>11 DEF CountRecordsForSession, Go, Marked
<1>12. ASSUME NEW c \in Calls, FinalizeSession(c) PROVE FinalizedComplete'
  <2>1. target[c] \in Sessions \ moved => enrolled \subseteq Marked(target[c])
    BY <1>12 DEF FinalizeSession, Finish, Go, InvClass, KnowsClass
  <2>2. \A k \in Sessions : Marked(k)' = Marked(k) /\ (k # target[c] => session'[k] = session[k])
    BY <1>12 DEF FinalizeSession, Finish, Go, Marked
  <2>3. enrolled' = enrolled /\ moved' = moved
    BY <1>12 DEF FinalizeSession, Finish, Go
  <2> QED BY <2>1, <2>2, <2>3
<1>13. ASSUME NEW c \in Calls, NEW k \in Sessions, ScanQRCard(c, k) PROVE FinalizedComplete'
  BY <1>13 DEF ScanQRCard, Begin, Go, Bar, Marked
<1>14. ASSUME NEW c \in Calls, NEW t \in Tokens, ResolveActiveQRToken(c, t) PROVE FinalizedComplete'
  BY <1>14 DEF ResolveActiveQRToken, Go, Resolves, Marked
<1>15. ASSUME NEW c \in Calls, ScanRoster(c) PROVE FinalizedComplete'
  BY <1>15 DEF ScanRoster, Go, Marked
<1>16. ASSUME NEW c \in Calls, InsertRecordWithMeta(c) PROVE FinalizedComplete'
  <2>1. target[c] \in Sessions /\ session[target[c]] # "absent" /\ who[c] \in Students
    BY <1>16 DEF InsertRecordWithMeta, Go, InvExists
  <2> DEFINE written == {who[c]}
  <2>2. \A k \in Sessions : Marked(k)' = IF k = target[c] THEN Marked(k) \cup written ELSE Marked(k)
    BY <1>16, <2>1, MarkedGrows DEF InsertRecordWithMeta, Go, InvItem
  <2> QED BY <1>16, <2>1, <2>2 DEF InsertRecordWithMeta, Go
<1>17. ASSUME NEW c \in Calls, InsertConflicts(c) PROVE FinalizedComplete'
  BY <1>17 DEF InsertConflicts, Finish, Go, Marked
<1>18. ASSUME NEW c \in Calls, NEW s \in Students, NEW status \in Marks, SelfCheckin(c, s, status) PROVE FinalizedComplete'
  BY <1>18 DEF SelfCheckin, Begin, Go, Bar, Marked
<1>19. ASSUME NEW c \in Calls, SelfCheckinSession(c) PROVE FinalizedComplete'
  BY <1>19 DEF SelfCheckinSession, Go, Marked
<1>20. ASSUME NEW c \in Calls, GetRecordForStudent(c) PROVE FinalizedComplete'
  BY <1>20 DEF GetRecordForStudent, Go, Marked
<1>21. ASSUME NEW c \in Calls, GenerateQRCards(c) PROVE FinalizedComplete'
  BY <1>21 DEF GenerateQRCards, Go, Marked
<1>22. ASSUME NEW c \in Calls, NEW s \in Students, GenerateOne(c, s) PROVE FinalizedComplete'
  BY <1>22 DEF GenerateOne, Marked
<1>23. ASSUME NEW c \in Calls, NEW s \in Students, RevokeActiveQRToken(c, s) PROVE FinalizedComplete'
  BY <1>23 DEF RevokeActiveQRToken, Go, Marked
<1>24. ASSUME NEW c \in Calls, RevokeReissue(c) PROVE FinalizedComplete'
  BY <1>24 DEF RevokeReissue, Finish, Go, Marked
<1>25. CASE UNCHANGED vars
  BY <1>25 DEF vars, Marked
<1> HIDE DEF FinalizedComplete, TypeOK, CallsTypeOK, CallsNamed, TablesTypeOK, records, roster, cards, reports, locals, callVars, history
<1> QED BY <1>1, <1>2, <1>3, <1>4, <1>5, <1>6, <1>7, <1>8, <1>9, <1>10, <1>11, <1>12, <1>13, <1>14, <1>15, <1>16, <1>17, <1>18, <1>19, <1>20, <1>21, <1>22, <1>23, <1>24, <1>25 DEF Next, CallSteps


-----------------------------------------------------------------------------
\* The inductive invariant: what is true of the tables, what a call knows of its
\* session and class, and which explanation of a mark is still to come.
IInv ==
    /\ TypeOK /\ InvBarred /\ InvItem /\ InvExists /\ InvClass /\ InvOld
    /\ InvReported /\ CardKept /\ FinalizedComplete

LEMMA InitInv == Init => IInv
<1> SUFFICES ASSUME Init PROVE IInv
  OBVIOUS
<1>1. TypeOK
  BY TypeInit
<1>2. /\ \A k \in Sessions, s \in Students : mark[<<k, s>>] = NoMark
      /\ \A d \in Calls, s \in Students : old[<<d, s>>] = NoMark
  BY DEF Init, Keys
<1>3. InvBarred /\ InvItem
  BY DEF Init, InvBarred, InvItem
<1>4. \A k \in Sessions : Marked(k) = {}
  BY <1>2 DEF Marked
<1>5. InvExists /\ InvClass
  BY <1>4, AttendanceAssumption DEF Init, InvExists, InvClass, KnowsClass
<1>6. InvOld
  BY <1>2 DEF Init, InvOld
<1>7. InvReported
  BY <1>2 DEF InvReported, Told, Logged
<1>8. CardKept
  BY AttendanceAssumption DEF Init, CardKept, HasCard
<1>9. FinalizedComplete
  BY DEF Init, FinalizedComplete
<1> QED BY <1>1, <1>3, <1>5, <1>6, <1>7, <1>8, <1>9 DEF IInv

LEMMA Inductive == Spec => []IInv
<1>1. IInv /\ [Next]_vars => IInv'
  BY TypeStep, BarredStep, ItemStep, ExistsStep, ClassStep, OldStep, ReportedStep, CardStep,
     FinalizedStep DEF IInv
<1> QED BY InitInv, <1>1, PTL DEF Spec

-----------------------------------------------------------------------------

\* Sessions, marks, cards and calls stay within their types: a call that goes on
\* has a session and a student.
THEOREM AttendanceTypeCorrect == Spec => []TypeOK
<1>1. IInv => TypeOK
  BY DEF IInv
<1> QED BY Inductive, <1>1, PTL

\* A finalized session has a mark for every student of a class that did not
\* change meanwhile, for classes and requests of any number.
THEOREM FinalizedAlwaysComplete == Spec => []FinalizedComplete
<1>1. IInv => FinalizedComplete
  BY DEF IInv
<1> QED BY Inductive, <1>1, PTL

\* A mark that nobody overtook is explained as soon as no call has still to
\* report on its session.
THEOREM ChangesAlwaysReported == Spec => []ChangesReported
<1>1. ASSUME InvReported PROVE ChangesReported
  <2> SUFFICES ASSUME NEW k \in Sessions, NEW s \in Students, <<k, s>> \notin raced,
                      \A c \in Calls : callPc[c] = "report" => target[c] # k
               PROVE  /\ mark[<<k, s>>] \notin {NoMark, "hadir"} => <<<<k, s>>, mark[<<k, s>>]>> \in told
                      /\ mark[<<k, s>>] \notin {NoMark, first[<<k, s>>]} =>
                           \E m \in Marks : <<<<k, s>>, m, mark[<<k, s>>]>> \in audited
    BY DEF ChangesReported, Keys
  <2>1. \A c \in Calls : ~ Reports(c, k, s)
    BY DEF Reports
  <2>2. Told(k, s) /\ Logged(k, s)
    BY <1>1, <2>1 DEF InvReported
  <2> QED BY <2>2 DEF Told, Logged
<1>2. IInv => ChangesReported
  BY <1>1 DEF IInv
<1> QED BY Inductive, <1>2, PTL

\* A student who was given a card keeps one, but for a replacement halfway.
THEOREM CardsAlwaysKept == Spec => []CardKept
<1>1. IInv => CardKept
  BY DEF IInv
<1> QED BY Inductive, <1>1, PTL


KeepsMarks == \A x \in Keys : mark'[x] # mark[x] => \E c \in Calls :
         /\ target[c] = x[1] /\ callPc[c] \in {"upsert", "insert"} /\ callPc'[c] = "report"
         /\ c \in Admins \/ c \notin barred
         /\ mark[x] # NoMark => callPc[c] = "upsert"
         /\ mark'[x] # NoMark

LEMMA MarkStep == TypeOK /\ InvBarred /\ InvItem /\ [Next]_vars => KeepsMarks
<1> SUFFICES ASSUME TypeOK, InvBarred, InvItem, [Next]_vars PROVE KeepsMarks
  OBVIOUS
<1> USE DEF TypeOK, CallsTypeOK, CallsNamed, TablesTypeOK, records, roster, cards, reports, locals, callVars, history
<1>1. ASSUME NEW k \in Sessions, CreateSession(k) PROVE KeepsMarks
  <2>1. mark' = mark
    BY <1>1 DEF CreateSession
  <2> QED BY <2>1 DEF KeepsMarks
<1>2. ASSUME NEW k \in Sessions, WindowCloses(k) PROVE KeepsMarks
  <2>1. mark' = mark
    BY <1>2 DEF WindowCloses
  <2> QED BY <2>1 DEF KeepsMarks
<1>3. ASSUME NEW s \in Students, RosterChanges(s) PROVE KeepsMarks
  <2>1. mark' = mark
    BY <1>3 DEF RosterChanges
  <2> QED BY <2>1 DEF KeepsMarks
<1>4. ASSUME NEW c \in Calls, NEW k \in Sessions, NEW body \in Bodies, UpdateRecords(c, k, body) PROVE KeepsMarks
  <2>1. mark' = mark
    BY <1>4 DEF UpdateRecords, Begin, Go, Bar, UpdateAllowed
  <2> QED BY <2>1 DEF KeepsMarks
<1>5. ASSUME NEW c \in Calls, ListClassStudents(c) PROVE KeepsMarks
  <2>1. mark' = mark
    BY <1>5 DEF ListClassStudents, Go
  <2> QED BY <2>1 DEF KeepsMarks
<1>6. ASSUME NEW c \in Calls, ListSessionRecords(c) PROVE KeepsMarks
  <2>1. mark' = mark
    BY <1>6 DEF ListSessionRecords, Go
  <2> QED BY <2>1 DEF KeepsMarks
<1>7. ASSUME NEW c \in Calls, BulkUpsertRecords(c) PROVE KeepsMarks
  <2>1. /\ target[c] \in Sessions /\ callPc'[c] = "report" /\ Write(c, {s \in Students : item[<<c, s>>] # NoMark})
        /\ callPc[c] = "upsert" /\ \A s \in {s \in Students : item[<<c, s>>] # NoMark} : s \in Students /\ item[<<c, s>>] # NoMark
    BY <1>7 DEF BulkUpsertRecords, Go
  <2>2. c \in Admins \/ c \notin barred
    BY <2>1 DEF InvBarred
  <2> SUFFICES ASSUME NEW x \in Keys, mark'[x] # mark[x]
               PROVE  /\ target[c] = x[1] /\ (mark[x] # NoMark => callPc[c] = "upsert") /\ mark'[x] # NoMark
    BY <2>1, <2>2 DEF KeepsMarks
  <2>3. x[1] = target[c] /\ x[2] \in {s \in Students : item[<<c, s>>] # NoMark} /\ mark'[x] = item[<<c, x[2]>>]
    BY <2>1 DEF Write
  <2>4. x = <<x[1], x[2]>>
    BY DEF Keys
  <2> QED BY <1>7, <2>1, <2>3, <2>4 DEF BulkUpsertRecords, Go
<1>8. ASSUME NEW c \in Calls, Report(c) PROVE KeepsMarks
  <2>1. mark' = mark
    BY <1>8 DEF Report, Finish, Go
  <2> QED BY <2>1 DEF KeepsMarks
<1>9. ASSUME NEW c \in Calls, NEW k \in Sessions, FinalizeStart(c, k) PROVE KeepsMarks
  <2>1. mark' = mark
    BY <1>9 DEF FinalizeStart, Begin, Go
  <2> QED BY <2>1 DEF KeepsMarks
<1>10. ASSUME NEW c \in Calls, CountEnrolledForClass(c) PROVE KeepsMarks
  <2>1. mark' = mark
    BY <1>10 DEF CountEnrolledForClass, Go
  <2> QED BY <2>1 DEF KeepsMarks
<1>11. ASSUME NEW c \in Calls, CountRecordsForSession(c) PROVE KeepsMarks
  <2>1. mark' = mark
    BY <1>11 DEF CountRecordsForSession, Go
  <2> QED BY <2>1 DEF KeepsMarks
<1>12. ASSUME NEW c \in Calls, FinalizeSession(c) PROVE KeepsMarks
  <2>1. mark' = mark
    BY <1>12 DEF FinalizeSession, Finish, Go
  <2> QED BY <2>1 DEF KeepsMarks
<1>13. ASSUME NEW c \in Calls, NEW k \in Sessions, ScanQRCard(c, k) PROVE KeepsMarks
  <2>1. mark' = mark
    BY <1>13 DEF ScanQRCard, Begin, Go, Bar
  <2> QED BY <2>1 DEF KeepsMarks
<1>14. ASSUME NEW c \in Calls, NEW t \in Tokens, ResolveActiveQRToken(c, t) PROVE KeepsMarks
  <2>1. mark' = mark
    BY <1>14 DEF ResolveActiveQRToken, Go, Resolves
  <2> QED BY <2>1 DEF KeepsMarks
<1>15. ASSUME NEW c \in Calls, ScanRoster(c) PROVE KeepsMarks
  <2>1. mark' = mark
    BY <1>15 DEF ScanRoster, Go
  <2> QED BY <2>1 DEF KeepsMarks
<1>16. ASSUME NEW c \in Calls, InsertRecordWithMeta(c) PROVE KeepsMarks
  <2>1. /\ target[c] \in Sessions /\ callPc'[c] = "report" /\ Write(c, {who[c]})
        /\ callPc[c] = "insert" /\ \A s \in {who[c]} : s \in Students /\ item[<<c, s>>] # NoMark
    BY <1>16 DEF InsertRecordWithMeta, Go, InvItem
  <2>2. c \in Admins \/ c \notin barred
    BY <2>1 DEF InvBarred
  <2> SUFFICES ASSUME NEW x \in Keys, mark'[x] # mark[x]
               PROVE  /\ target[c] = x[1] /\ (mark[x] # NoMark => callPc[c] = "upsert") /\ mark'[x] # NoMark
    BY <2>1, <2>2 DEF KeepsMarks
  <2>3. x[1] = target[c] /\ x[2] \in {who[c]} /\ mark'[x] = item[<<c, x[2]>>]
    BY <2>1 DEF Write
  <2>4. x = <<x[1], x[2]>>
    BY DEF Keys
  <2> QED BY <1>16, <2>1, <2>3, <2>4 DEF InsertRecordWithMeta, Go, CanInsert
<1>17. ASSUME NEW c \in Calls, InsertConflicts(c) PROVE KeepsMarks
  <2>1. mark' = mark
    BY <1>17 DEF InsertConflicts, Finish, Go
  <2> QED BY <2>1 DEF KeepsMarks
<1>18. ASSUME NEW c \in Calls, NEW s \in Students, NEW status \in Marks, SelfCheckin(c, s, status) PROVE KeepsMarks
  <2>1. mark' = mark
    BY <1>18 DEF SelfCheckin, Begin, Go, Bar
  <2> QED BY <2>1 DEF KeepsMarks
<1>19. ASSUME NEW c \in Calls, SelfCheckinSession(c) PROVE KeepsMarks
  <2>1. mark' = mark
    BY <1>19 DEF SelfCheckinSession, Go
  <2> QED BY <2>1 DEF KeepsMarks
<1>20. ASSUME NEW c \in Calls, GetRecordForStudent(c) PROVE KeepsMarks
  <2>1. mark' = mark
    BY <1>20 DEF GetRecordForStudent, Go
  <2> QED BY <2>1 DEF KeepsMarks
<1>21. ASSUME NEW c \in Calls, GenerateQRCards(c) PROVE KeepsMarks
  <2>1. mark' = mark
    BY <1>21 DEF GenerateQRCards, Go
  <2> QED BY <2>1 DEF KeepsMarks
<1>22. ASSUME NEW c \in Calls, NEW s \in Students, GenerateOne(c, s) PROVE KeepsMarks
  <2>1. mark' = mark
    BY <1>22 DEF GenerateOne
  <2> QED BY <2>1 DEF KeepsMarks
<1>23. ASSUME NEW c \in Calls, NEW s \in Students, RevokeActiveQRToken(c, s) PROVE KeepsMarks
  <2>1. mark' = mark
    BY <1>23 DEF RevokeActiveQRToken, Go
  <2> QED BY <2>1 DEF KeepsMarks
<1>24. ASSUME NEW c \in Calls, RevokeReissue(c) PROVE KeepsMarks
  <2>1. mark' = mark
    BY <1>24 DEF RevokeReissue, Finish, Go
  <2> QED BY <2>1 DEF KeepsMarks
<1>25. CASE UNCHANGED vars
  <2>1. mark' = mark
    BY <1>25 DEF vars
  <2> QED BY <2>1 DEF KeepsMarks
<1> HIDE DEF TypeOK, CallsTypeOK, CallsNamed, TablesTypeOK, records, roster, cards, reports, locals, callVars, history
<1> QED BY <1>1, <1>2, <1>3, <1>4, <1>5, <1>6, <1>7, <1>8, <1>9, <1>10, <1>11, <1>12, <1>13, <1>14, <1>15, <1>16, <1>17, <1>18, <1>19, <1>20, <1>21, <1>22, <1>23, <1>24, <1>25 DEF Next, CallSteps


\* Only a write that was allowed when it began changes a mark, only the bulk
\* update replaces one, and none is removed.
THEOREM MarksAlwaysKept == Spec => MarksKept
<1>1. IInv /\ [Next]_vars => KeepsMarks
  BY MarkStep DEF IInv
<1>2. IInv /\ [Next]_vars => [KeepsMarks]_vars
  BY <1>1
<1> QED BY Inductive, <1>2, PTL DEF Spec, MarksKept, KeepsMarks

-----------------------------------------------------------------------------
(* The timetable. *)

\* Two rows conflict with each other.
LEMMA ConflictBoth ==
  ASSUME NEW a \in Row, NEW b \in Row, Conflict(a, b) PROVE Conflict(b, a)
BY DEF Conflict, Overlaps, Row

\* A writer has compared its rows with the slots it has read, but for the one it updates,
\* and the rows with each other.
BatchCompared ==
    \A w \in Writers : pc[w] \in {"insert", "update", "staged"} => \A row \in batch[w] :
        /\ \A s \in Taken \ unread[w] :
             (pc[w] = "update" => s # edits[w]) => ~Conflict(slot[s], row)
        /\ pc[w] # "update" => \A other \in batch[w] : other # row => ~Conflict(other, row)

\* Who is about to replace the periods has seen that the slots he has read keep theirs.
PeriodsCompared ==
    \A w \in Writers : pc[w] = "replace" =>
        \A s \in Taken \ unread[w] : slot[s].to <= wanted[w]

TimetableInv == TimetableTypeOK /\ ConflictsUnchecked /\ BatchCompared /\ PeriodsCompared

LEMMA TimetableInitially == TimetableInit => TimetableInv
BY TimetableAssumption
   DEF TimetableInit, TimetableInv, TimetableTypeOK, ConflictsUnchecked, BatchCompared, PeriodsCompared, Taken, Row

\* A step that leaves the slots as they are, and of writers' readings at most that of w, who
\* returns or begins.
LEMMA OnlyWriter ==
  ASSUME NEW w \in Writers, TimetableInv, UNCHANGED <<slot, unchecked>>,
         \A v \in Writers \ {w} : /\ pc'[v] = pc[v] /\ batch'[v] = batch[v] /\ edits'[v] = edits[v]
                                  /\ wanted'[v] = wanted[v] /\ unread'[v] = unread[v],
         \/ pc'[w] = "idle"
         \/ /\ pc'[w] \in {"insert", "update", "staged"}
            /\ \A row \in batch'[w] :
                 /\ \A s \in Taken \ unread'[w] :
                      (pc'[w] = "update" => s # edits'[w]) => ~Conflict(slot[s], row)
                 /\ pc'[w] # "update" => \A other \in batch'[w] : other # row => ~Conflict(other, row)
         \/ /\ pc'[w] = "replace"
            /\ \A s \in Taken \ unread'[w] : slot[s].to <= wanted'[w]
  PROVE  ConflictsUnchecked' /\ BatchCompared' /\ PeriodsCompared'
<1>1. Taken' = Taken
  BY DEF Taken
<1>2. ConflictsUnchecked'
  BY <1>1 DEF TimetableInv, ConflictsUnchecked
<1>3. BatchCompared'
  <2>1. SUFFICES ASSUME NEW v \in Writers, pc'[v] \in {"insert", "update", "staged"}, NEW row \in batch'[v]
                 PROVE  /\ \A s \in Taken \ unread'[v] :
                             (pc'[v] = "update" => s # edits'[v]) => ~Conflict(slot[s], row)
                        /\ pc'[v] # "update" => \A other \in batch'[v] : other # row => ~Conflict(other, row)
    BY <1>1 DEF BatchCompared
  <2>2. CASE v = w
    BY <2>1, <2>2
  <2>3. CASE v # w
    BY <2>1, <2>3 DEF TimetableInv, BatchCompared
  <2> QED BY <2>2, <2>3
<1>4. PeriodsCompared'
  <2>1. SUFFICES ASSUME NEW v \in Writers, pc'[v] = "replace", NEW s \in Taken \ unread'[v]
                 PROVE  slot[s].to <= wanted'[v]
    BY <1>1 DEF PeriodsCompared
  <2>2. CASE v = w
    BY <2>1, <2>2
  <2>3. CASE v # w
    BY <2>1, <2>3 DEF TimetableInv, PeriodsCompared
  <2> QED BY <2>2, <2>3
<1> QED BY <1>2, <1>3, <1>4

\* What is common to the two ways of writing: writer w sets the rows of S, to rows it has
\* compared with all but its unread slots.
LEMMA WroteStep ==
  ASSUME TimetableInv, NEW w \in Writers, NEW S \in SUBSET Slots,
         pc[w] \in {"insert", "update", "staged"},
         TimetableTypeOK', Wrote(w, S),
         \A s \in Slots \ S : slot'[s] = slot[s],
         \A v \in Writers : /\ pc'[v] = "idle" \/ pc'[v] = pc[v]
                            /\ pc'[v] # "idle" => /\ batch'[v] = batch[v] /\ edits'[v] = edits[v]
                                                  /\ wanted'[v] = wanted[v],
         \A s \in S, t \in Taken \ (unread[w] \cup S) :
             ~Conflict(slot'[s], slot[t]) /\ ~Conflict(slot[t], slot'[s]),
         \A s, t \in S : s # t => ~Conflict(slot'[s], slot'[t])
  PROVE  TimetableInv'
<1>1. \A s \in Slots \ S : s \in Taken' <=> s \in Taken
  BY DEF Taken
<1>2. \A v \in Writers : pc'[v] # "idle" => unread'[v] = unread[v] \cup S
  BY DEF Wrote
<1>3. ConflictsUnchecked'
  <2>1. SUFFICES ASSUME NEW s \in Taken', NEW t \in Taken', s # t, slot'[s].year = slot'[t].year,
                        Conflict(slot'[s], slot'[t])
                 PROVE  <<s, t>> \in unchecked'
    BY DEF ConflictsUnchecked
  <2>2. s \in Slots /\ t \in Slots
    BY DEF Taken
  <2>3. CASE s \in S /\ t \in S
    BY <2>1, <2>3
  <2>4. CASE s \in S /\ t \notin S
    <3>1. t \in Taken /\ slot'[t] = slot[t]
      BY <1>1, <2>2, <2>4
    <3>2. t \in unread[w] \ S
      BY <2>1, <2>4, <3>1
    <3> QED BY <2>4, <3>2 DEF Wrote
  <2>5. CASE s \notin S /\ t \in S
    <3>1. s \in Taken /\ slot'[s] = slot[s]
      BY <1>1, <2>2, <2>5
    <3>2. s \in unread[w] \ S
      BY <2>1, <2>5, <3>1
    <3> QED BY <2>5, <3>2 DEF Wrote
  <2>6. CASE s \notin S /\ t \notin S
    <3>1. s \in Taken /\ t \in Taken /\ slot'[s] = slot[s] /\ slot'[t] = slot[t]
      BY <1>1, <2>2, <2>6
    <3>2. <<s, t>> \in unchecked
      BY <2>1, <3>1 DEF TimetableInv, ConflictsUnchecked
    <3> QED BY <2>6, <3>2 DEF Wrote
  <2> QED BY <2>3, <2>4, <2>5, <2>6
<1>4. BatchCompared'
  <2>1. SUFFICES ASSUME NEW v \in Writers, pc'[v] \in {"insert", "update", "staged"}, NEW row \in batch'[v]
                 PROVE  /\ \A s \in Taken' \ unread'[v] :
                             (pc'[v] = "update" => s # edits'[v]) => ~Conflict(slot'[s], row)
                        /\ pc'[v] # "update" => \A other \in batch'[v] : other # row => ~Conflict(other, row)
    BY DEF BatchCompared
  <2>2. pc'[v] = pc[v] /\ batch'[v] = batch[v] /\ edits'[v] = edits[v] /\ unread'[v] = unread[v] \cup S
    BY <1>2, <2>1
  <2>3. \A s \in Taken' \ unread'[v] : s \in Taken \ unread[v] /\ slot'[s] = slot[s]
    BY <1>1, <2>2 DEF Taken
  <2> QED BY <2>1, <2>2, <2>3 DEF TimetableInv, BatchCompared
<1>5. PeriodsCompared'
  <2>1. SUFFICES ASSUME NEW v \in Writers, pc'[v] = "replace", NEW s \in Taken' \ unread'[v]
                 PROVE  slot'[s].to <= wanted'[v]
    BY DEF PeriodsCompared
  <2>2. pc[v] = "replace" /\ wanted'[v] = wanted[v] /\ s \in Taken \ unread[v] /\ slot'[s] = slot[s]
    BY <1>1, <1>2, <2>1 DEF Taken
  <2> QED BY <2>2 DEF TimetableInv, PeriodsCompared
<1> QED BY <1>3, <1>4, <1>5 DEF TimetableInv

\* The rows that are copied, or that a preview keeps, are rows that fit each other and the
\* slots that were read.
LEMMA AdmittedFit ==
  ASSUME TimetableTypeOK, NEW rows_ \in SUBSET Row, NEW y, NEW A \in Admitted(rows_, OfYear(y))
  PROVE  /\ A \in SUBSET Row
         /\ \A row \in A : /\ \A s \in OfYear(y) : ~Conflict(slot[s], row)
                           /\ \A other \in A : other # row => ~Conflict(other, row)
BY DEF Admitted, Clear

LEMMA CopiedRows ==
  ASSUME TimetableTypeOK, NEW source \in Classes, NEW destination \in Classes
  PROVE  {[slot[s] EXCEPT !.class = destination, !.year = YearOf[destination], !.room = NoRoom] :
            s \in {t \in OfYear(YearOf[source]) : slot[t].class = source}} \in SUBSET Row
BY DEF OfYear, Taken, Row, Years

LEMMA InsertStep ==
  ASSUME TimetableInv, NEW w \in Writers, InsertSlots(w),
         \/ Return(w, "insert")
         \/ pc[w] = "staged" /\ UNCHANGED writerVars
  PROVE  TimetableInv'
<1> USE DEF Return, Advance, writerVars
<1>0. PICK S \in SUBSET {s \in Slots : slot[s] = NoRow} : \E new \in [S -> batch[w]] :
        /\ \A s, t \in S : s # t => new[s] # new[t]
        /\ slot' = [s \in Slots |-> IF s \in S THEN new[s] ELSE slot[s]]
        /\ Wrote(w, S)
  BY DEF InsertSlots
<1>1. PICK new \in [S -> batch[w]] :
        /\ \A s, t \in S : s # t => new[s] # new[t]
        /\ slot' = [s \in Slots |-> IF s \in S THEN new[s] ELSE slot[s]]
        /\ Wrote(w, S)
  BY <1>0
<1>2. pc[w] \in {"insert", "staged"} /\ pc[w] # "update" /\ batch[w] \in SUBSET Row
  BY DEF TimetableInv, TimetableTypeOK
<1>3. S \cap Taken = {}
  BY <1>1, TimetableAssumption DEF Taken
<1>4. TimetableTypeOK'
  <2>1. slot' \in [Slots -> Row \cup {NoRow, Gone}]
    BY <1>1, <1>2 DEF TimetableInv, TimetableTypeOK
  <2>2. unread' \in [Writers -> SUBSET Slots] /\ unchecked' \in SUBSET (Slots \X Slots)
    BY <1>1 DEF Wrote, TimetableInv, TimetableTypeOK
  <2>3. /\ pc' \in [Writers -> {"idle", "insert", "update", "replace", "staged"}]
        /\ batch' \in [Writers -> SUBSET Row]
        /\ edits' \in [Writers -> Slots \cup {NoSlot}]
        /\ wanted' \in [Writers -> Nat]
        /\ \A v \in Writers : pc'[v] = "update" => edits'[v] \in Slots
    BY DEF TimetableInv, TimetableTypeOK
  <2>4. periods' \in Nat /\ rooms' \in SUBSET Rooms
    BY DEF InsertSlots, TimetableInv, TimetableTypeOK
  <2> QED BY <2>1, <2>2, <2>3, <2>4 DEF TimetableTypeOK
<1>5. \A s \in S : slot'[s] = new[s] /\ new[s] \in batch[w] /\ new[s] \in Row
  BY <1>1, <1>2
<1>6. \A s \in S, t \in Taken \ (unread[w] \cup S) :
        ~Conflict(slot'[s], slot[t]) /\ ~Conflict(slot[t], slot'[s])
  <2>1. SUFFICES ASSUME NEW s \in S, NEW t \in Taken \ (unread[w] \cup S)
                 PROVE  ~Conflict(new[s], slot[t]) /\ ~Conflict(slot[t], new[s])
    BY <1>5
  <2>2. ~Conflict(slot[t], new[s])
    BY <1>2, <1>5 DEF TimetableInv, BatchCompared
  <2>3. slot[t] \in Row
    BY DEF Taken
  <2> QED BY <1>5, <2>2, <2>3, ConflictBoth
<1>7. \A s, t \in S : s # t => ~Conflict(slot'[s], slot'[t])
  BY <1>1, <1>2, <1>5 DEF TimetableInv, BatchCompared
<1>8. \A s \in Slots \ S : slot'[s] = slot[s]
  BY <1>1
<1>9. \A v \in Writers : /\ pc'[v] = "idle" \/ pc'[v] = pc[v]
                         /\ pc'[v] # "idle" => /\ batch'[v] = batch[v] /\ edits'[v] = edits[v]
                                               /\ wanted'[v] = wanted[v]
  BY DEF TimetableInv, TimetableTypeOK
<1> QED BY <1>1, <1>2, <1>4, <1>6, <1>7, <1>8, <1>9, WroteStep

LEMMA WriteStep ==
  ASSUME TimetableInv, NEW r \in Requests, WriteSlot(r) PROVE TimetableInv'
<1> USE DEF Return, Advance, Writers
<1> DEFINE s == edits[r]
<1>1. PICK row \in batch[r] : slot' = [slot EXCEPT ![s] = [row EXCEPT !.year = slot[s].year]]
  BY DEF WriteSlot
<1>2. /\ pc[r] = "update" /\ s \in Taken /\ s \in Slots /\ row \in Row /\ slot[s] \in Row
      /\ Wrote(r, {s})
  BY <1>1 DEF WriteSlot, TimetableInv, TimetableTypeOK, Taken
<1>3. /\ slot'[s] \in Row
      /\ \A t : Conflict(slot[t], slot'[s]) <=> Conflict(slot[t], row)
  BY <1>1, <1>2 DEF Row, TimetableInv, TimetableTypeOK, Conflict, Overlaps
<1>4. TimetableTypeOK'
  <2>1. slot' \in [Slots -> Row \cup {NoRow, Gone}]
    BY <1>1, <1>2, <1>3 DEF TimetableInv, TimetableTypeOK
  <2>2. unread' \in [Writers -> SUBSET Slots] /\ unchecked' \in SUBSET (Slots \X Slots)
    BY <1>2 DEF Wrote, TimetableInv, TimetableTypeOK
  <2>3. /\ pc' \in [Writers -> {"idle", "insert", "update", "replace", "staged"}]
        /\ batch' \in [Writers -> SUBSET Row]
        /\ edits' \in [Writers -> Slots \cup {NoSlot}]
        /\ wanted' \in [Writers -> Nat]
        /\ \A v \in Writers : pc'[v] = "update" => edits'[v] \in Slots
    BY DEF WriteSlot, TimetableInv, TimetableTypeOK
  <2>4. periods' \in Nat /\ rooms' \in SUBSET Rooms
    BY DEF WriteSlot, TimetableInv, TimetableTypeOK
  <2> QED BY <2>1, <2>2, <2>3, <2>4 DEF TimetableTypeOK
<1>5. \A t \in Taken \ (unread[r] \cup {s}) :
        ~Conflict(slot'[s], slot[t]) /\ ~Conflict(slot[t], slot'[s])
  <2>1. SUFFICES ASSUME NEW t \in Taken \ (unread[r] \cup {s})
                 PROVE  ~Conflict(slot'[s], slot[t]) /\ ~Conflict(slot[t], slot'[s])
    OBVIOUS
  <2>2. ~Conflict(slot[t], row)
    BY <1>2 DEF TimetableInv, BatchCompared
  <2>3. slot[t] \in Row
    BY DEF Taken
  <2> QED BY <1>3, <2>2, <2>3, ConflictBoth
<1>6. \A t \in Slots \ {s} : slot'[t] = slot[t]
  BY <1>1 DEF TimetableInv, TimetableTypeOK
<1>7. \A v \in Writers : /\ pc'[v] = "idle" \/ pc'[v] = pc[v]
                         /\ pc'[v] # "idle" => /\ batch'[v] = batch[v] /\ edits'[v] = edits[v]
                                               /\ wanted'[v] = wanted[v]
  BY DEF WriteSlot, TimetableInv, TimetableTypeOK
<1> HIDE DEF s, Return, Advance
<1> QED BY <1>2, <1>4, <1>5, <1>6, <1>7, WroteStep

\* Each step of the timetable keeps what its writers have compared.
LEMMA TimetableStep == TimetableInv /\ [TimetableNext]_timetableVars => TimetableInv'
<1> SUFFICES ASSUME TimetableInv, [TimetableNext]_timetableVars PROVE TimetableInv'
  OBVIOUS
<1> USE DEF Advance
<1>0. TimetableTypeOK
  BY DEF TimetableInv
<1>1. ASSUME NEW r \in Requests, NEW row \in Rows, CreateSlot(r, row) PROVE TimetableInv'
  <2>1. TimetableTypeOK' /\ r \in Writers
    BY <1>0, <1>1, TimetableAssumption DEF CreateSlot, Read, tables, Taken, TimetableTypeOK, Writers
  <2>2. /\ pc'[r] = "insert" /\ batch'[r] = {row} /\ unread'[r] = Taken \ OfYear(row.year)
        /\ \A s \in OfYear(row.year) : ~Conflict(slot[s], row)
    BY <1>0, <1>1 DEF CreateSlot, Read, Clear, TimetableTypeOK, Writers
  <2> QED BY <1>1, <2>1, <2>2, OnlyWriter DEF CreateSlot, Read, tables, TimetableInv, TimetableTypeOK
<1>2. ASSUME NEW r \in Requests, NEW s \in Slots, NEW row \in Rows, UpdateSlot(r, s, row) PROVE TimetableInv'
  <2>1. TimetableTypeOK' /\ r \in Writers
    BY <1>0, <1>2, TimetableAssumption DEF UpdateSlot, Read, tables, Taken, TimetableTypeOK, Writers
  <2>2. /\ pc'[r] = "update" /\ batch'[r] = {row} /\ edits'[r] = s
        /\ unread'[r] = Taken \ OfYear(row.year)
        /\ \A t \in OfYear(row.year) \ {s} : ~Conflict(slot[t], row)
    BY <1>0, <1>2 DEF UpdateSlot, Read, Clear, TimetableTypeOK, Writers
  <2> QED BY <1>2, <2>1, <2>2, OnlyWriter DEF UpdateSlot, Read, tables, TimetableInv, TimetableTypeOK
<1>3. ASSUME NEW r \in Requests, NEW source \in Classes, NEW destination \in Classes,
             CopySchedule(r, source, destination)
      PROVE  TimetableInv'
  <2> DEFINE copied == {[slot[s] EXCEPT !.class = destination, !.year = YearOf[destination], !.room = NoRoom] :
                          s \in {t \in OfYear(YearOf[source]) : slot[t].class = source}}
  <2>1. PICK A \in Admitted(copied, OfYear(YearOf[destination])) : batch' = [batch EXCEPT ![r] = A]
    BY <1>3 DEF CopySchedule
  <2>2. copied \in SUBSET Row
    BY <1>0, CopiedRows
  <2>3. /\ A \in SUBSET Row
        /\ \A row \in A : /\ \A s \in OfYear(YearOf[destination]) : ~Conflict(slot[s], row)
                          /\ \A other \in A : other # row => ~Conflict(other, row)
    <3> HIDE DEF copied
    <3> QED BY <1>0, <2>1, <2>2, AdmittedFit
  <2>4. TimetableTypeOK' /\ r \in Writers
    BY <1>0, <1>3, <2>1, <2>3 DEF CopySchedule, Read, tables, Taken, TimetableTypeOK, Writers
  <2>5. pc'[r] = "insert" /\ batch'[r] = A /\ unread'[r] = Taken \ OfYear(YearOf[destination])
    BY <1>0, <1>3, <2>1 DEF CopySchedule, Read, TimetableTypeOK, Writers
  <2> HIDE DEF copied
  <2> QED BY <1>3, <2>1, <2>3, <2>4, <2>5, OnlyWriter DEF CopySchedule, Read, tables, TimetableInv, TimetableTypeOK
<1>4. ASSUME NEW r \in Requests, NEW n \in 1..MaxPeriod, ReplacePeriods(r, n) PROVE TimetableInv'
  <2>1. TimetableTypeOK' /\ r \in Writers
    BY <1>0, <1>4, TimetableAssumption DEF ReplacePeriods, tables, TimetableTypeOK, Writers
  <2>2. pc'[r] = "replace" /\ wanted'[r] = n /\ \A s \in Taken : slot[s].to <= n
    BY <1>0, <1>4 DEF ReplacePeriods, TimetableTypeOK, Writers
  <2> QED BY <1>4, <2>1, <2>2, OnlyWriter DEF ReplacePeriods, tables, TimetableInv, TimetableTypeOK
<1>5. ASSUME NEW r \in Requests, InsertBatch(r) PROVE TimetableInv'
  BY <1>5, InsertStep DEF InsertBatch, Writers
<1>6. ASSUME NEW r \in Requests, WriteSlot(r) PROVE TimetableInv'
  BY <1>6, WriteStep
<1>7. ASSUME NEW r \in Writers, unread' = [unread EXCEPT ![r] = {}], slot' = slot, rooms' = rooms,
             unchecked' = unchecked, periods' \in Nat, NEW from, Return(r, from)
      PROVE  TimetableInv'
  <2>1. TimetableTypeOK' /\ pc'[r] = "idle"
    BY <1>0, <1>7 DEF Return, TimetableTypeOK
  <2> QED BY <1>7, <2>1, OnlyWriter DEF Return, TimetableInv, TimetableTypeOK
<1>8. ASSUME NEW r \in Requests, WritePeriods(r) PROVE TimetableInv'
  BY <1>0, <1>7, <1>8 DEF WritePeriods, Writers, TimetableTypeOK
<1>9. ASSUME NEW r \in Requests, Fail(r) PROVE TimetableInv'
  BY <1>0, <1>7, <1>9 DEF Fail, tables, Writers, TimetableTypeOK
<1>10. ASSUME NEW u \in Uploads, UploadExpires(u) PROVE TimetableInv'
  BY <1>0, <1>7, <1>10 DEF UploadExpires, tables, Writers, TimetableTypeOK
<1>11. ASSUME NEW u \in Uploads, NEW file \in Files, PreviewScheduleImport(u, file) PROVE TimetableInv'
  <2>1. PICK y \in Years :
          /\ \E A \in Admitted(file, OfYear(y)) \ {{}} : batch' = [batch EXCEPT ![u] = A]
          /\ Read(u, y)
    BY <1>11 DEF PreviewScheduleImport
  <2>2. PICK A \in Admitted(file, OfYear(y)) : batch' = [batch EXCEPT ![u] = A]
    BY <2>1
  <2>3. /\ A \in SUBSET Row
        /\ \A row \in A : /\ \A s \in OfYear(y) : ~Conflict(slot[s], row)
                          /\ \A other \in A : other # row => ~Conflict(other, row)
    BY <1>0, <2>2, TimetableAssumption, AdmittedFit
  <2>4. TimetableTypeOK' /\ u \in Writers
    BY <1>0, <1>11, <2>1, <2>2, <2>3 DEF PreviewScheduleImport, Read, tables, Taken, TimetableTypeOK, Writers
  <2>5. pc'[u] = "staged" /\ batch'[u] = A /\ unread'[u] = Taken \ OfYear(y)
    BY <1>0, <1>11, <2>1, <2>2 DEF PreviewScheduleImport, Read, TimetableTypeOK, Writers
  <2> QED BY <1>11, <2>1, <2>2, <2>3, <2>4, <2>5, OnlyWriter
          DEF PreviewScheduleImport, Read, tables, TimetableInv, TimetableTypeOK
<1>12. ASSUME NEW u \in Uploads, CommitScheduleImport(u) PROVE TimetableInv'
  BY <1>12, InsertStep DEF CommitScheduleImport, Writers
<1>13. ASSUME NEW s \in Slots, DeleteSlot(s) PROVE TimetableInv'
  <2>1. TimetableTypeOK'
    BY <1>0, <1>13 DEF DeleteSlot, writerVars, TimetableTypeOK
  <2>2. /\ Taken' = Taken \ {s} /\ \A t \in Taken' : slot'[t] = slot[t]
        /\ \A w \in Writers : Taken' \ unread'[w] \subseteq Taken \ unread[w]
    BY <1>0, <1>13, TimetableAssumption DEF DeleteSlot, Taken, TimetableTypeOK
  <2>3. ConflictsUnchecked'
    BY <1>13, <2>2 DEF DeleteSlot, TimetableInv, ConflictsUnchecked
  <2>4. BatchCompared' /\ PeriodsCompared'
    BY <1>13, <2>2 DEF DeleteSlot, writerVars, TimetableInv, BatchCompared, PeriodsCompared
  <2> QED BY <2>1, <2>3, <2>4 DEF TimetableInv
<1>14. ASSUME rooms' \in SUBSET Rooms, UNCHANGED <<slot, periods, writerVars, timetableHistory>> PROVE TimetableInv'
  BY <1>14 DEF timetableHistory, writerVars, TimetableInv, TimetableTypeOK, ConflictsUnchecked, BatchCompared,
               PeriodsCompared, Taken
<1>15. ASSUME NEW room \in Rooms, DeleteRoom(room) \/ CreateRoom(room) PROVE TimetableInv'
  BY <1>0, <1>14, <1>15 DEF DeleteRoom, CreateRoom, TimetableTypeOK
<1>16. CASE UNCHANGED timetableVars
  BY <1>0, <1>14, <1>16 DEF timetableVars, tables, TimetableTypeOK
<1> QED BY <1>1, <1>2, <1>3, <1>4, <1>5, <1>6, <1>8, <1>9, <1>10, <1>11, <1>12, <1>13, <1>15, <1>16
        DEF TimetableNext

LEMMA TimetableInductive == TimetableSpec => []TimetableInv
BY TimetableInitially, TimetableStep, PTL DEF TimetableSpec

\* The rows of the timetable, and what the writers hold, are of their types.
THEOREM TimetableTypeCorrect == TimetableSpec => []TimetableTypeOK
<1>1. TimetableInv => TimetableTypeOK
  BY DEF TimetableInv
<1> QED BY <1>1, TimetableInductive, PTL

\* Two slots that conflict have never been compared, whatever the numbers of requests,
\* previews and slots (CreateSlotChecked, UpdateSlotChecked, CopySchedule, the import).
THEOREM ConflictsAlwaysUnchecked == TimetableSpec => []ConflictsUnchecked
<1>1. TimetableInv => ConflictsUnchecked
  BY DEF TimetableInv
<1> QED BY <1>1, TimetableInductive, PTL

LEMMA PeriodsStep ==
  TimetableInv /\ [TimetableNext]_timetableVars =>
    \A s \in Taken : slot[s].to <= periods /\ slot[s].to > periods' =>
        \E r \in Requests : pc[r] = "replace" /\ pc'[r] = "idle" /\ s \in unread[r]
<1> SUFFICES ASSUME TimetableInv, [TimetableNext]_timetableVars, NEW s \in Taken,
                    slot[s].to <= periods, slot[s].to > periods'
             PROVE  \E r \in Requests : pc[r] = "replace" /\ pc'[r] = "idle" /\ s \in unread[r]
  OBVIOUS
<1>1. periods' # periods
  BY DEF TimetableInv, TimetableTypeOK, Taken, Row
<1>2. PICK r \in Requests : WritePeriods(r)
  BY <1>1 DEF TimetableNext, timetableVars, tables, writerVars, timetableHistory, CreateSlot, UpdateSlot, CopySchedule,
     ReplacePeriods, InsertBatch, InsertSlots, WriteSlot, Fail, PreviewScheduleImport,
     CommitScheduleImport, UploadExpires, DeleteSlot, DeleteRoom, CreateRoom
<1>3. pc[r] = "replace" /\ pc'[r] = "idle" /\ periods' = wanted[r]
  BY <1>2 DEF WritePeriods, Return, Advance, TimetableInv, TimetableTypeOK, Writers
<1>4. s \in unread[r]
  <2>1. slot[s].to \in Nat /\ wanted[r] \in Nat
    BY DEF TimetableInv, TimetableTypeOK, Taken, Row, Writers
  <2>2. ~(slot[s].to <= wanted[r])
    BY <1>3, <2>1
  <2> QED BY <1>3, <2>2 DEF TimetableInv, PeriodsCompared, Writers
<1> QED BY <1>3, <1>4

\* New periods never take away a number that a slot had when the numbers were read
\* (ReplacePeriods).
THEOREM PeriodsAlwaysKept == TimetableSpec => PeriodsKept
<1>1. TimetableInv /\ [TimetableNext]_timetableVars =>
        [\A s \in Taken : slot[s].to <= periods /\ slot[s].to > periods' =>
           \E r \in Requests : pc[r] = "replace" /\ pc'[r] = "idle" /\ s \in unread[r]]_timetableVars
  BY PeriodsStep
<1> QED BY <1>1, TimetableInductive, PTL DEF TimetableSpec, PeriodsKept

-----------------------------------------------------------------------------
(* Substitutes, journals and sessions. *)

\* A slot that was there is there, or has gone for good.
LEMMA SlotsLast ==
  ASSUME TimetableInv, TimetableNext, NEW s \in Slots, slot[s] # NoRow
  PROVE  \/ slot[s] \in Row /\ slot'[s] \in Row
         \/ slot'[s] = Gone
<1>1. slot[s] \in Row \/ slot[s] = Gone
  BY DEF TimetableInv, TimetableTypeOK
<1>2. TimetableTypeOK'
  BY TimetableStep DEF TimetableInv
<1>3. CASE slot' = slot
  BY <1>1, <1>3
<1>4. ASSUME NEW w \in Writers, InsertSlots(w) PROVE slot'[s] = slot[s]
  BY <1>4 DEF InsertSlots
<1>5. ASSUME NEW r \in Requests, WriteSlot(r) PROVE slot'[s] = slot[s] \/ slot[s] \in Row
  BY <1>5 DEF WriteSlot, TimetableInv, TimetableTypeOK, Taken
<1>6. ASSUME NEW r \in Requests, WriteSlot(r) PROVE slot[s] \in Row => slot'[s] \in Row
  <2>1. PICK row \in batch[r] : slot' = [slot EXCEPT ![edits[r]] = [row EXCEPT !.year = slot[edits[r]].year]]
    BY <1>6 DEF WriteSlot
  <2>2. row \in Row /\ edits[r] \in Taken
    BY <1>6, <2>1 DEF WriteSlot, TimetableInv, TimetableTypeOK, Writers
  <2> QED BY <2>1, <2>2 DEF TimetableInv, TimetableTypeOK, Taken, Row
<1>7. ASSUME NEW t \in Slots, DeleteSlot(t) PROVE slot'[s] = slot[s] \/ slot'[s] = Gone
  BY <1>7 DEF DeleteSlot, TimetableInv, TimetableTypeOK
<1>8. \/ slot' = slot
      \/ \E w \in Writers : InsertSlots(w)
      \/ \E r \in Requests : WriteSlot(r)
      \/ \E t \in Slots : DeleteSlot(t)
  BY DEF TimetableNext, tables, CreateSlot, UpdateSlot, CopySchedule, ReplacePeriods, InsertBatch, WritePeriods, Fail,
     PreviewScheduleImport, CommitScheduleImport, UploadExpires, DeleteRoom, CreateRoom, Writers
<1> QED BY <1>1, <1>3, <1>4, <1>5, <1>6, <1>7, <1>8

\* Its slot is taught on the weekday of the lesson, if it has not been moved.
Fits(k) == k \in shifted \/ (k[1] \in Taken => slot[k[1]].day = DayOf[k[2]])

\* Its slot is one of class cls, if it has not been moved.
IsOf(k, cls) == k \in shifted \/ (k[1] \in Taken => slot[k[1]].class = cls)

\* What has been stored of a lesson: a foreign key keeps its slot.
StoredStands ==
    \A k \in Lessons :
        /\ taughtBy[k] = NoTeacher <=> taught[k] = NoClass
        /\ taughtBy[k] # NoTeacher => k[1] \in Taken /\ Fits(k) /\ IsOf(k, taught[k])
        /\ attendanceOf[k] # NoClass => k[1] \in Taken /\ IsOf(k, attendanceOf[k])
        /\ decision[k] # "none" => substitute[k] \in Teachers /\ k[1] \in requested \cap Taken /\ Fits(k)

\* What a call has read of its lesson.
CallStands(c) ==
    /\ lesson[c] \in Lessons /\ slot[lesson[c][1]] # NoRow
    /\ handlerPc[c] # "session" => user[c] \in Teachers /\ Fits(lesson[c])
    /\ handlerPc[c] # "request" => class[c] \in Classes /\ IsOf(lesson[c], class[c])
    /\ handlerPc[c] = "insert" /\ as[c] =>
         decision[lesson[c]] = "accepted" /\ substitute[lesson[c]] = user[c]

CallsStand == \A c \in Handlers : handlerPc[c] # "idle" => CallStands(c)

DayInv == /\ TimetableInv /\ DayTypeOK /\ requested \subseteq Taken
          /\ StoredStands /\ CallsStand
          /\ SubstituteAccepted /\ JournalHasSession

LEMMA DayInitially == DayInit => DayInv
<1> SUFFICES ASSUME DayInit PROVE DayInv
  OBVIOUS
<1>1. TimetableInv
  BY TimetableInitially DEF DayInit
<1>2. DayTypeOK
  BY <1>1, TeachingAssumption DEF DayInit, DayTypeOK, TimetableInv
<1> QED BY <1>1, <1>2 DEF DayInit, DayInv, StoredStands, CallsStand, SubstituteAccepted, JournalHasSession

\* An edit of the timetable: what is in use stays as it is, or is known as moved.
LEMMA EditStep == DayInv /\ EditTimetable => DayInv'
<1> SUFFICES ASSUME DayInv, EditTimetable PROVE DayInv'
  OBVIOUS
<1> USE DEF calls, requests, journals, calendar
<1>1. TimetableInv' /\ DayTypeOK'
  BY TimetableStep DEF DayInv, EditTimetable, DayTypeOK, TimetableInv
<1>2. ASSUME NEW s \in Slots, slot[s] # NoRow
      PROVE  /\ slot'[s] # NoRow
             /\ s \in Taken' => s \in Taken
             /\ s \in Taken => s \in Taken' \/ slot'[s] = Gone
  BY <1>2, SlotsLast, TimetableAssumption DEF DayInv, EditTimetable, Taken
<1>3. ASSUME NEW k \in Lessons, InUse(k), slot[k[1]] # NoRow
      PROVE  /\ Fits(k) => Fits(k)'
             /\ \A cls : IsOf(k, cls) => IsOf(k, cls)'
  <2>1. k[1] \in Slots
    BY DEF Lessons
  <2>2. k[1] \in Taken' => k[1] \in Taken /\ slot'[k[1]] \in Row
    BY <1>2, <1>3, <2>1 DEF Taken
  <2>3. k[1] \in Taken' => \/ k \in shifted'
                           \/ slot'[k[1]].day = slot[k[1]].day /\ slot'[k[1]].class = slot[k[1]].class
    BY <1>3, <2>2 DEF EditTimetable
  <2>4. shifted \subseteq shifted'
    BY DEF EditTimetable
  <2> QED BY <2>2, <2>3, <2>4 DEF Fits, IsOf
<1>4. requested' \subseteq Taken'
  BY <1>2, TimetableAssumption DEF DayInv, EditTimetable, Taken
<1>5. StoredStands'
  <2>1. ASSUME NEW k \in Lessons, taughtBy[k] # NoTeacher \/ attendanceOf[k] # NoClass \/ decision[k] # "none"
        PROVE  k[1] \in Taken /\ k[1] \in Taken' /\ InUse(k) /\ slot[k[1]] # NoRow
    <3>1. k[1] \in Taken /\ k[1] \in Slots /\ k = <<k[1], k[2]>> /\ k[2] \in Dates
      BY <2>1 DEF DayInv, StoredStands, Lessons
    <3>2. slot'[k[1]] # Gone
      BY <2>1, <3>1 DEF EditTimetable, DayInv, StoredStands
    <3> QED BY <1>2, <2>1, <3>1, <3>2, TimetableAssumption DEF InUse, Taken
  <2> QED BY <1>3, <2>1 DEF EditTimetable, DayInv, StoredStands
<1>6. CallsStand'
  <2>1. ASSUME NEW c \in Handlers, handlerPc[c] # "idle"
        PROVE  /\ lesson[c] \in Lessons /\ slot'[lesson[c][1]] # NoRow
               /\ Fits(lesson[c]) => Fits(lesson[c])'
               /\ \A cls : IsOf(lesson[c], cls) => IsOf(lesson[c], cls)'
    <3>1. lesson[c] \in Lessons /\ slot[lesson[c][1]] # NoRow /\ lesson[c][1] \in Slots
      BY <2>1 DEF DayInv, CallsStand, CallStands, Lessons
    <3>2. InUse(lesson[c])
      BY DEF InUse
    <3>3. lesson'[c] = lesson[c]
      BY DEF EditTimetable
    <3> QED BY <1>2, <1>3, <3>1, <3>2, <3>3 DEF Fits, IsOf
  <2> QED BY <2>1 DEF EditTimetable, DayInv, CallsStand, CallStands
<1>7. SubstituteAccepted' /\ JournalHasSession'
  BY DEF EditTimetable, DayInv, SubstituteAccepted, JournalHasSession
<1> QED BY <1>1, <1>4, <1>5, <1>6, <1>7 DEF DayInv

\* Where the timetable stays as it is, so does what fits it.
LEMMA SameTimetable ==
  ASSUME DayInv, UNCHANGED <<timetableVars, shifted>>
  PROVE  /\ TimetableInv' /\ TimetableTypeOK' /\ Taken' = Taken /\ slot' = slot
         /\ \A k : Fits(k)' <=> Fits(k)
         /\ \A k, cls : IsOf(k, cls)' <=> IsOf(k, cls)
<1>1. TimetableInv'
  BY TimetableStep DEF DayInv
<1>2. Taken' = Taken /\ slot' = slot
  BY DEF timetableVars, tables, Taken
<1> QED BY <1>1, <1>2 DEF TimetableInv, Fits, IsOf

\* What a call has read stands while others move.
LEMMA OthersStand ==
  ASSUME DayInv, NEW b \in Handlers, UNCHANGED <<timetableVars, shifted>>, handlerPc'[b] # "idle",
         handlerPc'[b] = handlerPc[b], lesson'[b] = lesson[b], user'[b] = user[b], class'[b] = class[b], as'[b] = as[b],
         \A k \in Lessons : decision[k] = "accepted" => decision'[k] = "accepted" /\ substitute'[k] = substitute[k]
  PROVE  CallStands(b)'
<1>1. slot' = slot /\ Taken' = Taken /\ shifted' = shifted
  BY SameTimetable
<1>2. CallStands(b)
  BY DEF DayInv, CallsStand
<1>3. lesson[b] \in Lessons
  BY <1>2 DEF CallStands
<1>4. handlerPc'[b] = "insert" /\ as'[b] => decision'[lesson'[b]] = "accepted" /\ substitute'[lesson'[b]] = user'[b]
  BY <1>2, <1>3 DEF CallStands
<1> QED BY <1>1, <1>2, <1>4 DEF CallStands, Fits, IsOf

\* A call ends.
LEMMA CallEnds ==
  ASSUME DayInv, NEW c \in Handlers, NEW from, End(c, from), UNCHANGED <<timetableVars, shifted>>,
         \A k \in Lessons : decision[k] = "accepted" => decision'[k] = "accepted" /\ substitute'[k] = substitute[k]
  PROVE  /\ CallsStand'
         /\ handlerPc[c] = from /\ handlerPc'[c] = "idle"
         /\ \A b \in Handlers \ {c} : handlerPc'[b] = handlerPc[b] /\ lesson'[b] = lesson[b]
         /\ handlerPc' \in [Handlers -> {"idle", "request", "insert", "open", "create", "session"}]
         /\ lesson' \in [Handlers -> Lessons \cup {NoLesson}]
         /\ user' \in [Handlers -> Teachers \cup {NoTeacher}]
         /\ as' \in [Handlers -> BOOLEAN] /\ class' \in [Handlers -> Classes \cup {NoClass}]
<1> USE DEF End, Step
<1>1. /\ handlerPc'[c] = "idle"
      /\ \A b \in Handlers \ {c} : /\ handlerPc'[b] = handlerPc[b] /\ lesson'[b] = lesson[b]
                                   /\ user'[b] = user[b] /\ class'[b] = class[b] /\ as'[b] = as[b]
  BY DEF DayInv, DayTypeOK
<1>2. CallsStand'
  <2>1. ASSUME NEW b \in Handlers, handlerPc'[b] # "idle" PROVE CallStands(b)'
    BY <1>1, <2>1, OthersStand
  <2> QED BY <2>1 DEF CallsStand
<1> QED BY <1>1, <1>2 DEF DayInv, DayTypeOK

\* Every other step.
LEMMA CallStep ==
  ASSUME DayInv, UNCHANGED <<timetableVars, shifted>>, DayNext \/ UNCHANGED schoolVars
  PROVE  EditTimetable \/ DayInv'
<1> USE DEF Step, End, calendar, calls, requests, journals
<1>1. /\ TimetableInv' /\ TimetableTypeOK' /\ Taken' = Taken /\ slot' = slot
      /\ \A k : Fits(k)' <=> Fits(k)
      /\ \A k, cls : IsOf(k, cls)' <=> IsOf(k, cls)
  BY SameTimetable
<1>2. DayTypeOK /\ TeachingAssumption /\ TimetableInv
  BY TeachingAssumption DEF DayInv
<1>3. CASE Tomorrow
  BY <1>1, <1>2, <1>3 DEF Tomorrow, DayInv, DayTypeOK, StoredStands, CallsStand, CallStands, SubstituteAccepted, JournalHasSession
<1>13. ASSUME NEW y \in SchoolYears, ActivateYear(y) PROVE DayInv'
  BY <1>1, <1>2, <1>13
  DEF ActivateYear, DayInv, DayTypeOK, StoredStands, CallsStand, CallStands, SubstituteAccepted, JournalHasSession
<1>4. ASSUME NEW c \in Handlers, NEW s \in Slots, NEW d \in Dates, NEW u \in Teachers, Request(c, s, d, u) PROVE DayInv'
  <2>1. DayTypeOK'
    BY <1>1, <1>2, <1>4 DEF Request, DayTypeOK, Lessons
  <2>2. <<s, d>> \in Lessons /\ slot[s] # NoRow /\ Fits(<<s, d>>)
    BY <1>4, TimetableAssumption DEF Request, Lessons, Taken, Fits
  <2>3. StoredStands' /\ requested' \subseteq Taken' /\ SubstituteAccepted'
    BY <1>1, <1>4 DEF Request, DayInv, StoredStands, SubstituteAccepted
  <2>4. /\ handlerPc'[c] = "request" /\ lesson'[c] = <<s, d>> /\ user'[c] = u
        /\ \A b \in Handlers \ {c} : /\ handlerPc'[b] = handlerPc[b] /\ lesson'[b] = lesson[b]
                                     /\ user'[b] = user[b] /\ class'[b] = class[b] /\ as'[b] = as[b]
    BY <1>2, <1>4 DEF Request, DayTypeOK
  <2>5. CallsStand'
    <3>1. CallStands(c)'
      <4>1. slot' = slot /\ Taken' = Taken /\ shifted' = shifted /\ slot'[lesson'[c][1]] # NoRow
        BY <1>1, <1>4, <2>2, <2>4 DEF Request
      <4>2. Fits(lesson[c])'
        BY <2>2, <2>4, <4>1 DEF Fits
      <4> QED BY <2>2, <2>4, <4>1, <4>2 DEF CallStands
    <3>2. ASSUME NEW b \in Handlers \ {c}, handlerPc'[b] # "idle" PROVE CallStands(b)'
      BY <1>4, <2>4, <3>2, OthersStand DEF Request
    <3> QED BY <3>1, <3>2 DEF CallsStand
  <2>6. JournalHasSession'
    BY <1>4, <2>4 DEF Request, DayInv, JournalHasSession
  <2> QED BY <1>1, <2>1, <2>3, <2>5, <2>6 DEF DayInv
<1>5. ASSUME NEW c \in Handlers, NEW t \in Teachers, NEW p \in 1..MaxPeriod, NEW room \in Rooms, Scan(c, t, p, room)
      PROVE  DayInv'
  <2> DEFINE own == SlotNow(t, p)
  <2>1. PICK s \in IF own # {} THEN own ELSE SubstituteSlotNow(t, p, room) :
          /\ handlerPc[c] = "idle"
          /\ handlerPc' = [handlerPc EXCEPT ![c] = IF taughtBy[<<s, today>>] # NoTeacher THEN "open" ELSE "insert"]
          /\ lesson' = [lesson EXCEPT ![c] = <<s, today>>] /\ user' = [user EXCEPT ![c] = t]
          /\ as' = [as EXCEPT ![c] = (own = {})]
          /\ class' = [class EXCEPT ![c] = slot[s].class]
          /\ UNCHANGED <<timetableVars, calendar, requests, journals, attendanceOf, shifted, cut>>
    BY <1>5 DEF Scan
  <2> DEFINE k == <<s, today>>
  <2>2. s \in Slots /\ s \in Taken /\ k \in Lessons /\ slot[s] # NoRow /\ slot[s].class \in Classes
    <3>1. s \in Taken
      BY <2>1 DEF SlotNow, SubstituteSlotNow, SlotsForDayOfWeek
    <3> QED BY <1>2, <3>1, TimetableAssumption DEF Taken, Lessons, DayTypeOK, Row
  <2>3. Fits(k) /\ IsOf(k, slot[s].class)
    <3>1. CASE own # {}
      BY <2>1, <3>1 DEF SlotNow, SlotsForDayOfWeek, Fits, IsOf
    <3>2. CASE own = {}
      <4>1. decision[k] = "accepted"
        BY <2>1, <3>2 DEF SubstituteSlotNow
      <4>2. Fits(k)
        BY <2>2, <4>1 DEF DayInv, StoredStands
      <4> QED BY <4>2 DEF IsOf
    <3> QED BY <3>1, <3>2
  <2>4. own = {} => decision[k] = "accepted" /\ substitute[k] = t
    BY <2>1 DEF SubstituteSlotNow
  <2> HIDE DEF own
  <2>5. DayTypeOK'
    BY <1>1, <1>2, <2>1, <2>2 DEF DayTypeOK
  <2>6. StoredStands' /\ requested' \subseteq Taken' /\ SubstituteAccepted'
    BY <1>1, <2>1 DEF DayInv, StoredStands, SubstituteAccepted
  <2>7. /\ handlerPc'[c] \in {"open", "insert"} /\ lesson'[c] = k /\ user'[c] = t /\ class'[c] = slot[s].class
        /\ as'[c] = (own = {})
        /\ \A b \in Handlers \ {c} : /\ handlerPc'[b] = handlerPc[b] /\ lesson'[b] = lesson[b]
                                     /\ user'[b] = user[b] /\ class'[b] = class[b] /\ as'[b] = as[b]
    BY <1>2, <2>1 DEF DayTypeOK
  <2>8. CallsStand'
    <3>1. CallStands(c)'
      <4>1. /\ slot' = slot /\ Taken' = Taken /\ shifted' = shifted /\ slot'[lesson'[c][1]] # NoRow
            /\ decision' = decision /\ substitute' = substitute
        BY <1>1, <2>1, <2>2, <2>7
      <4>2. Fits(lesson[c])' /\ IsOf(lesson[c], class[c])'
        BY <2>3, <2>7, <4>1 DEF Fits, IsOf
      <4>3. as'[c] => decision'[lesson'[c]] = "accepted" /\ substitute'[lesson'[c]] = user'[c]
        BY <2>4, <2>7, <4>1
      <4> QED BY <2>2, <2>7, <4>1, <4>2, <4>3 DEF CallStands
    <3>2. ASSUME NEW b \in Handlers \ {c}, handlerPc'[b] # "idle" PROVE CallStands(b)'
      BY <2>1, <2>7, <3>2, OthersStand
    <3> QED BY <3>1, <3>2 DEF CallsStand
  <2>9. JournalHasSession'
    BY <2>1, <2>7 DEF DayInv, JournalHasSession
  <2> QED BY <1>1, <2>5, <2>6, <2>8, <2>9 DEF DayInv
<1>6. ASSUME NEW c \in Handlers, CreateRequest(c) PROVE DayInv'
  <2> DEFINE k == lesson[c]
  <2>1. /\ End(c, "request") /\ decision[k] = "none" /\ k[1] \in Taken
        /\ decision' = [decision EXCEPT ![k] = "pending"] /\ substitute' = [substitute EXCEPT ![k] = user[c]]
        /\ requested' = requested \cup {k[1]}
        /\ UNCHANGED <<timetableVars, calendar, journals, attendanceOf, shifted, cut>>
    BY <1>6 DEF CreateRequest
  <2>2. k \in Lessons /\ user[c] \in Teachers /\ Fits(k)
    BY <2>1 DEF DayInv, CallsStand, CallStands
  <2>3. \A j \in Lessons : decision[j] = "accepted" => decision'[j] = "accepted" /\ substitute'[j] = substitute[j]
    BY <1>2, <2>1 DEF DayTypeOK
  <2> HIDE DEF Step, End
  <2>4. /\ CallsStand' /\ handlerPc[c] = "request"
        /\ \A b \in Handlers \ {c} : handlerPc'[b] = handlerPc[b] /\ lesson'[b] = lesson[b]
        /\ handlerPc' \in [Handlers -> {"idle", "request", "insert", "open", "create", "session"}]
        /\ lesson' \in [Handlers -> Lessons \cup {NoLesson}]
        /\ user' \in [Handlers -> Teachers \cup {NoTeacher}]
        /\ as' \in [Handlers -> BOOLEAN] /\ class' \in [Handlers -> Classes \cup {NoClass}]
    BY <2>1, <2>3, CallEnds
  <2>5. DayTypeOK'
    BY <1>1, <1>2, <2>1, <2>2, <2>4 DEF DayTypeOK, Taken
  <2>6. StoredStands'
    BY <1>1, <1>2, <2>1, <2>2 DEF DayInv, DayTypeOK, StoredStands
  <2>7. SubstituteAccepted' /\ JournalHasSession'
    BY <1>2, <2>1, <2>3, <2>4 DEF DayInv, DayTypeOK, SubstituteAccepted, JournalHasSession
  <2> QED BY <1>1, <2>1, <2>4, <2>5, <2>6, <2>7 DEF DayInv
<1>7. ASSUME NEW k \in Lessons, Accept(k) \/ RejectOrCancel(k) PROVE DayInv'
  <2>1. /\ decision[k] = "pending" /\ UNCHANGED <<calendar, requested, journals, attendanceOf, calls, cut>>
        /\ \A j \in Lessons \ {k} : decision'[j] = decision[j] /\ substitute'[j] = substitute[j]
        /\ decision'[k] # "none" => substitute'[k] = substitute[k]
        /\ decision' \in [Lessons -> {"none", "pending", "accepted"}]
        /\ substitute' \in [Lessons -> Teachers \cup {NoTeacher}]
    BY <1>2, <1>7 DEF Accept, RejectOrCancel, DayTypeOK
  <2>2. DayTypeOK'
    BY <1>1, <1>2, <2>1 DEF DayTypeOK
  <2>3. StoredStands'
    BY <1>1, <2>1 DEF DayInv, StoredStands
  <2>4. CallsStand'
    BY <1>1, <2>1 DEF DayInv, CallsStand, CallStands
  <2>5. SubstituteAccepted' /\ JournalHasSession'
    BY <1>2, <2>1 DEF DayInv, DayTypeOK, SubstituteAccepted, JournalHasSession
  <2> QED BY <1>1, <2>1, <2>2, <2>3, <2>4, <2>5 DEF DayInv
<1>8. ASSUME NEW c \in Handlers, InsertJournal(c) PROVE DayInv'
  <2> DEFINE k == lesson[c]
  <2>1. /\ handlerPc[c] = "insert" /\ handlerPc' = [handlerPc EXCEPT ![c] = "open"]
        /\ k[1] \in Taken /\ taughtBy[k] = NoTeacher
        /\ taughtBy' = [taughtBy EXCEPT ![k] = user[c]] /\ taught' = [taught EXCEPT ![k] = class[c]]
        /\ flagged' = IF as[c] THEN flagged \cup {k} ELSE flagged
        /\ UNCHANGED <<timetableVars, calendar, requests, attendanceOf, lesson, user, as, class, shifted, cut>>
    BY <1>8 DEF InsertJournal
  <2>2. /\ k \in Lessons /\ user[c] \in Teachers /\ class[c] \in Classes /\ Fits(k) /\ IsOf(k, class[c])
        /\ as[c] => decision[k] = "accepted" /\ substitute[k] = user[c]
    BY <2>1 DEF DayInv, CallsStand, CallStands
  <2>3. DayTypeOK'
    BY <1>1, <1>2, <2>1, <2>2 DEF DayTypeOK
  <2>4. taughtBy'[k] = user[c] /\ taught'[k] = class[c]
    BY <1>2, <2>1, <2>2 DEF DayTypeOK
  <2>5. \A j \in Lessons \ {k} : taughtBy'[j] = taughtBy[j] /\ taught'[j] = taught[j]
    BY <1>2, <2>1 DEF DayTypeOK
  <2> HIDE DEF k
  <2>6. StoredStands'
    BY <1>1, <1>2, <2>1, <2>2, <2>4, <2>5 DEF DayInv, StoredStands
  <2>7. CallsStand'
    BY <1>1, <1>2, <2>1 DEF DayInv, DayTypeOK, CallsStand, CallStands
  <2>8. k \notin flagged
    BY <1>2, <2>1, <2>2 DEF DayInv, SubstituteAccepted, StoredStands
  <2>9. SubstituteAccepted'
    BY <1>2, <2>1, <2>2, <2>4, <2>5, <2>8 DEF DayInv, DayTypeOK, SubstituteAccepted
  <2>10. JournalHasSession'
    BY <1>2, <2>1, <2>5 DEF DayInv, DayTypeOK, JournalHasSession, k
  <2> QED BY <1>1, <2>1, <2>3, <2>6, <2>7, <2>9, <2>10 DEF DayInv
<1>9. ASSUME NEW c \in Handlers, OpenSubjectSession(c) PROVE DayInv'
  <2> DEFINE k == lesson[c]
  <2>1. /\ handlerPc[c] = "open" /\ handlerPc' = [handlerPc EXCEPT ![c] = "create"]
        /\ k[1] \in Taken /\ class' = [class EXCEPT ![c] = slot[k[1]].class]
        /\ UNCHANGED <<timetableVars, calendar, requests, journals, attendanceOf, lesson, user, as, shifted, cut>>
    BY <1>9 DEF OpenSubjectSession
  <2>2. k \in Lessons /\ user[c] \in Teachers /\ Fits(k) /\ slot[k[1]] # NoRow /\ slot[k[1]].class \in Classes
    BY <1>2, <2>1 DEF DayInv, CallsStand, CallStands, Taken, Row
  <2>3. DayTypeOK'
    BY <1>1, <1>2, <2>1, <2>2 DEF DayTypeOK
  <2>4. StoredStands' /\ requested' \subseteq Taken' /\ SubstituteAccepted'
    BY <1>1, <2>1 DEF DayInv, StoredStands, SubstituteAccepted
  <2>5. /\ handlerPc'[c] = "create" /\ class'[c] = slot[k[1]].class
        /\ \A b \in Handlers \ {c} : handlerPc'[b] = handlerPc[b] /\ class'[b] = class[b]
    BY <1>2, <2>1 DEF DayTypeOK
  <2>6. CallsStand'
    <3>1. CallStands(c)'
      <4>1. Fits(lesson[c])' /\ IsOf(lesson[c], class[c])'
        BY <1>1, <2>1, <2>2, <2>5 DEF Fits, IsOf
      <4> QED BY <1>1, <2>1, <2>2, <2>5, <4>1 DEF CallStands
    <3>2. ASSUME NEW b \in Handlers \ {c}, handlerPc'[b] # "idle" PROVE CallStands(b)'
      BY <2>1, <2>5, <3>2, OthersStand
    <3> QED BY <3>1, <3>2 DEF CallsStand
  <2>7. JournalHasSession'
    BY <2>1, <2>5 DEF DayInv, JournalHasSession
  <2> QED BY <1>1, <2>3, <2>4, <2>6, <2>7 DEF DayInv
<1>10. ASSUME NEW c \in Handlers, NEW s \in Slots, NEW d \in Dates, OpenSession(c, s, d) PROVE DayInv'
  <2> DEFINE k == <<s, d>>
  <2>1. /\ handlerPc[c] = "idle" /\ handlerPc' = [handlerPc EXCEPT ![c] = "session"]
        /\ s \in Taken /\ class' = [class EXCEPT ![c] = slot[s].class]
        /\ lesson' = [lesson EXCEPT ![c] = k]
        /\ UNCHANGED <<timetableVars, calendar, requests, journals, attendanceOf, user, as, shifted, cut>>
    BY <1>10 DEF OpenSession
  <2>2. k \in Lessons /\ slot[s] # NoRow /\ slot[s].class \in Classes
    BY <1>2, <2>1, TimetableAssumption DEF Lessons, Taken, Row
  <2>3. DayTypeOK'
    BY <1>1, <1>2, <2>1, <2>2 DEF DayTypeOK
  <2>4. StoredStands' /\ requested' \subseteq Taken' /\ SubstituteAccepted'
    BY <1>1, <2>1 DEF DayInv, StoredStands, SubstituteAccepted
  <2>5. /\ handlerPc'[c] = "session" /\ class'[c] = slot[s].class /\ lesson'[c] = k
        /\ \A b \in Handlers \ {c} : handlerPc'[b] = handlerPc[b] /\ class'[b] = class[b] /\ lesson'[b] = lesson[b]
    BY <1>2, <2>1 DEF DayTypeOK
  <2>6. CallsStand'
    <3>1. CallStands(c)'
      <4>1. IsOf(lesson[c], class[c])'
        BY <1>1, <2>1, <2>2, <2>5 DEF IsOf
      <4>2. lesson'[c] \in Lessons /\ slot'[lesson'[c][1]] # NoRow /\ class'[c] \in Classes
        BY <1>1, <2>2, <2>5
      <4> QED BY <2>5, <4>1, <4>2 DEF CallStands
    <3>2. ASSUME NEW b \in Handlers \ {c}, handlerPc'[b] # "idle" PROVE CallStands(b)'
      BY <2>1, <2>5, <3>2, OthersStand
    <3> QED BY <3>1, <3>2 DEF CallsStand
  <2>7. JournalHasSession'
    BY <2>1, <2>5 DEF DayInv, JournalHasSession
  <2> QED BY <1>1, <2>3, <2>4, <2>6, <2>7 DEF DayInv
<1>14. ASSUME NEW c \in Handlers, CreateSubjectSession(c) PROVE DayInv'
  <2> DEFINE k == lesson[c]
  <2>1. PICK from \in {"create", "session"} : End(c, from)
    BY <1>14 DEF CreateSubjectSession
  <2>2. /\ k[1] \in Taken
        /\ attendanceOf' = [attendanceOf EXCEPT ![k] = IF attendanceOf[k] = NoClass THEN class[c] ELSE attendanceOf[k]]
        /\ UNCHANGED <<timetableVars, calendar, requests, journals, shifted, cut>>
    BY <1>14 DEF CreateSubjectSession
  <2>3. k \in Lessons /\ class[c] \in Classes /\ class[c] # NoClass /\ IsOf(k, class[c])
    BY <1>2, <2>1 DEF DayInv, CallsStand, CallStands
  <2> HIDE DEF Step, End
  <2>4. /\ CallsStand' /\ handlerPc[c] = from
        /\ \A b \in Handlers \ {c} : handlerPc'[b] = handlerPc[b] /\ lesson'[b] = lesson[b]
        /\ handlerPc' \in [Handlers -> {"idle", "request", "insert", "open", "create", "session"}]
        /\ lesson' \in [Handlers -> Lessons \cup {NoLesson}]
        /\ user' \in [Handlers -> Teachers \cup {NoTeacher}]
        /\ as' \in [Handlers -> BOOLEAN] /\ class' \in [Handlers -> Classes \cup {NoClass}]
    BY <2>1, <2>2, CallEnds
  <2>5. /\ attendanceOf'[k] = IF attendanceOf[k] = NoClass THEN class[c] ELSE attendanceOf[k]
        /\ \A j \in Lessons \ {k} : attendanceOf'[j] = attendanceOf[j]
    BY <1>2, <2>2, <2>3 DEF DayTypeOK
  <2>6. DayTypeOK'
    BY <1>1, <1>2, <2>2, <2>3, <2>4 DEF DayTypeOK
  <2> HIDE DEF k
  <2>7. StoredStands'
    BY <1>1, <2>2, <2>3, <2>5 DEF DayInv, StoredStands
  <2>8. SubstituteAccepted'
    BY <2>2 DEF DayInv, SubstituteAccepted
  <2>9. JournalHasSession'
    BY <2>2, <2>3, <2>4, <2>5 DEF DayInv, JournalHasSession, k
  <2> QED BY <1>1, <2>2, <2>4, <2>6, <2>7, <2>8, <2>9 DEF DayInv
<1>11. ASSUME NEW c \in Handlers, Stop(c) PROVE DayInv'
  <2>1. PICK from \in {"request", "insert", "open", "create", "session"} : End(c, from)
    BY <1>11 DEF Stop
  <2>2. /\ cut' = IF handlerPc[c] \in {"open", "create"} THEN cut \cup {lesson[c]} ELSE cut
        /\ UNCHANGED <<timetableVars, calendar, requests, journals, attendanceOf, shifted>>
    BY <1>11 DEF Stop
  <2> HIDE DEF Step, End
  <2>3. /\ CallsStand' /\ handlerPc[c] = from
        /\ \A b \in Handlers \ {c} : handlerPc'[b] = handlerPc[b] /\ lesson'[b] = lesson[b]
        /\ handlerPc' \in [Handlers -> {"idle", "request", "insert", "open", "create", "session"}]
        /\ lesson' \in [Handlers -> Lessons \cup {NoLesson}]
        /\ user' \in [Handlers -> Teachers \cup {NoTeacher}]
        /\ as' \in [Handlers -> BOOLEAN] /\ class' \in [Handlers -> Classes \cup {NoClass}]
    BY <2>1, <2>2, CallEnds
  <2>4. cut' \subseteq Lessons
    BY <1>2, <2>2 DEF DayInv, DayTypeOK, CallsStand, CallStands
  <2>5. DayTypeOK'
    BY <1>1, <1>2, <2>2, <2>3, <2>4 DEF DayTypeOK
  <2>6. StoredStands'
    BY <1>1, <2>2 DEF DayInv, StoredStands
  <2>7. SubstituteAccepted' /\ JournalHasSession'
    BY <2>2, <2>3 DEF DayInv, SubstituteAccepted, JournalHasSession
  <2> QED BY <1>1, <2>2, <2>3, <2>5, <2>6, <2>7 DEF DayInv
<1>12. CASE UNCHANGED schoolVars
  BY <1>1, <1>12 DEF schoolVars, DayInv, DayTypeOK, StoredStands, CallsStand, CallStands, SubstituteAccepted, JournalHasSession
<1> QED BY <1>3, <1>4, <1>5, <1>6, <1>7, <1>8, <1>9, <1>10, <1>11, <1>12, <1>13, <1>14 DEF DayNext

LEMMA DayInductive == DaySpec => []DayInv
<1>1. DayInv /\ [DayNext]_allVars => DayInv'
  <2> SUFFICES ASSUME DayInv, [DayNext]_allVars PROVE DayInv'
    OBVIOUS
  <2>1. CASE EditTimetable
    BY <2>1, EditStep
  <2>2. CASE ~EditTimetable
    <3>1. UNCHANGED <<timetableVars, shifted>>
      <4>1. ASSUME NEW c \in Handlers, NEW s \in Slots, NEW d \in Dates, NEW u \in Teachers, Request(c, s, d, u)
            PROVE  UNCHANGED <<timetableVars, shifted>>
        BY <4>1 DEF Request
      <4>2. ASSUME NEW c \in Handlers, NEW t \in Teachers, NEW p \in 1..MaxPeriod, NEW room \in Rooms,
                   Scan(c, t, p, room)
            PROVE  UNCHANGED <<timetableVars, shifted>>
        BY <4>2 DEF Scan
      <4>3. ASSUME NEW c \in Handlers,
                   CreateRequest(c) \/ InsertJournal(c) \/ OpenSubjectSession(c) \/ CreateSubjectSession(c) \/ Stop(c)
            PROVE  UNCHANGED <<timetableVars, shifted>>
        BY <4>3 DEF CreateRequest, InsertJournal, OpenSubjectSession, CreateSubjectSession, Stop
      <4>4. ASSUME NEW k \in Lessons, Accept(k) \/ RejectOrCancel(k) PROVE UNCHANGED <<timetableVars, shifted>>
        BY <4>4 DEF Accept, RejectOrCancel
      <4>5. ASSUME NEW c \in Handlers, NEW s \in Slots, NEW d \in Dates, OpenSession(c, s, d)
            PROVE  UNCHANGED <<timetableVars, shifted>>
        BY <4>5 DEF OpenSession
      <4>6. CASE Tomorrow \/ \E y \in SchoolYears : ActivateYear(y)
        BY <4>6 DEF Tomorrow, ActivateYear
      <4>7. CASE UNCHANGED allVars
        BY <4>7 DEF allVars, schoolVars
      <4> QED BY <2>2, <4>1, <4>2, <4>3, <4>4, <4>5, <4>6, <4>7 DEF DayNext
    <3>2. DayNext \/ UNCHANGED schoolVars
      BY DEF allVars
    <3> QED BY <2>2, <3>1, <3>2, CallStep
  <2> QED BY <2>1, <2>2
<1> QED BY <1>1, DayInitially, PTL DEF DaySpec

\* The requests, journals and sessions of the lessons are of their types.
THEOREM DayTypeCorrect == DaySpec => []DayTypeOK
<1>1. DayInv => DayTypeOK
  BY DEF DayInv
<1> QED BY <1>1, DayInductive, PTL

\* A journal kept by a substitute stays backed by a request he accepted, for any
\* numbers of teachers, lessons and calls (findSubstituteSlotNow, decide).
THEOREM SubstituteAlwaysAccepted == DaySpec => []SubstituteAccepted
<1>1. DayInv => SubstituteAccepted
  BY DEF DayInv
<1> QED BY <1>1, DayInductive, PTL

\* A journal has a session, or a scan that is about to open it or was cut off
\* (Scan).
THEOREM JournalAlwaysHasSession == DaySpec => []JournalHasSession
<1>1. DayInv => JournalHasSession
  BY DEF DayInv
<1> QED BY <1>1, DayInductive, PTL

\* Journal and attendance of a lesson are about one class, unless the slot was moved
\* while the lesson was in use, at whatever moment each call read the class.
THEOREM AlwaysSameClass == DaySpec => []SameClass
<1>1. DayInv => SameClass
  <2> SUFFICES ASSUME DayInv, NEW k \in Lessons, taught[k] # NoClass, attendanceOf[k] # NoClass
               PROVE  taught[k] = attendanceOf[k] \/ k \in shifted
    BY DEF SameClass
  <2>1. k[1] \in Taken /\ IsOf(k, taught[k]) /\ IsOf(k, attendanceOf[k])
    BY DEF DayInv, StoredStands
  <2> QED BY <2>1 DEF IsOf
<1> QED BY <1>1, DayInductive, PTL

\* The monitoring of a date sees every journal of a slot of the active year that was
\* not moved.
THEOREM JournalAlwaysMonitored == DaySpec => []JournalMonitored
<1>1. DayInv => JournalMonitored
  BY DEF DayInv, StoredStands, JournalMonitored, SlotsForDayOfWeek, Fits
<1> QED BY <1>1, DayInductive, PTL
=============================================================================
