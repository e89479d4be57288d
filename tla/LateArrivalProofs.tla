-------------------------- MODULE LateArrivalProofs --------------------------
(***************************************************************************)
(* Proofs about LateArrival, for any number of students, records, scans,   *)
(* tokens and days: type correctness, one record a day, numbered in order, *)
(* unless first scans overlap, signatures by the owners of one-use tokens, *)
(* and records that only advance.                                          *)
(***************************************************************************)
EXTENDS LateArrival, FiniteSetTheorems, TLAPS

\* A scan in flight: what it has read stays true of the record it read.
InvCalls ==
    /\ \A c \in Calls : callPc[c] # "idle" => subject[c] \in Students /\ callDay[c] <= day
    /\ \A c \in Calls : record[c] # NoRecord =>
         recStudent[record[c]] = subject[c] /\ status[record[c]] # "none" /\ seen[c] # "none"
    /\ \A c \in Calls : record[c] = NoRecord => seen[c] = "none"
    /\ \A c \in Calls : callPc[c] = "idle" => record[c] = NoRecord
    /\ \A c \in Calls : callPc[c] = "counted" => record[c] = NoRecord
    /\ \A r \in Records : (recStudent[r] = NoStudent <=> status[r] = "none") /\ recDay[r] <= day

\* A record carries the signatures of the stages it has left behind.
InvSigned ==
    \A r \in Records :
        /\ dutyBy[r] # NoUser => status[r] # "none"
        /\ leadershipBy[r] # NoUser => status[r] \in {"pending_class_teacher", "completed"}
        /\ classBy[r] # NoUser => status[r] = "completed"

\* Outside overlaps a student has one scan on the way to a record, and none when
\* there is a record of that day.
Calm(s) ==
    /\ \A c, d \in Calls : Creating(c, s) /\ Creating(d, s) => c = d
    /\ \A c \in Calls, r \in Records :
         Creating(c, s) /\ recStudent[r] = s => recDay[r] # callDay[c]
InvCalm == \A s \in Students \ overlapped : Calm(s)

\* The token a call holds is used, its actor's, and no one else's.
Holding(c) == callPc[c] \in {"consumed", "allowed", "counted"}
InvTokens ==
    /\ \A c \in Calls : Holding(c) =>
         token[c] \in Tokens /\ qrState[token[c]] = "used" /\ actor[c] = qrOwner[token[c]]
    /\ \A c, d \in Calls : Holding(c) /\ Holding(d) /\ token[c] = token[d] => c = d
    /\ \A c \in Calls : \A x \in Records \X Stages : Holding(c) => backing[x] # token[c]
    /\ \A x \in Records \X Stages : backing[x] # NoToken => qrState[backing[x]] = "used"
    /\ \A x, y \in Records \X Stages : backing[x] = backing[y] /\ backing[x] # NoToken => x = y

\* A signature and the token behind it.
Backs(r) ==
    /\ dutyBy[r] # NoUser => /\ backing[<<r, "pending_duty_teacher">>] # NoToken
                             /\ dutyBy[r] = qrOwner[backing[<<r, "pending_duty_teacher">>]]
    /\ leadershipBy[r] # NoUser => /\ backing[<<r, "pending_leadership">>] # NoToken
                                   /\ leadershipBy[r] = qrOwner[backing[<<r, "pending_leadership">>]]
    /\ classBy[r] # NoUser => /\ backing[<<r, "pending_class_teacher">>] # NoToken
                              /\ classBy[r] = qrOwner[backing[<<r, "pending_class_teacher">>]]
InvBacked == \A r \in Records : Backs(r)

\* The records of a student in a year are numbered from 1.
Mine(s, y) == {r \in Records : recStudent[r] = s /\ recYear[r] = y}
NumberedFor(s, y) ==
    /\ \A r \in Mine(s, y) : lateCount[r] \in 1 .. Cardinality(Mine(s, y))
    /\ \A n \in 1 .. Cardinality(Mine(s, y)) : \E r \in Mine(s, y) : lateCount[r] = n

\* The number a scan has counted is still the next one.
CountCurrent(c) == counted[c] = Cardinality(Mine(subject[c], callYear[c])) + 1

InvNumbered ==
    /\ \A s \in Students \ overlapped, y \in Years : NumberedFor(s, y)
    /\ \A c \in Calls : callPc[c] = "counted" /\ subject[c] \notin overlapped => CountCurrent(c)

IInv == TypeOK /\ InvCalls /\ InvSigned /\ InvCalm /\ OneRecordPerDayUnlessOverlap
        /\ InvTokens /\ InvBacked /\ InvNumbered

\* The body of RecordsOnlyAdvance.
Advance == \A r \in Records :
    /\ dutyBy[r] # NoUser => dutyBy'[r] = dutyBy[r]
    /\ leadershipBy[r] # NoUser => leadershipBy'[r] = leadershipBy[r]
    /\ classBy[r] # NoUser => classBy'[r] = classBy[r]
    /\ status[r] = "completed" => status'[r] = "completed"

\* They are finitely many.
LEMMA MineFinite == \A s, y : IsFiniteSet(Mine(s, y)) /\ Cardinality(Mine(s, y)) \in Nat
BY LateArrivalAssumption, FS_Subset, FS_CardinalityType DEF Mine

\* The number of a record is a number.
LEMMA CountIsNat == \A s, y : NextLateCount(s, y) \in Nat
<1> SUFFICES ASSUME NEW s, NEW y PROVE NextLateCount(s, y) \in Nat
  OBVIOUS
<1> DEFINE S == {r \in Records : recStudent[r] = s /\ recYear[r] = y}
<1>1. IsFiniteSet(S)
  BY LateArrivalAssumption, FS_Subset
<1>2. Cardinality(S) \in Nat
  BY <1>1, FS_CardinalityType
<1> QED BY <1>2 DEF NextLateCount

LEMMA TypeInit == Init => TypeOK
BY LateArrivalAssumption, TeacherQRAssumption DEF Init, TokensInit, TypeOK, TokensTypeOK, TokenStates, Statuses, Actions, Stages

LEMMA TypeStep == TypeOK /\ [Next]_vars => TypeOK'
<1> SUFFICES ASSUME TypeOK, [Next]_vars PROVE TypeOK'
  OBVIOUS
<1> USE LateArrivalAssumption, TeacherQRAssumption DEF TypeOK, TokensTypeOK, TokenStates, Statuses, Actions, columns, roster, locals, callVars, history, qrVars
<1>1. CASE DayPasses
  BY <1>1 DEF DayPasses
<1>2. CASE RosterChanges
  <2>1. ASSUME NEW f \in Flags, NEW u \in Users,
               holders' = [holders EXCEPT ![f] = IF u \in @ THEN @ \ {u} ELSE @ \cup {u}],
               UNCHANGED <<teaches, activeYear>>
        PROVE TypeOK'
    BY <1>2, <2>1 DEF RosterChanges
  <2>2. ASSUME NEW s \in Students, NEW u \in Users,
               teaches' = [teaches EXCEPT ![s] = IF u \in @ THEN @ \ {u} ELSE @ \cup {u}],
               UNCHANGED <<holders, activeYear>>
        PROVE TypeOK'
    BY <1>2, <2>2 DEF RosterChanges
  <2>3. CASE activeYear' \in Years \cup {NoYear} /\ UNCHANGED <<holders, teaches>>
    BY <1>2, <2>3 DEF RosterChanges
  <2> QED BY <1>2, <2>1, <2>2, <2>3 DEF RosterChanges
<1>3. CASE TokenSteps
  <2>1. PICK k \in Tokens : (\E u \in Users : GenerateToken(u, k)) \/ TokenExpires(k)
    BY <1>3 DEF TokenSteps
  <2>2. ASSUME NEW u \in Users, GenerateToken(u, k) PROVE TypeOK'
    BY <1>3, <2>2 DEF TokenSteps, GenerateToken
  <2>3. CASE TokenExpires(k)
    BY <1>3, <2>3 DEF TokenSteps, TokenExpires
  <2> QED BY <2>1, <2>2, <2>3
<1>4. ASSUME NEW c \in Calls, NEW s \in Students, GetTodayForStudent(c, s) PROVE TypeOK'
  <2>1. CASE RecordsOfToday(s) = {} /\ UNCHANGED <<record, seen>>
               /\ overlapped' = IF \E d \in Calls : Creating(d, s) THEN overlapped \cup {s} ELSE overlapped
    BY <1>4, <2>1 DEF GetTodayForStudent, Continue, RecordsOfToday, Creating
  <2>2. ASSUME NEW r \in RecordsOfToday(s), record' = [record EXCEPT ![c] = r],
               seen' = [seen EXCEPT ![c] = status[r]], UNCHANGED overlapped
        PROVE TypeOK'
    BY <1>4, <2>2 DEF GetTodayForStudent, Continue, RecordsOfToday, Creating
  <2> QED BY <1>4, <2>1, <2>2 DEF GetTodayForStudent
<1>5. ASSUME NEW c \in Calls, NEW k \in Tokens, ScanConsume(c, k) PROVE TypeOK'
  BY <1>5 DEF ScanConsume, ConsumeToken, Continue
<1>6. ASSUME NEW c \in Calls, ScanCheck(c) PROVE TypeOK'
  BY <1>6 DEF ScanCheck, Continue
<1>7. ASSUME NEW c \in Calls, CountForStudentYear(c) PROVE TypeOK'
  <2>1. counted' \in [Calls -> Nat]
    <3>1. NextLateCount(subject[c], callYear[c]) \in Nat
      BY CountIsNat
    <3> QED BY <1>7, <3>1 DEF CountForStudentYear
  <2> QED BY <1>7, <2>1 DEF CountForStudentYear, Continue
<1>8. ASSUME NEW c \in Calls, NEW r \in Records, CreateRecord(c, r) PROVE TypeOK'
  BY <1>8 DEF CreateRecord, Return, lateArrivalAction
<1>9. ASSUME NEW c \in Calls, UpdateLeadershipStage(c) PROVE TypeOK'
  BY <1>9 DEF UpdateLeadershipStage, AtStage, Sign, Return
<1>10. ASSUME NEW c \in Calls, UpdateClassStage(c) PROVE TypeOK'
  BY <1>10 DEF UpdateClassStage, AtStage, Sign, Return
<1>11. ASSUME NEW c \in Calls, CallFails(c) PROVE TypeOK'
  BY <1>11 DEF CallFails, Return
<1>12. CASE UNCHANGED vars
  BY <1>12 DEF vars
<1> QED BY <1>1, <1>2, <1>3, <1>4, <1>5, <1>6, <1>7, <1>8, <1>9, <1>10, <1>11, <1>12 DEF Next, CallSteps

LEMMA CallsStep == TypeOK /\ InvCalls /\ [Next]_vars => InvCalls'
<1> SUFFICES ASSUME TypeOK, InvCalls, [Next]_vars PROVE InvCalls'
  OBVIOUS
<1> USE LateArrivalAssumption, TeacherQRAssumption DEF TypeOK, TokensTypeOK, TokenStates, Statuses, Actions, columns, roster, locals, callVars, history, qrVars, InvCalls
<1>1. CASE DayPasses
  BY <1>1 DEF DayPasses
<1>2. CASE RosterChanges
  BY <1>2 DEF RosterChanges
<1>3. CASE TokenSteps
  BY <1>3 DEF TokenSteps, GenerateToken, TokenExpires
<1>4. ASSUME NEW c \in Calls, NEW s \in Students, GetTodayForStudent(c, s) PROVE InvCalls'
  <2>1. CASE RecordsOfToday(s) = {} /\ UNCHANGED <<record, seen>>
               /\ overlapped' = IF \E d \in Calls : Creating(d, s) THEN overlapped \cup {s} ELSE overlapped
    BY <1>4, <2>1 DEF GetTodayForStudent, Continue, RecordsOfToday, Creating
  <2>2. ASSUME NEW r \in RecordsOfToday(s), record' = [record EXCEPT ![c] = r],
               seen' = [seen EXCEPT ![c] = status[r]], UNCHANGED overlapped
        PROVE InvCalls'
    BY <1>4, <2>2 DEF GetTodayForStudent, Continue, RecordsOfToday, Creating
  <2> QED BY <1>4, <2>1, <2>2 DEF GetTodayForStudent
<1>5. ASSUME NEW c \in Calls, NEW k \in Tokens, ScanConsume(c, k) PROVE InvCalls'
  BY <1>5 DEF ScanConsume, ConsumeToken, Continue
<1>6. ASSUME NEW c \in Calls, ScanCheck(c) PROVE InvCalls'
  BY <1>6 DEF ScanCheck, Continue
<1>7. ASSUME NEW c \in Calls, CountForStudentYear(c) PROVE InvCalls'
  BY <1>7 DEF CountForStudentYear, Continue, NextLateCount
<1>8. ASSUME NEW c \in Calls, NEW r \in Records, CreateRecord(c, r) PROVE InvCalls'
  BY <1>8 DEF CreateRecord, Return, lateArrivalAction
<1>9. ASSUME NEW c \in Calls, UpdateLeadershipStage(c) PROVE InvCalls'
  BY <1>9 DEF UpdateLeadershipStage, AtStage, Sign, Return
<1>10. ASSUME NEW c \in Calls, UpdateClassStage(c) PROVE InvCalls'
  BY <1>10 DEF UpdateClassStage, AtStage, Sign, Return
<1>11. ASSUME NEW c \in Calls, CallFails(c) PROVE InvCalls'
  BY <1>11 DEF CallFails, Return
<1>12. CASE UNCHANGED vars
  BY <1>12 DEF vars
<1> QED BY <1>1, <1>2, <1>3, <1>4, <1>5, <1>6, <1>7, <1>8, <1>9, <1>10, <1>11, <1>12 DEF Next, CallSteps

LEMMA SignedStep == TypeOK /\ InvCalls /\ InvSigned /\ [Next]_vars => InvSigned'
<1> SUFFICES ASSUME TypeOK, InvCalls, InvSigned, [Next]_vars PROVE InvSigned'
  OBVIOUS
<1> USE LateArrivalAssumption, TeacherQRAssumption DEF TypeOK, TokensTypeOK, TokenStates, Statuses, Actions, columns, roster, locals, callVars, history, qrVars, InvSigned, InvCalls
<1>1. CASE DayPasses
  BY <1>1 DEF DayPasses
<1>2. CASE RosterChanges
  BY <1>2 DEF RosterChanges
<1>3. CASE TokenSteps
  BY <1>3 DEF TokenSteps, GenerateToken, TokenExpires
<1>4. ASSUME NEW c \in Calls, NEW s \in Students, GetTodayForStudent(c, s) PROVE InvSigned'
  BY <1>4 DEF GetTodayForStudent, Continue, RecordsOfToday, Creating
<1>5. ASSUME NEW c \in Calls, NEW k \in Tokens, ScanConsume(c, k) PROVE InvSigned'
  BY <1>5 DEF ScanConsume, ConsumeToken, Continue
<1>6. ASSUME NEW c \in Calls, ScanCheck(c) PROVE InvSigned'
  BY <1>6 DEF ScanCheck, Continue
<1>7. ASSUME NEW c \in Calls, CountForStudentYear(c) PROVE InvSigned'
  BY <1>7 DEF CountForStudentYear, Continue, NextLateCount
<1>8. ASSUME NEW c \in Calls, NEW r \in Records, CreateRecord(c, r) PROVE InvSigned'
  BY <1>8 DEF CreateRecord, Return, lateArrivalAction
<1>9. ASSUME NEW c \in Calls, UpdateLeadershipStage(c) PROVE InvSigned'
  BY <1>9 DEF UpdateLeadershipStage, AtStage, Sign, Return
<1>10. ASSUME NEW c \in Calls, UpdateClassStage(c) PROVE InvSigned'
  BY <1>10 DEF UpdateClassStage, AtStage, Sign, Return
<1>11. ASSUME NEW c \in Calls, CallFails(c) PROVE InvSigned'
  BY <1>11 DEF CallFails, Return
<1>12. CASE UNCHANGED vars
  BY <1>12 DEF vars
<1> QED BY <1>1, <1>2, <1>3, <1>4, <1>5, <1>6, <1>7, <1>8, <1>9, <1>10, <1>11, <1>12 DEF Next, CallSteps

LEMMA CalmStep == TypeOK /\ InvCalls /\ InvCalm /\ [Next]_vars => InvCalm'
<1> SUFFICES ASSUME TypeOK, InvCalls, InvCalm, [Next]_vars PROVE InvCalm'
  OBVIOUS
<1> USE LateArrivalAssumption, TeacherQRAssumption DEF TypeOK, TokensTypeOK, TokenStates, Statuses, Actions, columns, roster, locals, callVars, history, qrVars, InvCalls, InvCalm, Calm, Creating
<1>1. CASE DayPasses
  BY <1>1 DEF DayPasses
<1>2. CASE RosterChanges
  BY <1>2 DEF RosterChanges
<1>3. CASE TokenSteps
  BY <1>3 DEF TokenSteps, GenerateToken, TokenExpires
<1>4. ASSUME NEW c \in Calls, NEW s \in Students, GetTodayForStudent(c, s) PROVE InvCalm'
  BY <1>4 DEF GetTodayForStudent, Continue, RecordsOfToday, Creating
<1>5. ASSUME NEW c \in Calls, NEW k \in Tokens, ScanConsume(c, k) PROVE InvCalm'
  BY <1>5 DEF ScanConsume, ConsumeToken, Continue
<1>6. ASSUME NEW c \in Calls, ScanCheck(c) PROVE InvCalm'
  BY <1>6 DEF ScanCheck, Continue
<1>7. ASSUME NEW c \in Calls, CountForStudentYear(c) PROVE InvCalm'
  BY <1>7 DEF CountForStudentYear, Continue, NextLateCount
<1>8. ASSUME NEW c \in Calls, NEW r \in Records, CreateRecord(c, r) PROVE InvCalm'
  BY <1>8 DEF CreateRecord, Return, lateArrivalAction
<1>9. ASSUME NEW c \in Calls, UpdateLeadershipStage(c) PROVE InvCalm'
  BY <1>9 DEF UpdateLeadershipStage, AtStage, Sign, Return
<1>10. ASSUME NEW c \in Calls, UpdateClassStage(c) PROVE InvCalm'
  BY <1>10 DEF UpdateClassStage, AtStage, Sign, Return
<1>11. ASSUME NEW c \in Calls, CallFails(c) PROVE InvCalm'
  BY <1>11 DEF CallFails, Return
<1>12. CASE UNCHANGED vars
  BY <1>12 DEF vars
<1> QED BY <1>1, <1>2, <1>3, <1>4, <1>5, <1>6, <1>7, <1>8, <1>9, <1>10, <1>11, <1>12 DEF Next, CallSteps

LEMMA OneRecordStep == TypeOK /\ InvCalls /\ InvCalm /\ OneRecordPerDayUnlessOverlap /\ [Next]_vars => OneRecordPerDayUnlessOverlap'
<1> SUFFICES ASSUME TypeOK, InvCalls, InvCalm, OneRecordPerDayUnlessOverlap, [Next]_vars PROVE OneRecordPerDayUnlessOverlap'
  OBVIOUS
<1> USE LateArrivalAssumption, TeacherQRAssumption DEF TypeOK, TokensTypeOK, TokenStates, Statuses, Actions, columns, roster, locals, callVars, history, qrVars, InvCalls, OneRecordPerDayUnlessOverlap
<1>1. CASE DayPasses
  BY <1>1 DEF DayPasses
<1>2. CASE RosterChanges
  BY <1>2 DEF RosterChanges
<1>3. CASE TokenSteps
  BY <1>3 DEF TokenSteps, GenerateToken, TokenExpires
<1>4. ASSUME NEW c \in Calls, NEW s \in Students, GetTodayForStudent(c, s) PROVE OneRecordPerDayUnlessOverlap'
  BY <1>4 DEF GetTodayForStudent, Continue, RecordsOfToday, Creating
<1>5. ASSUME NEW c \in Calls, NEW k \in Tokens, ScanConsume(c, k) PROVE OneRecordPerDayUnlessOverlap'
  BY <1>5 DEF ScanConsume, ConsumeToken, Continue
<1>6. ASSUME NEW c \in Calls, ScanCheck(c) PROVE OneRecordPerDayUnlessOverlap'
  BY <1>6 DEF ScanCheck, Continue
<1>7. ASSUME NEW c \in Calls, CountForStudentYear(c) PROVE OneRecordPerDayUnlessOverlap'
  BY <1>7 DEF CountForStudentYear, Continue, NextLateCount
<1>8. ASSUME NEW c \in Calls, NEW r \in Records, CreateRecord(c, r) PROVE OneRecordPerDayUnlessOverlap'
  BY <1>8 DEF CreateRecord, Return, lateArrivalAction, InvCalm, Calm, Creating
<1>9. ASSUME NEW c \in Calls, UpdateLeadershipStage(c) PROVE OneRecordPerDayUnlessOverlap'
  BY <1>9 DEF UpdateLeadershipStage, AtStage, Sign, Return
<1>10. ASSUME NEW c \in Calls, UpdateClassStage(c) PROVE OneRecordPerDayUnlessOverlap'
  BY <1>10 DEF UpdateClassStage, AtStage, Sign, Return
<1>11. ASSUME NEW c \in Calls, CallFails(c) PROVE OneRecordPerDayUnlessOverlap'
  BY <1>11 DEF CallFails, Return
<1>12. CASE UNCHANGED vars
  BY <1>12 DEF vars
<1> QED BY <1>1, <1>2, <1>3, <1>4, <1>5, <1>6, <1>7, <1>8, <1>9, <1>10, <1>11, <1>12 DEF Next, CallSteps

LEMMA TokensStep == TypeOK /\ InvCalls /\ InvTokens /\ [Next]_vars => InvTokens'
<1> SUFFICES ASSUME TypeOK, InvCalls, InvTokens, [Next]_vars PROVE InvTokens'
  OBVIOUS
<1> USE LateArrivalAssumption, TeacherQRAssumption DEF TypeOK, TokensTypeOK, TokenStates, Statuses, Actions, columns, roster, locals, callVars, history, qrVars, InvCalls, InvTokens, Holding
<1>1. CASE DayPasses
  BY <1>1 DEF DayPasses
<1>2. CASE RosterChanges
  BY <1>2 DEF RosterChanges
<1>3. CASE TokenSteps
  BY <1>3 DEF TokenSteps, GenerateToken, TokenExpires
<1>4. ASSUME NEW c \in Calls, NEW s \in Students, GetTodayForStudent(c, s) PROVE InvTokens'
  BY <1>4 DEF GetTodayForStudent, Continue, RecordsOfToday, Creating
<1>5. ASSUME NEW c \in Calls, NEW k \in Tokens, ScanConsume(c, k) PROVE InvTokens'
  BY <1>5 DEF ScanConsume, ConsumeToken, Continue
<1>6. ASSUME NEW c \in Calls, ScanCheck(c) PROVE InvTokens'
  BY <1>6 DEF ScanCheck, Continue
<1>7. ASSUME NEW c \in Calls, CountForStudentYear(c) PROVE InvTokens'
  BY <1>7 DEF CountForStudentYear, Continue, NextLateCount
<1>8. ASSUME NEW c \in Calls, NEW r \in Records, CreateRecord(c, r) PROVE InvTokens'
  <2>1. /\ r \in Records /\ Holding(c) /\ token[c] \in Tokens
        /\ actor[c] = qrOwner[token[c]] /\ UNCHANGED <<qrState, qrOwner>>
    BY <1>8 DEF CreateRecord, Return, lateArrivalAction, Holding, InvTokens
  <2>2. <<r, "pending_duty_teacher">> \in Records \X Stages
    BY <2>1 DEF Stages
  <2>3. backing' = [backing EXCEPT ![<<r, "pending_duty_teacher">>] = token[c]]
    BY <1>8 DEF CreateRecord, Return, lateArrivalAction
  <2>4. \A d \in Calls : Holding(d)' => d # c /\ Holding(d) /\ token'[d] = token[d] /\ actor'[d] = actor[d]
    BY <1>8 DEF CreateRecord, Return, lateArrivalAction, Holding
  <2>5. \A x \in Records \X Stages : backing'[x] = IF x = <<r, "pending_duty_teacher">> THEN token[c] ELSE backing[x]
    BY <2>2, <2>3
  <2>6. token[c] # NoToken
    BY <2>1
  <2> HIDE DEF TypeOK, TokensTypeOK, InvCalls, Holding
  <2> QED BY <2>1, <2>4, <2>5, <2>6 DEF InvTokens
<1>9. ASSUME NEW c \in Calls, UpdateLeadershipStage(c) PROVE InvTokens'
  <2>1. /\ record[c] \in Records /\ Holding(c) /\ token[c] \in Tokens
        /\ actor[c] = qrOwner[token[c]] /\ UNCHANGED <<qrState, qrOwner>>
    BY <1>9 DEF UpdateLeadershipStage, AtStage, Sign, Return, Holding, InvTokens
  <2>2. <<record[c], "pending_leadership">> \in Records \X Stages
    BY <2>1 DEF Stages
  <2>3. backing' = [backing EXCEPT ![<<record[c], "pending_leadership">>] = token[c]]
    BY <1>9 DEF UpdateLeadershipStage, AtStage, Sign, Return
  <2>4. \A d \in Calls : Holding(d)' => d # c /\ Holding(d) /\ token'[d] = token[d] /\ actor'[d] = actor[d]
    BY <1>9 DEF UpdateLeadershipStage, AtStage, Sign, Return, Holding
  <2>5. \A x \in Records \X Stages : backing'[x] = IF x = <<record[c], "pending_leadership">> THEN token[c] ELSE backing[x]
    BY <2>2, <2>3
  <2>6. token[c] # NoToken
    BY <2>1
  <2> HIDE DEF TypeOK, TokensTypeOK, InvCalls, Holding
  <2> QED BY <2>1, <2>4, <2>5, <2>6 DEF InvTokens
<1>10. ASSUME NEW c \in Calls, UpdateClassStage(c) PROVE InvTokens'
  <2>1. /\ record[c] \in Records /\ Holding(c) /\ token[c] \in Tokens
        /\ actor[c] = qrOwner[token[c]] /\ UNCHANGED <<qrState, qrOwner>>
    BY <1>10 DEF UpdateClassStage, AtStage, Sign, Return, Holding, InvTokens
  <2>2. <<record[c], "pending_class_teacher">> \in Records \X Stages
    BY <2>1 DEF Stages
  <2>3. backing' = [backing EXCEPT ![<<record[c], "pending_class_teacher">>] = token[c]]
    BY <1>10 DEF UpdateClassStage, AtStage, Sign, Return
  <2>4. \A d \in Calls : Holding(d)' => d # c /\ Holding(d) /\ token'[d] = token[d] /\ actor'[d] = actor[d]
    BY <1>10 DEF UpdateClassStage, AtStage, Sign, Return, Holding
  <2>5. \A x \in Records \X Stages : backing'[x] = IF x = <<record[c], "pending_class_teacher">> THEN token[c] ELSE backing[x]
    BY <2>2, <2>3
  <2>6. token[c] # NoToken
    BY <2>1
  <2> HIDE DEF TypeOK, TokensTypeOK, InvCalls, Holding
  <2> QED BY <2>1, <2>4, <2>5, <2>6 DEF InvTokens
<1>11. ASSUME NEW c \in Calls, CallFails(c) PROVE InvTokens'
  BY <1>11 DEF CallFails, Return
<1>12. CASE UNCHANGED vars
  BY <1>12 DEF vars
<1> QED BY <1>1, <1>2, <1>3, <1>4, <1>5, <1>6, <1>7, <1>8, <1>9, <1>10, <1>11, <1>12 DEF Next, CallSteps

LEMMA BackedStep == TypeOK /\ InvCalls /\ InvTokens /\ InvBacked /\ [Next]_vars => InvBacked'
<1> SUFFICES ASSUME TypeOK, InvCalls, InvTokens, InvBacked, [Next]_vars PROVE InvBacked'
  OBVIOUS
<1> USE LateArrivalAssumption, TeacherQRAssumption DEF TypeOK, TokensTypeOK, TokenStates, Statuses, Actions, columns, roster, locals, callVars, history, qrVars, InvCalls, InvTokens, InvBacked, Backs, Holding
<1>1. CASE DayPasses
  BY <1>1 DEF DayPasses
<1>2. CASE RosterChanges
  BY <1>2 DEF RosterChanges
<1>3. CASE TokenSteps
  <2>1. PICK k \in Tokens : (\E u \in Users : GenerateToken(u, k)) \/ TokenExpires(k)
    BY <1>3 DEF TokenSteps
  <2>2. \A j \in Tokens : qrState[j] = "used" => qrOwner'[j] = qrOwner[j]
    BY <2>1 DEF GenerateToken, TokenExpires
  <2>3. UNCHANGED <<dutyBy, leadershipBy, classBy, backing>>
    BY <1>3 DEF TokenSteps
  <2>4. \A x \in Records \X Stages : backing[x] # NoToken => qrOwner'[backing[x]] = qrOwner[backing[x]]
    BY <2>2 DEF InvTokens
  <2>5. \A q \in Records, st \in Stages : <<q, st>> \in Records \X Stages
    OBVIOUS
  <2> SUFFICES ASSUME NEW q \in Records PROVE Backs(q)'
    BY DEF InvBacked
  <2>6. Backs(q)
    BY DEF InvBacked
  <2> HIDE DEF TypeOK, TokensTypeOK, InvCalls, InvTokens, InvBacked
  <2> QED BY <2>3, <2>4, <2>5, <2>6 DEF Backs, Stages
<1>4. ASSUME NEW c \in Calls, NEW s \in Students, GetTodayForStudent(c, s) PROVE InvBacked'
  BY <1>4 DEF GetTodayForStudent, Continue, RecordsOfToday, Creating
<1>5. ASSUME NEW c \in Calls, NEW k \in Tokens, ScanConsume(c, k) PROVE InvBacked'
  BY <1>5 DEF ScanConsume, ConsumeToken, Continue
<1>6. ASSUME NEW c \in Calls, ScanCheck(c) PROVE InvBacked'
  BY <1>6 DEF ScanCheck, Continue
<1>7. ASSUME NEW c \in Calls, CountForStudentYear(c) PROVE InvBacked'
  BY <1>7 DEF CountForStudentYear, Continue, NextLateCount
<1>8. ASSUME NEW c \in Calls, NEW r \in Records, CreateRecord(c, r) PROVE InvBacked'
  <2>1. /\ r \in Records /\ Holding(c) /\ token[c] \in Tokens
        /\ actor[c] = qrOwner[token[c]] /\ UNCHANGED <<qrState, qrOwner>>
    BY <1>8 DEF CreateRecord, Return, lateArrivalAction, Holding, InvTokens
  <2>2. <<r, "pending_duty_teacher">> \in Records \X Stages
    BY <2>1 DEF Stages
  <2>3. backing' = [backing EXCEPT ![<<r, "pending_duty_teacher">>] = token[c]]
    BY <1>8 DEF CreateRecord, Return, lateArrivalAction
  <2>4. dutyBy' = [dutyBy EXCEPT ![r] = actor[c]] /\ UNCHANGED <<leadershipBy, classBy>>
    BY <1>8 DEF CreateRecord, Return, lateArrivalAction
  <2>5. \A q \in Records, st \in Stages : backing'[<<q, st>>] = IF q = r /\ st = "pending_duty_teacher" THEN token[c] ELSE backing[<<q, st>>]
    BY <2>2, <2>3
  <2>6. token[c] # NoToken
    BY <2>1
  <2> SUFFICES ASSUME NEW q \in Records PROVE Backs(q)'
    BY DEF InvBacked
  <2>7. Backs(q)
    BY DEF InvBacked
  <2> HIDE DEF InvCalls, InvTokens, InvBacked
  <2> QED BY <2>1, <2>4, <2>5, <2>6, <2>7 DEF Backs, Stages
<1>9. ASSUME NEW c \in Calls, UpdateLeadershipStage(c) PROVE InvBacked'
  <2>1. /\ record[c] \in Records /\ Holding(c) /\ token[c] \in Tokens
        /\ actor[c] = qrOwner[token[c]] /\ UNCHANGED <<qrState, qrOwner>>
    BY <1>9 DEF UpdateLeadershipStage, AtStage, Sign, Return, Holding, InvTokens
  <2>2. <<record[c], "pending_leadership">> \in Records \X Stages
    BY <2>1 DEF Stages
  <2>3. backing' = [backing EXCEPT ![<<record[c], "pending_leadership">>] = token[c]]
    BY <1>9 DEF UpdateLeadershipStage, AtStage, Sign, Return
  <2>4. leadershipBy' = [leadershipBy EXCEPT ![record[c]] = actor[c]] /\ UNCHANGED <<dutyBy, classBy>>
    BY <1>9 DEF UpdateLeadershipStage, AtStage, Sign, Return
  <2>5. \A q \in Records, st \in Stages : backing'[<<q, st>>] = IF q = record[c] /\ st = "pending_leadership" THEN token[c] ELSE backing[<<q, st>>]
    BY <2>2, <2>3
  <2>6. token[c] # NoToken
    BY <2>1
  <2> SUFFICES ASSUME NEW q \in Records PROVE Backs(q)'
    BY DEF InvBacked
  <2>7. Backs(q)
    BY DEF InvBacked
  <2> HIDE DEF InvCalls, InvTokens, InvBacked
  <2> QED BY <2>1, <2>4, <2>5, <2>6, <2>7 DEF Backs, Stages
<1>10. ASSUME NEW c \in Calls, UpdateClassStage(c) PROVE InvBacked'
  <2>1. /\ record[c] \in Records /\ Holding(c) /\ token[c] \in Tokens
        /\ actor[c] = qrOwner[token[c]] /\ UNCHANGED <<qrState, qrOwner>>
    BY <1>10 DEF UpdateClassStage, AtStage, Sign, Return, Holding, InvTokens
  <2>2. <<record[c], "pending_class_teacher">> \in Records \X Stages
    BY <2>1 DEF Stages
  <2>3. backing' = [backing EXCEPT ![<<record[c], "pending_class_teacher">>] = token[c]]
    BY <1>10 DEF UpdateClassStage, AtStage, Sign, Return
  <2>4. classBy' = [classBy EXCEPT ![record[c]] = actor[c]] /\ UNCHANGED <<dutyBy, leadershipBy>>
    BY <1>10 DEF UpdateClassStage, AtStage, Sign, Return
  <2>5. \A q \in Records, st \in Stages : backing'[<<q, st>>] = IF q = record[c] /\ st = "pending_class_teacher" THEN token[c] ELSE backing[<<q, st>>]
    BY <2>2, <2>3
  <2>6. token[c] # NoToken
    BY <2>1
  <2> SUFFICES ASSUME NEW q \in Records PROVE Backs(q)'
    BY DEF InvBacked
  <2>7. Backs(q)
    BY DEF InvBacked
  <2> HIDE DEF InvCalls, InvTokens, InvBacked
  <2> QED BY <2>1, <2>4, <2>5, <2>6, <2>7 DEF Backs, Stages
<1>11. ASSUME NEW c \in Calls, CallFails(c) PROVE InvBacked'
  BY <1>11 DEF CallFails, Return
<1>12. CASE UNCHANGED vars
  BY <1>12 DEF vars
<1> QED BY <1>1, <1>2, <1>3, <1>4, <1>5, <1>6, <1>7, <1>8, <1>9, <1>10, <1>11, <1>12 DEF Next, CallSteps

LEMMA AdvanceStep == TypeOK /\ InvCalls /\ InvSigned /\ [Next]_vars => Advance
<1> SUFFICES ASSUME TypeOK, InvCalls, InvSigned, [Next]_vars PROVE Advance
  OBVIOUS
<1> USE LateArrivalAssumption, TeacherQRAssumption DEF TypeOK, TokensTypeOK, TokenStates, Statuses, Actions, columns, roster, locals, callVars, history, qrVars, InvCalls, InvSigned, Advance
<1>1. CASE DayPasses
  BY <1>1 DEF DayPasses
<1>2. CASE RosterChanges
  BY <1>2 DEF RosterChanges
<1>3. CASE TokenSteps
  BY <1>3 DEF TokenSteps, GenerateToken, TokenExpires
<1>4. ASSUME NEW c \in Calls, NEW s \in Students, GetTodayForStudent(c, s) PROVE Advance
  BY <1>4 DEF GetTodayForStudent, Continue, RecordsOfToday, Creating
<1>5. ASSUME NEW c \in Calls, NEW k \in Tokens, ScanConsume(c, k) PROVE Advance
  BY <1>5 DEF ScanConsume, ConsumeToken, Continue
<1>6. ASSUME NEW c \in Calls, ScanCheck(c) PROVE Advance
  BY <1>6 DEF ScanCheck, Continue
<1>7. ASSUME NEW c \in Calls, CountForStudentYear(c) PROVE Advance
  BY <1>7 DEF CountForStudentYear, Continue, NextLateCount
<1>8. ASSUME NEW c \in Calls, NEW r \in Records, CreateRecord(c, r) PROVE Advance
  BY <1>8 DEF CreateRecord, Return, lateArrivalAction
<1>9. ASSUME NEW c \in Calls, UpdateLeadershipStage(c) PROVE Advance
  BY <1>9 DEF UpdateLeadershipStage, AtStage, Sign, Return
<1>10. ASSUME NEW c \in Calls, UpdateClassStage(c) PROVE Advance
  BY <1>10 DEF UpdateClassStage, AtStage, Sign, Return
<1>11. ASSUME NEW c \in Calls, CallFails(c) PROVE Advance
  BY <1>11 DEF CallFails, Return
<1>12. CASE UNCHANGED vars
  BY <1>12 DEF vars
<1> QED BY <1>1, <1>2, <1>3, <1>4, <1>5, <1>6, <1>7, <1>8, <1>9, <1>10, <1>11, <1>12 DEF Next, CallSteps

\* A step that writes no record and counts nothing.
LEMMA NumberedFrame ==
    ASSUME InvNumbered, UNCHANGED <<recStudent, recYear, lateCount>>, overlapped \subseteq overlapped',
           \A d \in Calls : callPc'[d] = "counted" => /\ callPc[d] = "counted" /\ subject'[d] = subject[d]
              /\ callYear'[d] = callYear[d] /\ counted'[d] = counted[d]
    PROVE  InvNumbered'
<1>1. \A q, z : Mine(q, z)' = Mine(q, z)
  BY DEF Mine
<1>2. \A q, z : NumberedFor(q, z) => NumberedFor(q, z)'
  BY <1>1 DEF NumberedFor
<1>3. ASSUME NEW d \in Calls, callPc'[d] = "counted", subject'[d] \notin overlapped' PROVE CountCurrent(d)'
  <2>1. CountCurrent(d)
    BY <1>3 DEF InvNumbered
  <2>2. Mine(subject[d], callYear[d])' = Mine(subject[d], callYear[d])
    BY <1>3 DEF Mine
  <2> QED BY <1>3, <2>1, <2>2 DEF CountCurrent
<1> QED BY <1>2, <1>3 DEF InvNumbered

\* The numbers of the records of a student follow one another.
LEMMA NumberedStep == TypeOK /\ InvCalls /\ InvCalm /\ InvNumbered /\ [Next]_vars => InvNumbered'
<1> SUFFICES ASSUME TypeOK, InvCalls, InvCalm, InvNumbered, [Next]_vars PROVE InvNumbered'
  OBVIOUS
<1>1. CASE DayPasses
  <2>1. /\ UNCHANGED <<recStudent, recYear, lateCount>> /\ overlapped \subseteq overlapped'
        /\ \A d \in Calls : callPc'[d] = "counted" => /\ callPc[d] = "counted" /\ subject'[d] = subject[d]
              /\ callYear'[d] = callYear[d] /\ counted'[d] = counted[d]
    BY <1>1 DEF DayPasses, TypeOK, columns, roster, locals, callVars, history, qrVars
  <2> QED BY <2>1, NumberedFrame
<1>2. CASE RosterChanges
  <2>1. /\ UNCHANGED <<recStudent, recYear, lateCount>> /\ overlapped \subseteq overlapped'
        /\ \A d \in Calls : callPc'[d] = "counted" => /\ callPc[d] = "counted" /\ subject'[d] = subject[d]
              /\ callYear'[d] = callYear[d] /\ counted'[d] = counted[d]
    BY <1>2 DEF RosterChanges, TypeOK, columns, roster, locals, callVars, history, qrVars
  <2> QED BY <2>1, NumberedFrame
<1>3. CASE TokenSteps
  <2>1. /\ UNCHANGED <<recStudent, recYear, lateCount>> /\ overlapped \subseteq overlapped'
        /\ \A d \in Calls : callPc'[d] = "counted" => /\ callPc[d] = "counted" /\ subject'[d] = subject[d]
              /\ callYear'[d] = callYear[d] /\ counted'[d] = counted[d]
    BY <1>3 DEF TokenSteps, GenerateToken, TokenExpires, TypeOK, columns, roster, locals, callVars, history, qrVars
  <2> QED BY <2>1, NumberedFrame
<1>4. ASSUME NEW c \in Calls, NEW s \in Students, GetTodayForStudent(c, s) PROVE InvNumbered'
  <2>1. /\ UNCHANGED <<recStudent, recYear, lateCount>> /\ overlapped \subseteq overlapped'
        /\ \A d \in Calls : callPc'[d] = "counted" => /\ callPc[d] = "counted" /\ subject'[d] = subject[d]
              /\ callYear'[d] = callYear[d] /\ counted'[d] = counted[d]
    BY <1>4 DEF GetTodayForStudent, Continue, RecordsOfToday, TypeOK, columns, roster, locals, callVars, history, qrVars
  <2> QED BY <2>1, NumberedFrame
<1>5. ASSUME NEW c \in Calls, NEW k \in Tokens, ScanConsume(c, k) PROVE InvNumbered'
  <2>1. /\ UNCHANGED <<recStudent, recYear, lateCount>> /\ overlapped \subseteq overlapped'
        /\ \A d \in Calls : callPc'[d] = "counted" => /\ callPc[d] = "counted" /\ subject'[d] = subject[d]
              /\ callYear'[d] = callYear[d] /\ counted'[d] = counted[d]
    BY <1>5 DEF ScanConsume, ConsumeToken, Continue, TypeOK, columns, roster, locals, callVars, history, qrVars
  <2> QED BY <2>1, NumberedFrame
<1>6. ASSUME NEW c \in Calls, ScanCheck(c) PROVE InvNumbered'
  <2>1. /\ UNCHANGED <<recStudent, recYear, lateCount>> /\ overlapped \subseteq overlapped'
        /\ \A d \in Calls : callPc'[d] = "counted" => /\ callPc[d] = "counted" /\ subject'[d] = subject[d]
              /\ callYear'[d] = callYear[d] /\ counted'[d] = counted[d]
    BY <1>6 DEF ScanCheck, Continue, TypeOK, columns, roster, locals, callVars, history, qrVars
  <2> QED BY <2>1, NumberedFrame
<1>7. ASSUME NEW c \in Calls, CountForStudentYear(c) PROVE InvNumbered'
  <2>1. /\ UNCHANGED <<recStudent, recYear, lateCount, overlapped, subject, callYear>>
        /\ counted' = [counted EXCEPT ![c] = NextLateCount(subject[c], callYear[c])]
        /\ callPc' = [callPc EXCEPT ![c] = "counted"]
    BY <1>7 DEF CountForStudentYear, Continue, columns, history
  <2>2. \A d \in Calls : counted'[d] = IF d = c THEN NextLateCount(subject[c], callYear[c]) ELSE counted[d]
    BY <2>1 DEF TypeOK
  <2>3. \A d \in Calls \ {c} : callPc'[d] = callPc[d]
    BY <2>1 DEF TypeOK
  <2>4. \A q, z : Mine(q, z)' = Mine(q, z)
    BY <2>1 DEF Mine
  <2>5. NextLateCount(subject[c], callYear[c]) = Cardinality(Mine(subject[c], callYear[c])) + 1
    BY DEF NextLateCount, Mine
  <2>6. \A q, z : NumberedFor(q, z)' <=> NumberedFor(q, z)
    BY <2>1, <2>4 DEF NumberedFor
  <2> QED BY <2>1, <2>2, <2>3, <2>4, <2>5, <2>6 DEF InvNumbered, CountCurrent
<1>8. ASSUME NEW c \in Calls, NEW r \in Records, CreateRecord(c, r) PROVE InvNumbered'
  <2> DEFINE s == subject[c]
             y == callYear[c]
             n == Cardinality(Mine(s, y))
  <2>1. /\ recStudent[r] = NoStudent /\ callPc[c] = "counted" /\ s \in Students /\ overlapped' = overlapped
        /\ Creating(c, s)
    BY <1>8 DEF CreateRecord, InvCalls, Creating
  <2>2. /\ recStudent' = [recStudent EXCEPT ![r] = s] /\ recYear' = [recYear EXCEPT ![r] = y]
        /\ lateCount' = [lateCount EXCEPT ![r] = counted[c]]
    BY <1>8 DEF CreateRecord
  <2>3. \A x \in Records : recStudent'[x] = IF x = r THEN s ELSE recStudent[x]
    BY <2>2 DEF TypeOK
  <2>4. \A x \in Records : recYear'[x] = IF x = r THEN y ELSE recYear[x]
    BY <2>2 DEF TypeOK
  <2>5. \A x \in Records : lateCount'[x] = IF x = r THEN counted[c] ELSE lateCount[x]
    BY <2>2 DEF TypeOK
  <2>6. ASSUME NEW q \in Students, NEW z
        PROVE  /\ Mine(q, z)' = IF q = s /\ z = y THEN Mine(q, z) \cup {r} ELSE Mine(q, z)
               /\ r \notin Mine(q, z)
    BY <2>1, <2>3, <2>4, LateArrivalAssumption DEF Mine
  <2>7. n \in Nat /\ Cardinality(Mine(s, y) \cup {r}) = n + 1
    BY <2>1, <2>6, MineFinite, FS_AddElement
  <2>8. s \notin overlapped => counted[c] = n + 1
    BY <2>1 DEF InvNumbered, CountCurrent
  <2>9. ASSUME NEW q \in Students \ overlapped', NEW z \in Years PROVE NumberedFor(q, z)'
    <3>1. NumberedFor(q, z)
      BY <2>1, <2>9 DEF InvNumbered
    <3>2. \A x \in Mine(q, z) : lateCount'[x] = lateCount[x]
      BY <2>5, <2>6 DEF Mine
    <3>3. CASE q = s /\ z = y
      <4>1. Mine(q, z)' = Mine(q, z) \cup {r} /\ lateCount'[r] = n + 1 /\ Cardinality(Mine(q, z)') = n + 1
        BY <2>1, <2>5, <2>6, <2>7, <2>8, <3>3
      <4>2. \A x \in Mine(q, z) : lateCount[x] \in 1 .. n
        BY <3>1, <3>3 DEF NumberedFor
      <4>3. \A m \in 1 .. n : \E x \in Mine(q, z) : lateCount[x] = m
        BY <3>1, <3>3 DEF NumberedFor
      <4>4. \A x \in Mine(q, z)' : lateCount'[x] \in 1 .. (n + 1)
        BY <2>7, <3>2, <4>1, <4>2
      <4>5. \A m \in 1 .. (n + 1) : \E x \in Mine(q, z)' : lateCount'[x] = m
        BY <2>7, <3>2, <4>1, <4>3
      <4> QED BY <4>1, <4>4, <4>5 DEF NumberedFor
    <3>4. CASE ~(q = s /\ z = y)
      <4>1. Mine(q, z)' = Mine(q, z)
        BY <2>6, <3>4
      <4> QED BY <3>1, <3>2, <4>1 DEF NumberedFor
    <3> QED BY <3>3, <3>4
  <2>10. ASSUME NEW d \in Calls, callPc'[d] = "counted", subject'[d] \notin overlapped' PROVE CountCurrent(d)'
    <3>1. d # c /\ callPc[d] = "counted" /\ subject'[d] = subject[d] /\ callYear'[d] = callYear[d]
          /\ counted'[d] = counted[d] /\ subject[d] \in Students
      BY <1>8, <2>10 DEF CreateRecord, Return, TypeOK, InvCalls
    <3>2. subject[d] # s
      <4>1. subject[d] \notin overlapped /\ Creating(d, subject[d])
        BY <2>1, <2>10, <3>1 DEF Creating, InvCalls
      <4> QED BY <2>1, <3>1, <4>1 DEF InvCalm, Calm
    <3>3. \A z : Mine(subject[d], z)' = Mine(subject[d], z)
      <4>1. \A q \in Students : \A z : q # s => \A x \in Records :
              (recStudent'[x] = q /\ recYear'[x] = z) <=> (recStudent[x] = q /\ recYear[x] = z)
        BY <2>1, <2>3, <2>4, LateArrivalAssumption
      <4> QED BY <3>1, <3>2, <4>1 DEF Mine
    <3>4. counted[d] = Cardinality(Mine(subject[d], callYear[d])) + 1
      BY <2>1, <2>10, <3>1 DEF InvNumbered, CountCurrent
    <3>5. Mine(subject[d], callYear[d])' = Mine(subject[d], callYear[d])
      BY <3>1, <3>3 DEF Mine
    <3> QED BY <3>1, <3>4, <3>5 DEF CountCurrent
  <2> QED BY <2>9, <2>10 DEF InvNumbered
<1>9. ASSUME NEW c \in Calls, UpdateLeadershipStage(c) PROVE InvNumbered'
  <2>1. /\ UNCHANGED <<recStudent, recYear, lateCount>> /\ overlapped \subseteq overlapped'
        /\ \A d \in Calls : callPc'[d] = "counted" => /\ callPc[d] = "counted" /\ subject'[d] = subject[d]
              /\ callYear'[d] = callYear[d] /\ counted'[d] = counted[d]
    BY <1>9 DEF UpdateLeadershipStage, AtStage, Sign, Return, TypeOK, columns, roster, locals, callVars, history, qrVars
  <2> QED BY <2>1, NumberedFrame
<1>10. ASSUME NEW c \in Calls, UpdateClassStage(c) PROVE InvNumbered'
  <2>1. /\ UNCHANGED <<recStudent, recYear, lateCount>> /\ overlapped \subseteq overlapped'
        /\ \A d \in Calls : callPc'[d] = "counted" => /\ callPc[d] = "counted" /\ subject'[d] = subject[d]
              /\ callYear'[d] = callYear[d] /\ counted'[d] = counted[d]
    BY <1>10 DEF UpdateClassStage, AtStage, Sign, Return, TypeOK, columns, roster, locals, callVars, history, qrVars
  <2> QED BY <2>1, NumberedFrame
<1>11. ASSUME NEW c \in Calls, CallFails(c) PROVE InvNumbered'
  <2>1. /\ UNCHANGED <<recStudent, recYear, lateCount>> /\ overlapped \subseteq overlapped'
        /\ \A d \in Calls : callPc'[d] = "counted" => /\ callPc[d] = "counted" /\ subject'[d] = subject[d]
              /\ callYear'[d] = callYear[d] /\ counted'[d] = counted[d]
    BY <1>11 DEF CallFails, Return, TypeOK, columns, roster, locals, callVars, history, qrVars
  <2> QED BY <2>1, NumberedFrame
<1>12. CASE UNCHANGED vars
  <2>1. /\ UNCHANGED <<recStudent, recYear, lateCount>> /\ overlapped \subseteq overlapped'
        /\ \A d \in Calls : callPc'[d] = "counted" => /\ callPc[d] = "counted" /\ subject'[d] = subject[d]
              /\ callYear'[d] = callYear[d] /\ counted'[d] = counted[d]
    BY <1>12 DEF vars, TypeOK, columns, roster, locals, callVars, history, qrVars
  <2> QED BY <2>1, NumberedFrame
<1> QED BY <1>1, <1>2, <1>3, <1>4, <1>5, <1>6, <1>7, <1>8, <1>9, <1>10, <1>11, <1>12 DEF Next, CallSteps

LEMMA InvInit == Init => IInv
<1> SUFFICES ASSUME Init PROVE IInv
  OBVIOUS
<1>1. TypeOK
  BY TypeInit
<1>2. InvCalls /\ InvSigned /\ InvCalm /\ OneRecordPerDayUnlessOverlap
  BY LateArrivalAssumption DEF Init, InvCalls, InvSigned, InvCalm, Calm, Creating, OneRecordPerDayUnlessOverlap
<1>3. InvTokens /\ InvBacked
  BY LateArrivalAssumption DEF Init, InvTokens, Holding, InvBacked, Backs
<1>4. InvNumbered
  <2>1. \A s \in Students : \A y : {r \in Records : recStudent[r] = s /\ recYear[r] = y} = {}
    BY LateArrivalAssumption DEF Init
  <2>2. Cardinality({}) = 0 /\ 1 .. 0 = {}
    BY FS_EmptySet
  <2>3. \A s \in Students : \A y : NumberedFor(s, y)
    BY <2>1, <2>2 DEF NumberedFor, Mine
  <2> QED BY <2>3 DEF Init, InvNumbered
<1> QED BY <1>1, <1>2, <1>3, <1>4 DEF IInv

LEMMA Inductive == Spec => []IInv
<1>1. Init => IInv
  BY InvInit
<1>2. IInv /\ [Next]_vars => IInv'
  BY TypeStep, CallsStep, SignedStep, CalmStep, OneRecordStep, TokensStep, BackedStep, NumberedStep DEF IInv
<1> QED BY <1>1, <1>2, PTL DEF Spec

\* Every variable of records, scans and roster has its type.
THEOREM LateArrivalTypeCorrect == Spec => []TypeOK
<1>1. IInv => TypeOK
  BY DEF IInv
<1> QED BY Inductive, <1>1, PTL

\* A student whose first scans never overlapped has one record a day (Scan).
THEOREM OneRecordWithoutOverlap == Spec => []OneRecordPerDayUnlessOverlap
<1>1. IInv => OneRecordPerDayUnlessOverlap
  BY DEF IInv
<1> QED BY Inductive, <1>1, PTL

\* ... and his records of a year are numbered without gap or repetition.
THEOREM NumberedWithoutOverlap == Spec => []NumberedUnlessOverlap
<1>1. IInv => NumberedUnlessOverlap
  BY DEF IInv, InvNumbered, NumberedFor, Mine, NumberedUnlessOverlap
<1> QED BY Inductive, <1>1, PTL

\* Every signature is that of the owner of a token that signs nothing else
\* (ConsumeToken before the checks of Scan).
THEOREM SignaturesAreTheOwners == Spec => []SignedByTokenOwner
<1>1. IInv => SignedByTokenOwner
  BY DEF IInv, InvTokens, InvBacked, Backs, SignedByTokenOwner
<1> QED BY Inductive, <1>1, PTL

\* No signature is replaced and no record falls back (the guarded UPDATEs).
THEOREM RecordsAlwaysAdvance == Spec => RecordsOnlyAdvance
<1>1. IInv /\ [Next]_vars => [Advance]_vars
  BY AdvanceStep DEF IInv
<1> QED BY Inductive, <1>1, PTL DEF Spec, RecordsOnlyAdvance, Advance

=============================================================================
