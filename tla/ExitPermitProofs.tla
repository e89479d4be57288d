-------------------------- MODULE ExitPermitProofs --------------------------
(***************************************************************************)
(* Proofs about ExitPermit, for any number of permits, students, calls,    *)
(* tokens, users and roster changes: type correctness, one token for each  *)
(* signature, the order of the signatures, one outcome for each permit,    *)
(* one active permit without overlap, and the refinement of ExitChain.     *)
(***************************************************************************)
EXTENDS ExitPermit, TLAPS

Holding(c) == callPc[c] \in {"consumed", "checked"}
Targeted(c) == callPc[c] \notin {"idle", "counted", "atGate"}

\* A call that consumed a token is the only one to hold it, acts for its owner,
\* and no signature rests on the token yet.
InvTokens ==
    /\ \A c \in Calls : Holding(c) =>
         token[c] \in Tokens /\ qrState[token[c]] = "used" /\ actor[c] = qrOwner[token[c]]
    /\ \A c, d \in Calls : Holding(c) /\ Holding(d) /\ token[c] = token[d] => c = d
    /\ \A c \in Calls, x \in Signatures : Holding(c) => backing[x] # token[c]
    /\ OneTokenPerSignature

\* Calls act on permits that exist.  A call that saw the second stage knows the
\* duty teacher of the permit for good, and its actor is another person.
InvCalls ==
    /\ \A c \in Calls : Targeted(c) => permit[c] \in Permits /\ status[permit[c]] # "none"
    /\ \A c \in Calls : ~Targeted(c) => seen[c] = "none"
    /\ \A c \in Calls : seen[c] = "pending_class_teacher" =>
         /\ status[permit[c]] \notin {"none", "pending_duty_teacher"}
         /\ seenDuty[c] = dutyBy[permit[c]]
    /\ \A c \in Calls : callPc[c] = "checked" /\ seen[c] = "pending_class_teacher" =>
         actor[c] # seenDuty[c]

\* Before it is issued a permit has no gate pass and no fourth signature.
InvGate ==
    /\ \A p \in Permits : isPending(status[p]) \/ status[p] = "none" =>
         leadershipBy[p] = NoUser /\ gate[p] = "none"
    /\ \A p \in Permits : status[p] = "none" => student[p] = NoStudent /\ dutyBy[p] = NoUser
    /\ \A c \in Calls : callPc[c] \in {"atGate", "gating"} => actor[c] \in Users

\* A submission that has counted found nothing active, and without overlap
\* nothing became active since.
InvSubmit ==
    /\ \A c \in Calls : callPc[c] = "counted" => subject[c] \in Students
    /\ \A s \in Students \ overlapped : \A c, d \in Calls :
         callPc[c] = "counted" /\ callPc[d] = "counted" /\ subject[c] = s /\ subject[d] = s => c = d
    /\ \A s \in Students \ overlapped : \A c \in Calls :
         callPc[c] = "counted" /\ subject[c] = s => ActivePermits(s) = {}

\* SignaturesInOrder of one permit.
Chained(p) ==
    /\ status[p] \in {"pending_class_teacher", "pending_bk", "pending_leadership", "issued", "exited"}
         => Signed(p, "pending_duty_teacher", dutyBy[p])
    /\ status[p] \in {"pending_bk", "pending_leadership", "issued", "exited"}
         => Signed(p, "pending_class_teacher", classBy[p]) /\ classBy[p] # dutyBy[p]
    /\ status[p] \in {"pending_leadership", "issued", "exited"} => Signed(p, "pending_bk", bkBy[p])
    /\ status[p] \in {"issued", "exited"} => Signed(p, "pending_leadership", leadershipBy[p])

IInv == TypeOK /\ InvTokens /\ InvCalls /\ InvGate /\ InvSubmit
        /\ SignaturesInOrder /\ OneOutcome /\ OneActiveUnlessOverlap

LEMMA TypeInit == Init => TypeOK
BY ExitPermitAssumption, TeacherQRAssumption
   DEF Init, TokensInit, TypeOK, TokensTypeOK, TokenStates, CallStates, Statuses, FinalStatuses, PendingStatuses, Signatures

LEMMA TypeStep == TypeOK /\ [Next]_vars => TypeOK'
<1> SUFFICES ASSUME TypeOK, [Next]_vars PROVE TypeOK'
  OBVIOUS
<1> USE ExitPermitAssumption, TeacherQRAssumption DEF TypeOK, TokensTypeOK, TokenStates, CallStates, Statuses, FinalStatuses, PendingStatuses, vars, columns, roster, locals, callVars, history, qrVars
<1>1. ASSUME NEW c \in Calls, CallFails(c) PROVE TypeOK'
  BY <1>1 DEF CallFails, Return
<1>2. ASSUME NEW c \in Calls, NEW s \in Students, CountActive(c, s) PROVE TypeOK'
  BY <1>2 DEF CountActive
<1>3. ASSUME NEW c \in Calls, NEW p \in Permits, CreateRequest(c, p) PROVE TypeOK'
  BY <1>3 DEF CreateRequest, Return
<1>4. ASSUME NEW c \in Calls, NEW p \in Permits, ScanRead(c, p) PROVE TypeOK'
  BY <1>4 DEF ScanRead, GetDetail
<1>5. ASSUME NEW c \in Calls, NEW k \in Tokens, ScanConsume(c, k) PROVE TypeOK'
  BY <1>5 DEF ScanConsume, ConsumeToken, Continue
<1>6. ASSUME NEW c \in Calls, ScanCheck(c) PROVE TypeOK'
  BY <1>6 DEF ScanCheck, Continue
<1>7. ASSUME NEW c \in Calls, UpdateDutyStage(c) PROVE TypeOK'
  BY <1>7 DEF UpdateDutyStage, AtStage, Sign, Return
<1>8. ASSUME NEW c \in Calls, UpdateClassStage(c) PROVE TypeOK'
  BY <1>8 DEF UpdateClassStage, AtStage, Sign, Return
<1>9. ASSUME NEW c \in Calls, UpdateBKStage(c) PROVE TypeOK'
  BY <1>9 DEF UpdateBKStage, AtStage, Sign, Return
<1>10. ASSUME NEW c \in Calls, UpdateLeadershipStage(c) PROVE TypeOK'
  <2>1. gate' \in [Permits -> {"none", "valid", "expired"}]
    BY <1>10 DEF UpdateLeadershipStage
  <2> QED BY <1>10, <2>1 DEF UpdateLeadershipStage, AtStage, Sign, Return
<1>11. ASSUME NEW c \in Calls, NEW p \in Permits, CancelRead(c, p) PROVE TypeOK'
  BY <1>11 DEF CancelRead, GetDetail
<1>12. ASSUME NEW c \in Calls, Cancel(c) PROVE TypeOK'
  BY <1>12 DEF Cancel, Return
<1>13. ASSUME NEW c \in Calls, NEW p \in Permits, NEW u \in Users, RejectRead(c, p, u) PROVE TypeOK'
  BY <1>13 DEF RejectRead, GetDetail
<1>14. ASSUME NEW c \in Calls, requireRejectAuthority(c) PROVE TypeOK'
  BY <1>14 DEF requireRejectAuthority, Continue
<1>15. ASSUME NEW c \in Calls, Reject(c) PROVE TypeOK'
  BY <1>15 DEF Reject, Return
<1>16. ASSUME NEW c \in Calls, NEW u \in Users, GateFlag(c, u) PROVE TypeOK'
  BY <1>16 DEF GateFlag, Continue
<1>17. ASSUME NEW c \in Calls, NEW p \in Permits, GetByGateToken(c, p) PROVE TypeOK'
  BY <1>17 DEF GetByGateToken, Continue
<1>18. ASSUME NEW c \in Calls, GateScan(c) PROVE TypeOK'
  BY <1>18 DEF GateScan, Return
<1>19. ASSUME NEW p \in Permits, GateExpires(p) PROVE TypeOK'
  BY <1>19 DEF GateExpires
<1>20. CASE TokenStep
  BY <1>20 DEF TokenStep, TokenExpires, GenerateToken
<1>21. CASE RosterChanges
  BY <1>21 DEF RosterChanges
<1>22. CASE UNCHANGED vars
  BY <1>22 DEF vars
<1> QED BY <1>1, <1>2, <1>3, <1>4, <1>5, <1>6, <1>7, <1>8, <1>9, <1>10, <1>11, <1>12, <1>13, <1>14, <1>15, <1>16, <1>17, <1>18, <1>19, <1>20, <1>21, <1>22 DEF Next, CallStep

LEMMA TokensStep == TypeOK /\ InvTokens /\ InvCalls /\ [Next]_vars => InvTokens'
<1> SUFFICES ASSUME TypeOK, InvTokens, InvCalls, [Next]_vars PROVE InvTokens'
  OBVIOUS
<1> USE TeacherQRAssumption, ExitPermitAssumption DEF TypeOK, TokensTypeOK, InvTokens, InvCalls, Targeted, Holding, OneTokenPerSignature, vars, columns, roster, locals, callVars, history, qrVars
<1>1. ASSUME NEW c \in Calls, CallFails(c) PROVE InvTokens'
  BY <1>1 DEF CallFails, Return
<1>2. ASSUME NEW c \in Calls, NEW s \in Students, CountActive(c, s) PROVE InvTokens'
  BY <1>2 DEF CountActive
<1>3. ASSUME NEW c \in Calls, NEW p \in Permits, CreateRequest(c, p) PROVE InvTokens'
  BY <1>3 DEF CreateRequest, Return
<1>4. ASSUME NEW c \in Calls, NEW p \in Permits, ScanRead(c, p) PROVE InvTokens'
  BY <1>4 DEF ScanRead, GetDetail
<1>5. ASSUME NEW c \in Calls, NEW k \in Tokens, ScanConsume(c, k) PROVE InvTokens'
  BY <1>5 DEF ScanConsume, ConsumeToken, Continue
<1>6. ASSUME NEW c \in Calls, ScanCheck(c) PROVE InvTokens'
  BY <1>6 DEF ScanCheck, Continue
<1>7. ASSUME NEW c \in Calls, UpdateDutyStage(c) PROVE InvTokens'
  <2>1. permit[c] \in Permits /\ Holding(c) /\ ~Holding(c)'
    BY <1>7 DEF UpdateDutyStage, AtStage, Sign, Return
  <2>2. \A d \in Calls : Holding(d)' => d # c /\ Holding(d) /\ token'[d] = token[d] /\ actor'[d] = actor[d]
    BY <1>7 DEF UpdateDutyStage, AtStage, Sign, Return
  <2>3. backing' = [backing EXCEPT ![<<permit[c], "pending_duty_teacher">>] = token[c]] /\ UNCHANGED qrVars
    BY <1>7 DEF UpdateDutyStage, AtStage, Sign, Return
  <2>4. \A x \in Signatures : backing'[x] = token[c] \/ backing'[x] = backing[x]
    BY <2>3
  <2>5. \A x, y \in Signatures : backing'[x] = token[c] /\ backing'[y] = token[c] => x = y
    BY <2>1, <2>3
  <2> QED BY <2>1, <2>2, <2>3, <2>4, <2>5
<1>8. ASSUME NEW c \in Calls, UpdateClassStage(c) PROVE InvTokens'
  <2>1. permit[c] \in Permits /\ Holding(c) /\ ~Holding(c)'
    BY <1>8 DEF UpdateClassStage, AtStage, Sign, Return
  <2>2. \A d \in Calls : Holding(d)' => d # c /\ Holding(d) /\ token'[d] = token[d] /\ actor'[d] = actor[d]
    BY <1>8 DEF UpdateClassStage, AtStage, Sign, Return
  <2>3. backing' = [backing EXCEPT ![<<permit[c], "pending_class_teacher">>] = token[c]] /\ UNCHANGED qrVars
    BY <1>8 DEF UpdateClassStage, AtStage, Sign, Return
  <2>4. \A x \in Signatures : backing'[x] = token[c] \/ backing'[x] = backing[x]
    BY <2>3
  <2>5. \A x, y \in Signatures : backing'[x] = token[c] /\ backing'[y] = token[c] => x = y
    BY <2>1, <2>3
  <2> QED BY <2>1, <2>2, <2>3, <2>4, <2>5
<1>9. ASSUME NEW c \in Calls, UpdateBKStage(c) PROVE InvTokens'
  <2>1. permit[c] \in Permits /\ Holding(c) /\ ~Holding(c)'
    BY <1>9 DEF UpdateBKStage, AtStage, Sign, Return
  <2>2. \A d \in Calls : Holding(d)' => d # c /\ Holding(d) /\ token'[d] = token[d] /\ actor'[d] = actor[d]
    BY <1>9 DEF UpdateBKStage, AtStage, Sign, Return
  <2>3. backing' = [backing EXCEPT ![<<permit[c], "pending_bk">>] = token[c]] /\ UNCHANGED qrVars
    BY <1>9 DEF UpdateBKStage, AtStage, Sign, Return
  <2>4. \A x \in Signatures : backing'[x] = token[c] \/ backing'[x] = backing[x]
    BY <2>3
  <2>5. \A x, y \in Signatures : backing'[x] = token[c] /\ backing'[y] = token[c] => x = y
    BY <2>1, <2>3
  <2> QED BY <2>1, <2>2, <2>3, <2>4, <2>5
<1>10. ASSUME NEW c \in Calls, UpdateLeadershipStage(c) PROVE InvTokens'
  <2>1. permit[c] \in Permits /\ Holding(c) /\ ~Holding(c)'
    BY <1>10 DEF UpdateLeadershipStage, AtStage, Sign, Return
  <2>2. \A d \in Calls : Holding(d)' => d # c /\ Holding(d) /\ token'[d] = token[d] /\ actor'[d] = actor[d]
    BY <1>10 DEF UpdateLeadershipStage, AtStage, Sign, Return
  <2>3. backing' = [backing EXCEPT ![<<permit[c], "pending_leadership">>] = token[c]] /\ UNCHANGED qrVars
    BY <1>10 DEF UpdateLeadershipStage, AtStage, Sign, Return
  <2>4. \A x \in Signatures : backing'[x] = token[c] \/ backing'[x] = backing[x]
    BY <2>3
  <2>5. \A x, y \in Signatures : backing'[x] = token[c] /\ backing'[y] = token[c] => x = y
    BY <2>1, <2>3
  <2> QED BY <2>1, <2>2, <2>3, <2>4, <2>5
<1>11. ASSUME NEW c \in Calls, NEW p \in Permits, CancelRead(c, p) PROVE InvTokens'
  BY <1>11 DEF CancelRead, GetDetail
<1>12. ASSUME NEW c \in Calls, Cancel(c) PROVE InvTokens'
  BY <1>12 DEF Cancel, Return
<1>13. ASSUME NEW c \in Calls, NEW p \in Permits, NEW u \in Users, RejectRead(c, p, u) PROVE InvTokens'
  BY <1>13 DEF RejectRead, GetDetail
<1>14. ASSUME NEW c \in Calls, requireRejectAuthority(c) PROVE InvTokens'
  BY <1>14 DEF requireRejectAuthority, Continue
<1>15. ASSUME NEW c \in Calls, Reject(c) PROVE InvTokens'
  BY <1>15 DEF Reject, Return
<1>16. ASSUME NEW c \in Calls, NEW u \in Users, GateFlag(c, u) PROVE InvTokens'
  BY <1>16 DEF GateFlag, Continue
<1>17. ASSUME NEW c \in Calls, NEW p \in Permits, GetByGateToken(c, p) PROVE InvTokens'
  BY <1>17 DEF GetByGateToken, Continue
<1>18. ASSUME NEW c \in Calls, GateScan(c) PROVE InvTokens'
  BY <1>18 DEF GateScan, Return
<1>19. ASSUME NEW p \in Permits, GateExpires(p) PROVE InvTokens'
  BY <1>19 DEF GateExpires
<1>20. CASE TokenStep
  BY <1>20 DEF TokenStep, TokenExpires, GenerateToken
<1>21. CASE RosterChanges
  BY <1>21 DEF RosterChanges
<1>22. CASE UNCHANGED vars
  BY <1>22 DEF vars
<1> QED BY <1>1, <1>2, <1>3, <1>4, <1>5, <1>6, <1>7, <1>8, <1>9, <1>10, <1>11, <1>12, <1>13, <1>14, <1>15, <1>16, <1>17, <1>18, <1>19, <1>20, <1>21, <1>22 DEF Next, CallStep

LEMMA CallsStep == TypeOK /\ InvTokens /\ InvCalls /\ [Next]_vars => InvCalls'
<1> SUFFICES ASSUME TypeOK, InvTokens, InvCalls, [Next]_vars PROVE InvCalls'
  OBVIOUS
<1> USE ExitPermitAssumption DEF TypeOK, InvCalls, Targeted, PendingStatuses, CallStates, vars, columns, roster, locals, callVars, history, qrVars
<1>1. ASSUME NEW c \in Calls, CallFails(c) PROVE InvCalls'
  BY <1>1 DEF CallFails, Return
<1>2. ASSUME NEW c \in Calls, NEW s \in Students, CountActive(c, s) PROVE InvCalls'
  BY <1>2 DEF CountActive
<1>3. ASSUME NEW c \in Calls, NEW p \in Permits, CreateRequest(c, p) PROVE InvCalls'
  BY <1>3 DEF CreateRequest, Return
<1>4. ASSUME NEW c \in Calls, NEW p \in Permits, ScanRead(c, p) PROVE InvCalls'
  BY <1>4 DEF ScanRead, GetDetail
<1>5. ASSUME NEW c \in Calls, NEW k \in Tokens, ScanConsume(c, k) PROVE InvCalls'
  BY <1>5 DEF ScanConsume, ConsumeToken, Continue
<1>6. ASSUME NEW c \in Calls, ScanCheck(c) PROVE InvCalls'
  BY <1>6 DEF ScanCheck, Continue, Authority
<1>7. ASSUME NEW c \in Calls, UpdateDutyStage(c) PROVE InvCalls'
  BY <1>7 DEF UpdateDutyStage, AtStage, Sign, Return
<1>8. ASSUME NEW c \in Calls, UpdateClassStage(c) PROVE InvCalls'
  BY <1>8 DEF UpdateClassStage, AtStage, Sign, Return
<1>9. ASSUME NEW c \in Calls, UpdateBKStage(c) PROVE InvCalls'
  BY <1>9 DEF UpdateBKStage, AtStage, Sign, Return
<1>10. ASSUME NEW c \in Calls, UpdateLeadershipStage(c) PROVE InvCalls'
  BY <1>10 DEF UpdateLeadershipStage, AtStage, Sign, Return
<1>11. ASSUME NEW c \in Calls, NEW p \in Permits, CancelRead(c, p) PROVE InvCalls'
  BY <1>11 DEF CancelRead, GetDetail
<1>12. ASSUME NEW c \in Calls, Cancel(c) PROVE InvCalls'
  BY <1>12 DEF Cancel, Return
<1>13. ASSUME NEW c \in Calls, NEW p \in Permits, NEW u \in Users, RejectRead(c, p, u) PROVE InvCalls'
  BY <1>13 DEF RejectRead, GetDetail
<1>14. ASSUME NEW c \in Calls, requireRejectAuthority(c) PROVE InvCalls'
  BY <1>14 DEF requireRejectAuthority, Continue
<1>15. ASSUME NEW c \in Calls, Reject(c) PROVE InvCalls'
  BY <1>15 DEF Reject, Return
<1>16. ASSUME NEW c \in Calls, NEW u \in Users, GateFlag(c, u) PROVE InvCalls'
  BY <1>16 DEF GateFlag, Continue
<1>17. ASSUME NEW c \in Calls, NEW p \in Permits, GetByGateToken(c, p) PROVE InvCalls'
  BY <1>17 DEF GetByGateToken, Continue
<1>18. ASSUME NEW c \in Calls, GateScan(c) PROVE InvCalls'
  BY <1>18 DEF GateScan, Return
<1>19. ASSUME NEW p \in Permits, GateExpires(p) PROVE InvCalls'
  BY <1>19 DEF GateExpires
<1>20. CASE TokenStep
  BY <1>20 DEF TokenStep, TokenExpires, GenerateToken
<1>21. CASE RosterChanges
  BY <1>21 DEF RosterChanges
<1>22. CASE UNCHANGED vars
  BY <1>22 DEF vars
<1> QED BY <1>1, <1>2, <1>3, <1>4, <1>5, <1>6, <1>7, <1>8, <1>9, <1>10, <1>11, <1>12, <1>13, <1>14, <1>15, <1>16, <1>17, <1>18, <1>19, <1>20, <1>21, <1>22 DEF Next, CallStep

LEMMA GateStep == TypeOK /\ InvCalls /\ InvGate /\ [Next]_vars => InvGate'
<1> SUFFICES ASSUME TypeOK, InvCalls, InvGate, [Next]_vars PROVE InvGate'
  OBVIOUS
<1> USE ExitPermitAssumption DEF TypeOK, InvCalls, InvGate, Targeted, isPending, PendingStatuses, CallStates, vars, columns, roster, locals, callVars, history, qrVars
<1>1. ASSUME NEW c \in Calls, CallFails(c) PROVE InvGate'
  BY <1>1 DEF CallFails, Return
<1>2. ASSUME NEW c \in Calls, NEW s \in Students, CountActive(c, s) PROVE InvGate'
  BY <1>2 DEF CountActive
<1>3. ASSUME NEW c \in Calls, NEW p \in Permits, CreateRequest(c, p) PROVE InvGate'
  BY <1>3 DEF CreateRequest, Return
<1>4. ASSUME NEW c \in Calls, NEW p \in Permits, ScanRead(c, p) PROVE InvGate'
  BY <1>4 DEF ScanRead, GetDetail
<1>5. ASSUME NEW c \in Calls, NEW k \in Tokens, ScanConsume(c, k) PROVE InvGate'
  BY <1>5 DEF ScanConsume, ConsumeToken, Continue
<1>6. ASSUME NEW c \in Calls, ScanCheck(c) PROVE InvGate'
  BY <1>6 DEF ScanCheck, Continue
<1>7. ASSUME NEW c \in Calls, UpdateDutyStage(c) PROVE InvGate'
  BY <1>7 DEF UpdateDutyStage, AtStage, Sign, Return
<1>8. ASSUME NEW c \in Calls, UpdateClassStage(c) PROVE InvGate'
  BY <1>8 DEF UpdateClassStage, AtStage, Sign, Return
<1>9. ASSUME NEW c \in Calls, UpdateBKStage(c) PROVE InvGate'
  BY <1>9 DEF UpdateBKStage, AtStage, Sign, Return
<1>10. ASSUME NEW c \in Calls, UpdateLeadershipStage(c) PROVE InvGate'
  BY <1>10 DEF UpdateLeadershipStage, AtStage, Sign, Return
<1>11. ASSUME NEW c \in Calls, NEW p \in Permits, CancelRead(c, p) PROVE InvGate'
  BY <1>11 DEF CancelRead, GetDetail
<1>12. ASSUME NEW c \in Calls, Cancel(c) PROVE InvGate'
  BY <1>12 DEF Cancel, Return
<1>13. ASSUME NEW c \in Calls, NEW p \in Permits, NEW u \in Users, RejectRead(c, p, u) PROVE InvGate'
  BY <1>13 DEF RejectRead, GetDetail
<1>14. ASSUME NEW c \in Calls, requireRejectAuthority(c) PROVE InvGate'
  BY <1>14 DEF requireRejectAuthority, Continue
<1>15. ASSUME NEW c \in Calls, Reject(c) PROVE InvGate'
  BY <1>15 DEF Reject, Return
<1>16. ASSUME NEW c \in Calls, NEW u \in Users, GateFlag(c, u) PROVE InvGate'
  BY <1>16 DEF GateFlag, Continue
<1>17. ASSUME NEW c \in Calls, NEW p \in Permits, GetByGateToken(c, p) PROVE InvGate'
  BY <1>17 DEF GetByGateToken, Continue
<1>18. ASSUME NEW c \in Calls, GateScan(c) PROVE InvGate'
  BY <1>18 DEF GateScan, Return
<1>19. ASSUME NEW p \in Permits, GateExpires(p) PROVE InvGate'
  BY <1>19 DEF GateExpires
<1>20. CASE TokenStep
  BY <1>20 DEF TokenStep, TokenExpires, GenerateToken
<1>21. CASE RosterChanges
  BY <1>21 DEF RosterChanges
<1>22. CASE UNCHANGED vars
  BY <1>22 DEF vars
<1> QED BY <1>1, <1>2, <1>3, <1>4, <1>5, <1>6, <1>7, <1>8, <1>9, <1>10, <1>11, <1>12, <1>13, <1>14, <1>15, <1>16, <1>17, <1>18, <1>19, <1>20, <1>21, <1>22 DEF Next, CallStep

LEMMA SubmitStep == TypeOK /\ InvCalls /\ InvGate /\ InvSubmit /\ [Next]_vars => InvSubmit'
<1> SUFFICES ASSUME TypeOK, InvCalls, InvGate, InvSubmit, [Next]_vars PROVE InvSubmit'
  OBVIOUS
<1> USE ExitPermitAssumption DEF TypeOK, InvCalls, InvSubmit, Targeted, ActivePermits, isActivePermit, isPending, PendingStatuses, CallStates, vars, columns, roster, locals, callVars, history, qrVars
<1>1. ASSUME NEW c \in Calls, CallFails(c) PROVE InvSubmit'
  BY <1>1 DEF CallFails, Return
<1>2. ASSUME NEW c \in Calls, NEW s \in Students, CountActive(c, s) PROVE InvSubmit'
  BY <1>2 DEF CountActive
<1>3. ASSUME NEW c \in Calls, NEW p \in Permits, CreateRequest(c, p) PROVE InvSubmit'
  BY <1>3 DEF CreateRequest, Return
<1>4. ASSUME NEW c \in Calls, NEW p \in Permits, ScanRead(c, p) PROVE InvSubmit'
  BY <1>4 DEF ScanRead, GetDetail
<1>5. ASSUME NEW c \in Calls, NEW k \in Tokens, ScanConsume(c, k) PROVE InvSubmit'
  BY <1>5 DEF ScanConsume, ConsumeToken, Continue
<1>6. ASSUME NEW c \in Calls, ScanCheck(c) PROVE InvSubmit'
  BY <1>6 DEF ScanCheck, Continue
<1>7. ASSUME NEW c \in Calls, UpdateDutyStage(c) PROVE InvSubmit'
  BY <1>7 DEF UpdateDutyStage, AtStage, Sign, Return
<1>8. ASSUME NEW c \in Calls, UpdateClassStage(c) PROVE InvSubmit'
  BY <1>8 DEF UpdateClassStage, AtStage, Sign, Return
<1>9. ASSUME NEW c \in Calls, UpdateBKStage(c) PROVE InvSubmit'
  BY <1>9 DEF UpdateBKStage, AtStage, Sign, Return
<1>10. ASSUME NEW c \in Calls, UpdateLeadershipStage(c) PROVE InvSubmit'
  BY <1>10 DEF UpdateLeadershipStage, AtStage, Sign, Return
<1>11. ASSUME NEW c \in Calls, NEW p \in Permits, CancelRead(c, p) PROVE InvSubmit'
  BY <1>11 DEF CancelRead, GetDetail
<1>12. ASSUME NEW c \in Calls, Cancel(c) PROVE InvSubmit'
  BY <1>12 DEF Cancel, Return
<1>13. ASSUME NEW c \in Calls, NEW p \in Permits, NEW u \in Users, RejectRead(c, p, u) PROVE InvSubmit'
  BY <1>13 DEF RejectRead, GetDetail
<1>14. ASSUME NEW c \in Calls, requireRejectAuthority(c) PROVE InvSubmit'
  BY <1>14 DEF requireRejectAuthority, Continue
<1>15. ASSUME NEW c \in Calls, Reject(c) PROVE InvSubmit'
  BY <1>15 DEF Reject, Return
<1>16. ASSUME NEW c \in Calls, NEW u \in Users, GateFlag(c, u) PROVE InvSubmit'
  BY <1>16 DEF GateFlag, Continue
<1>17. ASSUME NEW c \in Calls, NEW p \in Permits, GetByGateToken(c, p) PROVE InvSubmit'
  BY <1>17 DEF GetByGateToken, Continue
<1>18. ASSUME NEW c \in Calls, GateScan(c) PROVE InvSubmit'
  BY <1>18 DEF GateScan, Return
<1>19. ASSUME NEW p \in Permits, GateExpires(p) PROVE InvSubmit'
  BY <1>19 DEF GateExpires
<1>20. CASE TokenStep
  BY <1>20 DEF TokenStep, TokenExpires, GenerateToken
<1>21. CASE RosterChanges
  BY <1>21 DEF RosterChanges
<1>22. CASE UNCHANGED vars
  BY <1>22 DEF vars
<1> QED BY <1>1, <1>2, <1>3, <1>4, <1>5, <1>6, <1>7, <1>8, <1>9, <1>10, <1>11, <1>12, <1>13, <1>14, <1>15, <1>16, <1>17, <1>18, <1>19, <1>20, <1>21, <1>22 DEF Next, CallStep

LEMMA OneActiveStep == TypeOK /\ InvCalls /\ InvSubmit /\ OneActiveUnlessOverlap /\ [Next]_vars => OneActiveUnlessOverlap'
<1> SUFFICES ASSUME TypeOK, InvCalls, InvSubmit, OneActiveUnlessOverlap, [Next]_vars PROVE OneActiveUnlessOverlap'
  OBVIOUS
<1> USE ExitPermitAssumption DEF TypeOK, InvCalls, InvSubmit, OneActiveUnlessOverlap, Targeted, ActivePermits, isActivePermit, isPending, PendingStatuses, CallStates, vars, columns, roster, locals, callVars, history, qrVars
<1>1. ASSUME NEW c \in Calls, CallFails(c) PROVE OneActiveUnlessOverlap'
  BY <1>1 DEF CallFails, Return
<1>2. ASSUME NEW c \in Calls, NEW s \in Students, CountActive(c, s) PROVE OneActiveUnlessOverlap'
  BY <1>2 DEF CountActive
<1>3. ASSUME NEW c \in Calls, NEW p \in Permits, CreateRequest(c, p) PROVE OneActiveUnlessOverlap'
  BY <1>3 DEF CreateRequest, Return
<1>4. ASSUME NEW c \in Calls, NEW p \in Permits, ScanRead(c, p) PROVE OneActiveUnlessOverlap'
  BY <1>4 DEF ScanRead, GetDetail
<1>5. ASSUME NEW c \in Calls, NEW k \in Tokens, ScanConsume(c, k) PROVE OneActiveUnlessOverlap'
  BY <1>5 DEF ScanConsume, ConsumeToken, Continue
<1>6. ASSUME NEW c \in Calls, ScanCheck(c) PROVE OneActiveUnlessOverlap'
  BY <1>6 DEF ScanCheck, Continue
<1>7. ASSUME NEW c \in Calls, UpdateDutyStage(c) PROVE OneActiveUnlessOverlap'
  BY <1>7 DEF UpdateDutyStage, AtStage, Sign, Return
<1>8. ASSUME NEW c \in Calls, UpdateClassStage(c) PROVE OneActiveUnlessOverlap'
  BY <1>8 DEF UpdateClassStage, AtStage, Sign, Return
<1>9. ASSUME NEW c \in Calls, UpdateBKStage(c) PROVE OneActiveUnlessOverlap'
  BY <1>9 DEF UpdateBKStage, AtStage, Sign, Return
<1>10. ASSUME NEW c \in Calls, UpdateLeadershipStage(c) PROVE OneActiveUnlessOverlap'
  BY <1>10 DEF UpdateLeadershipStage, AtStage, Sign, Return
<1>11. ASSUME NEW c \in Calls, NEW p \in Permits, CancelRead(c, p) PROVE OneActiveUnlessOverlap'
  BY <1>11 DEF CancelRead, GetDetail
<1>12. ASSUME NEW c \in Calls, Cancel(c) PROVE OneActiveUnlessOverlap'
  BY <1>12 DEF Cancel, Return
<1>13. ASSUME NEW c \in Calls, NEW p \in Permits, NEW u \in Users, RejectRead(c, p, u) PROVE OneActiveUnlessOverlap'
  BY <1>13 DEF RejectRead, GetDetail
<1>14. ASSUME NEW c \in Calls, requireRejectAuthority(c) PROVE OneActiveUnlessOverlap'
  BY <1>14 DEF requireRejectAuthority, Continue
<1>15. ASSUME NEW c \in Calls, Reject(c) PROVE OneActiveUnlessOverlap'
  BY <1>15 DEF Reject, Return
<1>16. ASSUME NEW c \in Calls, NEW u \in Users, GateFlag(c, u) PROVE OneActiveUnlessOverlap'
  BY <1>16 DEF GateFlag, Continue
<1>17. ASSUME NEW c \in Calls, NEW p \in Permits, GetByGateToken(c, p) PROVE OneActiveUnlessOverlap'
  BY <1>17 DEF GetByGateToken, Continue
<1>18. ASSUME NEW c \in Calls, GateScan(c) PROVE OneActiveUnlessOverlap'
  BY <1>18 DEF GateScan, Return
<1>19. ASSUME NEW p \in Permits, GateExpires(p) PROVE OneActiveUnlessOverlap'
  BY <1>19 DEF GateExpires
<1>20. CASE TokenStep
  BY <1>20 DEF TokenStep, TokenExpires, GenerateToken
<1>21. CASE RosterChanges
  BY <1>21 DEF RosterChanges
<1>22. CASE UNCHANGED vars
  BY <1>22 DEF vars
<1> QED BY <1>1, <1>2, <1>3, <1>4, <1>5, <1>6, <1>7, <1>8, <1>9, <1>10, <1>11, <1>12, <1>13, <1>14, <1>15, <1>16, <1>17, <1>18, <1>19, <1>20, <1>21, <1>22 DEF Next, CallStep

LEMMA OutcomeStep == TypeOK /\ InvCalls /\ InvGate /\ OneOutcome /\ [Next]_vars => OneOutcome'
<1> SUFFICES ASSUME TypeOK, InvCalls, InvGate, OneOutcome, [Next]_vars PROVE OneOutcome'
  OBVIOUS
<1> USE ExitPermitAssumption, TeacherQRAssumption DEF TypeOK, InvCalls, InvGate, OneOutcome, Targeted, isPending, isFinal, FinalStatuses, PendingStatuses, CallStates, vars, columns, roster, locals, callVars, history, qrVars
<1>1. ASSUME NEW c \in Calls, CallFails(c) PROVE OneOutcome'
  BY <1>1 DEF CallFails, Return
<1>2. ASSUME NEW c \in Calls, NEW s \in Students, CountActive(c, s) PROVE OneOutcome'
  BY <1>2 DEF CountActive
<1>3. ASSUME NEW c \in Calls, NEW p \in Permits, CreateRequest(c, p) PROVE OneOutcome'
  BY <1>3 DEF CreateRequest, Return
<1>4. ASSUME NEW c \in Calls, NEW p \in Permits, ScanRead(c, p) PROVE OneOutcome'
  BY <1>4 DEF ScanRead, GetDetail
<1>5. ASSUME NEW c \in Calls, NEW k \in Tokens, ScanConsume(c, k) PROVE OneOutcome'
  BY <1>5 DEF ScanConsume, ConsumeToken, Continue
<1>6. ASSUME NEW c \in Calls, ScanCheck(c) PROVE OneOutcome'
  BY <1>6 DEF ScanCheck, Continue
<1>7. ASSUME NEW c \in Calls, UpdateDutyStage(c) PROVE OneOutcome'
  BY <1>7 DEF UpdateDutyStage, AtStage, Sign, Return
<1>8. ASSUME NEW c \in Calls, UpdateClassStage(c) PROVE OneOutcome'
  BY <1>8 DEF UpdateClassStage, AtStage, Sign, Return
<1>9. ASSUME NEW c \in Calls, UpdateBKStage(c) PROVE OneOutcome'
  BY <1>9 DEF UpdateBKStage, AtStage, Sign, Return
<1>10. ASSUME NEW c \in Calls, UpdateLeadershipStage(c) PROVE OneOutcome'
  BY <1>10 DEF UpdateLeadershipStage, AtStage, Sign, Return
<1>11. ASSUME NEW c \in Calls, NEW p \in Permits, CancelRead(c, p) PROVE OneOutcome'
  BY <1>11 DEF CancelRead, GetDetail
<1>12. ASSUME NEW c \in Calls, Cancel(c) PROVE OneOutcome'
  BY <1>12 DEF Cancel, Return
<1>13. ASSUME NEW c \in Calls, NEW p \in Permits, NEW u \in Users, RejectRead(c, p, u) PROVE OneOutcome'
  BY <1>13 DEF RejectRead, GetDetail
<1>14. ASSUME NEW c \in Calls, requireRejectAuthority(c) PROVE OneOutcome'
  BY <1>14 DEF requireRejectAuthority, Continue
<1>15. ASSUME NEW c \in Calls, Reject(c) PROVE OneOutcome'
  BY <1>15 DEF Reject, Return
<1>16. ASSUME NEW c \in Calls, NEW u \in Users, GateFlag(c, u) PROVE OneOutcome'
  BY <1>16 DEF GateFlag, Continue
<1>17. ASSUME NEW c \in Calls, NEW p \in Permits, GetByGateToken(c, p) PROVE OneOutcome'
  BY <1>17 DEF GetByGateToken, Continue
<1>18. ASSUME NEW c \in Calls, GateScan(c) PROVE OneOutcome'
  BY <1>18 DEF GateScan, Return
<1>19. ASSUME NEW p \in Permits, GateExpires(p) PROVE OneOutcome'
  BY <1>19 DEF GateExpires
<1>20. CASE TokenStep
  BY <1>20 DEF TokenStep, TokenExpires, GenerateToken
<1>21. CASE RosterChanges
  BY <1>21 DEF RosterChanges
<1>22. CASE UNCHANGED vars
  BY <1>22 DEF vars
<1> QED BY <1>1, <1>2, <1>3, <1>4, <1>5, <1>6, <1>7, <1>8, <1>9, <1>10, <1>11, <1>12, <1>13, <1>14, <1>15, <1>16, <1>17, <1>18, <1>19, <1>20, <1>21, <1>22 DEF Next, CallStep

LEMMA PairsAreSignatures == \A p \in Permits, st \in PendingStatuses : <<p, st>> \in Signatures
BY DEF Signatures

\* What keeps a permit's signatures: its columns, its tokens and their owners
\* stay, and the status stays, leaves the chain, or goes from issued to exited.
LEMMA ChainedKept ==
    ASSUME NEW p \in Permits, Chained(p),
           \/ status'[p] = status[p]
           \/ status'[p] \in {"pending_duty_teacher", "canceled", "rejected"}
           \/ status[p] = "issued" /\ status'[p] = "exited",
           dutyBy'[p] = dutyBy[p], classBy'[p] = classBy[p],
           bkBy'[p] = bkBy[p], leadershipBy'[p] = leadershipBy[p],
           \A st \in PendingStatuses : backing'[<<p, st>>] = backing[<<p, st>>],
           \A st \in PendingStatuses : backing[<<p, st>>] # NoToken =>
               qrOwner'[backing[<<p, st>>]] = qrOwner[backing[<<p, st>>]]
    PROVE  Chained(p)'
BY DEF Chained, Signed, PendingStatuses

LEMMA ChainedStep == TypeOK /\ InvTokens /\ InvCalls /\ SignaturesInOrder /\ [Next]_vars => SignaturesInOrder'
<1> SUFFICES ASSUME TypeOK, InvTokens, InvCalls, SignaturesInOrder, [Next]_vars, NEW p \in Permits PROVE Chained(p)'
  BY DEF SignaturesInOrder, Chained
<1>a. Chained(p)
  BY DEF SignaturesInOrder, Chained
<1> USE DEF TypeOK, TokensTypeOK, vars, columns, roster, locals, callVars, history, qrVars
<1>1. ASSUME NEW c \in Calls, CallFails(c) PROVE Chained(p)'
  <2>1. UNCHANGED <<qrOwner, dutyBy, classBy, bkBy, leadershipBy, backing>>
    BY <1>1 DEF CallFails, Return
  <2>2. status'[p] = status[p]
    BY <1>1 DEF CallFails, Return
  <2> HIDE DEF TypeOK
  <2> QED BY <1>a, <2>1, <2>2, ChainedKept
<1>2. ASSUME NEW c \in Calls, NEW s \in Students, CountActive(c, s) PROVE Chained(p)'
  <2>1. UNCHANGED <<qrOwner, dutyBy, classBy, bkBy, leadershipBy, backing>>
    BY <1>2 DEF CountActive
  <2>2. status'[p] = status[p]
    BY <1>2 DEF CountActive
  <2> HIDE DEF TypeOK
  <2> QED BY <1>a, <2>1, <2>2, ChainedKept
<1>3. ASSUME NEW c \in Calls, NEW q \in Permits, CreateRequest(c, q) PROVE Chained(p)'
  <2>1. UNCHANGED <<qrOwner, dutyBy, classBy, bkBy, leadershipBy, backing>>
    BY <1>3 DEF CreateRequest, Return
  <2>2. status'[p] \in {status[p], "pending_duty_teacher"}
    BY <1>3 DEF CreateRequest, Return
  <2> HIDE DEF TypeOK
  <2> QED BY <1>a, <2>1, <2>2, ChainedKept
<1>4. ASSUME NEW c \in Calls, NEW q \in Permits, ScanRead(c, q) PROVE Chained(p)'
  <2>1. UNCHANGED <<qrOwner, dutyBy, classBy, bkBy, leadershipBy, backing>>
    BY <1>4 DEF ScanRead, GetDetail
  <2>2. status'[p] = status[p]
    BY <1>4 DEF ScanRead, GetDetail
  <2> HIDE DEF TypeOK
  <2> QED BY <1>a, <2>1, <2>2, ChainedKept
<1>5. ASSUME NEW c \in Calls, NEW k \in Tokens, ScanConsume(c, k) PROVE Chained(p)'
  <2>1. UNCHANGED <<qrOwner, dutyBy, classBy, bkBy, leadershipBy, backing>>
    BY <1>5 DEF ScanConsume, ConsumeToken, Continue
  <2>2. status'[p] = status[p]
    BY <1>5 DEF ScanConsume, ConsumeToken, Continue
  <2> HIDE DEF TypeOK
  <2> QED BY <1>a, <2>1, <2>2, ChainedKept
<1>6. ASSUME NEW c \in Calls, ScanCheck(c) PROVE Chained(p)'
  <2>1. UNCHANGED <<qrOwner, dutyBy, classBy, bkBy, leadershipBy, backing>>
    BY <1>6 DEF ScanCheck, Continue
  <2>2. status'[p] = status[p]
    BY <1>6 DEF ScanCheck, Continue
  <2> HIDE DEF TypeOK
  <2> QED BY <1>a, <2>1, <2>2, ChainedKept
<1>7. ASSUME NEW c \in Calls, UpdateDutyStage(c) PROVE Chained(p)'
  <2>1. permit[c] \in Permits /\ token[c] \in Tokens /\ actor[c] = qrOwner[token[c]] /\ actor[c] \in Users
    BY <1>7 DEF UpdateDutyStage, AtStage, Sign, Return, InvTokens, InvCalls, Targeted, Holding
  <2>2. backing' = [backing EXCEPT ![<<permit[c], "pending_duty_teacher">>] = token[c]]
    BY <1>7 DEF UpdateDutyStage, AtStage, Sign, Return
  <2>3. dutyBy' = [dutyBy EXCEPT ![permit[c]] = actor[c]] /\ UNCHANGED <<qrOwner, classBy, bkBy, leadershipBy>>
    BY <1>7 DEF UpdateDutyStage, AtStage, Sign, Return
  <2>4. status' = [status EXCEPT ![permit[c]] = "pending_class_teacher"] /\ status[permit[c]] = "pending_duty_teacher"
    BY <1>7 DEF UpdateDutyStage, AtStage, Sign, Return
  <2>5. CASE p # permit[c]
    <3>1. \A st \in PendingStatuses : backing'[<<p, st>>] = backing[<<p, st>>]
      BY <2>2, <2>5, PairsAreSignatures
    <3> HIDE DEF TypeOK
    <3>2. status'[p] = status[p] /\ UNCHANGED qrOwner
      BY <2>3, <2>4, <2>5 DEF TypeOK
    <3>3. dutyBy'[p] = dutyBy[p] /\ classBy'[p] = classBy[p] /\ bkBy'[p] = bkBy[p] /\ leadershipBy'[p] = leadershipBy[p]
      BY <2>3, <2>5 DEF TypeOK
    <3> QED BY <1>a, <3>1, <3>2, <3>3, ChainedKept
  <2>6. CASE p = permit[c]
    <3>1. \A st \in PendingStatuses : backing'[<<p, st>>] = IF st = "pending_duty_teacher" THEN token[c] ELSE backing[<<p, st>>]
      BY <2>2, <2>6, PairsAreSignatures
    <3>2. Signed(p, "pending_duty_teacher", dutyBy[p])'
      BY <2>1, <2>3, <2>6, <3>1, ExitPermitAssumption, TeacherQRAssumption DEF Signed, PendingStatuses
    <3> QED BY <1>a, <2>3, <2>4, <2>6, <3>1, <3>2 DEF Chained, Signed, PendingStatuses
  <2> QED BY <2>5, <2>6
<1>8. ASSUME NEW c \in Calls, UpdateClassStage(c) PROVE Chained(p)'
  <2>1. permit[c] \in Permits /\ token[c] \in Tokens /\ actor[c] = qrOwner[token[c]] /\ actor[c] \in Users
    BY <1>8 DEF UpdateClassStage, AtStage, Sign, Return, InvTokens, InvCalls, Targeted, Holding
  <2>2. backing' = [backing EXCEPT ![<<permit[c], "pending_class_teacher">>] = token[c]]
    BY <1>8 DEF UpdateClassStage, AtStage, Sign, Return
  <2>3. classBy' = [classBy EXCEPT ![permit[c]] = actor[c]] /\ UNCHANGED <<qrOwner, dutyBy, bkBy, leadershipBy>>
    BY <1>8 DEF UpdateClassStage, AtStage, Sign, Return
  <2>4. status' = [status EXCEPT ![permit[c]] = "pending_bk"] /\ status[permit[c]] = "pending_class_teacher"
    BY <1>8 DEF UpdateClassStage, AtStage, Sign, Return
  <2>5. CASE p # permit[c]
    <3>1. \A st \in PendingStatuses : backing'[<<p, st>>] = backing[<<p, st>>]
      BY <2>2, <2>5, PairsAreSignatures
    <3> HIDE DEF TypeOK
    <3>2. status'[p] = status[p] /\ UNCHANGED qrOwner
      BY <2>3, <2>4, <2>5 DEF TypeOK
    <3>3. dutyBy'[p] = dutyBy[p] /\ classBy'[p] = classBy[p] /\ bkBy'[p] = bkBy[p] /\ leadershipBy'[p] = leadershipBy[p]
      BY <2>3, <2>5 DEF TypeOK
    <3> QED BY <1>a, <3>1, <3>2, <3>3, ChainedKept
  <2>6. CASE p = permit[c]
    <3>1. \A st \in PendingStatuses : backing'[<<p, st>>] = IF st = "pending_class_teacher" THEN token[c] ELSE backing[<<p, st>>]
      BY <2>2, <2>6, PairsAreSignatures
    <3>2. Signed(p, "pending_class_teacher", classBy[p])'
      BY <2>1, <2>3, <2>6, <3>1, ExitPermitAssumption, TeacherQRAssumption DEF Signed, PendingStatuses
    <3>3. actor[c] # dutyBy[p]
      BY <1>8, <2>6 DEF UpdateClassStage, AtStage, Sign, Return, InvCalls
    <3> QED BY <1>a, <2>3, <2>4, <2>6, <3>1, <3>2, <3>3 DEF Chained, Signed, PendingStatuses
  <2> QED BY <2>5, <2>6
<1>9. ASSUME NEW c \in Calls, UpdateBKStage(c) PROVE Chained(p)'
  <2>1. permit[c] \in Permits /\ token[c] \in Tokens /\ actor[c] = qrOwner[token[c]] /\ actor[c] \in Users
    BY <1>9 DEF UpdateBKStage, AtStage, Sign, Return, InvTokens, InvCalls, Targeted, Holding
  <2>2. backing' = [backing EXCEPT ![<<permit[c], "pending_bk">>] = token[c]]
    BY <1>9 DEF UpdateBKStage, AtStage, Sign, Return
  <2>3. bkBy' = [bkBy EXCEPT ![permit[c]] = actor[c]] /\ UNCHANGED <<qrOwner, dutyBy, classBy, leadershipBy>>
    BY <1>9 DEF UpdateBKStage, AtStage, Sign, Return
  <2>4. status' = [status EXCEPT ![permit[c]] = "pending_leadership"] /\ status[permit[c]] = "pending_bk"
    BY <1>9 DEF UpdateBKStage, AtStage, Sign, Return
  <2>5. CASE p # permit[c]
    <3>1. \A st \in PendingStatuses : backing'[<<p, st>>] = backing[<<p, st>>]
      BY <2>2, <2>5, PairsAreSignatures
    <3> HIDE DEF TypeOK
    <3>2. status'[p] = status[p] /\ UNCHANGED qrOwner
      BY <2>3, <2>4, <2>5 DEF TypeOK
    <3>3. dutyBy'[p] = dutyBy[p] /\ classBy'[p] = classBy[p] /\ bkBy'[p] = bkBy[p] /\ leadershipBy'[p] = leadershipBy[p]
      BY <2>3, <2>5 DEF TypeOK
    <3> QED BY <1>a, <3>1, <3>2, <3>3, ChainedKept
  <2>6. CASE p = permit[c]
    <3>1. \A st \in PendingStatuses : backing'[<<p, st>>] = IF st = "pending_bk" THEN token[c] ELSE backing[<<p, st>>]
      BY <2>2, <2>6, PairsAreSignatures
    <3>2. Signed(p, "pending_bk", bkBy[p])'
      BY <2>1, <2>3, <2>6, <3>1, ExitPermitAssumption, TeacherQRAssumption DEF Signed, PendingStatuses
    <3> QED BY <1>a, <2>3, <2>4, <2>6, <3>1, <3>2 DEF Chained, Signed, PendingStatuses
  <2> QED BY <2>5, <2>6
<1>10. ASSUME NEW c \in Calls, UpdateLeadershipStage(c) PROVE Chained(p)'
  <2>1. permit[c] \in Permits /\ token[c] \in Tokens /\ actor[c] = qrOwner[token[c]] /\ actor[c] \in Users
    BY <1>10 DEF UpdateLeadershipStage, AtStage, Sign, Return, InvTokens, InvCalls, Targeted, Holding
  <2>2. backing' = [backing EXCEPT ![<<permit[c], "pending_leadership">>] = token[c]]
    BY <1>10 DEF UpdateLeadershipStage, AtStage, Sign, Return
  <2>3. leadershipBy' = [leadershipBy EXCEPT ![permit[c]] = actor[c]] /\ UNCHANGED <<qrOwner, dutyBy, classBy, bkBy>>
    BY <1>10 DEF UpdateLeadershipStage, AtStage, Sign, Return
  <2>4. status' = [status EXCEPT ![permit[c]] = "issued"] /\ status[permit[c]] = "pending_leadership"
    BY <1>10 DEF UpdateLeadershipStage, AtStage, Sign, Return
  <2>5. CASE p # permit[c]
    <3>1. \A st \in PendingStatuses : backing'[<<p, st>>] = backing[<<p, st>>]
      BY <2>2, <2>5, PairsAreSignatures
    <3> HIDE DEF TypeOK
    <3>2. status'[p] = status[p] /\ UNCHANGED qrOwner
      BY <2>3, <2>4, <2>5 DEF TypeOK
    <3>3. dutyBy'[p] = dutyBy[p] /\ classBy'[p] = classBy[p] /\ bkBy'[p] = bkBy[p] /\ leadershipBy'[p] = leadershipBy[p]
      BY <2>3, <2>5 DEF TypeOK
    <3> QED BY <1>a, <3>1, <3>2, <3>3, ChainedKept
  <2>6. CASE p = permit[c]
    <3>1. \A st \in PendingStatuses : backing'[<<p, st>>] = IF st = "pending_leadership" THEN token[c] ELSE backing[<<p, st>>]
      BY <2>2, <2>6, PairsAreSignatures
    <3>2. Signed(p, "pending_leadership", leadershipBy[p])'
      BY <2>1, <2>3, <2>6, <3>1, ExitPermitAssumption, TeacherQRAssumption DEF Signed, PendingStatuses
    <3> QED BY <1>a, <2>3, <2>4, <2>6, <3>1, <3>2 DEF Chained, Signed, PendingStatuses
  <2> QED BY <2>5, <2>6
<1>11. ASSUME NEW c \in Calls, NEW q \in Permits, CancelRead(c, q) PROVE Chained(p)'
  <2>1. UNCHANGED <<qrOwner, dutyBy, classBy, bkBy, leadershipBy, backing>>
    BY <1>11 DEF CancelRead, GetDetail
  <2>2. status'[p] = status[p]
    BY <1>11 DEF CancelRead, GetDetail
  <2> HIDE DEF TypeOK
  <2> QED BY <1>a, <2>1, <2>2, ChainedKept
<1>12. ASSUME NEW c \in Calls, Cancel(c) PROVE Chained(p)'
  <2>1. UNCHANGED <<qrOwner, dutyBy, classBy, bkBy, leadershipBy, backing>>
    BY <1>12 DEF Cancel, Return
  <2>2. status'[p] \in {status[p], "canceled"}
    BY <1>12 DEF Cancel, Return
  <2> HIDE DEF TypeOK
  <2> QED BY <1>a, <2>1, <2>2, ChainedKept
<1>13. ASSUME NEW c \in Calls, NEW q \in Permits, NEW u \in Users, RejectRead(c, q, u) PROVE Chained(p)'
  <2>1. UNCHANGED <<qrOwner, dutyBy, classBy, bkBy, leadershipBy, backing>>
    BY <1>13 DEF RejectRead, GetDetail
  <2>2. status'[p] = status[p]
    BY <1>13 DEF RejectRead, GetDetail
  <2> HIDE DEF TypeOK
  <2> QED BY <1>a, <2>1, <2>2, ChainedKept
<1>14. ASSUME NEW c \in Calls, requireRejectAuthority(c) PROVE Chained(p)'
  <2>1. UNCHANGED <<qrOwner, dutyBy, classBy, bkBy, leadershipBy, backing>>
    BY <1>14 DEF requireRejectAuthority, Continue
  <2>2. status'[p] = status[p]
    BY <1>14 DEF requireRejectAuthority, Continue
  <2> HIDE DEF TypeOK
  <2> QED BY <1>a, <2>1, <2>2, ChainedKept
<1>15. ASSUME NEW c \in Calls, Reject(c) PROVE Chained(p)'
  <2>1. UNCHANGED <<qrOwner, dutyBy, classBy, bkBy, leadershipBy, backing>>
    BY <1>15 DEF Reject, Return
  <2>2. status'[p] \in {status[p], "rejected"}
    BY <1>15 DEF Reject, Return
  <2> HIDE DEF TypeOK
  <2> QED BY <1>a, <2>1, <2>2, ChainedKept
<1>16. ASSUME NEW c \in Calls, NEW u \in Users, GateFlag(c, u) PROVE Chained(p)'
  <2>1. UNCHANGED <<qrOwner, dutyBy, classBy, bkBy, leadershipBy, backing>>
    BY <1>16 DEF GateFlag, Continue
  <2>2. status'[p] = status[p]
    BY <1>16 DEF GateFlag, Continue
  <2> HIDE DEF TypeOK
  <2> QED BY <1>a, <2>1, <2>2, ChainedKept
<1>17. ASSUME NEW c \in Calls, NEW q \in Permits, GetByGateToken(c, q) PROVE Chained(p)'
  <2>1. UNCHANGED <<qrOwner, dutyBy, classBy, bkBy, leadershipBy, backing>>
    BY <1>17 DEF GetByGateToken, Continue
  <2>2. status'[p] = status[p]
    BY <1>17 DEF GetByGateToken, Continue
  <2> HIDE DEF TypeOK
  <2> QED BY <1>a, <2>1, <2>2, ChainedKept
<1>18. ASSUME NEW c \in Calls, GateScan(c) PROVE Chained(p)'
  <2>1. UNCHANGED <<qrOwner, dutyBy, classBy, bkBy, leadershipBy, backing>>
    BY <1>18 DEF GateScan, Return
  <2>2. status'[p] = status[p] \/ (status[p] = "issued" /\ status'[p] = "exited")
    BY <1>18 DEF GateScan, Return
  <2> HIDE DEF TypeOK
  <2> QED BY <1>a, <2>1, <2>2, ChainedKept
<1>19. ASSUME NEW q \in Permits, GateExpires(q) PROVE Chained(p)'
  <2>1. UNCHANGED <<qrOwner, dutyBy, classBy, bkBy, leadershipBy, backing>>
    BY <1>19 DEF GateExpires
  <2>2. status'[p] = status[p]
    BY <1>19 DEF GateExpires
  <2> HIDE DEF TypeOK
  <2> QED BY <1>a, <2>1, <2>2, ChainedKept
<1>20. CASE TokenStep
  <2>1. \A k \in Tokens : qrState[k] = "used" => qrOwner'[k] = qrOwner[k]
    BY <1>20 DEF TokenStep, TokenExpires, GenerateToken, TokensTypeOK
  <2>2. UNCHANGED <<status, dutyBy, classBy, bkBy, leadershipBy, backing>>
    BY <1>20 DEF TokenStep, TokenExpires, GenerateToken
  <2>3. \A st \in PendingStatuses : backing[<<p, st>>] # NoToken =>
          qrOwner'[backing[<<p, st>>]] = qrOwner[backing[<<p, st>>]]
    BY <2>1, PairsAreSignatures DEF InvTokens, OneTokenPerSignature
  <2> HIDE DEF TypeOK
  <2> QED BY <1>a, <2>2, <2>3, ChainedKept
<1>21. CASE RosterChanges
  <2>1. UNCHANGED <<qrOwner, dutyBy, classBy, bkBy, leadershipBy, backing>>
    BY <1>21 DEF RosterChanges
  <2>2. status'[p] = status[p]
    BY <1>21 DEF RosterChanges
  <2> HIDE DEF TypeOK
  <2> QED BY <1>a, <2>1, <2>2, ChainedKept
<1>22. CASE UNCHANGED vars
  <2>1. UNCHANGED <<qrOwner, status, dutyBy, classBy, bkBy, leadershipBy, backing>>
    BY <1>22 DEF vars
  <2> HIDE DEF TypeOK
  <2> QED BY <1>a, <2>1, ChainedKept
<1> QED BY <1>1, <1>2, <1>3, <1>4, <1>5, <1>6, <1>7, <1>8, <1>9, <1>10, <1>11, <1>12, <1>13, <1>14, <1>15, <1>16, <1>17, <1>18, <1>19, <1>20, <1>21, <1>22 DEF Next, CallStep

\* Every step of a permit is a step of its chain, every other step leaves it.
LEMMA ChainStep == TypeOK /\ InvTokens /\ InvCalls /\ [Next]_vars => [Chain!ChainNext]_(Chain!chainVars)
<1> SUFFICES ASSUME TypeOK, InvTokens, InvCalls, [Next]_vars PROVE [Chain!ChainNext]_(Chain!chainVars)
  OBVIOUS
<1> USE DEF TypeOK, Chain!chainVars, vars, columns, roster, locals, callVars, history, qrVars
<1>1. ASSUME NEW c \in Calls, CallFails(c) PROVE [Chain!ChainNext]_(Chain!chainVars)
  BY <1>1 DEF CallFails, Return
<1>2. ASSUME NEW c \in Calls, NEW s \in Students, CountActive(c, s) PROVE [Chain!ChainNext]_(Chain!chainVars)
  BY <1>2 DEF CountActive
<1>3. ASSUME NEW c \in Calls, NEW p \in Permits, CreateRequest(c, p) PROVE [Chain!ChainNext]_(Chain!chainVars)
  BY <1>3 DEF CreateRequest, Return, Chain!ChainNext, Chain!Ask
<1>4. ASSUME NEW c \in Calls, NEW p \in Permits, ScanRead(c, p) PROVE [Chain!ChainNext]_(Chain!chainVars)
  BY <1>4 DEF ScanRead, GetDetail
<1>5. ASSUME NEW c \in Calls, NEW k \in Tokens, ScanConsume(c, k) PROVE [Chain!ChainNext]_(Chain!chainVars)
  BY <1>5 DEF ScanConsume, ConsumeToken, Continue
<1>6. ASSUME NEW c \in Calls, ScanCheck(c) PROVE [Chain!ChainNext]_(Chain!chainVars)
  BY <1>6 DEF ScanCheck, Continue
<1>7. ASSUME NEW c \in Calls, UpdateDutyStage(c) PROVE [Chain!ChainNext]_(Chain!chainVars)
  <2>1. permit[c] \in Permits /\ token[c] \in Tokens /\ actor[c] \in Users
    BY <1>7 DEF UpdateDutyStage, AtStage, Sign, Return, InvCalls, Targeted, InvTokens, Holding, TokensTypeOK
  <2>2. status[permit[c]] = "pending_duty_teacher" /\ status' = [status EXCEPT ![permit[c]] = "pending_class_teacher"]
    BY <1>7 DEF UpdateDutyStage, AtStage, Sign, Return
  <2>4. Chain!Sign(permit[c], actor[c])
    BY <1>7, <2>1, <2>2 DEF UpdateDutyStage, AtStage, Sign, Return, Chain!Sign, Chain!After, Chain!Signatures
  <2> QED BY <2>1, <2>4 DEF Chain!ChainNext
<1>8. ASSUME NEW c \in Calls, UpdateClassStage(c) PROVE [Chain!ChainNext]_(Chain!chainVars)
  <2>1. permit[c] \in Permits /\ token[c] \in Tokens /\ actor[c] \in Users
    BY <1>8 DEF UpdateClassStage, AtStage, Sign, Return, InvCalls, Targeted, InvTokens, Holding, TokensTypeOK
  <2>2. status[permit[c]] = "pending_class_teacher" /\ status' = [status EXCEPT ![permit[c]] = "pending_bk"]
    BY <1>8 DEF UpdateClassStage, AtStage, Sign, Return
  <2>3. actor[c] # dutyBy[permit[c]]
    BY <1>8 DEF UpdateClassStage, AtStage, Sign, Return, InvCalls
  <2>4. Chain!Sign(permit[c], actor[c])
    BY <1>8, <2>1, <2>2, <2>3 DEF UpdateClassStage, AtStage, Sign, Return, Chain!Sign, Chain!After, Chain!Signatures
  <2> QED BY <2>1, <2>4 DEF Chain!ChainNext
<1>9. ASSUME NEW c \in Calls, UpdateBKStage(c) PROVE [Chain!ChainNext]_(Chain!chainVars)
  <2>1. permit[c] \in Permits /\ token[c] \in Tokens /\ actor[c] \in Users
    BY <1>9 DEF UpdateBKStage, AtStage, Sign, Return, InvCalls, Targeted, InvTokens, Holding, TokensTypeOK
  <2>2. status[permit[c]] = "pending_bk" /\ status' = [status EXCEPT ![permit[c]] = "pending_leadership"]
    BY <1>9 DEF UpdateBKStage, AtStage, Sign, Return
  <2>4. Chain!Sign(permit[c], actor[c])
    BY <1>9, <2>1, <2>2 DEF UpdateBKStage, AtStage, Sign, Return, Chain!Sign, Chain!After, Chain!Signatures
  <2> QED BY <2>1, <2>4 DEF Chain!ChainNext
<1>10. ASSUME NEW c \in Calls, UpdateLeadershipStage(c) PROVE [Chain!ChainNext]_(Chain!chainVars)
  <2>1. permit[c] \in Permits /\ token[c] \in Tokens /\ actor[c] \in Users
    BY <1>10 DEF UpdateLeadershipStage, AtStage, Sign, Return, InvCalls, Targeted, InvTokens, Holding, TokensTypeOK
  <2>2. status[permit[c]] = "pending_leadership" /\ status' = [status EXCEPT ![permit[c]] = "issued"]
    BY <1>10 DEF UpdateLeadershipStage, AtStage, Sign, Return
  <2>4. Chain!Sign(permit[c], actor[c])
    BY <1>10, <2>1, <2>2 DEF UpdateLeadershipStage, AtStage, Sign, Return, Chain!Sign, Chain!After, Chain!Signatures
  <2> QED BY <2>1, <2>4 DEF Chain!ChainNext
<1>11. ASSUME NEW c \in Calls, NEW p \in Permits, CancelRead(c, p) PROVE [Chain!ChainNext]_(Chain!chainVars)
  BY <1>11 DEF CancelRead, GetDetail
<1>12. ASSUME NEW c \in Calls, Cancel(c) PROVE [Chain!ChainNext]_(Chain!chainVars)
  <2>1. permit[c] \in Permits
    BY <1>12 DEF Cancel, Return, InvCalls, Targeted
  <2>2. Chain!Withdraw(permit[c])
    BY <1>12, <2>1 DEF Cancel, Return, isPending, PendingStatuses, Chain!Withdraw, Chain!Signatures
  <2> QED BY <2>1, <2>2 DEF Chain!ChainNext
<1>13. ASSUME NEW c \in Calls, NEW p \in Permits, NEW u \in Users, RejectRead(c, p, u) PROVE [Chain!ChainNext]_(Chain!chainVars)
  BY <1>13 DEF RejectRead, GetDetail
<1>14. ASSUME NEW c \in Calls, requireRejectAuthority(c) PROVE [Chain!ChainNext]_(Chain!chainVars)
  BY <1>14 DEF requireRejectAuthority, Continue
<1>15. ASSUME NEW c \in Calls, Reject(c) PROVE [Chain!ChainNext]_(Chain!chainVars)
  <2>1. permit[c] \in Permits /\ status[permit[c]] # "none"
    BY <1>15 DEF Reject, Return, InvCalls, Targeted
  <2>2. status[permit[c]] \in PendingStatuses \cup {"issued"}
    BY <1>15, <2>1 DEF Reject, Return, isFinal, Statuses
  <2>3. Chain!Reject(permit[c])
    BY <1>15, <2>1, <2>2 DEF Reject, Return, PendingStatuses, Chain!Reject, Chain!Signatures
  <2> QED BY <2>1, <2>3 DEF Chain!ChainNext
<1>16. ASSUME NEW c \in Calls, NEW u \in Users, GateFlag(c, u) PROVE [Chain!ChainNext]_(Chain!chainVars)
  BY <1>16 DEF GateFlag, Continue
<1>17. ASSUME NEW c \in Calls, NEW p \in Permits, GetByGateToken(c, p) PROVE [Chain!ChainNext]_(Chain!chainVars)
  BY <1>17 DEF GetByGateToken, Continue
<1>18. ASSUME NEW c \in Calls, GateScan(c) PROVE [Chain!ChainNext]_(Chain!chainVars)
  <2>1. permit[c] \in Permits
    BY <1>18 DEF GateScan, Return, InvCalls, Targeted
  <2>2. Chain!Leave(permit[c])
    BY <1>18, <2>1 DEF GateScan, Return, Chain!Leave
  <2> QED BY <2>1, <2>2 DEF Chain!ChainNext
<1>19. ASSUME NEW p \in Permits, GateExpires(p) PROVE [Chain!ChainNext]_(Chain!chainVars)
  BY <1>19 DEF GateExpires
<1>20. CASE TokenStep
  BY <1>20 DEF TokenStep, TokenExpires, GenerateToken
<1>21. CASE RosterChanges
  BY <1>21 DEF RosterChanges
<1>22. CASE UNCHANGED vars
  BY <1>22 DEF vars
<1> QED BY <1>1, <1>2, <1>3, <1>4, <1>5, <1>6, <1>7, <1>8, <1>9, <1>10, <1>11, <1>12, <1>13, <1>14, <1>15, <1>16, <1>17, <1>18, <1>19, <1>20, <1>21, <1>22 DEF Next, CallStep

LEMMA InvInit == Init => IInv
<1> SUFFICES ASSUME Init PROVE IInv
  OBVIOUS
<1>1. TypeOK
  BY TypeInit
<1>2. InvTokens /\ InvCalls /\ InvGate /\ InvSubmit
  BY ExitPermitAssumption
     DEF Init, InvTokens, InvCalls, InvGate, InvSubmit, Holding, Targeted, OneTokenPerSignature
<1>3. SignaturesInOrder /\ OneOutcome /\ OneActiveUnlessOverlap
  BY DEF Init, SignaturesInOrder, OneOutcome, OneActiveUnlessOverlap, ActivePermits, isActivePermit, isPending, PendingStatuses
<1> QED BY <1>1, <1>2, <1>3 DEF IInv

LEMMA InvStep == IInv /\ [Next]_vars => IInv'
BY TypeStep, TokensStep, CallsStep, GateStep, SubmitStep, OneActiveStep, OutcomeStep, ChainedStep DEF IInv

LEMMA Inductive == Spec => []IInv
BY InvInit, InvStep, PTL DEF Spec

-----------------------------------------------------------------------------
\* Every column and every local of the calls keeps its type.
THEOREM ExitTypeCorrect == Spec => []TypeOK
<1>1. IInv => TypeOK
  BY DEF IInv
<1> QED BY Inductive, <1>1, PTL

\* One display of a QR code gives at most one signature.
THEOREM TokensSignOnce == Spec => []OneTokenPerSignature
<1>1. IInv => OneTokenPerSignature
  BY DEF IInv, InvTokens
<1> QED BY Inductive, <1>1, PTL

\* The signatures come in order, each by the owner of the token scanned, the
\* second by another person than the first.
THEOREM SignaturesAlwaysInOrder == Spec => []SignaturesInOrder
<1>1. IInv => SignaturesInOrder
  BY DEF IInv
<1> QED BY Inductive, <1>1, PTL

\* Gate, cancellation and rejection never both win.
THEOREM OneOutcomeAlways == Spec => []OneOutcome
<1>1. IInv => OneOutcome
  BY DEF IInv
<1> QED BY Inductive, <1>1, PTL

\* A second active permit needs two overlapping submissions.
THEOREM OneActiveWithoutOverlap == Spec => []OneActiveUnlessOverlap
<1>1. IInv => OneActiveUnlessOverlap
  BY DEF IInv
<1> QED BY Inductive, <1>1, PTL

\* The permits of the service implement the chain of ExitChain: the initial
\* states map to initial states, every step to a step or a stutter.
THEOREM ExitImplementsChain == Spec => ChainSpec
<1>1. Init => Chain!ChainInit
  BY DEF Init, Chain!ChainInit
<1>2. IInv /\ [Next]_vars => [Chain!ChainNext]_(Chain!chainVars)
  BY ChainStep DEF IInv
<1> QED BY Inductive, <1>1, <1>2, PTL DEF Spec, ChainSpec, Chain!Spec
=============================================================================
