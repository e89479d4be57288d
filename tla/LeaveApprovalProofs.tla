------------------------- MODULE LeaveApprovalProofs -------------------------
(***************************************************************************)
(* Proofs about LeaveApproval, for any number of requests, users, roles,   *)
(* calls, chains and their lengths: type correctness, the status of a      *)
(* request follows from its steps, the steps are decided in order and for  *)
(* good, and the engine implements LeaveDecision.                          *)
(***************************************************************************)
EXTENDS LeaveApproval, TLAPS

Deciding(c) == callPc[c] \in {"step", "request", "decide"}

\* Calls act on requests that exist, deciding ones on a step of theirs; a call
\* about to write has seen all earlier steps decided, and decisions stand.
InvCalls ==
    \A c \in Calls :
        /\ Deciding(c) => /\ request[c] \in Requests /\ position[c] \in steps[request[c]]
                          /\ verdict[c] \in Decisions
        /\ callPc[c] = "cancel" => request[c] \in Requests /\ status[request[c]] # "none"
        /\ callPc[c] = "decide" => StepActive(request[c], position[c])

\* A row that is not in use has no steps, and nothing but steps is decided.
InvSteps ==
    /\ \A r \in Requests : status[r] = "none" => steps[r] = {}
    /\ \A r \in Requests : \A i \in Positions \ steps[r] : decision[<<r, i>>] = "none"

\* StatusFollowsSteps of one request.
Follows(r) ==
    /\ status[r] = "approved" => \A i \in steps[r] : decision[<<r, i>>] = "approved"
    /\ status[r] = "pending" => \E i \in steps[r] : decision[<<r, i>>] = "none"
    /\ (\E i \in steps[r] : decision[<<r, i>>] = "rejected") <=> status[r] = "rejected"

IInv == TypeOK /\ InvCalls /\ InvSteps /\ StatusFollowsSteps /\ DecidedInOrder

-----------------------------------------------------------------------------
LEMMA TypeInit == Init => TypeOK
BY LeaveAssumption DEF Init, TypeOK, Approvers

\* Types are preserved; a call that decides names a step.
LEMMA TypeStep == TypeOK /\ InvCalls /\ [Next]_vars => TypeOK'
<1> SUFFICES ASSUME TypeOK, InvCalls, [Next]_vars PROVE TypeOK'
  OBVIOUS
<1> USE LeaveAssumption DEF TypeOK, Statuses, Decisions, Approvers, requestVars, stepVars, settings, locals, callVars
<1>1. ASSUME NEW r \in Requests, NEW u \in Users, SubmitRequest(r, u) PROVE TypeOK'
  <2> DEFINE kept == {i \in DOMAIN chain : ~isStepApprover(chain[i], u, role[u])}
  <2>1. kept \subseteq Positions /\ \A i \in kept : chain[i] \in Approvers
    OBVIOUS
  <2>2. approver' = [x \in Requests \X Positions |->
                       IF x[1] = r /\ x[2] \in kept THEN chain[x[2]] ELSE approver[x]]
        /\ steps' = [steps EXCEPT ![r] = kept]
        /\ status' = [status EXCEPT ![r] = IF kept = {} THEN "approved" ELSE "pending"]
    BY <1>1 DEF SubmitRequest
  <2> HIDE DEF kept
  <2>3. approver' \in [Requests \X Positions -> Approvers \cup {NoApprover}]
    <3> SUFFICES ASSUME NEW x \in Requests \X Positions
                 PROVE (IF x[1] = r /\ x[2] \in kept THEN chain[x[2]] ELSE approver[x])
                       \in Approvers \cup {NoApprover}
      BY <2>2
    <3>1. approver[x] \in Approvers \cup {NoApprover}
      OBVIOUS
    <3> QED BY <2>1, <3>1
  <2>4. steps' \in [Requests -> SUBSET Positions] /\ status' \in [Requests -> Statuses \cup {"none"}]
    BY <2>1, <2>2
  <2> QED BY <1>1, <2>3, <2>4 DEF SubmitRequest
<1>2. ASSUME NEW c \in Calls, NEW u \in Users, NEW r \in Requests, NEW i \in Positions, NEW d \in Decisions, GetStepByID(c, u, r, i, d) PROVE TypeOK'
  BY <1>2 DEF GetStepByID
<1>3. ASSUME NEW c \in Calls, GetRequestByID(c) PROVE TypeOK'
  BY <1>3 DEF GetRequestByID
<1>4. ASSUME NEW c \in Calls, ListStepsForRequest(c) PROVE TypeOK'
  BY <1>4 DEF ListStepsForRequest
<1>5. ASSUME NEW c \in Calls, DecideStep(c) PROVE TypeOK'
  <2> DEFINE r == request[c]
             st == NewReqStatus(r, position[c], verdict[c])
  <2>1. r \in Requests /\ position[c] \in Positions /\ verdict[c] \in Decisions
    BY <1>5 DEF DecideStep, InvCalls, Deciding
  <2>2. <<r, position[c]>> \in Requests \X Positions
    BY <2>1
  <2>3. WritesRequest(st) => st \in Statuses
    BY <2>1 DEF NewReqStatus, WritesRequest
  <2>4. status' \in [Requests -> Statuses \cup {"none"}]
    <3>1. status' = IF WritesRequest(st) THEN [status EXCEPT ![r] = st] ELSE status
      BY <1>5 DEF DecideStep
    <3> HIDE DEF st, r
    <3> QED BY <2>1, <2>3, <3>1
  <2>5. decision' \in [Requests \X Positions -> Decisions \cup {"none"}]
    BY <1>5, <2>1, <2>2 DEF DecideStep
  <2>6. decidedBy' \in [Requests \X Positions -> Users \cup {NoUser}]
    BY <1>5, <2>1, <2>2 DEF DecideStep
  <2> QED BY <1>5, <2>4, <2>5, <2>6 DEF DecideStep, Return
<1>6. ASSUME NEW c \in Calls, NEW u \in Users, NEW r \in Requests, CancelRead(c, u, r) PROVE TypeOK'
  BY <1>6 DEF CancelRead
<1>7. ASSUME NEW c \in Calls, CancelRequest(c) PROVE TypeOK'
  BY <1>7 DEF CancelRequest, Return, CancelLeaveRequestGuarded
<1>8. ASSUME NEW c \in Calls, CallFails(c) PROVE TypeOK'
  BY <1>8 DEF CallFails, Return
<1>9. CASE SettingsChange
  BY <1>9 DEF SettingsChange
<1>10. CASE UNCHANGED vars
  BY <1>10 DEF vars
<1> HIDE DEF TypeOK
<1> QED BY <1>1, <1>2, <1>3, <1>4, <1>5, <1>6, <1>7, <1>8, <1>9, <1>10 DEF Next, CallSteps


\* What the transaction of DecideStep does to the decisions and the status.
Effect(r, i, d) ==
    /\ r \in Requests /\ i \in steps[r] /\ i \in Positions
    /\ steps' = steps /\ steps[r] \subseteq Positions
    /\ decision[<<r, i>>] = "none" /\ StepActive(r, i)
    /\ \A q \in Requests, j \in Positions :
         decision'[<<q, j>>] = IF q = r /\ j = i THEN d ELSE decision[<<q, j>>]
    /\ \A q \in Requests, j \in Positions : q # r \/ j # i => decidedBy'[<<q, j>>] = decidedBy[<<q, j>>]
    /\ \A q \in Requests : q # r => status'[q] = status[q]
    /\ \/ d = "rejected" /\ status[r] = "pending" /\ status'[r] = "rejected"
       \/ d = "approved" /\ IsLast(r, i) /\ status[r] = "pending" /\ status'[r] = "approved"
       \/ d = "approved" /\ ~IsLast(r, i) /\ status'[r] = status[r]

LEMMA DecideEffect ==
    ASSUME TypeOK, InvCalls, NEW c \in Calls, DecideStep(c)
    PROVE  \E r \in Requests, i \in Positions, d \in Decisions :
             /\ r = request[c] /\ i = position[c] /\ d = verdict[c]
             /\ Effect(r, i, d)
<1> DEFINE r == request[c]
           i == position[c]
           st == NewReqStatus(r, i, verdict[c])
<1>1. /\ r \in Requests /\ i \in steps[r] /\ i \in Positions /\ verdict[c] \in Decisions
      /\ StepActive(r, i) /\ steps' = steps /\ decision[<<r, i>>] = "none"
  BY DEF DecideStep, InvCalls, Deciding, TypeOK, DecideLeaveStepGuarded
<1>2. <<r, i>> \in Requests \X Positions
  BY <1>1
<1>3. decision' = [decision EXCEPT ![<<r, i>>] = verdict[c]]
      /\ decidedBy' = [decidedBy EXCEPT ![<<r, i>>] = actor[c]]
      /\ (WritesRequest(st) => status[r] = "pending")
      /\ status' = IF WritesRequest(st) THEN [status EXCEPT ![r] = st] ELSE status
  BY DEF DecideStep, UpdateLeaveRequestStatusGuarded
<1>4. \A q \in Requests, j \in Positions : /\ <<q, j>> \in Requests \X Positions
                                          /\ <<q, j>> = <<r, i>> <=> q = r /\ j = i
  OBVIOUS
<1>5. \A q \in Requests, j \in Positions : decision'[<<q, j>>] =
        IF q = r /\ j = i THEN verdict[c] ELSE decision[<<q, j>>]
  BY <1>2, <1>3, <1>4 DEF TypeOK
<1>6. \A q \in Requests, j \in Positions : q # r \/ j # i => decidedBy'[<<q, j>>] = decidedBy[<<q, j>>]
  BY <1>2, <1>3, <1>4 DEF TypeOK
<1>7. verdict[c] = "rejected" => st = "rejected" /\ WritesRequest(st)
  BY DEF NewReqStatus, WritesRequest
<1>8. verdict[c] = "approved" /\ IsLast(r, i) => st = "approved" /\ WritesRequest(st)
  BY DEF NewReqStatus, WritesRequest
<1>9. verdict[c] = "approved" /\ ~IsLast(r, i) => ~WritesRequest(st)
  BY DEF NewReqStatus, WritesRequest
<1> HIDE DEF st
<1>10. \A q \in Requests : q # r => status'[q] = status[q]
  BY <1>1, <1>3 DEF TypeOK
<1>11. WritesRequest(st) => status'[request[c]] = st
  BY <1>1, <1>3 DEF TypeOK
<1>12. ~WritesRequest(st) => status'[request[c]] = status[r]
  BY <1>3
<1>13. steps[r] \subseteq Positions
  BY <1>1 DEF TypeOK
<1>14. \/ verdict[c] = "rejected" /\ status[r] = "pending" /\ status'[request[c]] = "rejected"
       \/ verdict[c] = "approved" /\ IsLast(r, i) /\ status[r] = "pending" /\ status'[request[c]] = "approved"
       \/ verdict[c] = "approved" /\ ~IsLast(r, i) /\ status'[request[c]] = status[r]
  BY <1>1, <1>3, <1>7, <1>8, <1>9, <1>11, <1>12 DEF Decisions
<1>15. Effect(request[c], position[c], verdict[c])
  BY <1>1, <1>5, <1>6, <1>10, <1>13, <1>14 DEF Effect
<1> QED BY <1>1, <1>15

\* Decisions stand, so that what a call has seen of earlier steps stays true.
LEMMA CallsStep == TypeOK /\ InvCalls /\ InvSteps /\ [Next]_vars => InvCalls'
<1> SUFFICES ASSUME TypeOK, InvCalls, InvSteps, [Next]_vars PROVE InvCalls'
  OBVIOUS
<1> USE DEF Deciding, StepActive, requestVars, stepVars, settings, locals, callVars
<1>1. ASSUME NEW r \in Requests, NEW u \in Users, SubmitRequest(r, u) PROVE InvCalls'
  <2>1. UNCHANGED <<callVars, decision>> /\ status[r] = "none"
        /\ status'[r] # "none" /\ \A q \in Requests : q # r => steps'[q] = steps[q] /\ status'[q] = status[q]
    BY <1>1 DEF SubmitRequest, TypeOK
  <2>2. steps[r] = {}
    BY <2>1 DEF InvSteps
  <2>3. \A d \in Calls : Deciding(d) => request[d] # r
    BY <2>2 DEF InvCalls
  <2>4. \A d \in Calls : callPc[d] = "cancel" => request[d] # r
    BY <2>1 DEF InvCalls
  <2> QED BY <2>1, <2>3, <2>4 DEF InvCalls
<1>2. ASSUME NEW c \in Calls, NEW u \in Users, NEW r \in Requests, NEW i \in Positions, NEW d \in Decisions, GetStepByID(c, u, r, i, d) PROVE InvCalls'
  <2> QED BY <1>2 DEF GetStepByID, InvCalls, TypeOK
<1>3. ASSUME NEW c \in Calls, GetRequestByID(c) PROVE InvCalls'
  BY <1>3 DEF GetRequestByID, InvCalls, TypeOK
<1>4. ASSUME NEW c \in Calls, ListStepsForRequest(c) PROVE InvCalls'
  BY <1>4 DEF ListStepsForRequest, InvCalls, TypeOK
<1>5. ASSUME NEW c \in Calls, DecideStep(c) PROVE InvCalls'
  <2>0. PICK r \in Requests, i \in Positions, d \in Decisions :
          r = request[c] /\ i = position[c] /\ d = verdict[c] /\ Effect(r, i, d)
    BY <1>5, DecideEffect
  <2>1. \A q \in Requests, j \in Positions : decision[<<q, j>>] # "none" => decision'[<<q, j>>] # "none"
    BY <2>0 DEF Effect, Decisions
  <2>2. steps' = steps /\ \A q \in Requests : status[q] # "none" => status'[q] # "none"
    BY <2>0 DEF Effect, Decisions
  <2>3. callPc'[c] = "idle" /\ \A e \in Calls \ {c} :
          callPc'[e] = callPc[e] /\ request'[e] = request[e] /\ position'[e] = position[e] /\ verdict'[e] = verdict[e]
    BY <1>5 DEF DecideStep, Return, TypeOK
  <2>4. \A q \in Requests : steps[q] \subseteq Positions
    BY DEF TypeOK
  <2> QED BY <2>1, <2>2, <2>3, <2>4 DEF InvCalls
<1>6. ASSUME NEW c \in Calls, NEW u \in Users, NEW r \in Requests, CancelRead(c, u, r) PROVE InvCalls'
  BY <1>6 DEF CancelRead, InvCalls, TypeOK
<1>7. ASSUME NEW c \in Calls, CancelRequest(c) PROVE InvCalls'
  <2>1. \A q \in Requests : status[q] # "none" => status'[q] # "none"
    BY <1>7 DEF CancelRequest, TypeOK
  <2> QED BY <1>7, <2>1 DEF CancelRequest, Return, InvCalls, TypeOK
<1>8. ASSUME NEW c \in Calls, CallFails(c) PROVE InvCalls'
  BY <1>8 DEF CallFails, Return, InvCalls, TypeOK
<1>9. CASE SettingsChange
  BY <1>9 DEF SettingsChange, InvCalls
<1>10. CASE UNCHANGED vars
  BY <1>10 DEF vars, InvCalls
<1> HIDE DEF Deciding, StepActive, InvCalls
<1> QED BY <1>1, <1>2, <1>3, <1>4, <1>5, <1>6, <1>7, <1>8, <1>9, <1>10 DEF Next, CallSteps

\* Only steps are decided.
LEMMA StepsStep == TypeOK /\ InvCalls /\ InvSteps /\ [Next]_vars => InvSteps'
<1> SUFFICES ASSUME TypeOK, InvCalls, InvSteps, [Next]_vars PROVE InvSteps'
  OBVIOUS
<1> USE DEF requestVars, stepVars, settings, locals, callVars
<1>1. ASSUME NEW r \in Requests, NEW u \in Users, SubmitRequest(r, u) PROVE InvSteps'
  <2> DEFINE kept == {i \in DOMAIN chain : ~isStepApprover(chain[i], u, role[u])}
  <2>1. /\ status[r] = "none" /\ decision' = decision /\ steps'[r] = kept
        /\ status'[r] = IF kept = {} THEN "approved" ELSE "pending"
        /\ \A q \in Requests : q # r => steps'[q] = steps[q] /\ status'[q] = status[q]
    BY <1>1 DEF SubmitRequest, TypeOK
  <2>2. kept \subseteq Positions
    BY LeaveAssumption DEF TypeOK
  <2> HIDE DEF kept
  <2>3. \A i \in Positions : decision[<<r, i>>] = "none"
    BY <2>1 DEF InvSteps
  <2> QED BY <2>1, <2>2, <2>3 DEF InvSteps
<1>2. ASSUME NEW c \in Calls, NEW u \in Users, NEW r \in Requests, NEW i \in Positions, NEW d \in Decisions, GetStepByID(c, u, r, i, d) PROVE InvSteps'
  BY <1>2 DEF GetStepByID, InvSteps
<1>3. ASSUME NEW c \in Calls, GetRequestByID(c) PROVE InvSteps'
  BY <1>3 DEF GetRequestByID, InvSteps
<1>4. ASSUME NEW c \in Calls, ListStepsForRequest(c) PROVE InvSteps'
  BY <1>4 DEF ListStepsForRequest, InvSteps
<1>5. ASSUME NEW c \in Calls, DecideStep(c) PROVE InvSteps'
  <2>0. PICK r \in Requests, i \in Positions, d \in Decisions :
          r = request[c] /\ i = position[c] /\ d = verdict[c] /\ Effect(r, i, d)
    BY <1>5, DecideEffect
  <2>1. \A q \in Requests : status'[q] = "none" => status[q] = "none"
    BY <2>0 DEF Effect, Decisions
  <2> QED BY <2>0, <2>1 DEF Effect, InvSteps
<1>6. ASSUME NEW c \in Calls, NEW u \in Users, NEW r \in Requests, CancelRead(c, u, r) PROVE InvSteps'
  BY <1>6 DEF CancelRead, InvSteps
<1>7. ASSUME NEW c \in Calls, CancelRequest(c) PROVE InvSteps'
  <2>1. \A q \in Requests : status'[q] = "none" => status[q] = "none"
    BY <1>7 DEF CancelRequest, TypeOK
  <2> QED BY <1>7, <2>1 DEF CancelRequest, InvSteps
<1>8. ASSUME NEW c \in Calls, CallFails(c) PROVE InvSteps'
  BY <1>8 DEF CallFails, Return, InvSteps
<1>9. CASE SettingsChange
  BY <1>9 DEF SettingsChange, InvSteps
<1>10. CASE UNCHANGED vars
  BY <1>10 DEF vars, InvSteps
<1> HIDE DEF InvSteps
<1> QED BY <1>1, <1>2, <1>3, <1>4, <1>5, <1>6, <1>7, <1>8, <1>9, <1>10 DEF Next, CallSteps

\* The guard on the earlier steps still holds when the step is written.
LEMMA OrderStep == TypeOK /\ InvCalls /\ InvSteps /\ DecidedInOrder /\ [Next]_vars => DecidedInOrder'
<1> SUFFICES ASSUME TypeOK, InvCalls, InvSteps, DecidedInOrder, [Next]_vars PROVE DecidedInOrder'
  OBVIOUS
<1> USE DEF requestVars, stepVars, settings, locals, callVars
<1>1. ASSUME NEW r \in Requests, NEW u \in Users, SubmitRequest(r, u) PROVE DecidedInOrder'
  <2> DEFINE kept == {i \in DOMAIN chain : ~isStepApprover(chain[i], u, role[u])}
  <2>1. /\ status[r] = "none" /\ decision' = decision /\ steps'[r] = kept
        /\ status'[r] = IF kept = {} THEN "approved" ELSE "pending"
        /\ \A q \in Requests : q # r => steps'[q] = steps[q] /\ status'[q] = status[q]
    BY <1>1 DEF SubmitRequest, TypeOK
  <2>2. kept \subseteq Positions
    BY LeaveAssumption DEF TypeOK
  <2> HIDE DEF kept
  <2>3. \A i \in Positions : decision[<<r, i>>] = "none"
    BY <2>1 DEF InvSteps
  <2> QED BY <2>1, <2>2, <2>3 DEF DecidedInOrder
<1>2. ASSUME NEW c \in Calls, NEW u \in Users, NEW r \in Requests, NEW i \in Positions, NEW d \in Decisions, GetStepByID(c, u, r, i, d) PROVE DecidedInOrder'
  BY <1>2 DEF GetStepByID, DecidedInOrder
<1>3. ASSUME NEW c \in Calls, GetRequestByID(c) PROVE DecidedInOrder'
  BY <1>3 DEF GetRequestByID, DecidedInOrder
<1>4. ASSUME NEW c \in Calls, ListStepsForRequest(c) PROVE DecidedInOrder'
  BY <1>4 DEF ListStepsForRequest, DecidedInOrder
<1>5. ASSUME NEW c \in Calls, DecideStep(c) PROVE DecidedInOrder'
  <2>0. PICK r \in Requests, i \in Positions, d \in Decisions :
          r = request[c] /\ i = position[c] /\ d = verdict[c] /\ Effect(r, i, d)
    BY <1>5, DecideEffect
  <2>1. \A q \in Requests : steps[q] \subseteq Positions
    BY DEF TypeOK
  <2> QED BY <2>0, <2>1 DEF Effect, DecidedInOrder, StepActive, Decisions
<1>6. ASSUME NEW c \in Calls, NEW u \in Users, NEW r \in Requests, CancelRead(c, u, r) PROVE DecidedInOrder'
  BY <1>6 DEF CancelRead, DecidedInOrder
<1>7. ASSUME NEW c \in Calls, CancelRequest(c) PROVE DecidedInOrder'
  BY <1>7 DEF CancelRequest, Return, CancelLeaveRequestGuarded, DecidedInOrder
<1>8. ASSUME NEW c \in Calls, CallFails(c) PROVE DecidedInOrder'
  BY <1>8 DEF CallFails, Return, DecidedInOrder
<1>9. CASE SettingsChange
  BY <1>9 DEF SettingsChange, DecidedInOrder
<1>10. CASE UNCHANGED vars
  BY <1>10 DEF vars, DecidedInOrder
<1> HIDE DEF DecidedInOrder
<1> QED BY <1>1, <1>2, <1>3, <1>4, <1>5, <1>6, <1>7, <1>8, <1>9, <1>10 DEF Next, CallSteps

\* The last approval finds all others approved: a refusal would have ended the
\* request.  An earlier one leaves a step that nobody could have decided yet.
LEMMA FollowsStep == TypeOK /\ InvCalls /\ InvSteps /\ DecidedInOrder /\ StatusFollowsSteps /\ [Next]_vars => StatusFollowsSteps'
<1> SUFFICES ASSUME TypeOK, InvCalls, InvSteps, DecidedInOrder, StatusFollowsSteps, [Next]_vars PROVE StatusFollowsSteps'
  OBVIOUS
<1> USE DEF requestVars, stepVars, settings, locals, callVars
<1>1. ASSUME NEW r \in Requests, NEW u \in Users, SubmitRequest(r, u) PROVE StatusFollowsSteps'
  <2> DEFINE kept == {i \in DOMAIN chain : ~isStepApprover(chain[i], u, role[u])}
  <2>1. /\ status[r] = "none" /\ decision' = decision /\ steps'[r] = kept
        /\ status'[r] = IF kept = {} THEN "approved" ELSE "pending"
        /\ \A q \in Requests : q # r => steps'[q] = steps[q] /\ status'[q] = status[q]
    BY <1>1 DEF SubmitRequest, TypeOK
  <2>2. kept \subseteq Positions
    BY LeaveAssumption DEF TypeOK
  <2> HIDE DEF kept
  <2>3. \A i \in Positions : decision[<<r, i>>] = "none"
    BY <2>1 DEF InvSteps
  <2>4. Follows(r)'
    BY <2>1, <2>2, <2>3 DEF Follows
  <2>5. \A q \in Requests : Follows(q)
    BY DEF Follows, StatusFollowsSteps
  <2> QED BY <2>1, <2>4, <2>5 DEF Follows, StatusFollowsSteps
<1>2. ASSUME NEW c \in Calls, NEW u \in Users, NEW r \in Requests, NEW i \in Positions, NEW d \in Decisions, GetStepByID(c, u, r, i, d) PROVE StatusFollowsSteps'
  BY <1>2 DEF GetStepByID, StatusFollowsSteps
<1>3. ASSUME NEW c \in Calls, GetRequestByID(c) PROVE StatusFollowsSteps'
  BY <1>3 DEF GetRequestByID, StatusFollowsSteps
<1>4. ASSUME NEW c \in Calls, ListStepsForRequest(c) PROVE StatusFollowsSteps'
  BY <1>4 DEF ListStepsForRequest, StatusFollowsSteps
<1>5. ASSUME NEW c \in Calls, DecideStep(c) PROVE StatusFollowsSteps'
  <2>0. PICK r \in Requests, i \in Positions, d \in Decisions :
          r = request[c] /\ i = position[c] /\ d = verdict[c] /\ Effect(r, i, d)
    BY <1>5, DecideEffect
  <2>1. \A q \in Requests : Follows(q) /\ steps[q] \subseteq Positions
    BY DEF Follows, StatusFollowsSteps, TypeOK
  <2>2. ASSUME NEW q \in Requests, q # r PROVE Follows(q)'
    <3>1. \A j \in steps[q] : decision'[<<q, j>>] = decision[<<q, j>>]
      BY <2>0, <2>1, <2>2 DEF Effect
    <3>2. steps' = steps /\ status'[q] = status[q]
      BY <2>0, <2>2 DEF Effect
    <3> QED BY <2>1, <3>1, <3>2 DEF Follows
  <2>3. /\ r \in Requests /\ i \in steps[r] /\ steps' = steps /\ decision[<<r, i>>] = "none"
        /\ \A j \in steps[r] : decision'[<<r, j>>] = IF j = i THEN d ELSE decision[<<r, j>>]
    BY <2>0, <2>1 DEF Effect
  <2>4. Follows(r)'
    <3>1. CASE d = "rejected"
      BY <2>0, <2>3, <3>1 DEF Effect, Follows
    <3>2. CASE d = "approved" /\ IsLast(r, i)
      <4>1. status[r] = "pending" /\ status'[r] = "approved" /\ StepActive(r, i)
        BY <2>0, <3>2 DEF Effect
      <4>2. \A j \in steps[r] : j # i => j < i
        BY <2>1, <2>3, <3>2, LeaveAssumption DEF IsLast, Positions
      <4>3. \A j \in steps[r] : j # i => decision[<<r, j>>] # "none" /\ decision[<<r, j>>] # "rejected"
        BY <2>1, <2>3, <4>1, <4>2 DEF StepActive, Follows
      <4>4. \A j \in steps[r] : <<r, j>> \in Requests \X Positions
        BY <2>1, <2>3
      <4>5. \A j \in steps[r] : j # i => decision[<<r, j>>] = "approved"
        BY <4>3, <4>4 DEF TypeOK, Decisions
      <4> QED BY <2>3, <3>2, <4>1, <4>5 DEF Follows
    <3>3. CASE d = "approved" /\ ~IsLast(r, i)
      <4>1. status'[r] = status[r]
        BY <2>0, <3>3 DEF Effect
      <4>2. PICK j \in steps[r] : i < j
        BY <2>1, <2>3, <3>3, LeaveAssumption DEF IsLast, Positions
      <4>3. decision[<<r, j>>] = "none" /\ j # i
        BY <2>1, <2>3, <4>2, LeaveAssumption DEF DecidedInOrder, Positions
      <4> QED BY <2>1, <2>3, <3>3, <4>1, <4>2, <4>3 DEF Follows
    <3> QED BY <2>0, <3>1, <3>2, <3>3 DEF Effect, Decisions
  <2> QED BY <2>2, <2>4 DEF Follows, StatusFollowsSteps
<1>6. ASSUME NEW c \in Calls, NEW u \in Users, NEW r \in Requests, CancelRead(c, u, r) PROVE StatusFollowsSteps'
  BY <1>6 DEF CancelRead, StatusFollowsSteps
<1>7. ASSUME NEW c \in Calls, CancelRequest(c) PROVE StatusFollowsSteps'
  <2>1. \A q \in Requests : Follows(q)
    BY DEF Follows, StatusFollowsSteps
  <2>2. request[c] \in Requests /\ status[request[c]] = "pending" /\ UNCHANGED <<decision, steps>>
        /\ status' = [status EXCEPT ![request[c]] = "canceled"]
    BY <1>7 DEF CancelRequest, CancelLeaveRequestGuarded, InvCalls
  <2> SUFFICES ASSUME NEW q \in Requests PROVE Follows(q)'
    BY DEF Follows, StatusFollowsSteps
  <2> QED BY <2>1, <2>2 DEF Follows, TypeOK
<1>8. ASSUME NEW c \in Calls, CallFails(c) PROVE StatusFollowsSteps'
  BY <1>8 DEF CallFails, Return, StatusFollowsSteps
<1>9. CASE SettingsChange
  BY <1>9 DEF SettingsChange, StatusFollowsSteps
<1>10. CASE UNCHANGED vars
  BY <1>10 DEF vars, StatusFollowsSteps
<1> HIDE DEF StatusFollowsSteps
<1> QED BY <1>1, <1>2, <1>3, <1>4, <1>5, <1>6, <1>7, <1>8, <1>9, <1>10 DEF Next, CallSteps


\* The steps that count in the abstract engine.
Granted(r) == IF status[r] \in {"pending", "approved"}
              THEN {i \in steps[r] : decision[<<r, i>>] = "approved"} ELSE {}

\* Every step of the service is one of the abstract engine, or none.
LEMMA EngineStep == IInv /\ TypeOK' /\ [Next]_vars => [Engine!DecisionNext]_(Engine!decisionVars)
<1> SUFFICES ASSUME IInv, TypeOK', [Next]_vars PROVE [Engine!DecisionNext]_(Engine!decisionVars)
  OBVIOUS
<1> USE DEF IInv, requestVars, stepVars, settings, locals, callVars
<1>1. ASSUME NEW r \in Requests, NEW u \in Users, SubmitRequest(r, u) PROVE [Engine!DecisionNext]_(Engine!decisionVars)
  <2> DEFINE kept == {i \in DOMAIN chain : ~isStepApprover(chain[i], u, role[u])}
  <2>1. /\ status[r] = "none" /\ decision' = decision /\ steps'[r] = kept
        /\ status'[r] = IF kept = {} THEN "approved" ELSE "pending"
        /\ \A q \in Requests : q # r => steps'[q] = steps[q] /\ status'[q] = status[q]
    BY <1>1 DEF SubmitRequest, TypeOK
  <2>2. kept \subseteq Positions
    BY LeaveAssumption DEF TypeOK
  <2> HIDE DEF kept
  <2>3. \A i \in Positions : decision[<<r, i>>] = "none"
    BY <2>1 DEF InvSteps
  <2>4. Granted(r)' = {} /\ Granted(r) = {} /\ \A q \in Requests : q # r => Granted(q)' = Granted(q)
    BY <2>1, <2>2, <2>3 DEF Granted
  <2>5. [q \in Requests |-> Granted(q)]' = [q \in Requests |-> Granted(q)]
    BY <2>4
  <2>6. Engine!Submit(r, kept)
    BY <1>1, <2>1, <2>5 DEF SubmitRequest, Engine!Submit, Granted, kept
  <2> QED BY <2>2, <2>6 DEF Engine!DecisionNext
<1>2. ASSUME NEW c \in Calls, NEW u \in Users, NEW r \in Requests, NEW i \in Positions, NEW d \in Decisions, GetStepByID(c, u, r, i, d) PROVE [Engine!DecisionNext]_(Engine!decisionVars)
  BY <1>2 DEF GetStepByID, Engine!decisionVars
<1>3. ASSUME NEW c \in Calls, GetRequestByID(c) PROVE [Engine!DecisionNext]_(Engine!decisionVars)
  BY <1>3 DEF GetRequestByID, Engine!decisionVars
<1>4. ASSUME NEW c \in Calls, ListStepsForRequest(c) PROVE [Engine!DecisionNext]_(Engine!decisionVars)
  BY <1>4 DEF ListStepsForRequest, Engine!decisionVars
<1>5. ASSUME NEW c \in Calls, DecideStep(c) PROVE [Engine!DecisionNext]_(Engine!decisionVars)
  <2>0. PICK r \in Requests, i \in Positions, d \in Decisions :
          r = request[c] /\ i = position[c] /\ d = verdict[c] /\ Effect(r, i, d)
    BY <1>5, DecideEffect
  <2>1. /\ r \in Requests /\ i \in steps[r] /\ steps' = steps /\ decision[<<r, i>>] = "none"
        /\ \A q \in Requests : steps[q] \subseteq Positions
        /\ d \in Decisions
    BY <2>0 DEF Effect, TypeOK
  <2>2. ASSUME NEW q \in Requests, q # r PROVE Granted(q)' = Granted(q)
    <3>1. \A j \in steps[q] : decision'[<<q, j>>] = decision[<<q, j>>]
      BY <2>0, <2>1, <2>2 DEF Effect
    <3>2. steps' = steps /\ status'[q] = status[q]
      BY <2>0, <2>2 DEF Effect
    <3> QED BY <3>1, <3>2 DEF Granted
  <2>3. \A q \in Requests : Follows(q)
    BY DEF Follows, StatusFollowsSteps
  <2>4. \A q \in Requests : q # r => status'[q] = status[q]
    BY <2>0 DEF Effect
  <2>5. CASE d = "rejected"
    <3>1. status[r] = "pending" /\ status'[r] = "rejected"
      BY <2>0, <2>5 DEF Effect
    <3>2. status' = [status EXCEPT ![r] = "rejected"]
      BY <1>5, <2>1, <2>4, <3>1 DEF DecideStep, TypeOK, NewReqStatus, WritesRequest
    <3>3. [q \in Requests |-> Granted(q)]' = [[q \in Requests |-> Granted(q)] EXCEPT ![r] = {}]
      BY <2>1, <2>2, <3>1 DEF Granted
    <3>4. Engine!End(r)
      BY <2>1, <3>1, <3>2, <3>3 DEF Engine!End, Granted
    <3> QED BY <2>1, <3>4 DEF Engine!DecisionNext
  <2>6. CASE d = "approved" /\ status[r] = "pending"
    <3>1. StepActive(r, i) /\ \A j \in steps[r] : decision'[<<r, j>>] = IF j = i THEN "approved" ELSE decision[<<r, j>>]
      BY <2>0, <2>1, <2>6 DEF Effect
    <3>2. \A j \in steps[r] : decision[<<r, j>>] \in {"approved", "none"}
      <4>1. \A j \in steps[r] : <<r, j>> \in Requests \X Positions
        BY <2>1
      <4>2. \A j \in steps[r] : decision[<<r, j>>] \in {"approved", "rejected", "none"}
        BY <4>1 DEF TypeOK, Decisions
      <4>3. \A j \in steps[r] : decision[<<r, j>>] # "rejected"
        BY <2>1, <2>3, <2>6 DEF Follows
      <4> QED BY <4>2, <4>3
    <3>3. \A j \in steps[r] : decision[<<r, j>>] = "approved" <=> j < i
      BY <2>1, <3>1, <3>2, LeaveAssumption DEF StepActive, DecidedInOrder, Positions
    <3>4. Granted(r) = {j \in steps[r] : j < i}
      BY <2>6, <3>3 DEF Granted
    <3>5. status'[r] \in {"pending", "approved"}
      BY <2>0, <2>6 DEF Effect
    <3>6. Granted(r)' = Granted(r) \cup {i}
      BY <2>1, <2>6, <3>1, <3>5 DEF Granted
    <3>7. Granted(r) \cup {i} = steps[r] <=> IsLast(r, i)
      BY <2>1, <3>4, LeaveAssumption DEF IsLast, Positions
    <3>8. status'[r] = IF Granted(r) \cup {i} = steps[r] THEN "approved" ELSE "pending"
      BY <2>0, <2>6, <3>7 DEF Effect
    <3>9. status' = [status EXCEPT ![r] = IF Granted(r) \cup {i} = steps[r] THEN "approved" ELSE "pending"]
      <4>1. status' \in [Requests -> Statuses \cup {"none"}]
        BY DEF TypeOK
      <4> QED BY <2>1, <2>4, <3>8, <4>1 DEF TypeOK
    <3>10. [q \in Requests |-> Granted(q)]' = [[q \in Requests |-> Granted(q)] EXCEPT ![r] = Granted(r) \cup {i}]
      BY <2>1, <2>2, <3>6
    <3>11. Engine!Grant(r, i)
      BY <2>1, <2>6, <3>4, <3>9, <3>10 DEF Engine!Grant, Granted
    <3> QED BY <2>1, <3>11 DEF Engine!DecisionNext
  <2>7. CASE d = "approved" /\ status[r] # "pending"
    <3>1. status'[r] = status[r] /\ status[r] # "approved"
      BY <2>0, <2>1, <2>3, <2>7 DEF Effect, Follows
    <3>2. status' = status
      <4>1. status' \in [Requests -> Statuses \cup {"none"}]
        BY DEF TypeOK
      <4> QED BY <2>4, <3>1, <4>1 DEF TypeOK
    <3>3. Granted(r) = {} /\ Granted(r)' = {}
      BY <2>7, <3>1 DEF Granted
    <3>4. [q \in Requests |-> Granted(q)]' = [q \in Requests |-> Granted(q)]
      BY <2>2, <3>3
    <3> QED BY <2>1, <3>2, <3>4 DEF Engine!decisionVars, Granted
  <2> QED BY <2>1, <2>5, <2>6, <2>7 DEF Decisions
<1>6. ASSUME NEW c \in Calls, NEW u \in Users, NEW r \in Requests, CancelRead(c, u, r) PROVE [Engine!DecisionNext]_(Engine!decisionVars)
  BY <1>6 DEF CancelRead, Engine!decisionVars
<1>7. ASSUME NEW c \in Calls, CancelRequest(c) PROVE [Engine!DecisionNext]_(Engine!decisionVars)
  <2>0. PICK r \in Requests : r = request[c]
    BY <1>7 DEF CancelRequest, InvCalls
  <2>1. status[r] = "pending" /\ UNCHANGED <<decision, steps>>
        /\ status' = [status EXCEPT ![r] = "canceled"]
    BY <1>7, <2>0 DEF CancelRequest, CancelLeaveRequestGuarded
  <2>2. status'[r] = "canceled" /\ \A q \in Requests : q # r => status'[q] = status[q]
    BY <2>1 DEF TypeOK
  <2>3. [q \in Requests |-> Granted(q)]' = [[q \in Requests |-> Granted(q)] EXCEPT ![r] = {}]
    BY <2>1, <2>2 DEF Granted
  <2>4. Engine!End(r)
    BY <2>1, <2>3 DEF Engine!End, Granted
  <2> QED BY <2>1, <2>4 DEF Engine!DecisionNext
<1>8. ASSUME NEW c \in Calls, CallFails(c) PROVE [Engine!DecisionNext]_(Engine!decisionVars)
  BY <1>8 DEF CallFails, Return, Engine!decisionVars
<1>9. CASE SettingsChange
  BY <1>9 DEF SettingsChange, Engine!decisionVars
<1>10. CASE UNCHANGED vars
  BY <1>10 DEF vars, Engine!decisionVars
<1> HIDE DEF IInv
<1> QED BY <1>1, <1>2, <1>3, <1>4, <1>5, <1>6, <1>7, <1>8, <1>9, <1>10 DEF Next, CallSteps


LEMMA InvInit == Init => IInv
BY TypeInit DEF Init, IInv, InvCalls, InvSteps, Deciding, StatusFollowsSteps, DecidedInOrder

LEMMA InvStep == IInv /\ [Next]_vars => IInv'
BY TypeStep, CallsStep, StepsStep, OrderStep, FollowsStep DEF IInv

LEMMA Inductive == Spec => []IInv
BY InvInit, InvStep, PTL DEF Spec

-----------------------------------------------------------------------------

\* Every column and every local of the calls keeps its type.
THEOREM LeaveTypeCorrect == Spec => []TypeOK
<1>1. IInv => TypeOK
  BY DEF IInv
<1> QED BY Inductive, <1>1, PTL

\* No interleaving of decisions and cancellations makes the status of a request
\* differ from what its steps say.
THEOREM StatusAlwaysFollowsSteps == Spec => []StatusFollowsSteps
<1>1. IInv => StatusFollowsSteps
  BY DEF IInv
<1> QED BY Inductive, <1>1, PTL

\* Steps are decided in the order of the chain.
THEOREM StepsDecidedInOrder == Spec => []DecidedInOrder
<1>1. IInv => DecidedInOrder
  BY DEF IInv
<1> QED BY Inductive, <1>1, PTL

\* DecisionsStand of one step of the system.
Stands ==
    \A r \in Requests :
        /\ \A i \in steps[r] : decision[<<r, i>>] # "none" =>
             decision'[<<r, i>>] = decision[<<r, i>>] /\ decidedBy'[<<r, i>>] = decidedBy[<<r, i>>]
        /\ status[r] # "none" => steps'[r] = steps[r]

\* No step of a call overwrites a decision.
LEMMA StandStep == TypeOK /\ InvCalls /\ [Next]_vars => Stands
<1> SUFFICES ASSUME TypeOK, InvCalls, [Next]_vars PROVE Stands
  OBVIOUS
<1> USE DEF Stands, requestVars, stepVars, settings, locals, callVars
<1>1. ASSUME NEW r \in Requests, NEW u \in Users, SubmitRequest(r, u) PROVE Stands
  <2>1. UNCHANGED <<decision, decidedBy>> /\ status[r] = "none" /\ \A q \in Requests : q # r => steps'[q] = steps[q]
    BY <1>1 DEF SubmitRequest, TypeOK
  <2> QED BY <2>1
<1>2. ASSUME NEW c \in Calls, NEW u \in Users, NEW r \in Requests, NEW i \in Positions, NEW d \in Decisions, GetStepByID(c, u, r, i, d) PROVE Stands
  BY <1>2 DEF GetStepByID
<1>3. ASSUME NEW c \in Calls, GetRequestByID(c) PROVE Stands
  BY <1>3 DEF GetRequestByID
<1>4. ASSUME NEW c \in Calls, ListStepsForRequest(c) PROVE Stands
  BY <1>4 DEF ListStepsForRequest
<1>5. ASSUME NEW c \in Calls, DecideStep(c) PROVE Stands
  <2>0. PICK r \in Requests, i \in Positions, d \in Decisions :
          r = request[c] /\ i = position[c] /\ d = verdict[c] /\ Effect(r, i, d)
    BY <1>5, DecideEffect
  <2>1. \A q \in Requests : steps[q] \subseteq Positions
    BY DEF TypeOK
  <2> QED BY <2>0, <2>1 DEF Effect
<1>6. ASSUME NEW c \in Calls, NEW u \in Users, NEW r \in Requests, CancelRead(c, u, r) PROVE Stands
  BY <1>6 DEF CancelRead
<1>7. ASSUME NEW c \in Calls, CancelRequest(c) PROVE Stands
  BY <1>7 DEF CancelRequest, Return, CancelLeaveRequestGuarded
<1>8. ASSUME NEW c \in Calls, CallFails(c) PROVE Stands
  BY <1>8 DEF CallFails, Return
<1>9. CASE SettingsChange
  BY <1>9 DEF SettingsChange
<1>10. CASE UNCHANGED vars
  BY <1>10 DEF vars
<1> HIDE DEF Stands
<1> QED BY <1>1, <1>2, <1>3, <1>4, <1>5, <1>6, <1>7, <1>8, <1>9, <1>10 DEF Next, CallSteps


\* A decision is never replaced, the steps of a request never change.
THEOREM DecisionsAlwaysStand == Spec => DecisionsStand
<1>1. IInv /\ [Next]_vars => [Stands]_vars
  BY StandStep DEF IInv
<1> QED BY Inductive, <1>1, PTL DEF Spec, DecisionsStand, Stands

\* The service implements the abstract engine of LeaveDecision.
THEOREM LeaveImplementsDecision == Spec => EngineSpec
<1>1. Init => Engine!DecisionInit
  BY DEF Init, Engine!DecisionInit
<1>2. IInv /\ [Next]_vars => [Engine!DecisionNext]_(Engine!decisionVars)
  BY EngineStep, InvStep DEF IInv
<1> QED BY Inductive, <1>1, <1>2, PTL DEF Spec, EngineSpec, Engine!Spec
=============================================================================
