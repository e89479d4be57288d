---------------------------- MODULE LeaveApproval ----------------------------
(***************************************************************************)
(* The approval engine of teachers' leave (src/internal/leave).  A request *)
(* snapshots the approval chain of the school's settings as steps; the     *)
(* approvers decide the steps in order.                                    *)
(*                                                                         *)
(* DecideStep reads the step, the request and all steps of the request in  *)
(* three statements and then writes in a transaction of its own, whose     *)
(* updates are guarded by "decision IS NULL" and, when the request is to   *)
(* change as well, by "status = 'pending'".  The row locks make the        *)
(* transaction one step.                                                   *)
(*                                                                         *)
(* A step keeps the position of its approver in the chain: the code        *)
(* renumbers the steps left after the owner's own are skipped, in the same *)
(* order.  An approver is a user, or a role that anyone may hold.          *)
(***************************************************************************)
EXTENDS Naturals

CONSTANTS
    Requests,            \* rows of leave_requests
    Users, Roles, Calls,
    MaxSteps,            \* longest chain
    Chains,              \* chains the settings may hold: sequences of approvers
    NoUser, NoRequest, NoApprover,
    FirstChain, FirstRole,  \* the settings and the roles at the start
    MaxChanges              \* bound on edits by the administrator

Positions == 1 .. MaxSteps
Approvers == Users \cup Roles

ASSUME LeaveAssumption ==
    /\ MaxSteps \in Nat /\ MaxChanges \in Nat
    /\ NoUser \notin Users /\ NoRequest \notin Requests /\ NoApprover \notin Approvers
    /\ Users \cap Roles = {}
    /\ \A ch \in Chains : DOMAIN ch \subseteq Positions /\ \A i \in DOMAIN ch : ch[i] \in Approvers
    /\ FirstChain \in Chains
    /\ FirstRole \in [Users -> Roles]

VARIABLES
    status, teacher, steps,         \* columns of each request; positions of its steps
    approver, decision, decidedBy,  \* columns of each step
    chain, role, changes,           \* settings, and memberships
    callPc, actor, actorRole,       \* each call: its user, with the role of the session,
    request, position, verdict,     \* what it decides,
    seenDecision                    \* and the decision of the step as read

requestVars == <<status, teacher, steps>>
stepVars == <<approver, decision, decidedBy>>
settings == <<chain, role, changes>>
locals == <<actor, actorRole, request, position, verdict, seenDecision>>
callVars == <<callPc, locals>>
vars == <<requestVars, stepVars, settings, callVars>>

Statuses == {"pending", "approved", "rejected", "canceled"}
Decisions == {"approved", "rejected"}

TypeOK ==
    /\ status \in [Requests -> Statuses \cup {"none"}]
    /\ teacher \in [Requests -> Users \cup {NoUser}]
    /\ steps \in [Requests -> SUBSET Positions]
    /\ approver \in [Requests \X Positions -> Approvers \cup {NoApprover}]
    /\ decision \in [Requests \X Positions -> Decisions \cup {"none"}]
    /\ decidedBy \in [Requests \X Positions -> Users \cup {NoUser}]
    /\ chain \in Chains
    /\ role \in [Users -> Roles]
    /\ changes \in Nat
    /\ callPc \in [Calls -> {"idle", "step", "request", "decide", "cancel"}]
    /\ actor \in [Calls -> Users \cup {NoUser}]
    /\ actorRole \in [Calls -> Roles \cup {NoApprover}]
    /\ request \in [Calls -> Requests \cup {NoRequest}]
    /\ position \in [Calls -> Positions \cup {0}]
    /\ verdict \in [Calls -> Decisions \cup {"none"}]
    /\ seenDecision \in [Calls -> Decisions \cup {"none"}]

Init ==
    /\ status = [r \in Requests |-> "none"]
    /\ teacher = [r \in Requests |-> NoUser]
    /\ steps = [r \in Requests |-> {}]
    /\ approver = [x \in Requests \X Positions |-> NoApprover]
    /\ decision = [x \in Requests \X Positions |-> "none"]
    /\ decidedBy = [x \in Requests \X Positions |-> NoUser]
    /\ chain = FirstChain
    /\ role = FirstRole
    /\ changes = 0
    /\ callPc = [c \in Calls |-> "idle"]
    /\ actor = [c \in Calls |-> NoUser]
    /\ actorRole = [c \in Calls |-> NoApprover]
    /\ request = [c \in Calls |-> NoRequest]
    /\ position = [c \in Calls |-> 0]
    /\ verdict = [c \in Calls |-> "none"]
    /\ seenDecision = [c \in Calls |-> "none"]

\* The call returns: with an answer, or with an error.
Return(c) ==
    /\ callPc' = [callPc EXCEPT ![c] = "idle"]
    /\ actor' = [actor EXCEPT ![c] = NoUser]
    /\ actorRole' = [actorRole EXCEPT ![c] = NoApprover]
    /\ request' = [request EXCEPT ![c] = NoRequest]
    /\ position' = [position EXCEPT ![c] = 0]
    /\ verdict' = [verdict EXCEPT ![c] = "none"]
    /\ seenDecision' = [seenDecision EXCEPT ![c] = "none"]

-----------------------------------------------------------------------------
isStepApprover(a, u, r) == IF a \in Users THEN a = u ELSE a = r

\* The settings read and the transaction are one step: nothing else is read in
\* between, and the request is not visible before.
SubmitRequest(r, u) ==
    LET kept == {i \in DOMAIN chain : ~isStepApprover(chain[i], u, role[u])}
    IN  /\ status[r] = "none"
        /\ status' = [status EXCEPT ![r] = IF kept = {} THEN "approved" ELSE "pending"]
        /\ teacher' = [teacher EXCEPT ![r] = u]
        /\ steps' = [steps EXCEPT ![r] = kept]
        /\ approver' = [x \in Requests \X Positions |->
                          IF x[1] = r /\ x[2] \in kept THEN chain[x[2]] ELSE approver[x]]
        /\ UNCHANGED <<decision, decidedBy, settings, callVars>>

-----------------------------------------------------------------------------
\* DecideStep begins, with the role of the session.
GetStepByID(c, u, r, i, d) ==
    /\ callPc[c] = "idle"
    /\ i \in steps[r]
    /\ callPc' = [callPc EXCEPT ![c] = "step"]
    /\ actor' = [actor EXCEPT ![c] = u]
    /\ actorRole' = [actorRole EXCEPT ![c] = role[u]]
    /\ request' = [request EXCEPT ![c] = r]
    /\ position' = [position EXCEPT ![c] = i]
    /\ verdict' = [verdict EXCEPT ![c] = d]
    /\ seenDecision' = [seenDecision EXCEPT ![c] = decision[<<r, i>>]]
    /\ UNCHANGED <<requestVars, stepVars, settings>>

\* The owner, a request that is not pending, a decided step and a stranger are
\* refused (CallFails).
GetRequestByID(c) ==
    /\ callPc[c] = "step"
    /\ teacher[request[c]] # actor[c]
    /\ status[request[c]] = "pending"
    /\ seenDecision[c] = "none"
    /\ isStepApprover(approver[<<request[c], position[c]>>], actor[c], actorRole[c])
    /\ callPc' = [callPc EXCEPT ![c] = "request"]
    /\ UNCHANGED <<locals, requestVars, stepVars, settings>>

\* No earlier step is undecided.  A rejected one counts as decided.
StepActive(r, i) == \A j \in steps[r] : j < i => decision[<<r, j>>] # "none"

ListStepsForRequest(c) ==
    /\ callPc[c] = "request"
    /\ StepActive(request[c], position[c])
    /\ callPc' = [callPc EXCEPT ![c] = "decide"]
    /\ UNCHANGED <<locals, requestVars, stepVars, settings>>

IsLast(r, i) == \A j \in steps[r] : j <= i

\* "" leaves the request as it is.
NewReqStatus(r, i, d) ==
    IF d = "rejected" THEN "rejected" ELSE IF IsLast(r, i) THEN "approved" ELSE ""

WritesRequest(st) == st # ""

\* Mutant: the update of the step has no condition.
DecideLeaveStepUnguarded(r, i) == i \in steps[r]

DecideLeaveStepGuarded(r, i) == decision[<<r, i>>] = "none"

\* Mutant: a request that was rejected meanwhile is approved nevertheless.
UpdateUnlessCanceled(r) == status[r] # "canceled"

UpdateLeaveRequestStatusGuarded(r) == status[r] = "pending"

\* The transaction.  When one of its updates finds no row it is rolled back
\* and the call answers with a conflict (CallFails).
DecideStep(c) ==
    LET r == request[c]
        i == position[c]
        st == NewReqStatus(r, i, verdict[c])
    IN  /\ callPc[c] = "decide"
        /\ DecideLeaveStepGuarded(r, i)
        /\ WritesRequest(st) => UpdateLeaveRequestStatusGuarded(r)
        /\ decision' = [decision EXCEPT ![<<r, i>>] = verdict[c]]
        /\ decidedBy' = [decidedBy EXCEPT ![<<r, i>>] = actor[c]]
        /\ status' = IF WritesRequest(st) THEN [status EXCEPT ![r] = st] ELSE status
        /\ Return(c)
        /\ UNCHANGED <<teacher, steps, approver, settings>>

-----------------------------------------------------------------------------
CancelRead(c, u, r) ==
    /\ callPc[c] = "idle"
    /\ teacher[r] = u
    /\ status[r] = "pending"
    /\ callPc' = [callPc EXCEPT ![c] = "cancel"]
    /\ actor' = [actor EXCEPT ![c] = u]
    /\ request' = [request EXCEPT ![c] = r]
    /\ UNCHANGED <<actorRole, position, verdict, seenDecision, requestVars, stepVars, settings>>

\* Mutant: the update is not repeated on the status.
CancelUnguarded(r, u) == teacher[r] = u

CancelLeaveRequestGuarded(r, u) == teacher[r] = u /\ status[r] = "pending"

CancelRequest(c) ==
    /\ callPc[c] = "cancel"
    /\ CancelLeaveRequestGuarded(request[c], actor[c])
    /\ status' = [status EXCEPT ![request[c]] = "canceled"]
    /\ Return(c)
    /\ UNCHANGED <<teacher, steps, stepVars, settings>>

\* A failed check, zero rows, an error of the database, a lost connection.
CallFails(c) ==
    /\ callPc[c] # "idle"
    /\ Return(c)
    /\ UNCHANGED <<requestVars, stepVars, settings>>

\* The administrator edits the chain, or the role of a member.
SettingsChange ==
    /\ changes < MaxChanges
    /\ changes' = changes + 1
    /\ \/ chain' \in Chains /\ UNCHANGED role
       \/ \E u \in Users, q \in Roles : role' = [role EXCEPT ![u] = q] /\ UNCHANGED chain
    /\ UNCHANGED <<requestVars, stepVars, callVars>>

CallSteps(c) ==
    \/ \E u \in Users, r \in Requests :
         \/ \E i \in Positions, d \in Decisions : GetStepByID(c, u, r, i, d)
         \/ CancelRead(c, u, r)
    \/ GetRequestByID(c) \/ ListStepsForRequest(c) \/ DecideStep(c)
    \/ CancelRequest(c) \/ CallFails(c)

Next ==
    \/ \E r \in Requests, u \in Users : SubmitRequest(r, u)
    \/ \E c \in Calls : CallSteps(c)
    \/ SettingsChange

Spec == Init /\ [][Next]_vars

-----------------------------------------------------------------------------
\* The status of a request is the one its steps spell: approved, all of them
\* granted it; pending, one is still to decide and none refused; one refused,
\* it is rejected, whatever decisions and cancellations were in flight.
StatusFollowsSteps ==
    \A r \in Requests :
        /\ status[r] = "approved" => \A i \in steps[r] : decision[<<r, i>>] = "approved"
        /\ status[r] = "pending" => \E i \in steps[r] : decision[<<r, i>>] = "none"
        /\ (\E i \in steps[r] : decision[<<r, i>>] = "rejected") <=> status[r] = "rejected"

\* A step is decided after all earlier ones, also when two approvers decide at
\* the same time.
DecidedInOrder ==
    \A r \in Requests : \A i, j \in steps[r] :
        j < i /\ decision[<<r, i>>] # "none" => decision[<<r, j>>] # "none"

\* Of two approvers who hold the role of a step one decides it, for good; and
\* the steps of a request do not change with the settings.
DecisionsStand ==
    [][\A r \in Requests :
         /\ \A i \in steps[r] : decision[<<r, i>>] # "none" =>
              decision'[<<r, i>>] = decision[<<r, i>>] /\ decidedBy'[<<r, i>>] = decidedBy[<<r, i>>]
         /\ status[r] # "none" => steps'[r] = steps[r]]_vars

\* The abstract engine: the steps that granted a request count while it is
\* pending or approved.
Engine == INSTANCE LeaveDecision WITH
    state <- status,
    required <- steps,
    granted <- [r \in Requests |->
                  IF status[r] \in {"pending", "approved"}
                  THEN {i \in steps[r] : decision[<<r, i>>] = "approved"} ELSE {}]

\* The requests implement it.
EngineSpec == Engine!Spec

\* What DecideStep promises (repository.go): no step is decided after its
\* request became final.  An approval that is not the last one does not touch
\* the request, and the transaction does not look at it: this does not hold.
DecidedOnlyWhilePending ==
    [][\A x \in Requests \X Positions : decision'[x] # decision[x] => status[x[1]] = "pending"]_vars
=============================================================================
