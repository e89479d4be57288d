------------------------------ MODULE StudentLeave ------------------------------
(***************************************************************************)
(* Leave letters of students (src/internal/studentleave/service.go): a      *)
(* request passes the homeroom teacher and then the counsellor (BK), who    *)
(* issues a numbered letter.                                               *)
(*                                                                         *)
(* Each decision reads the request, checks its status and the caller, and  *)
(* then updates the row where the status is still the one expected.  The   *)
(* number of a letter is drawn between the two, and lost when somebody     *)
(* else was faster.  LeaveDecision, the abstract request of the leave of   *)
(* employees, is what this promises too, with two positions.               *)
(***************************************************************************)
EXTENDS Naturals

CONSTANTS Requests, Deciders,
          MaxLetters,    \* bound: numbers drawn
          NoRequest

ASSUME StudentLeaveAssumption == MaxLetters \in Nat /\ NoRequest \notin Requests

VARIABLES
    status, letterNumber,  \* of each request: 0 while it has no letter
    letterSeq,             \* the last number drawn
    phase, about, approves, \* each call: what it does next, the request, the decision,
    carries,               \*   the number it has drawn
    told                   \* history: outcomes a caller was told, with their requests

requestVars == <<status, letterNumber>>
decider == <<phase, about, approves, carries>>
studentLeaveVars == <<requestVars, letterSeq, decider, told>>

Pending == {"pending_homeroom", "pending_bk"}
Final == {"issued", "rejected", "canceled"}

StudentLeaveTypeOK ==
    /\ status \in [Requests -> {"none"} \cup Pending \cup Final]
    /\ letterNumber \in [Requests -> Nat] /\ letterSeq \in 0..MaxLetters
    /\ phase \in [Deciders -> {"idle", "review", "number", "issue", "cancel"}]
    /\ about \in [Deciders -> Requests \cup {NoRequest}]
    /\ approves \in [Deciders -> BOOLEAN]
    /\ carries \in [Deciders -> 0..MaxLetters]
    /\ told \subseteq Requests \X Final

StudentLeaveInit ==
    /\ status = [r \in Requests |-> "none"] /\ letterNumber = [r \in Requests |-> 0]
    /\ letterSeq = 0
    /\ phase = [d \in Deciders |-> "idle"] /\ about = [d \in Deciders |-> NoRequest]
    /\ approves = [d \in Deciders |-> FALSE] /\ carries = [d \in Deciders |-> 0]
    /\ told = {}

Enter(d, s, r, approve) ==
    /\ phase[d] = "idle"
    /\ phase' = [phase EXCEPT ![d] = s]
    /\ about' = [about EXCEPT ![d] = r]
    /\ approves' = [approves EXCEPT ![d] = approve]
    /\ UNCHANGED <<requestVars, letterSeq, carries, told>>

Reply(d) ==
    /\ phase' = [phase EXCEPT ![d] = "idle"]
    /\ about' = [about EXCEPT ![d] = NoRequest]
    /\ approves' = [approves EXCEPT ![d] = FALSE]
    /\ carries' = [carries EXCEPT ![d] = 0]

-----------------------------------------------------------------------------
SubmitRequest(r) ==
    /\ status[r] = "none"
    /\ status' = [status EXCEPT ![r] = "pending_homeroom"]
    /\ UNCHANGED <<letterNumber, letterSeq, decider, told>>

ReviewHomeroom(d, r, approve) ==
    /\ status[r] = "pending_homeroom"
    /\ Enter(d, "review", r, approve)

IssueBK(d, r, approve) ==
    /\ status[r] = "pending_bk"
    /\ Enter(d, IF approve THEN "number" ELSE "issue", r, approve)

CancelRequest(d, r) ==
    /\ status[r] \in Pending
    /\ Enter(d, "cancel", r, FALSE)

NextLetterSeq(d) ==
    /\ phase[d] = "number" /\ letterSeq < MaxLetters
    /\ letterSeq' = letterSeq + 1
    /\ carries' = [carries EXCEPT ![d] = letterSeq + 1]
    /\ phase' = [phase EXCEPT ![d] = "issue"]
    /\ UNCHANGED <<requestVars, about, approves, told>>

\* The guarded update: no row, and an error, when the status is not in S any more.
Settle(d, S, outcome) ==
    /\ IF status[about[d]] \in S
         THEN /\ status' = [status EXCEPT ![about[d]] = outcome]
              /\ letterNumber' = [letterNumber EXCEPT ![about[d]] = carries[d]]
              /\ told' = told \cup ({about[d]} \X ({outcome} \cap Final))
         ELSE UNCHANGED <<requestVars, told>>
    /\ Reply(d)
    /\ UNCHANGED letterSeq

UpdateHomeroomDecision(d) ==
    /\ phase[d] = "review"
    /\ Settle(d, {"pending_homeroom"}, IF approves[d] THEN "pending_bk" ELSE "rejected")

\* Mutant: the update is not limited to a request that waits for it.
UpdateBKAnyPending(d) ==
    /\ phase[d] = "issue"
    /\ Settle(d, Pending \cup Final, IF approves[d] THEN "issued" ELSE "rejected")

UpdateBKDecision(d) ==
    /\ phase[d] = "issue"
    /\ Settle(d, {"pending_bk"}, IF approves[d] THEN "issued" ELSE "rejected")

\* Mutant: the update accepts a request that was decided since the call read it.
CancelDecided(d) ==
    /\ phase[d] = "cancel"
    /\ Settle(d, Pending \cup {"issued"}, "canceled")

CancelRequestExec(d) ==
    /\ phase[d] = "cancel"
    /\ Settle(d, Pending, "canceled")

\* A statement fails before the update.
DecisionFails(d) ==
    /\ phase[d] # "idle"
    /\ Reply(d)
    /\ UNCHANGED <<requestVars, letterSeq, told>>

StudentLeaveNext ==
    \/ \E r \in Requests : SubmitRequest(r)
    \/ \E d \in Deciders :
        \/ \E r \in Requests : \/ \E approve \in BOOLEAN : ReviewHomeroom(d, r, approve) \/ IssueBK(d, r, approve)
                               \/ CancelRequest(d, r)
        \/ NextLetterSeq(d) \/ DecisionFails(d)
        \/ UpdateHomeroomDecision(d) \/ UpdateBKDecision(d) \/ CancelRequestExec(d)

StudentLeaveSpec == StudentLeaveInit /\ [][StudentLeaveNext]_studentLeaveVars

-----------------------------------------------------------------------------
(* Properties. *)

\* What a caller was told of a request stays true: a letter that was issued is
\* not withdrawn, a withdrawal is not overtaken by a letter, and only the letter
\* of an issued request, under a number of its own, can be verified.
\* (IssueBK, service.go:558, CancelRequest, :628)
AnswerStands ==
    /\ \A r \in Requests, s \in Final : <<r, s>> \in told => status[r] = s
    /\ \A r \in Requests : letterNumber[r] # 0 <=> status[r] = "issued"
    /\ \A r, q \in Requests : letterNumber[r] = letterNumber[q] /\ r # q => letterNumber[r] = 0

\* The homeroom teacher and the counsellor are the positions of a request.
Decision == INSTANCE LeaveDecision WITH
    Positions <- {1, 2},
    state <- [r \in Requests |->
        CASE status[r] \in Pending -> "pending" [] status[r] = "issued" -> "approved" [] OTHER -> status[r]],
    required <- [r \in Requests |-> IF status[r] = "none" THEN {} ELSE {1, 2}],
    granted <- [r \in Requests |->
        CASE status[r] = "pending_bk" -> {1} [] status[r] = "issued" -> {1, 2} [] OTHER -> {}]

\* A request is granted by both in this order, or refused or withdrawn once,
\* whatever calls overlap.  (state machine, studentleave/service.go)
LeaveDecisionSpec == Decision!Spec
=============================================================================
