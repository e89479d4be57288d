----------------------------- MODULE ExitPermit -----------------------------
(***************************************************************************)
(* Exit permits of students (src/internal/exitpermit): a student asks to   *)
(* leave school, walks to four members of staff and scans the QR token of  *)
(* each (module TeacherQR), and shows the gate pass at the exit.           *)
(*                                                                         *)
(* Every request of the service is a call that runs statement by statement *)
(* and outside any transaction: it reads the permit, decides on what it    *)
(* read, and updates with a condition on the status.  Calls interleave, a  *)
(* call may end at any statement (error, lost connection, restart).        *)
(* The roster (duty flags, slot of the timetable) changes meanwhile.       *)
(***************************************************************************)
EXTENDS TeacherQR, Naturals

CONSTANTS
    Permits,       \* rows of student_exit_permits
    Students,
    Calls,         \* concurrent requests
    Admins,        \* accounts with the permission student:manage
    NoPermit, NoStudent, NoToken,
    FirstHolders, FirstSlot,  \* the roster at the start
    MaxRosterChanges          \* bound: changes of the roster

Flags == {"late_arrival_duty", "exit_bk_approval", "exit_leadership_approval", "exit_security"}

ASSUME ExitPermitAssumption ==
    /\ Admins \subseteq Users
    /\ NoPermit \notin Permits /\ NoStudent \notin Students /\ NoToken \notin Tokens
    /\ FirstHolders \in [Flags -> SUBSET Users]
    /\ FirstSlot \in [Students -> Users \cup {NoUser}]
    /\ MaxRosterChanges \in Nat

VARIABLES
    student, status, dutyBy, classBy, bkBy, leadershipBy, exitedBy, \* columns of each permit
    gate,          \* its gate pass: "none", "valid" or "expired"
    holders,       \* users with each duty flag
    slot,          \* who teaches the class of each student now or next
    rosterChanges,
    callPc,
    subject,       \* each call: the student it acts for
    permit,        \* the permit it acts on
    seen, seenDuty, \* status and duty_by as the call read them
    actor,         \* the account acting: owner of the token, or the caller
    token,         \* the token it consumed
    backing,       \* history: the token behind each signature of each permit
    overlapped     \* history: students with two submissions in flight at a time

columns == <<student, status, dutyBy, classBy, bkBy, leadershipBy, exitedBy, gate>>
roster == <<holders, slot, rosterChanges>>
locals == <<subject, permit, seen, seenDuty, actor, token>>
callVars == <<callPc, locals>>
history == <<backing, overlapped>>
vars == <<qrVars, columns, roster, callVars, history>>

PendingStatuses ==
    {"pending_duty_teacher", "pending_class_teacher", "pending_bk", "pending_leadership"}
FinalStatuses == {"exited", "rejected", "canceled"}
Statuses == PendingStatuses \cup FinalStatuses \cup {"issued"}

isPending(s) == s \in PendingStatuses
isFinal(s) == s \in FinalStatuses
isActivePermit(s) == isPending(s) \/ s = "issued"

Signatures == Permits \X PendingStatuses

CallStates == {"idle", "counted", "scanning", "consumed", "checked", "rejecting", "rejectable",
               "canceling", "atGate", "gating"}

TypeOK ==
    /\ TokensTypeOK
    /\ student \in [Permits -> Students \cup {NoStudent}]
    /\ status \in [Permits -> Statuses \cup {"none"}]
    /\ dutyBy \in [Permits -> Users \cup {NoUser}]
    /\ classBy \in [Permits -> Users \cup {NoUser}]
    /\ bkBy \in [Permits -> Users \cup {NoUser}]
    /\ leadershipBy \in [Permits -> Users \cup {NoUser}]
    /\ exitedBy \in [Permits -> Users \cup {NoUser}]
    /\ gate \in [Permits -> {"none", "valid", "expired"}]
    /\ holders \in [Flags -> SUBSET Users]
    /\ slot \in [Students -> Users \cup {NoUser}]
    /\ rosterChanges \in Nat
    /\ callPc \in [Calls -> CallStates]
    /\ subject \in [Calls -> Students \cup {NoStudent}]
    /\ permit \in [Calls -> Permits \cup {NoPermit}]
    /\ seen \in [Calls -> Statuses \cup {"none"}]
    /\ seenDuty \in [Calls -> Users \cup {NoUser}]
    /\ actor \in [Calls -> Users \cup {NoUser}]
    /\ token \in [Calls -> Tokens \cup {NoToken}]
    /\ backing \in [Signatures -> Tokens \cup {NoToken}]
    /\ overlapped \in SUBSET Students

Init ==
    /\ TokensInit
    /\ student = [p \in Permits |-> NoStudent]
    /\ status = [p \in Permits |-> "none"]
    /\ dutyBy = [p \in Permits |-> NoUser]
    /\ classBy = [p \in Permits |-> NoUser]
    /\ bkBy = [p \in Permits |-> NoUser]
    /\ leadershipBy = [p \in Permits |-> NoUser]
    /\ exitedBy = [p \in Permits |-> NoUser]
    /\ gate = [p \in Permits |-> "none"]
    /\ holders = FirstHolders
    /\ slot = FirstSlot
    /\ rosterChanges = 0
    /\ callPc = [c \in Calls |-> "idle"]
    /\ subject = [c \in Calls |-> NoStudent]
    /\ permit = [c \in Calls |-> NoPermit]
    /\ seen = [c \in Calls |-> "none"]
    /\ seenDuty = [c \in Calls |-> NoUser]
    /\ actor = [c \in Calls |-> NoUser]
    /\ token = [c \in Calls |-> NoToken]
    /\ backing = [x \in Signatures |-> NoToken]
    /\ overlapped = {}

\* The call returns: with an answer, or with an error.
Return(c) ==
    /\ callPc' = [callPc EXCEPT ![c] = "idle"]
    /\ subject' = [subject EXCEPT ![c] = NoStudent]
    /\ permit' = [permit EXCEPT ![c] = NoPermit]
    /\ seen' = [seen EXCEPT ![c] = "none"]
    /\ seenDuty' = [seenDuty EXCEPT ![c] = NoUser]
    /\ actor' = [actor EXCEPT ![c] = NoUser]
    /\ token' = [token EXCEPT ![c] = NoToken]

\* GetDetail: the columns the decisions of the call are taken on.
GetDetail(c, p, pc) ==
    /\ callPc[c] = "idle"
    /\ status[p] # "none"
    /\ callPc' = [callPc EXCEPT ![c] = pc]
    /\ permit' = [permit EXCEPT ![c] = p]
    /\ seen' = [seen EXCEPT ![c] = status[p]]
    /\ seenDuty' = [seenDuty EXCEPT ![c] = dutyBy[p]]

Continue(c, pc) == callPc' = [callPc EXCEPT ![c] = pc]

CallFails(c) ==
    /\ callPc[c] # "idle"
    /\ Return(c)
    /\ UNCHANGED <<qrVars, columns, roster, history>>

-----------------------------------------------------------------------------
(***************************************************************************)
(* SubmitRequest: count, then insert.  There is no unique index.           *)
(***************************************************************************)
ActivePermits(s) == {p \in Permits : student[p] = s /\ isActivePermit(status[p])}

\* Mutant: only the permits nobody has signed yet are counted.
CountActiveUnsigned(c, s) ==
    /\ callPc[c] = "idle"
    /\ \A p \in ActivePermits(s) : status[p] # "pending_duty_teacher"
    /\ callPc' = [callPc EXCEPT ![c] = "counted"]
    /\ subject' = [subject EXCEPT ![c] = s]
    /\ overlapped' = IF \E d \in Calls : callPc[d] = "counted" /\ subject[d] = s
                     THEN overlapped \cup {s} ELSE overlapped
    /\ UNCHANGED <<permit, seen, seenDuty, actor, token, qrVars, columns, roster, backing>>

CountActive(c, s) ==
    /\ callPc[c] = "idle"
    /\ ActivePermits(s) = {}
    /\ callPc' = [callPc EXCEPT ![c] = "counted"]
    /\ subject' = [subject EXCEPT ![c] = s]
    /\ overlapped' = IF \E d \in Calls : callPc[d] = "counted" /\ subject[d] = s
                     THEN overlapped \cup {s} ELSE overlapped
    /\ UNCHANGED <<permit, seen, seenDuty, actor, token, qrVars, columns, roster, backing>>

CreateRequest(c, p) ==
    /\ callPc[c] = "counted"
    /\ status[p] = "none"
    /\ student' = [student EXCEPT ![p] = subject[c]]
    /\ status' = [status EXCEPT ![p] = "pending_duty_teacher"]
    /\ Return(c)
    /\ UNCHANGED <<dutyBy, classBy, bkBy, leadershipBy, exitedBy, gate, qrVars, roster, history>>

-----------------------------------------------------------------------------
(***************************************************************************)
(* Scan: read the permit, burn the token, check the teacher against the    *)
(* status read, update under the condition that the status still is that.  *)
(***************************************************************************)
ScanRead(c, p) ==
    /\ GetDetail(c, p, "scanning")
    /\ isPending(status[p])
    /\ UNCHANGED <<subject, actor, token, qrVars, columns, roster, history>>

ScanConsume(c, k) ==
    /\ callPc[c] = "scanning"
    /\ ConsumeToken(k)
    /\ actor' = [actor EXCEPT ![c] = qrOwner[k]]
    /\ token' = [token EXCEPT ![c] = k]
    /\ Continue(c, "consumed")
    /\ UNCHANGED <<subject, permit, seen, seenDuty, columns, roster, history>>

\* TeacherMatchesClassNow: the slot of the class now or next is this teacher's.
TeacherMatchesClassNow(p, u) == u # NoUser /\ slot[student[p]] = u

\* Who may sign, or reject, at a stage, given the duty teacher of the permit.
Authority(st, p, u, duty) ==
    \/ st = "pending_duty_teacher" /\ u \in holders["late_arrival_duty"]
    \/ st = "pending_class_teacher" /\ u # duty /\ TeacherMatchesClassNow(p, u)
    \/ st = "pending_bk" /\ u \in holders["exit_bk_approval"]
    \/ st = "pending_leadership" /\ u \in holders["exit_leadership_approval"]

\* A teacher who fails the check is CallFails: the token stays burnt.
ScanCheck(c) ==
    /\ callPc[c] = "consumed"
    /\ Authority(seen[c], permit[c], actor[c], seenDuty[c])
    /\ Continue(c, "checked")
    /\ UNCHANGED <<locals, qrVars, columns, roster, history>>

\* Mutant: the updates of the stages have no condition on the status.
AtStageUnguarded(c, st) == callPc[c] = "checked" /\ seen[c] = st

\* The condition of the four updates; on zero rows the call fails.
AtStage(c, st) == callPc[c] = "checked" /\ seen[c] = st /\ status[permit[c]] = st

Sign(c, st, next) ==
    /\ status' = [status EXCEPT ![permit[c]] = next]
    /\ backing' = [backing EXCEPT ![<<permit[c], st>>] = token[c]]
    /\ Return(c)
    /\ UNCHANGED <<student, exitedBy, qrVars, roster, overlapped>>

UpdateDutyStage(c) ==
    /\ AtStage(c, "pending_duty_teacher")
    /\ dutyBy' = [dutyBy EXCEPT ![permit[c]] = actor[c]]
    /\ Sign(c, "pending_duty_teacher", "pending_class_teacher")
    /\ UNCHANGED <<classBy, bkBy, leadershipBy, gate>>

UpdateClassStage(c) ==
    /\ AtStage(c, "pending_class_teacher")
    /\ classBy' = [classBy EXCEPT ![permit[c]] = actor[c]]
    /\ Sign(c, "pending_class_teacher", "pending_bk")
    /\ UNCHANGED <<dutyBy, bkBy, leadershipBy, gate>>

UpdateBKStage(c) ==
    /\ AtStage(c, "pending_bk")
    /\ bkBy' = [bkBy EXCEPT ![permit[c]] = actor[c]]
    /\ Sign(c, "pending_bk", "pending_leadership")
    /\ UNCHANGED <<dutyBy, classBy, leadershipBy, gate>>

\* GateExpiryToday, the end of the last period of the day, may be in the past.
UpdateLeadershipStage(c) ==
    /\ AtStage(c, "pending_leadership")
    /\ leadershipBy' = [leadershipBy EXCEPT ![permit[c]] = actor[c]]
    /\ \E g \in {"valid", "expired"} : gate' = [gate EXCEPT ![permit[c]] = g]
    /\ Sign(c, "pending_leadership", "issued")
    /\ UNCHANGED <<dutyBy, classBy, bkBy>>

-----------------------------------------------------------------------------
(***************************************************************************)
(* CancelRequest by the owner, RejectRequest by an administrator or the    *)
(* approver of the status read.                                            *)
(***************************************************************************)
CancelRead(c, p) ==
    /\ GetDetail(c, p, "canceling")
    /\ isPending(status[p])
    /\ UNCHANGED <<subject, actor, token, qrVars, columns, roster, history>>

Cancel(c) ==
    /\ callPc[c] = "canceling"
    /\ isPending(status[permit[c]])
    /\ status' = [status EXCEPT ![permit[c]] = "canceled"]
    /\ Return(c)
    /\ UNCHANGED <<student, dutyBy, classBy, bkBy, leadershipBy, exitedBy, gate, qrVars, roster, history>>

RejectRead(c, p, u) ==
    /\ GetDetail(c, p, "rejecting")
    /\ ~isFinal(status[p])
    /\ actor' = [actor EXCEPT ![c] = u]
    /\ UNCHANGED <<subject, token, qrVars, columns, roster, history>>

requireRejectAuthority(c) ==
    /\ callPc[c] = "rejecting"
    /\ \/ actor[c] \in Admins
       \/ Authority(seen[c], permit[c], actor[c], seenDuty[c])
    /\ Continue(c, "rejectable")
    /\ UNCHANGED <<locals, qrVars, columns, roster, history>>

Reject(c) ==
    /\ callPc[c] = "rejectable"
    /\ ~isFinal(status[permit[c]])
    /\ status' = [status EXCEPT ![permit[c]] = "rejected"]
    /\ Return(c)
    /\ UNCHANGED <<student, dutyBy, classBy, bkBy, leadershipBy, exitedBy, gate, qrVars, roster, history>>

-----------------------------------------------------------------------------
(***************************************************************************)
(* GateScan: flag of the guard, permit by its gate token, expiry, update.  *)
(***************************************************************************)
GateFlag(c, u) ==
    /\ callPc[c] = "idle"
    /\ u \in holders["exit_security"]
    /\ Continue(c, "atGate")
    /\ actor' = [actor EXCEPT ![c] = u]
    /\ UNCHANGED <<subject, permit, seen, seenDuty, token, qrVars, columns, roster, history>>

GetByGateToken(c, p) ==
    /\ callPc[c] = "atGate"
    /\ gate[p] = "valid"
    /\ status[p] = "issued"
    /\ Continue(c, "gating")
    /\ permit' = [permit EXCEPT ![c] = p]
    /\ UNCHANGED <<subject, seen, seenDuty, actor, token, qrVars, columns, roster, history>>

GateScan(c) ==
    /\ callPc[c] = "gating"
    /\ status[permit[c]] = "issued"
    /\ status' = [status EXCEPT ![permit[c]] = "exited"]
    /\ exitedBy' = [exitedBy EXCEPT ![permit[c]] = actor[c]]
    /\ Return(c)
    /\ UNCHANGED <<student, dutyBy, classBy, bkBy, leadershipBy, gate, qrVars, roster, history>>

-----------------------------------------------------------------------------
(***************************************************************************)
(* What goes on around the calls.                                          *)
(***************************************************************************)
TokenStep ==
    /\ \E k \in Tokens : TokenExpires(k) \/ \E u \in Teachers : GenerateToken(u, k)
    /\ UNCHANGED <<columns, roster, callVars, history>>

GateExpires(p) ==
    /\ gate[p] = "valid"
    /\ gate' = [gate EXCEPT ![p] = "expired"]
    /\ UNCHANGED <<student, status, dutyBy, classBy, bkBy, leadershipBy, exitedBy,
                   qrVars, roster, callVars, history>>

RosterChanges ==
    /\ rosterChanges < MaxRosterChanges
    /\ rosterChanges' = rosterChanges + 1
    /\ \/ \E f \in Flags, U \in SUBSET Users : holders' = [holders EXCEPT ![f] = U] /\ UNCHANGED slot
       \/ \E s \in Students, u \in Users \cup {NoUser} : slot' = [slot EXCEPT ![s] = u] /\ UNCHANGED holders
    /\ UNCHANGED <<qrVars, columns, callVars, history>>

CallStep(c) ==
    \/ CallFails(c)
    \/ \E s \in Students : CountActive(c, s)
    \/ \E p \in Permits :
         \/ CreateRequest(c, p) \/ ScanRead(c, p) \/ CancelRead(c, p) \/ GetByGateToken(c, p)
         \/ \E u \in Users : RejectRead(c, p, u)
    \/ \E k \in Tokens : ScanConsume(c, k)
    \/ ScanCheck(c)
    \/ UpdateDutyStage(c) \/ UpdateClassStage(c) \/ UpdateBKStage(c) \/ UpdateLeadershipStage(c)
    \/ Cancel(c) \/ requireRejectAuthority(c) \/ Reject(c)
    \/ \E u \in Users : GateFlag(c, u)
    \/ GateScan(c)

Next ==
    \/ \E c \in Calls : CallStep(c)
    \/ \E p \in Permits : GateExpires(p)
    \/ TokenStep
    \/ RosterChanges

Spec == Init /\ [][Next]_vars

-----------------------------------------------------------------------------
(***************************************************************************)
(* Properties.                                                             *)
(***************************************************************************)
\* Each signature of each permit is backed by a token of its own: one display
\* of a QR code never signs twice, for one permit or for two, although reading
\* the permit, burning the token and updating are three statements.
OneTokenPerSignature ==
    /\ \A x, y \in Signatures : backing[x] # NoToken /\ backing[x] = backing[y] => x = y
    /\ \A x \in Signatures : backing[x] # NoToken => qrState[backing[x]] = "used"

Signed(p, st, u) ==
    u # NoUser /\ backing[<<p, st>>] # NoToken /\ u = qrOwner[backing[<<p, st>>]]

\* A permit that reached a stage carries every signature before it, each by the
\* teacher whose token was scanned, and the class teacher is not the duty
\* teacher, whatever stale copies the scans decided on.
SignaturesInOrder ==
    \A p \in Permits :
        /\ status[p] \in {"pending_class_teacher", "pending_bk", "pending_leadership", "issued", "exited"}
             => Signed(p, "pending_duty_teacher", dutyBy[p])
        /\ status[p] \in {"pending_bk", "pending_leadership", "issued", "exited"}
             => Signed(p, "pending_class_teacher", classBy[p]) /\ classBy[p] # dutyBy[p]
        /\ status[p] \in {"pending_leadership", "issued", "exited"} => Signed(p, "pending_bk", bkBy[p])
        /\ status[p] \in {"issued", "exited"} => Signed(p, "pending_leadership", leadershipBy[p])

\* A permit that was canceled or refused never shows that its bearer went
\* through the gate, and one that was canceled was never issued: the races of
\* cancel with the last signature and of reject with the gate have one winner.
OneOutcome ==
    \A p \in Permits :
        /\ exitedBy[p] # NoUser <=> status[p] = "exited"
        /\ status[p] = "canceled" => leadershipBy[p] = NoUser /\ gate[p] = "none"

\* A student whose submissions never overlap has at most one active permit: no
\* other operation brings a permit back to life.
OneActiveUnlessOverlap ==
    \A s \in Students \ overlapped : \A p, q \in ActivePermits(s) : p = q

\* The permits implement the chain of signatures of ExitChain.
Chain == INSTANCE ExitChain WITH stage <- status, first <- dutyBy
ChainSpec == Chain!Spec
=============================================================================
