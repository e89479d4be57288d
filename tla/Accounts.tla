-------------------------------- MODULE Accounts --------------------------------
(***************************************************************************)
(* The accounts of the students of Roster and of their guardians: codes    *)
(* that invite them (src/internal/student with src/internal/identity), the *)
(* activation of a code, login, the impersonation of a member by an        *)
(* administrator, and the deactivation of a member.                        *)
(*                                                                         *)
(* A target is a role and a student.  Nothing here is a transaction: every *)
(* step of a call is one statement, and a call may stop after any of them. *)
(* A new account and its membership are one step: without the membership   *)
(* nobody sees the account.  An account has one role in one school; names, *)
(* passwords and the limit of attempts are left out, and administrators    *)
(* have no account here: nobody deactivates or impersonates them.          *)
(***************************************************************************)
EXTENDS Roster

CONSTANTS Users, Codes, Tokens, NoUser, NoTarget, NoCode, NoToken,
          MaxRequests         \* bound

Roles == {"siswa", "orang_tua"}
Targets == Roles \X Students

ASSUME AccountsAssumption ==
    /\ NoUser \notin Users /\ NoTarget \notin Targets
    /\ IsFiniteSet(Tokens)
    /\ MaxRequests \in Nat /\ NoCode \notin Codes /\ NoToken \notin Tokens

VARIABLES
    singleDevice,      \* the setting for one device
    begun,             \* bound: the requests so far, other than those of Roster
    account,           \* the account of each student
    guardians,         \* pairs of an account and a student
    member,            \* the membership of each account
    code,              \* the target of each code,
    live, used,        \*   the codes not expired, the codes used
    session,           \* the account of each session
    step,              \* each call: its next statement,
    target, by,        \*   the target, the code,
    user, own,         \*   the account, the session it has made
    madeFor,           \* history: the target an account was made for
    crossed,           \* history: targets of two calls at once
    reinvited,         \* history: students who got a code while they had an account
    cut,               \* history: targets of activations that stopped half way,
    kept,              \*   accounts of such a deactivation
    loose,             \* history: accounts that got a session and kept the others
    overtaken,         \* history: calls whose account was deactivated meanwhile,
    late               \*   and the sessions that they made

accountTables == <<account, guardians, member, code, live, used, session>>
requests == <<begun, step, target, by, user, own>>
accountHistory == <<madeFor, crossed, reinvited, cut, kept, loose, overtaken, late>>
accountVars == <<singleDevice, accountTables, requests, accountHistory>>
schoolVars == <<rosterVars, singleDevice>>
peopleVars == <<rosterVars, accountVars>>

Steps == {"idle", "code", "invite", "account", "link", "mark", "session", "login", "setting", "others",
          "impersonate", "drop"}

PeopleTypeOK ==
    /\ RosterTypeOK /\ singleDevice \in BOOLEAN
    /\ begun \in Nat
    /\ account \in [Students -> Users \cup {NoUser}]
    /\ guardians \subseteq Users \X Students
    /\ member \in [Users -> {"none", "active", "inactive"}]
    /\ code \in [Codes -> Targets \cup {NoTarget}]
    /\ live \subseteq Codes /\ used \subseteq Codes
    /\ session \in [Tokens -> Users \cup {NoUser}]
    /\ step \in [Calls -> Steps]
    /\ target \in [Calls -> Targets \cup {NoTarget}]
    /\ by \in [Calls -> Codes \cup {NoCode}]
    /\ user \in [Calls -> Users \cup {NoUser}]
    /\ own \in [Calls -> Tokens \cup {NoToken}]
    /\ madeFor \in [Users -> Targets \cup {NoTarget}]
    /\ crossed \subseteq Targets /\ reinvited \subseteq Targets /\ cut \subseteq Targets
    /\ kept \subseteq Users /\ loose \subseteq Users
    /\ overtaken \subseteq Calls /\ late \subseteq Tokens

PeopleInit ==
    /\ RosterInit /\ singleDevice \in BOOLEAN
    /\ begun = 0
    /\ account = [s \in Students |-> NoUser] /\ guardians = {}
    /\ member = [u \in Users |-> "none"]
    /\ code = [k \in Codes |-> NoTarget] /\ live = {} /\ used = {}
    /\ session = [t \in Tokens |-> NoUser]
    /\ step = [c \in Calls |-> "idle"] /\ target = [c \in Calls |-> NoTarget]
    /\ by = [c \in Calls |-> NoCode] /\ user = [c \in Calls |-> NoUser]
    /\ own = [c \in Calls |-> NoToken]
    /\ madeFor = [u \in Users |-> NoTarget]
    /\ crossed = {} /\ reinvited = {} /\ cut = {} /\ kept = {} /\ loose = {}
    /\ overtaken = {} /\ late = {}

Sessions(u) == {t \in Tokens : session[t] = u}

Advance(c, from, next) ==
    /\ begun' = IF from = "idle" THEN begun + 1 ELSE begun
    /\ begun' <= MaxRequests /\ step[c] = from /\ step' = [step EXCEPT ![c] = next]

Return(c, from) ==
    /\ Advance(c, from, "idle")
    /\ target' = [target EXCEPT ![c] = NoTarget] /\ by' = [by EXCEPT ![c] = NoCode]
    /\ user' = [user EXCEPT ![c] = NoUser] /\ own' = [own EXCEPT ![c] = NoToken]

\* A call on a target begins; the other calls on it are crossed by it.
Begin(c, t, next) ==
    /\ Advance(c, "idle", next) /\ pc[c] = "idle"
    /\ target' = [target EXCEPT ![c] = t]
    /\ crossed' = IF \E d \in Calls : target[d] = t THEN crossed \cup {t} ELSE crossed

\* A step of Roster; a call serves one request at a time.
EditRoster ==
    /\ RosterNext
    /\ \A c \in Calls : step[c] # "idle" => pc'[c] = "idle"
    /\ UNCHANGED accountVars

-----------------------------------------------------------------------------
HasGuardian(s) == \E u \in Users : <<u, s>> \in guardians

ActiveInvitation(t) == {k \in live \ used : code[k] = t}

\* Mutant: the guardians that there are do not keep it from being given out.
GenerateForAll(c, t) ==
    /\ \E class \in Classes : <<t[2], class>> \in enrolled
    /\ Begin(c, t, "code")
    /\ UNCHANGED <<schoolVars, accountTables, by, user, own, madeFor, reinvited, cut, kept, loose, overtaken, late>>

\* POST invitations of a class: for each of its students, also those who have an
\* account (the list of students it goes through has no accounts in it), and for
\* the guardians of those who have none ...
GenerateInvitations(c, t) ==
    /\ \E class \in Classes : <<t[2], class>> \in enrolled
    /\ t[1] = "siswa" \/ ~HasGuardian(t[2])
    /\ Begin(c, t, "code")
    /\ UNCHANGED <<schoolVars, accountTables, by, user, own, madeFor, reinvited, cut, kept, loose, overtaken, late>>

\* ... a code that can be used is given out again, and else ...
ReuseInvitation(c) ==
    /\ IF ActiveInvitation(target[c]) # {} THEN Return(c, "code")
       ELSE Advance(c, "code", "invite") /\ UNCHANGED <<target, by, user, own>>
    /\ UNCHANGED <<schoolVars, accountTables, accountHistory>>

\* ... a new one is inserted.
CreateInvitation(c) ==
    /\ \E k \in Codes :
         /\ code[k] = NoTarget
         /\ code' = [code EXCEPT ![k] = target[c]] /\ live' = live \cup {k}
    /\ Return(c, "invite")
    /\ reinvited' = {t \in {target[c]} : t[1] = "siswa" /\ account[t[2]] # NoUser} \cup reinvited
    /\ UNCHANGED <<schoolVars, account, guardians, member, used, session, madeFor, crossed, cut,
                   kept, loose, overtaken, late>>

InvitationExpires(k) ==
    /\ k \in live /\ live' = live \ {k}
    /\ UNCHANGED <<schoolVars, account, guardians, member, code, used, session, requests, accountHistory>>

-----------------------------------------------------------------------------
\* Mutant: the code is used up at once.
ValidateAndMark(c, k) ==
    /\ k \in live \ used
    /\ Begin(c, code[k], "account")
    /\ by' = [by EXCEPT ![c] = k] /\ used' = used \cup {k}
    /\ UNCHANGED <<schoolVars, account, guardians, member, code, live, session, user, own, madeFor,
                   reinvited, cut, kept, loose, overtaken, late>>

\* POST activate: the code is neither used nor expired ...
ValidateInvitation(c, k) ==
    /\ k \in live \ used
    /\ Begin(c, code[k], "account")
    /\ by' = [by EXCEPT ![c] = k]
    /\ UNCHANGED <<schoolVars, accountTables, user, own, madeFor, reinvited, cut, kept, loose, overtaken, late>>

\* ... an account under a new name, and its membership ...
CreateAccount(c, u) ==
    /\ Advance(c, "account", "link")
    /\ member[u] = "none" /\ member' = [member EXCEPT ![u] = "active"]
    /\ user' = [user EXCEPT ![c] = u]
    /\ madeFor' = [madeFor EXCEPT ![u] = target[c]]
    /\ UNCHANGED <<schoolVars, account, guardians, code, live, used, session, target, by, own,
                   crossed, reinvited, cut, kept, loose, overtaken, late>>

\* ... the account is that of the student, whatever he had, or of a guardian ...
Link(c) ==
    LET t == target[c] IN
    /\ Advance(c, "link", "mark")
    /\ \/ /\ t[1] = "siswa" /\ account' = [account EXCEPT ![t[2]] = user[c]]
          /\ UNCHANGED guardians
       \/ /\ t[1] = "orang_tua" /\ guardians' = guardians \cup {<<user[c], t[2]>>}
          /\ UNCHANGED account
    /\ UNCHANGED <<schoolVars, member, code, live, used, session, target, by, user, own, accountHistory>>

\* ... the code is used, whatever it was ...
MarkInvitationUsed(c) ==
    /\ Advance(c, "mark", "session")
    /\ used' = used \cup {by[c]}
    /\ UNCHANGED <<schoolVars, account, guardians, member, code, live, session, target, by, user, own,
                   accountHistory>>

\* A session, made by a statement that does not look at the membership.
CreateSession(c, t) ==
    /\ session[t] = NoUser /\ session' = [session EXCEPT ![t] = user[c]]
    /\ late' = IF c \in overtaken THEN late \cup {t} ELSE late
    /\ overtaken' = overtaken \ {c}

\* A call makes a session and ends no other.
AddSession(c, from) ==
    /\ Return(c, from)
    /\ \E t \in Tokens : CreateSession(c, t)
    /\ loose' = IF Sessions(user[c]) # {} THEN loose \cup {user[c]} ELSE loose
    /\ UNCHANGED <<schoolVars, account, guardians, member, code, live, used, madeFor, crossed, reinvited, cut, kept>>

\* ... and the new member is logged in.
IssueSession(c) == AddSession(c, "session")

-----------------------------------------------------------------------------
\* The sessions of S end; a call that made one of them has it no more.
End(S, L) ==
    /\ session' = [t \in Tokens |-> IF t \in S THEN NoUser ELSE session[t]]
    /\ late' = late \ S
    /\ loose' = {u \in L : Cardinality(Sessions(u) \ S) > 1}
    /\ UNCHANGED <<schoolVars, account, guardians, code, live, used, madeFor, crossed, reinvited, cut, overtaken>>

Forget(S) == [d \in Calls |-> IF own[d] \in S THEN NoToken ELSE own[d]]

\* Mutant: the membership is not asked to be active.
LoginAnyMember(c, u) ==
    /\ Advance(c, "idle", "login") /\ pc[c] = "idle" /\ member[u] # "none"
    /\ user' = [user EXCEPT ![c] = u]
    /\ UNCHANGED <<schoolVars, accountTables, target, by, own, accountHistory>>

\* A call for a member who is active.
Enter(c, u, next) ==
    /\ Advance(c, "idle", next) /\ pc[c] = "idle" /\ member[u] = "active"
    /\ user' = [user EXCEPT ![c] = u]
    /\ UNCHANGED <<schoolVars, accountTables, target, by, own, accountHistory>>

\* POST login: an active member ...
Login(c, u) == Enter(c, u, "login")

\* ... gets a session ...
LoginSession(c) ==
    /\ Advance(c, "login", "setting")
    /\ \E t \in Tokens : CreateSession(c, t) /\ own' = [own EXCEPT ![c] = t]
    /\ UNCHANGED <<schoolVars, account, guardians, member, code, live, used, target, by, user, madeFor,
                   crossed, reinvited, cut, kept, loose>>

\* ... the setting is read afterwards: it is on, and the other sessions will end ...
SingleDeviceEnabled(c) ==
    /\ singleDevice /\ Advance(c, "setting", "others")
    /\ UNCHANGED <<schoolVars, accountTables, target, by, user, own, accountHistory>>

\* ... or it is off, or reading it failed, which is ignored, and they stay ...
KeepOtherSessions(c) ==
    /\ Return(c, "setting")
    /\ loose' = IF Cardinality(Sessions(user[c])) > 1 THEN loose \cup {user[c]} ELSE loose
    /\ UNCHANGED <<schoolVars, accountTables, madeFor, crossed, reinvited, cut, kept, overtaken, late>>

\* Mutant: the sessions are deleted before the own one is made, none after it.
DeleteNoSessions(c) ==
    /\ Return(c, "others")
    /\ End({}, loose) /\ UNCHANGED <<member, kept>>

\* ... and with one device, they end.
DeleteOtherSessions(c) ==
    LET S == Sessions(user[c]) \ {own[c]} IN
    /\ Advance(c, "others", "idle")
    /\ user' = [user EXCEPT ![c] = NoUser] /\ own' = [Forget(S) EXCEPT ![c] = NoToken]
    /\ End(S, loose)
    /\ UNCHANGED <<member, target, by, kept>>

\* A logout, or a request with a session that has expired.
Logout(t) ==
    /\ session[t] # NoUser
    /\ End({t}, loose) /\ own' = Forget({t})
    /\ UNCHANGED <<member, begun, step, target, by, user, kept>>

\* PUT settings of the module "security".
PutSecurity(on) ==
    /\ singleDevice' = on
    /\ UNCHANGED <<rosterVars, accountTables, requests, accountHistory>>

\* POST users/{id}/impersonate: an administrator, for an active member ...
Impersonate(c, u) == Enter(c, u, "impersonate")

\* ... gets a session of the member's account.
ImpersonationSession(c) == AddSession(c, "impersonate")

-----------------------------------------------------------------------------
MakeSession == {"link", "mark", "session", "login", "impersonate"}

\* PATCH members: the membership is updated ...
SetMemberStatus(c, u, standing) ==
    /\ pc[c] = "idle" /\ member[u] # "none"
    /\ member' = [member EXCEPT ![u] = standing]
    /\ \/ /\ standing = "inactive" /\ Advance(c, "idle", "drop")
          /\ user' = [user EXCEPT ![c] = u] /\ UNCHANGED kept
          /\ overtaken' = overtaken \cup {d \in Calls : user[d] = u /\ step[d] \in MakeSession}
       \/ /\ standing = "active" /\ step[c] = "idle" /\ kept' = kept \ {u}
          /\ UNCHANGED <<begun, step, user, overtaken>>
    /\ UNCHANGED <<schoolVars, account, guardians, code, live, used, session, target, by, own,
                   madeFor, crossed, reinvited, cut, loose, late>>

\* ... and the sessions of a member who is inactive now end.
DeleteSessions(c) ==
    /\ Advance(c, "drop", "idle")
    /\ user' = [user EXCEPT ![c] = NoUser]
    /\ End(Sessions(user[c]), loose) /\ own' = Forget(Sessions(user[c]))
    /\ kept' = kept \ {user[c]}
    /\ UNCHANGED <<member, target, by>>

\* A statement fails, or the process stops: what was done stays.
Stop(c) ==
    /\ \E from \in Steps \ {"idle"} : Return(c, from)
    /\ cut' = IF step[c] \in {"link", "mark"} THEN cut \cup {target[c]} ELSE cut
    /\ kept' = IF step[c] = "drop" THEN kept \cup {user[c]} ELSE kept
    /\ loose' = IF step[c] \in {"setting", "others"} THEN loose \cup {user[c]} ELSE loose
    /\ overtaken' = overtaken \ {c}
    /\ UNCHANGED <<schoolVars, accountTables, madeFor, crossed, reinvited, late>>

PeopleNext ==
    \/ EditRoster
    \/ \E c \in Calls :
         \/ \E t \in Targets : GenerateInvitations(c, t)
         \/ \E k \in Codes : ValidateInvitation(c, k)
         \/ \E u \in Users :
              \/ CreateAccount(c, u) \/ Login(c, u) \/ Impersonate(c, u)
              \/ \E standing \in {"active", "inactive"} : SetMemberStatus(c, u, standing)
         \/ ReuseInvitation(c) \/ CreateInvitation(c)
         \/ Link(c) \/ MarkInvitationUsed(c) \/ IssueSession(c)
         \/ LoginSession(c) \/ SingleDeviceEnabled(c) \/ KeepOtherSessions(c)
         \/ DeleteOtherSessions(c) \/ ImpersonationSession(c) \/ DeleteSessions(c) \/ Stop(c)
    \/ \E k \in Codes : InvitationExpires(k)
    \/ \E t \in Tokens : Logout(t)
    \/ \E on \in BOOLEAN : PutSecurity(on)

PeopleSpec == PeopleInit /\ [][PeopleNext]_peopleVars

-----------------------------------------------------------------------------
\* A student or a guardian gets a second account only where two calls for the same
\* target overlapped, an activation stopped half way, or, for a student, a code was
\* given out although he had an account (GenerateInvitations does not see it):
\* codes are otherwise given out and used up one at a time (Activate).
OneAccountUnlessCrossed ==
    \A u, v \in Users :
        u # v /\ madeFor[u] = madeFor[v] /\ madeFor[u] # NoTarget =>
            madeFor[u] \in crossed \cup cut \cup reinvited

HasAccount(t) == IF t[1] = "siswa" THEN account[t[2]] # NoUser ELSE HasGuardian(t[2])

\* A code is used up only when its target has an account: whatever fails, and
\* wherever an activation stops, either the code or the account is there.
UsedIsLinked == \A k \in used : HasAccount(code[k])

\* An account has two sessions only while a login is about to read the setting for
\* one device or to end the others, or if a session was added and the others kept:
\* by a login that read the setting off or could not read it, or could not end them,
\* by an activation, or by an impersonation.  Whatever logins overlap and however
\* the setting is changed meanwhile, a login that reads it on leaves one session.
OneDevice ==
    \A u \in Users :
        Cardinality(Sessions(u)) > 1 =>
            u \in loose \/ \E c \in Calls : step[c] \in {"setting", "others"} /\ user[c] = u

\* A member who is inactive has a session only while his sessions are about to be
\* ended, or where that failed, or if a login or an impersonation read the membership
\* before it was deactivated and made the session after (SetMemberStatus, Login).
InactiveHasNoSession ==
    \A t \in Tokens :
        session[t] # NoUser /\ member[session[t]] = "inactive" =>
            \/ t \in late \/ session[t] \in kept
            \/ \E c \in Calls : step[c] = "drop" /\ user[c] = session[t]
=============================================================================
