------------------------------ MODULE ExitChain ------------------------------
(***************************************************************************)
(* What an exit permit promises (state machine in                          *)
(* src/internal/exitpermit/model.go): a permit collects four signatures in *)
(* order, the second from another person than the first, and only then     *)
(* opens the gate, once.  Until it is final it can be rejected, until it is *)
(* issued it can be withdrawn.  Nothing is said of requests, tokens and    *)
(* concurrency: ExitPermit implements this.                                *)
(***************************************************************************)
CONSTANTS Permits, Users, NoUser

VARIABLES
    stage,    \* of each permit
    first     \* who gave each permit its first signature

chainVars == <<stage, first>>

Signatures == {"pending_duty_teacher", "pending_class_teacher", "pending_bk", "pending_leadership"}

After(s) == CASE s = "pending_duty_teacher"  -> "pending_class_teacher"
              [] s = "pending_class_teacher" -> "pending_bk"
              [] s = "pending_bk"            -> "pending_leadership"
              [] s = "pending_leadership"    -> "issued"

ChainInit ==
    /\ stage = [p \in Permits |-> "none"]
    /\ first = [p \in Permits |-> NoUser]

Ask(p) ==
    /\ stage[p] = "none"
    /\ stage' = [stage EXCEPT ![p] = "pending_duty_teacher"]
    /\ UNCHANGED first

Sign(p, u) ==
    /\ stage[p] \in Signatures
    /\ stage[p] = "pending_class_teacher" => u # first[p]
    /\ stage' = [stage EXCEPT ![p] = After(stage[p])]
    /\ first' = IF stage[p] = "pending_duty_teacher" THEN [first EXCEPT ![p] = u] ELSE first

Leave(p) ==
    /\ stage[p] = "issued"
    /\ stage' = [stage EXCEPT ![p] = "exited"]
    /\ UNCHANGED first

Reject(p) ==
    /\ stage[p] \in Signatures \cup {"issued"}
    /\ stage' = [stage EXCEPT ![p] = "rejected"]
    /\ UNCHANGED first

Withdraw(p) ==
    /\ stage[p] \in Signatures
    /\ stage' = [stage EXCEPT ![p] = "canceled"]
    /\ UNCHANGED first

ChainNext == \E p \in Permits :
    \/ Ask(p) \/ Leave(p) \/ Reject(p) \/ Withdraw(p)
    \/ \E u \in Users : Sign(p, u)

Spec == ChainInit /\ [][ChainNext]_chainVars
=============================================================================
