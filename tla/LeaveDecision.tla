---------------------------- MODULE LeaveDecision ----------------------------
(***************************************************************************)
(* What a leave request promises (rules of the engine,                     *)
(* src/internal/leave/service.go): the steps fixed when it was submitted   *)
(* grant it in order, it is approved exactly when the last one has granted *)
(* it, a request without steps is approved at once, and until then one     *)
(* refusal or its owner ends it.  The progress of a request that was       *)
(* refused or withdrawn is forgotten.  LeaveApproval implements this.      *)
(***************************************************************************)
EXTENDS Naturals

CONSTANTS Requests, Positions

VARIABLES
    state,     \* of each request
    required,  \* its steps
    granted    \* the steps that have granted it

decisionVars == <<state, required, granted>>

DecisionInit ==
    /\ state = [r \in Requests |-> "none"]
    /\ required = [r \in Requests |-> {}]
    /\ granted = [r \in Requests |-> {}]

Submit(r, S) ==
    /\ state[r] = "none"
    /\ required' = [required EXCEPT ![r] = S]
    /\ state' = [state EXCEPT ![r] = IF S = {} THEN "approved" ELSE "pending"]
    /\ UNCHANGED granted

Grant(r, i) ==
    /\ state[r] = "pending"
    /\ i \in required[r]
    /\ granted[r] = {j \in required[r] : j < i}
    /\ granted' = [granted EXCEPT ![r] = @ \cup {i}]
    /\ state' = [state EXCEPT ![r] = IF granted[r] \cup {i} = required[r] THEN "approved" ELSE "pending"]
    /\ UNCHANGED required

End(r) ==
    /\ state[r] = "pending"
    /\ \E outcome \in {"rejected", "canceled"} : state' = [state EXCEPT ![r] = outcome]
    /\ granted' = [granted EXCEPT ![r] = {}]
    /\ UNCHANGED required

DecisionNext == \E r \in Requests :
    \/ \E S \in SUBSET Positions : Submit(r, S)
    \/ \E i \in Positions : Grant(r, i)
    \/ End(r)

Spec == DecisionInit /\ [][DecisionNext]_decisionVars
=============================================================================
