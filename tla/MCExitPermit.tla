---------------------------- MODULE MCExitPermit ----------------------------
(* Instance of ExitPermit for TLC: t1 holds two duties, t2 teaches the class, *)
(* may sign as counsellor, watches the gate and is an administrator.          *)
EXTENDS ExitPermit, FiniteSets, TLC

CONSTANTS t1, t2, p1, p2

MCHolders == [f \in Flags |->
    CASE f = "late_arrival_duty" -> {t1, t2}
      [] f = "exit_bk_approval" -> {t2}
      [] f = "exit_leadership_approval" -> {t1}
      [] f = "exit_security" -> {t2}]
MCSlot == [s \in Students |-> t2]

MCSymmetry == Permutations(Tokens) \cup Permutations(Calls)

\* Bound: one permit and as many tokens as signatures while the roster stands,
\* or two permits and one token while the roster changes.
ChainOrSubmissions ==
    \/ rosterChanges = 0 /\ status[p2] = "none"
    \/ /\ Cardinality({k \in Tokens : qrState[k] # "unborn"}) <= 1
       /\ status[p1] # "none" \/ status[p2] = "none"
=============================================================================
