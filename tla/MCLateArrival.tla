---------------------------- MODULE MCLateArrival ----------------------------
(* Instance of LateArrival for TLC: t1 has both duties, t2 teaches the class. *)
EXTENDS LateArrival, TLC

CONSTANTS t1, t2, y1

MCHolders == [f \in Flags |-> {t1}]
MCTeaches == [s \in Students |-> {t2}]

MCSymmetry == Permutations(Tokens) \cup Permutations(Calls) \cup Permutations(Records)
=============================================================================
