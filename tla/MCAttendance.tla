----------------------------- MODULE MCAttendance -----------------------------
(* Instance of Attendance for TLC: one daily session of a class of two, one   *)
(* of whom has a card; a teacher enters one mark, or all of them.             *)
EXTENDS Attendance, TLC

CONSTANTS s1, s2, k1

MCHolder == [t \in Tokens |-> IF t = k1 THEN s1 ELSE NoStudent]
MCBodies ==
    {[s \in Students |-> IF s = s1 THEN "alpa" ELSE "hadir"],
     [s \in Students |-> "hadir"],
     [s \in Students |-> IF s = s1 THEN "alpa" ELSE NoMark]}

MCSymmetry == Permutations(Calls \ Admins)
=============================================================================
