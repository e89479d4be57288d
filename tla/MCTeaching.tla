------------------------------ MODULE MCTeaching ------------------------------
(* Instance of Teaching for TLC: two dates on two weekdays, one slot, which  *)
(* an update gives to another class on another weekday.                      *)
EXTENDS Teaching, TLC
CONSTANTS a, b, t1, t2, r1

MCYearOf == [c \in Classes |-> 1]
MCDayOf == [d \in Dates |-> d + 1]

MCRow(cls, day) ==
    [class |-> cls, teacher |-> t1, room |-> r1, year |-> 1, day |-> day, from |-> 1, to |-> 1]

MCRows == {MCRow(a, 1), MCRow(b, 2)}

(* Bound: one lesson in use; no property relates two. *)
MCOneLesson == Cardinality({k \in Lessons : InUse(k)}) <= 1

MCSymmetry == Permutations(Handlers)
=============================================================================
