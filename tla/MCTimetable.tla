------------------------------ MODULE MCTimetable ------------------------------
(* Instance of Timetable for TLC: a year with two classes and one before it. *)
EXTENDS Timetable, TLC
CONSTANTS a, b, old, t1, t2, r1

MCYearOf == [c \in Classes |-> IF c = old THEN 1 ELSE 2]

MCRow(class, teacher, room, from, to) ==
    [class |-> class, teacher |-> teacher, room |-> room, year |-> MCYearOf[class],
     day |-> 1, from |-> from, to |-> to]

MCRows == {MCRow(a, t1, r1, 1, 2), MCRow(b, t2, r1, 2, 2), MCRow(old, t1, NoRoom, 2, 2)}
MCFiles == {{MCRow(a, t1, r1, 1, 2), MCRow(b, t2, r1, 2, 2)}}

MCSymmetry == Permutations(Slots) \cup Permutations(Requests)
=============================================================================
