------------------------------ MODULE MCOutbox ------------------------------
(* Instance of Outbox for TLC: one call of Send at a time in one school.   *)
EXTENDS Outbox

MCSchoolOf == [n \in Notices |-> CHOOSE s \in Schools : TRUE]
=============================================================================
