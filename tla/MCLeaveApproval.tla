--------------------------- MODULE MCLeaveApproval ---------------------------
(* Instance of LeaveApproval for TLC: a teacher, two heads (anyone of whom    *)
(* decides the steps of the role), and chains of one to three steps.          *)
EXTENDS LeaveApproval, TLC

CONSTANTS t, h, k, guru, head

MCRole == [u \in Users |-> IF u = t THEN guru ELSE head]
MCFirst == <<h, head, k>>
MCChains == {MCFirst, <<head>>, <<head, k>>}
MCSymmetry == Permutations(Calls)
=============================================================================
