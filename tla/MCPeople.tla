-------------------------------- MODULE MCPeople --------------------------------
(* Instance of Accounts for TLC: one student, two classes of a year and one of *)
(* the year after, two calls.                                                 *)
EXTENDS Accounts, TLC
CONSTANTS a, b, next

MCYearOf == [class \in Classes |-> IF class = next THEN 2 ELSE 1]

MCSymmetry == Permutations(Calls) \cup Permutations(Users) \cup Permutations(Codes)
                \cup Permutations(Tokens)

\* Bound: transfers and imports before there are codes, one class after that.
TransfersOrAccounts ==
    begun = 0 \/ (enrolled \subseteq Students \X {a} /\ active = 1
                   /\ \A u \in Uploads : staged[u] = NoRow)
=============================================================================
