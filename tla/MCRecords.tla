------------------------------- MODULE MCRecords -------------------------------
(* Instance for TLC of what a school records of a student: the warning         *)
(* letters, the leave letters, and the grades of a subject.                    *)
EXTENDS WarningLetters, StudentLeave, Grading, TLC

MCThresholds == {<<1, 2, 3>>, <<2, 3, 4>>}
MCLimits == <<1, 2, 3>>
MCComponent == CHOOSE k \in Components : TRUE
MCPupil == CHOOSE p \in Pupils : TRUE

VARIABLE part   \* which of them moves; the grades: while sheets are written, or pages read

RecordsVars == <<warningVars, studentLeaveVars, gradingVars, part>>

RecordsInit ==
    /\ WarningInit /\ StudentLeaveInit /\ GradingInit
    /\ part \in {"warnings", "leave", "sheets", "pages"}
    \* one start for the parts that do not look at types and thresholds
    /\ part # "warnings" => /\ worth = [t \in Types |-> 1]
                            /\ limits = MCLimits

RecordsNext ==
    /\ UNCHANGED part
    /\ \/ part = "warnings" /\ WarningNext /\ UNCHANGED <<studentLeaveVars, gradingVars>>
       \/ part = "leave" /\ StudentLeaveNext /\ UNCHANGED <<warningVars, gradingVars>>
       \/ part \in {"sheets", "pages"} /\ GradingNext /\ UNCHANGED <<warningVars, studentLeaveVars>>

RecordsSpec == RecordsInit /\ [][RecordsNext]_RecordsVars

MCSymmetry == Permutations(Records) \cup Permutations(Recorders) \cup Permutations(Teachers)

OneOf(facts) == Cardinality({i \in DOMAIN facts : facts[i]}) <= 1

\* Bound: the components are made in an order.
InOrder == \A k \in Components : type[k] = "none" => k # MCComponent \/ \A i \in Components : type[i] = "none"

\* Bound: sheets are written with nobody reading, about all pupils; weights of 1; one
\* of another year, a pupil who has left, and a component of another type or deleted.
Sheets ==
    /\ InOrder
    /\ \A r \in Readers : reading[r] = "idle"
    /\ published = {} /\ \A k \in Components : weight[k] <= 1
    /\ \A t \in Teachers :
         /\ putting[t] \notin {"publish", "withdraw"}
         /\ putting[t] \in {"grades", "manual"} => \A p \in Pupils : \E row \in sheet[t] : row[1] = p
    /\ OneOf(<<activeYear # ClassYear, inClass # Pupils, \E k \in Components : type[k] \in {"other", "gone"}>>)
    /\ OneOf(<<\E t \in Teachers : putting[t] # "idle", inClass # Pupils>>)

\* Bound: pages are read while one request writes, about the pupil who is read, and until
\* two changes have come between the reads; at most one weight of 2; one of another year,
\* and a component deleted.
Pages ==
    /\ InOrder
    /\ OneOf([t \in Teachers |-> putting[t] # "idle"])
    /\ \A t \in Teachers : putting[t] \notin {"clear", "goals"} /\ \A row \in sheet[t] : row[1] = MCPupil
    /\ \A r \in Readers : whose[r] \in {MCPupil, NoPupil} /\ changes[r] < 2
    /\ \A k \in Components : type[k] # "other"
    /\ \A k \in Components : weight[k] = 2 => k = MCComponent
    /\ OneOf(<<activeYear # ClassYear, inClass # Pupils, \E k \in Components : type[k] = "gone">>)
    /\ OneOf(<<reading # [r \in Readers |-> "idle"], inClass # Pupils>>)

PartBound == /\ part = "sheets" => Sheets
             /\ part = "pages" => Pages
=============================================================================
