SPECIFICATION RecordsSpec
CONSTANTS
    Students = {s1}
    Types = {t1}
    Records = {r1, r2, r3}
    Recorders = {c1, c2}
    PointValues = {1, 3}
    Thresholds <- MCThresholds
    MaxEdits = 1
    MaxNumbers = 2
    NoStudent = NoStudent
    NoType = NoType
    Requests = {q1, q2}
    Deciders = {d1, d2}
    MaxLetters = 3
    NoRequest = NoRequest
    Components = {k1, k2}
    Pupils = {p1, p2}
    SchoolYears = {1, 2}
    ClassYear = 1
    Weights = {1, 2}
    Marks = {5}
    Goals = {g1}
    Teachers = {x1, x2}
    Readers = {v1}
    NoComponent = NoComponent
    NoPupil = NoPupil
    NoMark = NoMark
    NoGoal = NoGoal
    MaxPuts = 2
CONSTRAINT PartBound
CHECK_DEADLOCK FALSE
SYMMETRY MCSymmetry
INVARIANTS
    ReachedIsWarned
    AnsweredIsSaved
    ReportIsOfOneMoment
PROPERTIES
    LeaveDecisionSpec
