SPECIFICATION Spec
CONSTANTS
    t1 = t1
    t2 = t2
    y1 = y1
    Users = {t1, t2}
    Teachers = {t1, t2}
    Tokens = {k1, k2, k3, k4}
    Records = {r1, r2}
    Students = {s1}
    Years = {y1, y2}
    Calls = {c1, c2}
    NoUser = NoUser
    NoRecord = NoRecord
    NoStudent = NoStudent
    NoToken = NoToken
    NoYear = NoYear
    FirstHolders <- MCHolders
    FirstTeaches <- MCTeaches
    FirstYear = y1
    MaxDay = 2
    MaxRosterChanges = 1
SYMMETRY MCSymmetry
INVARIANTS
    OneRecordPerDayUnlessOverlap
    NumberedUnlessOverlap
CHECK_DEADLOCK FALSE
