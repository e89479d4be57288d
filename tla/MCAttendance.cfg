SPECIFICATION Spec
CONSTANTS
    s1 = s1
    s2 = s2
    k1 = k1
    Sessions = {d1}
    Daily = d1
    Students = {s1, s2}
    Tokens = {k1, k2}
    Calls = {c1, c2, c3}
    Admins = {c1}
    Marks = {"hadir", "terlambat", "alpa"}
    Bodies <- MCBodies
    NoMark = NoMark
    NoStudent = NoStudent
    NoSession = NoSession
    FirstEnrolled = {s1, s2}
    FirstHolder <- MCHolder
    MaxRosterChanges = 1
SYMMETRY MCSymmetry
INVARIANTS
    FinalizedComplete
    ChangesReported
    CardKept
PROPERTIES
    MarksKept
CHECK_DEADLOCK FALSE
