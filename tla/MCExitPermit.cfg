SPECIFICATION Spec
CONSTANTS
    t1 = t1
    t2 = t2
    p1 = p1
    p2 = p2
    Users = {t1, t2}
    Teachers = {t1, t2}
    Tokens = {k1, k2, k3, k4}
    Permits = {p1, p2}
    Students = {s1}
    Calls = {c1, c2}
    Admins = {t2}
    NoUser = NoUser
    NoPermit = NoPermit
    NoStudent = NoStudent
    NoToken = NoToken
    FirstHolders <- MCHolders
    FirstSlot <- MCSlot
    MaxRosterChanges = 1
CONSTRAINT ChainOrSubmissions
SYMMETRY MCSymmetry
INVARIANTS
    OneTokenPerSignature
    OneActiveUnlessOverlap
PROPERTIES
    ChainSpec
CHECK_DEADLOCK FALSE
