SPECIFICATION PeopleSpec
CONSTANTS
    a = a
    b = b
    next = next
    Students = {s1}
    Classes = {a, b, next}
    YearOf <- MCYearOf
    Calls = {c1, c2}
    Uploads = {u1}
    FirstYear = 1
    NoClass = NoClass
    NoStudent = NoStudent
    Users = {x, y}
    Codes = {k1, k2}
    Tokens = {t1, t2}
    NoUser = NoUser
    NoTarget = NoTarget
    NoCode = NoCode
    NoToken = NoToken
    MaxRequests = 4
CONSTRAINT TransfersOrAccounts
SYMMETRY MCSymmetry
INVARIANTS
    OneClassUnlessOverlap
    OneAccountUnlessCrossed
    UsedIsLinked
    OneDevice
    InactiveHasNoSession
PROPERTIES
    EnrolledStays
