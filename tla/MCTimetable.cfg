SPECIFICATION TimetableSpec
CONSTANTS
    a = a
    b = b
    old = old
    t1 = t1
    t2 = t2
    r1 = r1
    Slots = {s1, s2, s3}
    Requests = {q1, q2}
    Uploads = {u1}
    Rows <- MCRows
    Files <- MCFiles
    Classes = {a, b, old}
    Teachers = {t1, t2}
    Rooms = {r1}
    NoRoom = NoRoom
    YearOf <- MCYearOf
    NoRow = NoRow
    Gone = Gone
    NoSlot = NoSlot
    MaxPeriod = 2
SYMMETRY MCSymmetry
INVARIANTS
    ConflictsUnchecked
PROPERTIES
    PeriodsKept
