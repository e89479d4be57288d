SPECIFICATION DaySpec
CONSTANTS
    a = a
    b = b
    t1 = t1
    t2 = t2
    r1 = r1
    Slots = {s1}
    Requests = {q1}
    Uploads = {}
    Rows <- MCRows
    Files = {}
    Classes = {a, b}
    Teachers = {t1, t2}
    Rooms = {r1}
    NoRoom = NoRoom
    YearOf <- MCYearOf
    NoRow = NoRow
    Gone = Gone
    NoSlot = NoSlot
    MaxPeriod = 1
    Handlers = {c1, c2}
    Dates = {0, 1}
    DayOf <- MCDayOf
    SchoolYears = {1, 2}
    NoClass = NoClass
    NoTeacher = NoTeacher
    NoLesson = NoLesson
SYMMETRY MCSymmetry
CONSTRAINT MCOneLesson
INVARIANTS
    SubstituteAccepted
    JournalHasSession
    SameClass
    JournalMonitored
