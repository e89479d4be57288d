SPECIFICATION FairSpec
CONSTANTS
    Schools = {s1}
    Invoices = {i1}
    Orders = {o1}
    Calls = {c1, c2}
    NoSchool = NoSchool
    NoInvoice = NoInvoice
    NoOrder = NoOrder
    Period = 1
    GracePeriodDays = 0
    Goodwill = 1
    MaxDay = 2
    MaxExtras = 1
    MaxFaults = 1
INVARIANTS
    NeverLockedEarly
    PaidAndGranted
PROPERTIES
    SettledIsHonoured
    OverdueIsLocked
CHECK_DEADLOCK FALSE
