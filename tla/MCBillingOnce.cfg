SPECIFICATION Spec
CONSTANTS
    Schools = {s1}
    Invoices = {i1}
    Orders = {o1}
    Calls = {c1, c2}
    NoSchool = NoSchool
    NoInvoice = NoInvoice
    NoOrder = NoOrder
    Period = 1
    GracePeriodDays = 1
    Goodwill = 1
    MaxDay = 1
    MaxExtras = 0
    MaxFaults = 0
INVARIANTS
    ActivatedOnce
CHECK_DEADLOCK FALSE
