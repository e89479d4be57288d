SPECIFICATION MemorySpec
CONSTANTS
    Subscribers = {s1}
    Requests = {r1}
    Writers = {w1, w2}
    Keys = {k1, k2}
    NoKey = NoKey
    TTL = 1
    MaxVersion = 3
    MaxTime = 3
    MaxCacheFaults = 1
    Tenants = {t1, t2}
    Domains = {d1, d2}
    NoDomain = NoDomain
    NoTenant = NoTenant
    NoEntry = NoEntry
    Lookups = {l1}
    Managers = {m1, m2}
    MaxEdits = 1
    Pages = {p1, p2}
    Handlers = {h1, h2}
    Capacity = 1
    Window = 1
    MaxChanges = 2
CONSTRAINT AtMostTwo
SYMMETRY MCSymmetry
CHECK_DEADLOCK FALSE
INVARIANTS
    BoundedStaleness
    StaleIsExplained
    OverridesMergeUnlessRaced
    HostIsExplained
    PageIsTold
PROPERTIES
    VerifiedIsInUse
