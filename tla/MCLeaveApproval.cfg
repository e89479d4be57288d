SPECIFICATION Spec
CONSTANTS
    t = t
    h = h
    k = k
    guru = guru
    head = head
    Users = {t, h, k}
    Roles = {guru, head}
    Requests = {r1}
    Calls = {c1, c2}
    MaxSteps = 3
    Chains <- MCChains
    FirstChain <- MCFirst
    FirstRole <- MCRole
    MaxChanges = 2
    NoUser = NoUser
    NoRequest = NoRequest
    NoApprover = NoApprover
SYMMETRY MCSymmetry
INVARIANTS
    StatusFollowsSteps
PROPERTIES
    EngineSpec
CHECK_DEADLOCK FALSE
