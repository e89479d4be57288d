SPECIFICATION FairSpec
CONSTANTS
    Notices = {n1}
    Users = {u1}
    Channels = {push, wa}
    PushChannel = push
    GatedChannel = wa
    Schools = {s1}
    SchoolOf <- MCSchoolOf
    BatchSize = 1
    Backoffs = 2
    Admins = {a1}
    MaxRetries = 1
    MaxFaults = 1
INVARIANTS
    NoUnexplainedDelivery
PROPERTIES
    EventuallySettled
    SentReopenedOnlyByStaleRetry
CHECK_DEADLOCK FALSE
