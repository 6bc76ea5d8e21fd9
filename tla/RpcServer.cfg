CONSTANTS
    r1 = r1
    r2 = r2
    None = None
    Requests <- MCRequests
    Subscribers <- MCSubscribers
    MaxConcurrent = 2
    QueueCap = 1
    ChanCap = 1
    Upgrade = TRUE
SPECIFICATION FairSpec
INVARIANTS
    PermitsAccountedFor
PROPERTIES
    EndsTogether
    RequestsAnswered
    ShutdownCompletes
    IsPeer
CHECK_DEADLOCK FALSE
