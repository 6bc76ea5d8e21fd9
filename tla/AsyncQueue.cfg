CONSTANTS
    p1 = p1
    p2 = p2
    r1 = r1
    r2 = r2
    NoTask = NoTask
    Pushers <- MCPushers
    Receivers <- MCReceivers
    Capacity = 2
    MaxPush = 2
    CancelPoints <- MCCancelPoints
SPECIFICATION FairSpec
INVARIANTS
    NobodyStranded
PROPERTIES
    ImplementsBoundedQueue
    SleepersServed
