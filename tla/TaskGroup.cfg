CONSTANTS
    t1 = t1
    t2 = t2
    c1 = c1
    c2 = c2
    w1 = w1
    w2 = w2
    w3 = w3
    s1 = s1
    s2 = s2
    z1 = z1
    NoId = NoId
    NoTask = NoTask
    Ids <- MCIds
    Panics <- MCPanics
    Cancellers <- MCCancellers
    Waiters <- MCWaiters
    Signalers <- MCSignalers
    Resetters <- MCResetters
SPECIFICATION PartSpec
INVARIANTS
    HandlerInv
    CancelWaits
    NoSleeperWhenSet
PROPERTIES
    CancelTerminates
    WaitEnds
CHECK_DEADLOCK FALSE
