CONSTANTS
    c1 = c1
    c2 = c2
    None = None
    Calls <- MCCalls
    OutCap = 1
    SubCap = 1
    MaxNotify = 3
    WireCap = 2
SPECIFICATION FairSpec
INVARIANTS
    DispatchInv
PROPERTIES
    WaitEnds
    SubsClosed
    IsService
CHECK_DEADLOCK FALSE
