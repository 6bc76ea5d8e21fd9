CONSTANTS
    c1 = c1
    c2 = c2
    None = None
    Calls <- MCCalls
    Workloads <- MCWorkloads
    SubCap = 1
    ChanCap = 1
    StreamCap = 1
    Numbers = 2
    BaseDelay = 1
    MaxDelay = 3
SPECIFICATION FairSpec
INVARIANTS
    InOrder
    ProductFits
PROPERTIES
    Released
    CallEnds
CHECK_DEADLOCK FALSE
