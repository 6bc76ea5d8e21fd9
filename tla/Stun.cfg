CONSTANTS
    q1 = q1
    q2 = q2
    s1 = s1
    a1 = a1
    a2 = a2
    Queries <- MCQueries
    Choices <- MCChoices
    Sockets <- MCSockets
    Addrs <- MCAddrs
    Tries = 2
    MaxConns = 1
    FrameLen = 2
    Requests <- MCRequests
    DownCap = 1
SPECIFICATION FairSpec
INVARIANTS
    AnswerInv
    NoStrandedRequest
PROPERTIES
    QueryEnds
    SlotReturned
CHECK_DEADLOCK FALSE
