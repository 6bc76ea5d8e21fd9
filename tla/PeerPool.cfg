CONSTANTS
    a = a
    b = b
    c1 = c1
    c2 = c2
    c3 = c3
    NoConn = NoConn
    Conns <- MCConns
    Pids <- MCPids
    PidOf <- MCPidOf
    Outbound <- MCOutbound
    OutSlots = 1
    InSlots = 1
    MaxRetries = 1
SPECIFICATION FairSpec
INVARIANTS
    PeersWithinSlots
    MapMatchesTasks
    AdmittedPeersClosed
PROPERTIES
    SlotReturned
CHECK_DEADLOCK FALSE
