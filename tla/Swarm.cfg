CONSTANTS
    x1 = x1
    k1 = k1
    k2 = k2
    chat = chat
    c1 = c1
    c2 = c2
    NoPid = NoPid
    NoKey = NoKey
    Pids <- MCPids
    Keys <- MCKeys
    Protos <- MCProtos
    ProtoOf <- MCProtoOf
    Joined <- MCFirstKey
    Callers <- MCCallers
    MaxCalls = 2
    MaxConnects = 2
    BufferSize = 1
    Workloads = {"calls", "listeners"}
SPECIFICATION Spec
INVARIANTS
    MembershipInv
CHECK_DEADLOCK FALSE
