CONSTANTS
    p = p
    q = q
    b = b
    Protos <- MCProtos
    Senders <- MCSenders
    Wires = {"single", "mux"}
    SendCap = 1
    RecvCap = 1
    MaxSend = 2
    MaxIn = 2
SPECIFICATION FairSpec
INVARIANTS
    SendersSeeMappedPeer
 
CHECK_DEADLOCK FALSE
