CONSTANTS
    a = a
    b = b
    Ping = Ping
    Chat = Chat
    NoVersion = NoVersion
    Nodes <- MCNodes
    Dialer = a
    Versions <- MCVersions
    SendCap = 2
    RecvCap = 1
    MaxFailures = 2
    MaxData = 1
SPECIFICATION FairSpec
INVARIANTS
    AgreementInv
    OnlyLatePongsCount
PROPERTIES
    RemoteGoneNoticed
CHECK_DEADLOCK FALSE
