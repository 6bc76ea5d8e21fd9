CONSTANTS
    k1 = k1
    NoKey = NoKey
    NoSubnet = NoSubnet
    Keys <- MCKeys
    Targets <- MCKeys
    Distance <- MCDistance
    TableSize = 1
    BucketOf <- MCBucketOf
    SubnetOf <- MCSubnetOf
    BucketSize = 1
    MaxInBucket = 1
    MaxInTable = 1
    MaxFailures = 1
    DialPeers = 1
    QueueCap = 1
    EventCap = 1
    OutSlots = 1
    MaxRemovals = 2
SPECIFICATION Spec
INVARIANTS
    MarkExplained
CHECK_DEADLOCK FALSE
