CONSTANTS
    l1 = l1
    Lookups <- MCLookups
    LookupSlots = 1
    net = net
    NoSubnet = NoSubnet
    Keys <- MCKeys
    Targets <- MCTargets
    Distance <- MCDistance
    TableSize = 3
    BucketOf <- MCBucketOf
    SubnetOf <- MCSubnetOf
    BucketSize = 1
    MaxInBucket = 1
    MaxInTable = 1
    MaxFailures = 2
    PerBucket = 1
    ChunkSize = 1
    MaxPeers = 2
SPECIFICATION FairSpec
INVARIANTS
    TableInv
PROPERTIES
    EvictionNeedsFailures
    OldestResolved
    AcceptsAgain
CHECK_DEADLOCK FALSE
