---------------------------- MODULE MCDiscovery ----------------------------
(* One peer that the routing table may know, and strangers.                 *)
EXTENDS Discovery

CONSTANTS k1

MCKeys == {k1}
MCBucketOf == [k \in MCKeys |-> 0]
MCDistance == [k \in MCKeys |-> [l \in MCKeys |-> 0]]
MCSubnetOf == [k \in MCKeys |-> NoSubnet]

=============================================================================
