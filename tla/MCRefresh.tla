----------------------------- MODULE MCRefresh -----------------------------
(* Keys of three bytes, of two bits each.  Our own key is 0.  4 and 8 fight  *)
(* for a bucket of one, 8 and 16 for the one place of their subnet.          *)
(* The targets differ in every bit that distance or bucket depends on.       *)
EXTENDS Refresh, Bitwise

CONSTANTS net, l1

MCLookups == {l1}
MCKeys == {4, 8, 16}
MCTargets == {4 * i : i \in 0 .. 15}
MCDistance == [t \in MCTargets |-> [k \in MCKeys |-> t ^^ k]]
MCBucketOf ==
    [t \in MCTargets |-> CASE t >= 16 -> 2 [] t \in 4 .. 15 -> 1 [] OTHER -> 0]
MCSubnetOf == [k \in MCKeys |-> IF k = 4 THEN NoSubnet ELSE net]

=============================================================================
