---------------------------- MODULE RoutingTable ----------------------------
(***************************************************************************)
(* The routing table of Kademlia discovery.  Every method of RoutingTable  *)
(* takes its lock once, so each is an operator from table to table.  A     *)
(* table has one sequence of entries per bucket, in the order of insertion.*)
(*                                                                         *)
(* The addresses and the bloom filter of an entry belong to its key.  A    *)
(* key's bucket, subnet and distance from others are given: BucketOf,      *)
(* SubnetOf and Distance.  Entries with the subnet NoSubnet (loopback, or  *)
(* no address) match no other entry.                                       *)
(* A failure count is kept up to MaxFailures, which is all the code tests. *)
(***************************************************************************)
EXTENDS Naturals, FiniteSets, SequencesExt

CONSTANTS
    Keys,         \* the keys of other peers
    Targets,      \* keys that others may look for
    Distance,     \* xor_distance of each target from each key, as a number
    TableSize,    \* TABLE_SIZE
    BucketOf,     \* bucket_index of each key and target; 0 for our own key
    SubnetOf,     \* subnet of the primary address of each key
    NoSubnet,
    BucketSize,   \* BUCKET_SIZE
    MaxInBucket,  \* MAX_MATCHED_SUBNET_IN_BUCKET
    MaxInTable,   \* MAX_MATCHED_SUBNET_IN_TABLE
    MaxFailures   \* MAX_FAILURES of the refresh service

Buckets == 0 .. TableSize - 1

ASSUME KeysAssumption ==
    /\ IsFiniteSet(Keys)
    /\ TableSize \in Nat \ {0}
    /\ BucketOf \in [Keys \cup Targets -> Buckets]
    /\ Distance \in [Targets -> [Keys -> Nat]]

ASSUME LimitsAssumption ==
    /\ BucketSize \in Nat \ {0} /\ MaxInBucket \in Nat \ {0}
    /\ MaxInTable \in Nat \ {0} /\ MaxFailures \in Nat \ {0}

Statuses == {"connected", "disconnected", "pending", "unreachable",
             "unstable", "incompatible"}

Entry == [key : Keys, status : Statuses, failures : 0 .. MaxFailures]

Tables == [Buckets -> Seq(Entry)]

EmptyTable == [b \in Buckets |-> <<>>]

Entries(t) == UNION {Range(t[b]) : b \in Buckets}

\* contains_key
ContainsKey(t, k) == \E e \in Range(t[BucketOf[k]]) : e.key = k

StatusOf(t, k) == (CHOOSE e \in Range(t[BucketOf[k]]) : e.key = k).status

Marked(t, k, status) == ContainsKey(t, k) /\ StatusOf(t, k) = status

----------------------------------------------------------------------------
(* add_entry                                                               *)

SubnetMatch(k, l) == SubnetOf[k] = SubnetOf[l] /\ SubnetOf[k] # NoSubnet

Matched(t, bs, k) == {e \in UNION {Range(t[b]) : b \in bs} : SubnetMatch(e.key, k)}

\* The limit across the table forgotten.
RestrictedInBucketOnly(t, k) ==
    Cardinality(Matched(t, {BucketOf[k]}, k)) >= MaxInBucket

SubnetRestricted(t, k) ==
    \/ Cardinality(Matched(t, {BucketOf[k]}, k)) >= MaxInBucket
    \/ Cardinality(Matched(t, Buckets, k)) >= MaxInTable

NewEntry(k) == [key |-> k, status |-> "pending", failures |-> 0]

Others(bucket, k) == SelectSeq(bucket, LAMBDA e : e.key # k)

\* Added in a free place or in that of the first incompatible entry, and
\* else Exists, Restricted or Ignored.
AddEntry(t, k) ==
    LET bucket == t[BucketOf[k]]
        bad == SelectSeq(bucket, LAMBDA e : e.status = "incompatible")
        kept == IF Len(bucket) < BucketSize THEN bucket
                ELSE Others(bucket, Head(bad).key)
    IN  IF \/ ContainsKey(t, k)
           \/ SubnetRestricted(t, k)
           \/ Len(bucket) >= BucketSize /\ bad = <<>>
        THEN t
        ELSE [t EXCEPT ![BucketOf[k]] = Append(kept, NewEntry(k))]

----------------------------------------------------------------------------

\* A peer that cannot be reached not counted as a failure.
UnstableOnly(e) ==
    IF e.status = "unstable" /\ e.failures < MaxFailures
    THEN [e EXCEPT !.failures = @ + 1]
    ELSE e

\* Bucket::update_entry
Failed(e) ==
    IF e.status \in {"unreachable", "unstable"} /\ e.failures < MaxFailures
    THEN [e EXCEPT !.failures = @ + 1]
    ELSE e

\* update_entry: no action if the key is not found.
UpdateEntry(t, k, status) ==
    [t EXCEPT ![BucketOf[k]] =
        [i \in DOMAIN @ |->
            IF @[i].key = k THEN Failed([@[i] EXCEPT !.status = status])
            ELSE @[i]]]

RemoveEntry(t, k) == [t EXCEPT ![BucketOf[k]] = Others(@, k)]

\* The candidates for random_entry, which picks one of them at random.
WithStatus(t, flags) == {e.key : e \in {f \in Entries(t) : f.status \in flags}}

FirstOf(seq, max) == SubSeq(seq, 1, IF Len(seq) < max THEN Len(seq) ELSE max)

\* refresh_candidates: the first few of each bucket, bucket after bucket.
RefreshCandidates(t, perBucket) ==
    LET idle(b) == SelectSeq(t[b], LAMBDA e :
                       e.status \notin {"connected", "incompatible"})
    IN  FlattenSeq([i \in 1 .. TableSize |-> FirstOf(idle(i - 1), perBucket)])

\* bucket_indexes: the target's bucket, then its neighbours to both sides,
\* of which the first and the last of the table are left out.
\* (DISTANCE_LIMIT is TABLE_SIZE.)
BucketIndexes(target) ==
    LET b == BucketOf[target]
        pair(i) == (IF b >= i + 1 THEN <<b - i>> ELSE <<>>)
                   \o (IF b + i < TableSize - 1 THEN <<b + i>> ELSE <<>>)
    IN  <<b>> \o FlattenSeq([i \in 1 .. TableSize - 1 |-> pair(i)])

\* closest_entries: what the walk meets first, then sorted by distance.
ClosestEntries(t, target, max) ==
    LET live(b) == SelectSeq(t[b], LAMBDA e : e.status \notin {"unreachable", "unstable"})
        walk == BucketIndexes(target)
        met == FlattenSeq([i \in DOMAIN walk |-> live(walk[i])])
    IN  SortSeq(FirstOf(met, max),
                LAMBDA e, f : Distance[target][e.key] < Distance[target][f.key])

----------------------------------------------------------------------------

\* What every table holds to: a key is in its bucket and there once, buckets
\* are no larger than BUCKET_SIZE, and at most MAX_MATCHED_SUBNET_IN_BUCKET
\* entries of a bucket and MAX_MATCHED_SUBNET_IN_TABLE of the table share a
\* subnet, in spite of removals and replacements between the additions.
TableLimits(t) ==
    /\ \A b \in Buckets :
        /\ Len(t[b]) <= BucketSize
        /\ \A i, j \in DOMAIN t[b] : t[b][i].key = t[b][j].key => i = j
        /\ \A e \in Range(t[b]) :
            /\ BucketOf[e.key] = b
            /\ SubnetOf[e.key] # NoSubnet =>
                Cardinality(Matched(t, {b}, e.key)) <= MaxInBucket
    /\ \A e \in Entries(t) :
        SubnetOf[e.key] # NoSubnet =>
            Cardinality(Matched(t, Buckets, e.key)) <= MaxInTable

=============================================================================
