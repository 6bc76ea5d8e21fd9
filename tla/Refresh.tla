------------------------------ MODULE Refresh ------------------------------
(***************************************************************************)
(* RefreshService: the loop that takes candidates from the routing table,  *)
(* evicts those with too many failures and pings the others, while the     *)
(* lookup listener (module Lookup) and the rest of discovery (module       *)
(* Discovery) add entries, answer from the table and change it.            *)
(*                                                                         *)
(* A ping with its retries succeeds or fails: a pong for an earlier try    *)
(* makes it fail as much as none, and so does an entry without address.    *)
(***************************************************************************)
EXTENDS Lookup

CONSTANTS
    PerBucket,   \* REFRESH_PER_BUCKET
    ChunkSize    \* size of the chunks that do_refresh goes through

ASSUME RefreshAssumption ==
    {PerBucket, ChunkSize} \subseteq Nat \ {0}

VARIABLES
    at,      \* where refresh_loop is
    left,    \* candidates that do_refresh has yet to go through
    n,       \* how many of the current chunk it has gone through
    pings    \* entries of the chunk whose ping is not over

vars == <<table, lookupVars, at, left, n, pings>>

refreshVars == <<at, left, n, pings>>

TypeOK ==
    /\ LookupTypeOK
    /\ at \in {"sleep", "sweep", "ping"}
    /\ left \in Seq(Entry)
    /\ n \in 0 .. ChunkSize
    /\ pings \subseteq Entry

Init ==
    /\ LookupInit
    /\ at = "sleep"
    /\ left = <<>>
    /\ n = 0
    /\ pings = {}

----------------------------------------------------------------------------
(* The rest of discovery                                                   *)

\* The answer to a lookup of ours.
Learn(k) ==
    /\ table' = AddEntry(table, k)
    /\ UNCHANGED <<lookupVars, refreshVars>>

\* connect_loop marks a pending entry.
Pick(k) ==
    /\ Marked(table, k, "pending")
    /\ table' = UpdateEntry(table, k, "connected")
    /\ UNCHANGED <<lookupVars, refreshVars>>

\* on_event, and the lookup of a seed that fails.
Told(k, status) ==
    /\ ContainsKey(table, k)
    /\ status \in {"connected", "disconnected", "unreachable", "unstable"}
    /\ table' = UpdateEntry(table, k, status)
    /\ UNCHANGED <<lookupVars, refreshVars>>

----------------------------------------------------------------------------
(* refresh_loop and do_refresh                                             *)

StartRefresh ==
    /\ at = "sleep"
    /\ at' = "sweep"
    /\ left' = RefreshCandidates(table, PerBucket)
    /\ UNCHANGED <<lookupVars, table, n, pings>>

\* Eviction without a look at the failures.
SweepAll ==
    /\ at = "sweep"
    /\ left # <<>>
    /\ n < ChunkSize
    /\ table' = RemoveEntry(table, Head(left).key)
    /\ left' = Tail(left)
    /\ n' = n + 1
    /\ UNCHANGED <<lookupVars, at, pings>>

\* An entry that had too many failures when the candidates were taken is
\* evicted, another will be pinged.
Sweep ==
    /\ at = "sweep"
    /\ left # <<>>
    /\ n < ChunkSize
    /\ LET e == Head(left)
           evict == e.failures >= MaxFailures
       IN  /\ table' = IF evict THEN RemoveEntry(table, e.key) ELSE table
           /\ pings' = IF evict THEN pings ELSE pings \cup {e}
    /\ left' = Tail(left)
    /\ n' = n + 1
    /\ UNCHANGED <<lookupVars, at>>

\* At the end of a chunk its entries are pinged, all at once.
EndChunk ==
    /\ at = "sweep"
    /\ left = <<>> \/ n = ChunkSize
    /\ at' = "ping"
    /\ n' = 0
    /\ UNCHANGED <<lookupVars, table, left, pings>>

\* They are done: on to the next chunk, or to sleep.
EndPings ==
    /\ at = "ping"
    /\ pings = {}
    /\ at' = IF left = <<>> THEN "sleep" ELSE "sweep"
    /\ UNCHANGED <<lookupVars, table, left, n, pings>>

\* refresh_entry, whatever became of the entry in the meantime.  (Its own test
\* of the failures is that of Sweep, on the same snapshot.)
Pinged(e, status) ==
    /\ at = "ping"
    /\ e \in pings
    /\ table' = UpdateEntry(table, e.key, status)
    /\ pings' = pings \ {e}
    /\ UNCHANGED <<lookupVars, at, left, n>>

\* The remote's listen_loop answered one of the tries, and its pong came in
\* time.
PingOk(e) == Pinged(e, "pending")

\* No address, no pong in time, or that of an earlier try.
PingFails(e) == Pinged(e, "unreachable")

----------------------------------------------------------------------------

RefreshLoop ==
    \/ StartRefresh \/ Sweep \/ EndChunk \/ EndPings
    \/ \E e \in pings : PingOk(e) \/ PingFails(e)

Next ==
    \/ LookupNext /\ UNCHANGED refreshVars
    \/ \E k \in Keys : \/ Learn(k) \/ Pick(k)
                       \/ \E status \in Statuses : Told(k, status)
    \/ RefreshLoop

Spec == Init /\ [][Next]_vars

\* The loop and its pings, which time out, always go on.
FairSpec == Spec /\ WF_vars(RefreshLoop) /\ LookupFairness

----------------------------------------------------------------------------

\* An entry leaves the table only after MAX_FAILURES failures: do_refresh
\* judges by a snapshot that may be old when it evicts.
EvictionNeedsFailures ==
    [][\A e \in Entries(table) :
        ~ContainsKey(table', e.key) => e.failures >= MaxFailures]_vars

\* The answer to a FindPeer message is one that the asking node accepts and
\* can use (send_peers_msg, closest_entries): no more entries than asked for,
\* in the order of distance, each once, none known to be unreachable or
\* unstable; and while there is room nobody is left out, but for the first
\* and the last bucket of the table, which bucket_indexes reaches only for
\* a target of their own.
AnswersFit ==
    \A target \in Targets, max \in 1 .. MaxPeers :
        LET answer == Answer(target, max)
            far == {0, TableSize - 1} \ {BucketOf[target]}
            all == {e \in Entries(table) :
                        /\ e.status \notin {"unreachable", "unstable"}
                        /\ BucketOf[e.key] \notin far}
        IN  /\ Len(answer) = IF Cardinality(all) < max THEN Cardinality(all) ELSE max
            /\ Range(answer) \subseteq all
            /\ \A i, j \in DOMAIN answer :
                i < j => Distance[target][answer[i].key] < Distance[target][answer[j].key]

\* The routing table's limits hold whatever the order of additions, evictions
\* and updates (add_entry checks them under its write lock), and what it
\* answers can be used.
TableInv == TypeOK /\ TableLimits(table) /\ AnswersFit

Unreachable(k) ==
    LET bucket == table[BucketOf[k]]
    IN  bucket # <<>> /\ Head(bucket).key = k /\ Head(bucket).status = "unreachable"

\* The oldest entry of a bucket does not stay unreachable: the refresh loop
\* finds it alive or, after MAX_FAILURES failures, evicts it.
OldestResolved == \A k \in Keys : Unreachable(k) ~> ~Unreachable(k)

=============================================================================
