----------------------------- MODULE Discovery -----------------------------
(***************************************************************************)
(* Kademlia discovery and the part of Node that serves it: the connect     *)
(* loop picks entries of the routing table and queues them, the Node dials *)
(* them, the PeerPool's events come back and change the entries' status,   *)
(* the refresh service updates and evicts entries, lookups add new ones.   *)
(*                                                                         *)
(* The pool (module PeerPool) is its set of connected ids, the dialled     *)
(* connections that wait for their handshake and the events it emits; the  *)
(* run loop emits before it goes on, a removal emits from its own task.    *)
(* A lookup succeeds or fails.                                             *)
(***************************************************************************)
EXTENDS RoutingTable

CONSTANTS
    DialPeers,   \* number of config.dial_peers
    QueueCap,    \* DISCOVERED_PEER_QUEUE_SIZE
    EventCap,    \* buffer size of the event listener
    OutSlots,    \* bound on the dialled connections that await the pool
    MaxRemovals, \* bound on the removals of an id under way
    NoKey        \* an id that is not known, or that of a peer outside Keys

ASSUME DiscoveryAssumption ==
    /\ {DialPeers, QueueCap, EventCap, OutSlots, MaxRemovals} \subseteq Nat
    /\ NoKey \notin Keys

VARIABLES
    verified,    \* keys whose transport proves the remote's id
    table,       \* KademliaDiscovery.table
    queue,       \* peer_queue: ids to dial
    start,       \* dial_peers that KademliaDiscovery::start has yet to push
    picker,      \* connect_loop
    dialer,      \* connect_discovered_peers
    waiting,     \* how many connections dialled for an id the pool has yet to handle
    up,          \* the ids in PeerPool.peers
    emitting,    \* the event that the pool's run loop is emitting, if any
    removing,    \* how many removals of an id have yet to emit their event
    forwarder,   \* forward_peer_events: FALSE until it has registered
    events,      \* the buffer of its listener
    unreported   \* history: ids of which a dial ended without a true event

vars == <<verified, table, queue, start, picker, dialer, waiting, up, emitting, removing,
          forwarder, events, unreported>>

poolVars == <<waiting, up, emitting, removing>>
eventVars == <<forwarder, events>>
setup == <<verified, start>>

Ids == Keys \cup {NoKey}
Event == {"connected", "disconnected", "failed"} \X Ids
NoEvent == <<"none", NoKey>>

TypeOK ==
    /\ verified \subseteq Keys
    /\ table \in Tables
    /\ queue \in Seq(Ids) /\ Len(queue) <= QueueCap
    /\ start \in 0 .. DialPeers
    /\ picker \in [at : {"off", "pick", "push", "sleep", "lookup", "self lookup", "add"},
                   k : Ids]
    /\ dialer \in [at : {"off", "recv", "dial"}, k : Ids]
    /\ waiting \in [Ids -> 0 .. OutSlots]
    /\ up \subseteq Keys
    /\ emitting \in Event \cup {NoEvent}
    /\ removing \in [Keys -> 0 .. MaxRemovals]
    /\ forwarder \in BOOLEAN
    /\ events \in Seq(Event) /\ Len(events) <= EventCap
    /\ unreported \subseteq Keys

Init ==
    /\ verified \in SUBSET Keys
    /\ table = EmptyTable
    /\ queue = <<>>
    /\ start = DialPeers
    /\ picker = [at |-> "off", k |-> NoKey]
    /\ dialer = [at |-> "off", k |-> NoKey]
    /\ waiting = [k \in Ids |-> 0]
    /\ up = {}
    /\ emitting = NoEvent
    /\ removing = [k \in Keys |-> 0]
    /\ forwarder = FALSE
    /\ events = <<>>
    /\ unreported = {}

QueueHasRoom == Len(queue) < QueueCap

\* d's dial ended, and no event about d says so.
Silent(d) == unreported' = unreported \cup ({d} \ {NoKey})

----------------------------------------------------------------------------
(* Node::run after the pool, the lookup and the refresh service started     *)

\* KademliaDiscovery::start pushes the dial_peers.
PushDialPeer ==
    /\ start > 0
    /\ QueueHasRoom
    /\ queue' = Append(queue, NoKey)
    /\ start' = start - 1
    /\ UNCHANGED <<verified, table, picker, dialer, poolVars, eventVars, unreported>>

\* It spawns the connect loop, then run spawns the Node's two tasks.
SpawnLoops ==
    /\ start = 0
    /\ picker.at = "off"
    /\ picker' = [picker EXCEPT !.at = "pick"]
    /\ dialer' = [dialer EXCEPT !.at = "recv"]
    /\ UNCHANGED <<table, queue, setup, poolVars, eventVars, unreported>>

\* The first step of forward_peer_events registers a listener.
Register ==
    /\ dialer.at # "off"
    /\ ~forwarder
    /\ forwarder' = TRUE
    /\ UNCHANGED <<table, queue, setup, picker, dialer, poolVars, events, unreported>>

----------------------------------------------------------------------------
(* connect_loop and start_seeding                                           *)

\* A random pending entry is marked connected; the push comes next.
PickEntry(k) ==
    /\ picker.at = "pick"
    /\ k \in WithStatus(table, {"pending"})
    /\ table' = UpdateEntry(table, k, "connected")
    /\ picker' = [at |-> "push", k |-> k]
    /\ UNCHANGED <<queue, setup, dialer, poolVars, eventVars, unreported>>

PushPicked ==
    /\ picker.at = "push"
    /\ QueueHasRoom
    /\ queue' = Append(queue, picker.k)
    /\ picker' = [at |-> "pick", k |-> NoKey]
    /\ UNCHANGED <<table, setup, dialer, poolVars, eventVars, unreported>>

\* No pending entry, or none whose bloom filter matches: sleep.
PickNone ==
    /\ picker.at = "pick"
    /\ picker' = [picker EXCEPT !.at = "sleep"]
    /\ UNCHANGED <<table, queue, setup, dialer, poolVars, eventVars, unreported>>

\* After the backoff start_seeding picks an entry, without one it turns to
\* the bootstrap peers.
Seed ==
    /\ picker.at = "sleep"
    /\ LET known == WithStatus(table, {"pending", "connected"})
       IN  \E k \in IF known = {} THEN {NoKey} ELSE known :
            picker' = [at |-> "lookup", k |-> k]
    /\ UNCHANGED <<table, queue, setup, dialer, poolVars, eventVars, unreported>>

\* The entry has no lookup address, or there are no bootstrap peers.
NoLookup ==
    /\ picker.at = "lookup"
    /\ picker' = [at |-> "pick", k |-> NoKey]
    /\ UNCHANGED <<table, queue, setup, dialer, poolVars, eventVars, unreported>>

\* A lookup is over; a bootstrap peer may be followed by another one.
SeedDone ==
    \/ picker' = [at |-> "pick", k |-> NoKey]
    \/ picker.k = NoKey /\ picker' = [at |-> "lookup", k |-> NoKey]

\* An exchange with the endpoint fails (access control, dial, a wrong pong, an
\* answer that is too late, too long or not valid): the entry is unstable.
LookupFails ==
    /\ picker.at = "lookup"
    /\ table' = IF picker.k = NoKey THEN table
                ELSE UpdateEntry(table, picker.k, "unstable")
    /\ SeedDone
    /\ UNCHANGED <<queue, setup, dialer, poolVars, eventVars, unreported>>

\* Two exchanges with the endpoint, each for a random id.
RandomLookup ==
    /\ picker.at = "lookup"
    /\ picker' = [picker EXCEPT !.at = "self lookup"]
    /\ UNCHANGED <<table, queue, setup, dialer, poolVars, eventVars, unreported>>

\* One with each peer learned, for our own id; those that fail do not matter.
SelfLookup ==
    /\ picker.at = "self lookup"
    /\ picker' = [picker EXCEPT !.at = "add"]
    /\ UNCHANGED <<table, queue, setup, dialer, poolVars, eventVars, unreported>>

\* It adds the peers it found, one after the other.
LookupAdds(k) ==
    /\ picker.at = "add"
    /\ table' = AddEntry(table, k)
    /\ UNCHANGED <<queue, setup, picker, dialer, poolVars, eventVars, unreported>>

LookupDone ==
    /\ picker.at = "add"
    /\ SeedDone
    /\ UNCHANGED <<table, queue, setup, dialer, poolVars, eventVars, unreported>>

\* handle_inbound: a Peer message on a connection of the lookup listener.
PeerMsg(k) ==
    /\ table' = AddEntry(table, k)
    /\ UNCHANGED <<queue, setup, picker, dialer, poolVars, eventVars, unreported>>

----------------------------------------------------------------------------
(* connect_discovered_peers                                                 *)

\* A peer without usable endpoint, or one that access control denies, is
\* skipped without an event.
Skip ==
    /\ dialer.at = "recv"
    /\ queue # <<>>
    /\ queue' = Tail(queue)
    /\ Silent(Head(queue))
    /\ UNCHANGED <<table, setup, picker, dialer, poolVars, eventVars>>

Dial ==
    /\ dialer.at = "recv"
    /\ queue # <<>>
    /\ queue' = Tail(queue)
    /\ dialer' = [at |-> "dial", k |-> Head(queue)]
    /\ UNCHANGED <<table, setup, picker, poolVars, eventVars, unreported>>

\* connect_and_queue succeeds: the pool will handle the connection.
Dialled ==
    /\ dialer.at = "dial"
    /\ waiting[dialer.k] < OutSlots
    /\ waiting' = [waiting EXCEPT ![dialer.k] = @ + 1]
    /\ dialer' = [at |-> "recv", k |-> NoKey]
    /\ UNCHANGED <<table, queue, setup, picker, up, emitting, removing, eventVars,
                   unreported>>

\* Discovery::on_event
OnEvent(e) ==
    IF e[2] = NoKey THEN table
    ELSE UpdateEntry(table, e[2],
            CASE e[1] = "connected" -> "connected"
              [] e[1] = "disconnected" -> "disconnected"
              [] e[1] = "failed" -> "unreachable")

\* A failed dial not reported.
DialFailsQuietly ==
    /\ dialer.at = "dial"
    /\ dialer' = [at |-> "recv", k |-> NoKey]
    /\ UNCHANGED <<table, queue, setup, picker, poolVars, eventVars, unreported>>

DialFails ==
    /\ dialer.at = "dial"
    /\ table' = OnEvent(<<"failed", dialer.k>>)
    /\ dialer' = [at |-> "recv", k |-> NoKey]
    /\ UNCHANGED <<queue, setup, picker, poolVars, eventVars, unreported>>

----------------------------------------------------------------------------
(* The pool's run loop and its removals                                     *)

\* It takes a connection dialled for d.  NoKey stands for a peer dialled by
\* its endpoint only, and for one that was accepted.
Takes(d) ==
    /\ emitting = NoEvent
    /\ \/ waiting[d] > 0 /\ waiting' = [waiting EXCEPT ![d] = @ - 1]
       \/ d = NoKey /\ UNCHANGED waiting

\* The id that the transport proves, if it does.
Proves(d) ==
    CASE d \in verified -> {d}
      [] d \in Keys \ verified -> {NoKey}
      [] d = NoKey -> verified \cup {NoKey}

\* The handshake fails: the event names the id that the transport proved.
HandshakeFails(d) ==
    /\ Takes(d)
    /\ \E p \in Proves(d) :
        /\ emitting' = <<"failed", p>>
        /\ IF p = d THEN UNCHANGED unreported ELSE Silent(d)
    /\ UNCHANGED <<table, queue, setup, picker, dialer, up, removing, eventVars>>

\* The id of a connection after the handshake: proved, or as it claims.
Claims(d) == IF d \in verified THEN {d} ELSE Ids

\* Access control denies the peer.
Denied(d) ==
    /\ Takes(d)
    /\ \E p \in Claims(d) :
        /\ emitting' = <<"failed", p>>
        /\ IF p = d THEN UNCHANGED unreported ELSE Silent(d)
    /\ UNCHANGED <<table, queue, setup, picker, dialer, up, removing, eventVars>>

\* new_peer fails: the peer is connected already, or its wire cannot be set
\* up.  No event.
Rejected(d) ==
    /\ Takes(d)
    /\ Silent(d)
    /\ UNCHANGED <<table, queue, setup, picker, dialer, up, emitting, removing,
                   eventVars>>

Admitted(d) ==
    /\ Takes(d)
    /\ \E p \in Claims(d) \ up :
        /\ up' = up \cup ({p} \ {NoKey})
        /\ emitting' = <<"connected", p>>
        /\ IF p = d THEN UNCHANGED unreported ELSE Silent(d)
    /\ UNCHANGED <<table, queue, setup, picker, dialer, removing, eventVars>>

\* remove_peer takes the peer out of the map.
RemovePeer(p) ==
    /\ p \in up
    /\ removing[p] < MaxRemovals
    /\ up' = up \ {p}
    /\ removing' = [removing EXCEPT ![p] = @ + 1]
    /\ UNCHANGED <<table, queue, setup, picker, dialer, waiting, emitting, eventVars,
                   unreported>>

\* emit: lost without a listener, waits when its buffer is full.
Emit(e) ==
    /\ Len(events) < EventCap
    /\ events' = IF forwarder THEN Append(events, e) ELSE events
    /\ UNCHANGED forwarder

\* Lost, or told after the removal of the peer.
EmitFromLoop ==
    /\ emitting # NoEvent
    /\ Emit(emitting)
    /\ emitting' = NoEvent
    /\ LET p == emitting[2]
           late == /\ emitting[1] = "connected" /\ p \in Keys \ up
                   /\ removing[p] = 0
       IN  IF forwarder /\ ~late THEN UNCHANGED unreported ELSE Silent(p)
    /\ UNCHANGED <<table, queue, setup, picker, dialer, waiting, up, removing>>

EmitRemoved(p) ==
    /\ removing[p] > 0
    /\ Emit(<<"disconnected", p>>)
    /\ removing' = [removing EXCEPT ![p] = @ - 1]
    /\ IF forwarder THEN UNCHANGED unreported ELSE Silent(p)
    /\ UNCHANGED <<table, queue, setup, picker, dialer, waiting, up, emitting>>

\* EventListener::recv
RecvEvent(e) ==
    /\ events # <<>>
    /\ e = Head(events)
    /\ events' = Tail(events)

\* forward_peer_events
Forward ==
    /\ \E e \in Event : RecvEvent(e) /\ table' = OnEvent(e)
    /\ UNCHANGED <<queue, setup, picker, dialer, poolVars, forwarder, unreported>>

----------------------------------------------------------------------------

\* The refresh service (module Refresh) pings entries and evicts them.  It
\* writes what it found over whatever the status has become meanwhile.
Refreshed(k) ==
    /\ ContainsKey(table, k)
    /\ \/ \E status \in {"pending", "unreachable"} :
            table' = UpdateEntry(table, k, status)
       \/ /\ \E e \in Entries(table) : e.key = k /\ e.failures >= MaxFailures
          /\ table' = RemoveEntry(table, k)
    /\ UNCHANGED <<queue, setup, picker, dialer, poolVars, eventVars, unreported>>

----------------------------------------------------------------------------

Next ==
    \/ PushDialPeer \/ SpawnLoops \/ Register
    \/ \E k \in Keys : \/ PickEntry(k) \/ LookupAdds(k)
                       \/ PeerMsg(k) \/ Refreshed(k)
    \/ PushPicked \/ PickNone \/ Seed
    \/ NoLookup \/ LookupFails \/ RandomLookup \/ SelfLookup \/ LookupDone
    \/ Skip \/ Dial \/ Dialled \/ DialFails
    \/ \E d \in Ids : \/ HandshakeFails(d) \/ Denied(d)
                      \/ Rejected(d) \/ Admitted(d)
    \/ \E p \in Keys : RemovePeer(p) \/ EmitRemoved(p)
    \/ EmitFromLoop \/ Forward

Spec == Init /\ [][Next]_vars

----------------------------------------------------------------------------

InFlight(k) ==
    \/ picker = [at |-> "push", k |-> k]
    \/ k \in Range(queue)
    \/ dialer.k = k
    \/ waiting[k] > 0

Told(k) ==
    \/ emitting \in {<<"failed", k>>, <<"connected", k>>}
    \/ \E t \in {"failed", "disconnected"} : <<t, k>> \in Range(events)

\* An entry marked connected is on its way to a dial, connected, or about to be
\* told otherwise; or its dial ended in one of the ways that the Node and
\* the pool do not report (connect_loop marks it before the dial, and relies
\* on an event to take the mark away).
MarkExplained ==
    /\ TypeOK
    /\ \A k \in Keys :
        Marked(table, k, "connected") =>
            InFlight(k) \/ k \in up \/ removing[k] > 0 \/ Told(k) \/ k \in unreported

=============================================================================
