------------------------------- MODULE Lookup -------------------------------
(***************************************************************************)
(* The listening side of Kademlia's LookupService: the accept loop of the  *)
(* Listener in callback mode, and handle_inbound on each connection.       *)
(*                                                                         *)
(* Ping and FindPeer messages are answered and change nothing: Answer is   *)
(* the answer to the latter.  The asking side is part of module Discovery. *)
(***************************************************************************)
EXTENDS RoutingTable

CONSTANTS
    Lookups,      \* connections to the lookup listener, each one used again
    LookupSlots,  \* config.lookup_inbound_slots
    MaxPeers      \* MAX_PEERS_IN_PEERSMSG

ASSUME LookupAssumption ==
    /\ IsFiniteSet(Lookups)
    /\ {LookupSlots, MaxPeers} \subseteq Nat \ {0}

VARIABLES
    table,     \* the routing table
    listener,  \* listen_loop_callback; it holds a slot in "accept"
    inbound    \* where the task of each connection is

lookupVars == <<listener, inbound>>

LookupTypeOK ==
    /\ table \in Tables
    /\ listener \in {"off", "acquire", "accept"}
    /\ inbound \in [Lookups -> {"none", "upgrade", "serve"}]

LookupInit ==
    /\ table = EmptyTable
    /\ listener = "off"
    /\ inbound = [c \in Lookups |-> "none"]

----------------------------------------------------------------------------

\* The endpoint is configured, a TCP one, and free.  (Else it stays off.)
ListenerStarts ==
    /\ listener = "off"
    /\ listener' = "acquire"
    /\ UNCHANGED <<table, inbound>>

\* A slot belongs to the loop until it is handed to a connection's task.
LookupAcquire ==
    /\ listener = "acquire"
    /\ Cardinality({c \in Lookups : inbound[c] # "none"}) < LookupSlots
    /\ listener' = "accept"
    /\ UNCHANGED <<table, inbound>>

\* accept fails, or the endpoint is unknown or denied: the slot is dropped.
LookupAcceptFails ==
    /\ listener = "accept"
    /\ listener' = "acquire"
    /\ UNCHANGED <<table, inbound>>

LookupAccept(c) ==
    /\ listener = "accept"
    /\ inbound[c] = "none"
    /\ inbound' = [inbound EXCEPT ![c] = "upgrade"]
    /\ listener' = "acquire"
    /\ UNCHANGED table

\* The transport handshake is over within its timeout.
Upgrade(c) ==
    /\ inbound[c] = "upgrade"
    /\ \E l \in {"serve", "none"} : inbound' = [inbound EXCEPT ![c] = l]
    /\ UNCHANGED <<table, listener>>

----------------------------------------------------------------------------
(* handle_inbound                                                          *)

\* A FindPeer message is answered with a Peers message.
Answer(target, max) == ClosestEntries(table, target, max)

\* A Peer message with an address, and with no more than the limits allow.
\* (Without any address it is ignored.)
InboundPeer(c, k) ==
    /\ inbound[c] = "serve"
    /\ table' = AddEntry(table, k)
    /\ UNCHANGED lookupVars

\* A Shutdown message, one that is not valid or not expected, another version,
\* or the connection fails: on_disconnect drops the slot.
InboundEnds(c) ==
    /\ inbound[c] = "serve"
    /\ inbound' = [inbound EXCEPT ![c] = "none"]
    /\ UNCHANGED <<table, listener>>

\* The lifespan begins anew with each message.
LifespanRestarts(c) ==
    /\ inbound[c] = "serve"
    /\ UNCHANGED <<table, listener, inbound>>

\* lookup_connection_lifespan is over.
LifespanEnds(c) ==
    /\ inbound[c] = "serve"
    /\ inbound' = [inbound EXCEPT ![c] = "none"]
    /\ UNCHANGED <<table, listener>>

----------------------------------------------------------------------------

LookupNext ==
    \/ ListenerStarts \/ LookupAcquire \/ LookupAcceptFails
    \/ \E c \in Lookups :
        \/ LookupAccept(c) \/ Upgrade(c) \/ InboundEnds(c) \/ LifespanEnds(c)
        \/ \E k \in Keys : InboundPeer(c, k)

\* The accept loop is polled, and both timeouts expire.
LookupFairness ==
    /\ WF_<<table, lookupVars>>(LookupAcquire)
    /\ \A c \in Lookups :
        /\ WF_<<table, lookupVars>>(Upgrade(c))
        /\ WF_<<table, lookupVars>>(LifespanEnds(c))

----------------------------------------------------------------------------

\* Connections that are held on to, by a remote that keeps sending or does
\* not speak at all, do not keep the listener from accepting others
\* (start_listener gives each a lifespan, on_disconnect drops its slot).
AcceptsAgain == listener = "acquire" ~> listener = "accept"

=============================================================================
