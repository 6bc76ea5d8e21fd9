------------------------------ MODULE PeerWire ------------------------------
(***************************************************************************)
(* One connected peer of karyon_p2p: the Wire with its bounded queues, the *)
(* writer and reader tasks, the protocol tasks, the callers that send to   *)
(* it through the PeerPool, and the steps that end it: Peer::run returns,  *)
(* remove_peer takes it out of the map and Peer::shutdown closes it.       *)
(*                                                                         *)
(* The wire "single" is SingleConnection (TCP, TLS): one stream for all    *)
(* protocols.  "mux" is MuxConnection (QUIC): one stream each.             *)
(* Queues are modelled by their length: AsyncQueue (module AsyncQueue)     *)
(* keeps the order.                                                        *)
(***************************************************************************)
EXTENDS Naturals, FiniteSets

CONSTANTS
    Protos,    \* the negotiated protocols
    Senders,   \* tasks that call PeerPool::broadcast, broadcast_to or send_to
    Wires,     \* the wire shapes the connection may have
    SendCap,   \* SEND_QUEUE_SIZE
    RecvCap,   \* RECV_QUEUE_SIZE
    MaxSend,   \* bound: messages each sender sends to this peer
    MaxIn      \* bound: messages that arrive from the remote

ASSUME WireAssumption ==
    /\ Wires \subseteq {"single", "mux"}
    /\ SendCap \in Nat \ {0} /\ RecvCap \in Nat \ {0}
    /\ MaxSend \in Nat /\ MaxIn \in Nat
    /\ {"pipe", "none", "idle", "before", "after"} \cap Protos = {}

VARIABLES
    wire,     \* the shape of this connection
    net,      \* the transport: "up" or "broken"
    sendq,    \* length of each stream's send queue
    recvq,    \* length of each protocol's recv queue
    writer,   \* each stream's writer task
    reader,   \* each stream's reader task
    inbox,    \* the protocol whose message a reader is pushing, or "none"
    proto,    \* each protocol's task
    sender,   \* each caller: "idle", or under the map's read lock, pushing
              \* to this peer on a protocol, or to others before or after it
    count,    \* messages each caller has sent to this peer
    arrived,  \* messages that arrived so far
    reason,   \* the stop_reason channel holds a reason
    mapped,   \* the peer is in the pool's map
    remove,   \* where run, remove_peer and Peer::shutdown are
    left      \* protocols broadcast_shutdown has yet to reach

vars == <<wire, net, sendq, recvq, writer, reader, inbox, proto, sender, count,
          arrived, reason, mapped, remove, left>>

Mux == wire = "mux"
Streams == IF Mux THEN Protos ELSE {"pipe"}
StreamOf(p) == IF Mux THEN p ELSE "pipe"

ending == <<reason, mapped, remove, left>>
callers == <<sender, count>>
readers == <<reader, inbox, arrived>>

RemovePCs == {"run", "lock", "shutdown", "broadcast", "notify", "done"}

TypeOK ==
    /\ wire \in Wires
    /\ net \in {"up", "broken"}
    /\ sendq \in [Streams -> 0 .. SendCap]
    /\ recvq \in [Protos -> 0 .. RecvCap]
    /\ writer \in [Streams -> {"idle", "sending", "ended"}]
    /\ reader \in [Streams -> {"read", "push", "ended"}]
    /\ inbox \in [Streams -> Protos \cup {"none"}]
    /\ proto \in [Protos -> {"run", "ended"}]
    /\ sender \in [Senders -> Protos \cup {"idle", "before", "after"}]
    /\ count \in [Senders -> 0 .. MaxSend]
    /\ arrived \in 0 .. MaxIn
    /\ reason \in BOOLEAN
    /\ mapped \in BOOLEAN
    /\ remove \in RemovePCs
    /\ left \subseteq Protos

Init ==
    /\ wire \in Wires
    /\ net = "up"
    /\ sendq = [s \in Streams |-> 0]
    /\ recvq = [p \in Protos |-> 0]
    /\ writer = [s \in Streams |-> "idle"]
    /\ reader = [s \in Streams |-> "read"]
    /\ inbox = [s \in Streams |-> "none"]
    /\ proto = [p \in Protos |-> "run"]
    /\ sender = [b \in Senders |-> "idle"]
    /\ count = [b \in Senders |-> 0]
    /\ arrived = 0
    /\ reason = FALSE
    /\ mapped = TRUE
    /\ remove = "run"
    /\ left = {}

----------------------------------------------------------------------------
(* Callers: the map's read lock is held across the pushes to every peer    *)

SenderGoto(b, l) == sender' = [sender EXCEPT ![b] = l]

\* Where a caller that reads the map may turn: to this peer, if it is there.
Reach == IF mapped THEN Protos ELSE {}

\* The read lock is taken, unless a writer waits for it: send_to reaches this
\* peer at once, a broadcast may serve other peers before it.
SendStarts(b) ==
    /\ sender[b] = "idle"
    /\ remove # "lock"
    /\ count[b] < MaxSend
    /\ \E l \in Reach \cup {"before"} : SenderGoto(b, l)
    /\ UNCHANGED <<wire, net, sendq, recvq, writer, readers, proto, count,
                   ending>>

\* send_queue.push finds room; the lock is released unless the broadcast goes
\* on with another peer.
SendPushes(b) ==
    LET s == StreamOf(sender[b]) IN
    /\ sender[b] \in Protos
    /\ sendq[s] < SendCap
    /\ sendq' = [sendq EXCEPT ![s] = @ + 1]
    /\ \E l \in {"idle", "after"} : SenderGoto(b, l)
    /\ count' = [count EXCEPT ![b] = @ + 1]
    /\ UNCHANGED <<wire, net, recvq, writer, readers, proto, ending>>

\* The queue of another peer finds room: the broadcast reaches this peer, or
\* it is over and the lock is released.
OthersServed(b) ==
    /\ \/ sender[b] = "before" /\ \E l \in Reach : SenderGoto(b, l)
       \/ sender[b] \in {"before", "after"} /\ SenderGoto(b, "idle")
    /\ UNCHANGED <<wire, net, sendq, recvq, writer, readers, proto, count,
                   ending>>

----------------------------------------------------------------------------
(* The transport, the writer and reader tasks                              *)

NetBreaks ==
    /\ net = "up"
    /\ net' = "broken"
    /\ UNCHANGED <<wire, sendq, recvq, writer, readers, proto, callers, ending>>

\* The writer takes the next message of its send queue.
WriterTakes(s) ==
    /\ writer[s] = "idle"
    /\ sendq[s] > 0
    /\ sendq' = [sendq EXCEPT ![s] = @ - 1]
    /\ writer' = [writer EXCEPT ![s] = "sending"]
    /\ UNCHANGED <<wire, net, recvq, readers, proto, callers, ending>>

WriterSent(s) ==
    /\ writer[s] = "sending"
    /\ net = "up"
    /\ writer' = [writer EXCEPT ![s] = "idle"]
    /\ UNCHANGED <<wire, net, sendq, recvq, readers, proto, callers, ending>>

\* send_msg fails: the writer ends and tells nobody.
WriterFails(s) ==
    /\ writer[s] = "sending"
    /\ net = "broken"
    /\ writer' = [writer EXCEPT ![s] = "ended"]
    /\ UNCHANGED <<wire, net, sendq, recvq, readers, proto, callers, ending>>

\* A protocol message arrives for a negotiated protocol.
MessageArrives(s, p) ==
    /\ reader[s] = "read"
    /\ net = "up"
    /\ arrived < MaxIn
    /\ StreamOf(p) = s
    /\ arrived' = arrived + 1
    /\ reader' = [reader EXCEPT ![s] = "push"]
    /\ inbox' = [inbox EXCEPT ![s] = p]
    /\ UNCHANGED <<wire, net, sendq, recvq, writer, proto, callers, ending>>

ReaderPushes(s) ==
    /\ reader[s] = "push"
    /\ recvq[inbox[s]] < RecvCap
    /\ recvq' = [recvq EXCEPT ![inbox[s]] = @ + 1]
    /\ reader' = [reader EXCEPT ![s] = "read"]
    /\ inbox' = [inbox EXCEPT ![s] = "none"]
    /\ UNCHANGED <<wire, net, sendq, writer, proto, callers, arrived, ending>>


\* A read error, the remote's Shutdown, an unknown command, a message that
\* does not decode or whose protocol was not negotiated.
ReaderStops(s) ==
    /\ reader[s] = "read"
    /\ reader' = [reader EXCEPT ![s] = "ended"]
    /\ reason' = TRUE
    /\ UNCHANGED <<wire, net, sendq, recvq, writer, inbox, proto, callers,
                   arrived, mapped, remove, left>>

(* Protocol tasks                                                          *)

ProtoReceives(p) ==
    /\ proto[p] = "run"
    /\ recvq[p] > 0
    /\ recvq' = [recvq EXCEPT ![p] = @ - 1]
    /\ UNCHANGED <<wire, net, sendq, writer, readers, proto, callers, ending>>

\* Protocol::start returns, and on_failure forwards its result as the reason.
ProtoEnds(p) ==
    /\ proto[p] = "run"
    /\ proto' = [proto EXCEPT ![p] = "ended"]
    /\ reason' = TRUE
    /\ UNCHANGED <<wire, net, sendq, recvq, writer, readers, callers, mapped,
                   remove, left>>

----------------------------------------------------------------------------
(* The end of the peer                                                     *)

\* Peer::run receives the reason; the pool's callback calls remove_peer.
RunReturns ==
    /\ remove = "run"
    /\ reason
    /\ remove' = "lock"
    /\ UNCHANGED <<wire, net, sendq, recvq, writer, readers, proto, callers,
                   reason,
                   mapped, left>>

\* PeerPool::shutdown has stopped Peer::run: it shuts the peer down where it
\* is, in the map, under the map's read lock.
PoolShutdown ==
    /\ remove = "run"
    /\ remove' = "shutdown"
    /\ UNCHANGED <<wire, net, sendq, recvq, writer, readers, proto, callers,
                   reason,
                   mapped, left>>

\* remove_peer that does not wait for the lock's readers.
RemoveFromMapUnlocked ==
    /\ remove = "lock"
    /\ mapped' = FALSE
    /\ remove' = "shutdown"
    /\ UNCHANGED <<wire, net, sendq, recvq, writer, readers, proto, callers,
                   reason, left>>

\* peers.write().await.remove(pid): every reader has left the map.
RemoveFromMap ==
    /\ remove = "lock"
    /\ \A b \in Senders : sender[b] = "idle"
    /\ mapped' = FALSE
    /\ remove' = "shutdown"
    /\ UNCHANGED <<wire, net, sendq, recvq, writer, readers, proto, callers,
                   reason, left>>

\* Wire::shutdown: QUIC closes the connection, the single pipe pushes a
\* Shutdown message on its send queue.
CloseWire ==
    /\ remove = "shutdown"
    /\ IF Mux
       THEN net' = "broken" /\ UNCHANGED sendq
       ELSE /\ sendq["pipe"] < SendCap
            /\ sendq' = [sendq EXCEPT !["pipe"] = @ + 1]
            /\ UNCHANGED net
    /\ remove' = "broadcast"
    /\ left' = Protos
    /\ UNCHANGED <<wire, recvq, writer, readers, proto, callers, reason,
                   mapped>>

\* broadcast_shutdown, one recv queue at a time.
TellProtocol(p) ==
    /\ remove = "broadcast"
    /\ p \in left
    /\ recvq[p] < RecvCap
    /\ recvq' = [recvq EXCEPT ![p] = @ + 1]
    /\ left' = left \ {p}
    /\ UNCHANGED <<wire, net, sendq, writer, readers, proto, callers, reason,
                   mapped, remove>>

\* stop_reason_tx.try_send(Ok), then the conn_closed message.
NotifyClosed ==
    /\ remove = "broadcast"
    /\ left = {}
    /\ remove' = "notify"
    /\ reason' = TRUE
    /\ UNCHANGED <<wire, net, sendq, recvq, writer, readers, proto, callers,
                   mapped, left>>

\* The peer's task group is cancelled: its tasks are dropped.
CancelTasks ==
    /\ remove = "notify"
    /\ remove' = "done"
    /\ writer' = [s \in Streams |-> "ended"]
    /\ reader' = [s \in Streams |-> "ended"]
    /\ inbox' = [s \in Streams |-> "none"]
    /\ proto' = [p \in Protos |-> "ended"]
    /\ UNCHANGED <<wire, net, sendq, recvq, callers, arrived, reason, mapped,
                   left>>

EndSteps ==
    \/ RunReturns \/ RemoveFromMap \/ CloseWire
    \/ (\E p \in Protos : TellProtocol(p)) \/ NotifyClosed \/ CancelTasks

Next ==
    \/ \E b \in Senders : SendStarts(b) \/ SendPushes(b) \/ OthersServed(b)
    \/ NetBreaks
    \/ \E s \in Streams :
          \/ WriterTakes(s) \/ WriterSent(s) \/ WriterFails(s)
          \/ ReaderPushes(s) \/ ReaderStops(s)
          \/ \E p \in Protos : MessageArrives(s, p)
    \/ \E p \in Protos : ProtoReceives(p) \/ ProtoEnds(p)
    \/ PoolShutdown
    \/ EndSteps

Spec == Init /\ [][Next]_vars

(***************************************************************************)
(* Tasks that can run are polled, and a broken transport reports it to     *)
(* whoever reads or writes.  A remote need not read, and a protocol need   *)
(* not take its messages: the queue of another peer may stay full too.     *)
(***************************************************************************)
Fairness ==
    /\ WF_vars(EndSteps)
    /\ \A b \in Senders : WF_vars(SendPushes(b))
    /\ \A s \in Protos \cup {"pipe"} :
          /\ WF_vars(s \in Streams /\ (WriterTakes(s) \/ WriterFails(s)))
          /\ WF_vars(/\ s \in Streams
                     /\ ReaderPushes(s) \/ (net = "broken" /\ ReaderStops(s)))

FairSpec == Spec /\ Fairness

----------------------------------------------------------------------------
(* Properties                                                              *)

\* A caller that found the peer in the map pushes to a peer that is still in
\* it: removal waits for the read lock.
SendersSeeMappedPeer ==
    /\ TypeOK
    /\ (\E b \in Senders : sender[b] \in Protos) => mapped

\* A push waits for room in a full queue: a caller's, a reader's, that of the
\* Shutdown message in Wire::shutdown or that of broadcast_shutdown.
OnFullQueue ==
    \/ \E b \in Senders : sender[b] \in Protos /\ sendq[StreamOf(sender[b])] = SendCap
    \/ \E s \in Streams : reader[s] = "push" /\ recvq[inbox[s]] = RecvCap
    \/ remove = "shutdown" /\ ~Mux /\ sendq["pipe"] = SendCap
    \/ remove = "broadcast" /\ \E p \in left : recvq[p] = RecvCap

\* remove_peer waits for a broadcast that waits for room at another peer.
BehindAnotherPeer ==
    remove = "lock" /\ \E b \in Senders : sender[b] \in {"before", "after"}


=============================================================================
