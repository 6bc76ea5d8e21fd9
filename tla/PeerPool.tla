------------------------------ MODULE PeerPool ------------------------------
(***************************************************************************)
(* The life of the connections of a karyon_p2p node: the Connector and the *)
(* Listener take connection slots and queue connections (ConnQueue), the   *)
(* PeerPool's run loop turns them into peers, peers stop and are removed,  *)
(* and Node::shutdown stops everything.                                    *)
(*                                                                         *)
(* Every step ends at an await of the task that takes it.  The wire of a   *)
(* peer is module PeerWire: here its shutdown takes a step.  Handshake is  *)
(* module Session: here it succeeds or fails.  TaskGroup::cancel (module   *)
(* TaskGroup) appears as a drained set of tasks that are stopped one after *)
(* the other, in any order.                                                *)
(***************************************************************************)
EXTENDS Naturals, Sequences, FiniteSets

CONSTANTS
    Conns,       \* connections, in either direction
    Pids,        \* peer ids
    PidOf,       \* the id the remote of a connection proves or claims
    Outbound,    \* the connections this node dials; it accepts the others
    OutSlots,    \* Connector's connection_slots
    InSlots,     \* Listener's connection_slots
    MaxRetries,  \* Connector's max_retries
    NoConn

ASSUME ConnsAssumption ==
    /\ PidOf \in [Conns -> Pids]
    /\ Outbound \subseteq Conns
    /\ NoConn \notin Conns

ASSUME SlotsAssumption ==
    /\ OutSlots \in Nat /\ InSlots \in Nat /\ MaxRetries \in Nat

VARIABLES
    conn,      \* where each connection's connector or listener task is
    tries,     \* failed dials of the connect call in progress
    slot,      \* the connections that hold a connection slot
    listener,  \* the accept loop; it holds a slot while "accept"
    queue,     \* ConnQueue: connections awaiting their handshake
    loop,      \* PeerPool::run: where it is and which connection it handles
    peers,     \* PeerPool.peers: the connection of each connected id
    peer,      \* where the pool's task of each admitted connection is
    sent,      \* connections whose conn_closed channel got a message
    phase,     \* how far Node::shutdown is
    doomed,    \* handlers the cancel in progress has yet to stop
    stopping   \* the task it is waiting for, {} or a singleton

vars == <<conn, tries, slot, listener, queue, loop, peers, peer, sent,
          phase, doomed, stopping>>

connVars == <<conn, tries, slot, listener>>
poolVars == <<loop, peers, peer>>
downVars == <<phase, doomed, stopping>>

ConnPCs == {"idle", "dialing", "task", "waiting", "closing", "gone"}
LoopPCs == {"next", "handshake", "failed", "denied", "reject", "admit",
            "build", "insert", "added", "stopped"}
PeerPCs == {"none", "run", "remove", "close", "emit", "done", "cancelled"}
Phases == {"up", "pool", "close", "connector", "listener", "down"}

\* The tasks that cancel stops.
LoopTask == <<"loop">>
ListenTask == <<"listen">>
ConnTask(c) == <<"conn", c>>
PeerTask(c) == <<"peer", c>>
AllTasks ==
    {LoopTask, ListenTask}
        \cup {ConnTask(c) : c \in Conns} \cup {PeerTask(c) : c \in Conns}

TypeOK ==
    /\ conn \in [Conns -> ConnPCs]
    /\ tries \in [Conns -> 0 .. MaxRetries]
    /\ slot \subseteq Conns
    /\ listener \in {"off", "acquire", "accept", "stopped"}
    /\ queue \in Seq(Conns)
    /\ loop \in [at : LoopPCs, c : Conns \cup {NoConn}]
    /\ peers \in [Pids -> Conns \cup {NoConn}]
    /\ peer \in [Conns -> PeerPCs]
    /\ sent \subseteq Conns
    /\ phase \in Phases
    /\ doomed \subseteq AllTasks
    /\ stopping \subseteq AllTasks

Init ==
    /\ conn = [c \in Conns |-> "idle"]
    /\ tries = [c \in Conns |-> 0]
    /\ slot = {}
    /\ listener = "off"
    /\ queue = <<>>
    /\ loop = [at |-> "next", c |-> NoConn]
    /\ peers = [p \in Pids |-> NoConn]
    /\ peer = [c \in Conns |-> "none"]
    /\ sent = {}
    /\ phase = "up"
    /\ doomed = {}
    /\ stopping = {}

ConnGoto(c, l) == conn' = [conn EXCEPT ![c] = l]
LoopGoto(l) == loop' = [loop EXCEPT !.at = l]
PeerGoto(c, l) == peer' = [peer EXCEPT ![c] = l]

----------------------------------------------------------------------------
(* Connector                                                               *)

OutHeld == Cardinality(slot \cap Outbound)
InHeld ==
    Cardinality(slot \ Outbound) + (IF listener = "accept" THEN 1 ELSE 0)

\* connect_internal: a slot is free.  Users and connect_discovered_peers call
\* it until the node's own task group is cancelled, the last part of shutdown.
Connect(c) ==
    /\ phase # "down"
    /\ c \in Outbound
    /\ conn[c] = "idle"
    /\ OutHeld < OutSlots
    /\ slot' = slot \cup {c}
    /\ ConnGoto(c, "dialing")
    /\ UNCHANGED <<tries, listener, queue, poolVars, sent, downVars>>

DialFails(c) ==
    /\ conn[c] = "dialing"
    /\ tries[c] < MaxRetries
    /\ tries' = [tries EXCEPT ![c] = @ + 1]
    /\ UNCHANGED <<conn, slot, listener, queue, poolVars, sent, downVars>>

\* No retry left: Err(Timeout), and the slot is dropped.
ConnectFails(c) ==
    /\ conn[c] = "dialing"
    /\ tries[c] = MaxRetries
    /\ ConnGoto(c, "gone")
    /\ tries' = [tries EXCEPT ![c] = 0]
    /\ slot' = slot \ {c}
    /\ UNCHANGED <<listener, queue, poolVars, sent, downVars>>

\* The caller drops the connect future: a user's timeout, or the cancelled
\* connect_discovered_peers task.
ConnectDropped(c) ==
    /\ conn[c] = "dialing"
    /\ ConnGoto(c, "gone")
    /\ tries' = [tries EXCEPT ![c] = 0]
    /\ slot' = slot \ {c}
    /\ UNCHANGED <<listener, queue, poolVars, sent, downVars>>

\* The dial succeeds and connect_and_queue spawns the connection's task.
DialSucceeds(c) ==
    /\ conn[c] = "dialing"
    /\ tries[c] < MaxRetries
    /\ ConnGoto(c, "task")
    /\ tries' = [tries EXCEPT ![c] = 0]
    /\ UNCHANGED <<slot, listener, queue, poolVars, sent, downVars>>

(* Listener                                                                *)

\* Node::run starts it after the pool.  shutdown may be under way, or over.
ListenStarts ==
    /\ listener = "off"
    /\ listener' = "acquire"
    /\ UNCHANGED <<conn, tries, slot, queue, poolVars, sent, downVars>>

\* The endpoint cannot be bound, and run fails.
ListenFails ==
    /\ listener = "off"
    /\ listener' = "stopped"
    /\ UNCHANGED <<conn, tries, slot, queue, poolVars, sent, downVars>>

\* listen_loop acquires a slot before it accepts.
ListenAcquire ==
    /\ listener = "acquire"
    /\ InHeld < InSlots
    /\ listener' = "accept"
    /\ UNCHANGED <<conn, tries, slot, queue, poolVars, sent, downVars>>

\* accept fails, the endpoint is unknown or denied: continue drops the slot.
AcceptFails ==
    /\ listener = "accept"
    /\ listener' = "acquire"
    /\ UNCHANGED <<conn, tries, slot, queue, poolVars, sent, downVars>>

\* The accepted connection's task takes the slot over.
Accept(c) ==
    /\ listener = "accept"
    /\ c \notin Outbound
    /\ conn[c] = "idle"
    /\ ConnGoto(c, "task")
    /\ slot' = slot \cup {c}
    /\ listener' = "acquire"
    /\ UNCHANGED <<tries, queue, poolVars, sent, downVars>>

\* The transport upgrade of an inbound connection fails or times out, or
\* handle finds no remote endpoint.
UpgradeFails(c) ==
    /\ conn[c] = "task"
    /\ ConnGoto(c, "closing")
    /\ UNCHANGED <<tries, slot, listener, queue, poolVars, sent, downVars>>

(* ConnQueue::handle and on_disconnect, for both directions                *)

\* The slot is dropped when the connection is queued.
EnqueueDropsSlot(c) ==
    /\ conn[c] = "task"
    /\ queue' = Append(queue, c)
    /\ ConnGoto(c, "waiting")
    /\ slot' = slot \ {c}
    /\ UNCHANGED <<tries, listener, poolVars, sent, downVars>>

\* push_back, signal, then await conn_closed_rx.
Enqueue(c) ==
    /\ conn[c] = "task"
    /\ queue' = Append(queue, c)
    /\ ConnGoto(c, "waiting")
    /\ UNCHANGED <<tries, slot, listener, poolVars, sent, downVars>>

\* A sender of the conn_closed channel exists: in the queued connection or in
\* the peer built from it.
SenderAlive(c) ==
    \/ \E i \in 1 .. Len(queue) : queue[i] = c
    \/ loop.c = c
    \/ peers[PidOf[c]] = c
    \/ peer[c] \in {"run", "remove", "close", "emit"}

\* conn_closed_rx.recv() returns a message, or an error once every sender is
\* gone.
HandleReturns(c) ==
    /\ conn[c] = "waiting"
    /\ c \in sent \/ ~SenderAlive(c)
    /\ ConnGoto(c, "closing")
    /\ UNCHANGED <<tries, slot, listener, queue, poolVars, sent, downVars>>

\* on_disconnect that forgets the slot.
DisconnectKeepsSlot(c) ==
    /\ conn[c] = "closing"
    /\ ConnGoto(c, "gone")
    /\ UNCHANGED <<tries, slot, listener, queue, poolVars, sent, downVars>>

\* on_disconnect: notify the monitor, then drop the slot.
Disconnect(c) ==
    /\ conn[c] = "closing"
    /\ ConnGoto(c, "gone")
    /\ slot' = slot \ {c}
    /\ UNCHANGED <<tries, listener, queue, poolVars, sent, downVars>>

----------------------------------------------------------------------------
(* PeerPool::run                                                           *)

LoopNext ==
    /\ loop.at = "next"
    /\ queue # <<>>
    /\ loop' = [at |-> "handshake", c |-> Head(queue)]
    /\ queue' = Tail(queue)
    /\ UNCHANGED <<connVars, peers, peer, sent, downVars>>

\* The handshake fails, or succeeds and access control allows or denies it.
HandshakeEnds ==
    /\ loop.at = "handshake"
    /\ \E l \in {"failed", "denied", "admit"} : LoopGoto(l)
    /\ UNCHANGED <<connVars, queue, peers, peer, sent, downVars>>

\* HandshakeFailed is emitted for both; no id is added or removed.
ReportFailure ==
    /\ loop.at \in {"failed", "denied"}
    /\ LoopGoto("reject")
    /\ UNCHANGED <<connVars, queue, peers, peer, sent, downVars>>

\* conn_closed_tx.send(Err(..)), and the loop goes round.
Reject ==
    /\ loop.at = "reject"
    /\ sent' = sent \cup {loop.c}
    /\ loop' = [at |-> "next", c |-> NoConn]
    /\ UNCHANGED <<connVars, queue, peers, peer, downVars>>

\* new_peer without the contains_peer test.
AdmitAnyway ==
    /\ loop.at = "admit"
    /\ LoopGoto("build")
    /\ UNCHANGED <<connVars, queue, peers, peer, sent, downVars>>

\* new_peer: refuse an id that is already connected.
Admit ==
    /\ loop.at = "admit"
    /\ LoopGoto(IF peers[PidOf[loop.c]] = NoConn THEN "build" ELSE "reject")
    /\ UNCHANGED <<connVars, queue, peers, peer, sent, downVars>>

\* Peer::new sets the wire up, or fails or times out.
BuildPeer ==
    /\ loop.at = "build"
    /\ \E l \in {"insert", "reject"} : LoopGoto(l)
    /\ UNCHANGED <<connVars, queue, peers, peer, sent, downVars>>

\* Insert into the map and spawn the peer's task.  Nothing awaits between.
InsertPeer ==
    /\ loop.at = "insert"
    /\ peers' = [peers EXCEPT ![PidOf[loop.c]] = loop.c]
    /\ PeerGoto(loop.c, "run")
    /\ LoopGoto("added")
    /\ UNCHANGED <<connVars, queue, sent, downVars>>

\* The Added event.
AnnouncePeer ==
    /\ loop.at = "added"
    /\ loop' = [at |-> "next", c |-> NoConn]
    /\ UNCHANGED <<connVars, queue, peers, peer, sent, downVars>>

LoopSteps ==
    \/ LoopNext \/ HandshakeEnds \/ ReportFailure \/ Reject \/ Admit
    \/ BuildPeer \/ InsertPeer \/ AnnouncePeer

----------------------------------------------------------------------------
(* A peer's task: Peer::run, then remove_peer                              *)

\* The remote hangs up, a protocol ends, the wire fails: run returns.
PeerStops(c) ==
    /\ peer[c] = "run"
    /\ PeerGoto(c, "remove")
    /\ UNCHANGED <<connVars, queue, loop, peers, sent, downVars>>

\* remove_peer takes the peer out of the map.  PeerPool::shutdown holds the
\* map's read lock while it closes the peers.
RemovePeer(c) ==
    /\ peer[c] = "remove"
    /\ phase # "close"
    /\ IF peers[PidOf[c]] = NoConn
       THEN /\ PeerGoto(c, "done")
            /\ UNCHANGED peers
       ELSE /\ PeerGoto(c, "close")
            /\ peers' = [peers EXCEPT ![PidOf[c]] = NoConn]
    /\ UNCHANGED <<connVars, queue, loop, sent, downVars>>

\* Peer::shutdown: close the wire, wake ConnQueue::handle, stop the tasks.
ClosePeer(c) ==
    /\ peer[c] = "close"
    /\ sent' = sent \cup {c}
    /\ PeerGoto(c, "emit")
    /\ UNCHANGED <<connVars, queue, loop, peers, downVars>>

\* The Removed event.
AnnounceRemoval(c) ==
    /\ peer[c] = "emit"
    /\ PeerGoto(c, "done")
    /\ UNCHANGED <<connVars, queue, loop, peers, sent, downVars>>

PeerSteps(c) == RemovePeer(c) \/ ClosePeer(c) \/ AnnounceRemoval(c)

----------------------------------------------------------------------------
(* Node::shutdown                                                          *)

\* The tasks of the group that each phase cancels.
GroupOf(ph) ==
    CASE ph = "pool" ->
            {LoopTask} \cup {PeerTask(c) : c \in {d \in Conns :
                peer[d] \in {"run", "remove", "close", "emit"}}}
      [] ph = "connector" ->
            {ConnTask(c) : c \in {d \in Outbound :
                conn[d] \in {"task", "waiting", "closing"}}}
      [] ph = "listener" ->
            {t \in {ListenTask} : listener \in {"acquire", "accept"}}
            \cup {ConnTask(c) : c \in {d \in Conns \ Outbound :
                conn[d] \in {"task", "waiting", "closing"}}}
      [] OTHER -> {}

Enter(ph) ==
    /\ phase' = ph
    /\ doomed' = GroupOf(ph)
    /\ UNCHANGED <<connVars, queue, poolVars>>

\* PeerPool::shutdown begins: its task group is drained.
ShutdownPool ==
    /\ phase = "up"
    /\ Enter("pool")
    /\ UNCHANGED <<sent, stopping>>

\* cancel signals the next task to stop and waits for it.
StopTask ==
    /\ phase # "close"
    /\ stopping = {}
    /\ \E t \in doomed :
          /\ stopping' = {t}
          /\ doomed' = doomed \ {t}
    /\ UNCHANGED <<connVars, queue, poolVars, sent, phase>>

\* The task is past its callback.
TaskOver(t) ==
    \/ t = LoopTask /\ loop.at = "stopped"
    \/ t = ListenTask /\ listener = "stopped"
    \/ \E c \in Conns : t = ConnTask(c) /\ conn[c] = "gone"
    \/ \E c \in Conns : t = PeerTask(c) /\ peer[c] \in {"done", "cancelled"}

TaskStopped ==
    /\ \E t \in stopping : TaskOver(t)
    /\ stopping' = {}
    /\ UNCHANGED <<connVars, queue, poolVars, sent, phase, doomed>>

\* A stopped task is dropped at the await it is in.
LoopCancelled ==
    /\ LoopTask \in stopping
    /\ loop' = [at |-> "stopped", c |-> NoConn]
    /\ UNCHANGED <<connVars, queue, peers, peer, sent, downVars>>

ListenCancelled ==
    /\ ListenTask \in stopping
    /\ listener' = "stopped"
    /\ UNCHANGED <<conn, tries, slot, queue, poolVars, sent, downVars>>

\* The result is Cancelled: the pool's callback does nothing.
PeerCancelled(c) ==
    /\ PeerTask(c) \in stopping
    /\ peer[c] = "run"
    /\ PeerGoto(c, "cancelled")
    /\ UNCHANGED <<connVars, queue, loop, peers, sent, downVars>>

ConnCancelled(c) ==
    /\ ConnTask(c) \in stopping
    /\ conn[c] \in {"task", "waiting"}
    /\ ConnGoto(c, "closing")
    /\ UNCHANGED <<tries, slot, listener, queue, poolVars, sent, downVars>>

Cancelled == doomed = {} /\ stopping = {}

\* The run loop has stopped: take the map's read lock and go through it.
ClosePeers ==
    /\ phase = "pool"
    /\ Cancelled
    /\ phase' = "close"
    /\ doomed' = {PeerTask(c) : c \in {d \in Conns : peers[PidOf[d]] = d}}
    /\ UNCHANGED <<connVars, queue, poolVars, sent, stopping>>

\* The wire is closed but ConnQueue::handle is not told.
ClosePeerInMapSilently(c) ==
    /\ phase = "close"
    /\ PeerTask(c) \in doomed
    /\ doomed' = doomed \ {PeerTask(c)}
    /\ UNCHANGED <<connVars, queue, poolVars, sent, phase, stopping>>

\* Peer::shutdown of one peer of the map.
ClosePeerInMap(c) ==
    /\ phase = "close"
    /\ PeerTask(c) \in doomed
    /\ doomed' = doomed \ {PeerTask(c)}
    /\ sent' = sent \cup {c}
    /\ UNCHANGED <<connVars, queue, poolVars, phase, stopping>>

ShutdownConnector ==
    /\ phase = "close"
    /\ doomed = {}
    /\ Enter("connector")
    /\ UNCHANGED <<sent, stopping>>

ShutdownListener ==
    /\ phase = "connector"
    /\ Cancelled
    /\ Enter("listener")
    /\ UNCHANGED <<sent, stopping>>

ShutdownReturns ==
    /\ phase = "listener"
    /\ Cancelled
    /\ Enter("down")
    /\ UNCHANGED <<sent, stopping>>

ShutdownSteps ==
    \/ StopTask \/ TaskStopped \/ LoopCancelled \/ ListenCancelled
    \/ (\E c \in Conns : PeerCancelled(c))
    \/ ClosePeers \/ (\E c \in Conns : ClosePeerInMap(c))
    \/ ShutdownConnector \/ ShutdownListener \/ ShutdownReturns

ConnSteps(c) ==
    \/ Enqueue(c) \/ HandleReturns(c) \/ Disconnect(c) \/ ConnCancelled(c)

Next ==
    \/ \E c \in Conns :
          \/ Connect(c) \/ DialFails(c) \/ ConnectFails(c) \/ DialSucceeds(c)
          \/ ConnectDropped(c)
          \/ Accept(c) \/ UpgradeFails(c) \/ ConnSteps(c)
          \/ PeerStops(c) \/ PeerSteps(c)
    \/ ListenStarts \/ ListenFails \/ ListenAcquire \/ AcceptFails
    \/ LoopSteps
    \/ ShutdownPool \/ ShutdownSteps

Spec == Init /\ [][Next]_vars

\* Steps that wait for others, perhaps for ever: an event is emitted to a full
\* listener; the map's lock is in the hands of a caller that waits for room in
\* some peer's queue, or of a writer behind it; Peer::shutdown pushes to a full
\* queue of its wire.
LoopWaits == ReportFailure \/ Admit \/ InsertPeer \/ AnnouncePeer
PeerWaits(c) == RemovePeer(c) \/ ClosePeer(c) \/ AnnounceRemoval(c)
ShutdownWaits == ClosePeers \/ \E c \in Conns : ClosePeerInMap(c)

(***************************************************************************)
(* Tasks that can run are polled; the handshake and the wire set-up have   *)
(* timeouts, and the first message of a conn_closed channel finds room.    *)
(* The waits above, remote peers, dials and the call of shutdown are under *)
(* no obligation.                                                          *)
(***************************************************************************)
Fairness ==
    /\ WF_vars(LoopNext \/ HandshakeEnds \/ Reject \/ BuildPeer)
    /\ WF_vars(\/ StopTask \/ TaskStopped \/ LoopCancelled \/ ListenCancelled
               \/ (\E c \in Conns : PeerCancelled(c))
               \/ ShutdownConnector \/ ShutdownListener \/ ShutdownReturns)
    /\ \A c \in Conns : WF_vars(Enqueue(c) \/ HandleReturns(c) \/ ConnCancelled(c))

FairSpec == Spec /\ Fairness

----------------------------------------------------------------------------
(* Properties                                                              *)

\* The peers that run on one side never exceed that side's slots: a slot is
\* held from before the dial or accept until the peer is closed.
PeersWithinSlots ==
    phase = "up" =>
        /\ Cardinality({c \in Outbound : peer[c] = "run"}) <= OutSlots
        /\ Cardinality({c \in Conns \ Outbound : peer[c] = "run"}) <= InSlots

\* The map and the tasks agree: a mapped peer's task runs or is about to
\* remove it, and what a task removes by id is its own peer.
MapMatchesTasks ==
    /\ TypeOK
    /\ \A p \in Pids : peers[p] # NoConn =>
          /\ PidOf[peers[p]] = p
          /\ peer[peers[p]] \in {"run", "remove", "cancelled"}
    /\ \A c \in Conns : peer[c] \in {"run", "remove"} => peers[PidOf[c]] = c

\* After PeerPool::shutdown, every connection that became a peer has been told
\* to close, however far its admission was when shutdown began ("so no new
\* peer can be admitted while we close the ones already in the map").
AdmittedPeersClosed ==
    phase \in {"connector", "listener", "down"} =>
        \A c \in Conns : peer[c] \in {"run", "remove", "cancelled"} => c \in sent

\* The waits of the loop, of the peers' and the connections' tasks and of
\* shutdown end: listeners take their events, and the queues that are pushed to
\* are emptied.
WaitsEnd ==
    /\ WF_vars(LoopWaits)
    /\ WF_vars(ShutdownWaits)
    /\ \A c \in Conns : WF_vars(PeerWaits(c)) /\ WF_vars(Disconnect(c))

\* A connection that left the queue either runs as a peer or gives its slot
\* back, also when shutdown stops its task ("or it keeps its connection slot
\* forever"), provided that the waits on its way end.
SlotReturned ==
    WaitsEnd => \A c \in Conns :
        (loop.c = c \/ peer[c] \in {"remove", "cancelled"})
            ~> (peer[c] = "run" \/ c \notin slot)

=============================================================================
