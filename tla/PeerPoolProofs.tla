-------------------------- MODULE PeerPoolProofs ----------------------------
(***************************************************************************)
(* Proofs about the connections and peers of a node, for any connections,  *)
(* peer ids and numbers of slots, and for every moment at which            *)
(* Node::shutdown begins.                                                  *)
(***************************************************************************)
EXTENDS PeerPool, FiniteSetTheorems, TLAPS

\* Most steps need no arithmetic and are for Zenon; a leaf that does says SMT.
USE Zenon

\* The connection waits in the ConnQueue; or the run loop is handling it and
\* has not inserted it.
Queued(c) == \E i \in 1 .. Len(queue) : queue[i] = c
Handled(c) == loop.c = c /\ loop.at # "added"
Distinct == \A i, j \in 1 .. Len(queue) : queue[i] = queue[j] => i = j

\* The peer is of the map: its task was spawned and has not removed it.
Mapped(c) == peer[c] \in {"run", "remove", "cancelled"}

\* The run loop has a connection unless it waits for one or was stopped.
LoopInv == loop.at \in {"next", "stopped"} <=> loop.c = NoConn

\* A connection is queued once, handled once after that, and becomes a peer
\* once after that.
PlaceInv ==
    /\ Distinct
    /\ \A c \in Conns :
        /\ Queued(c) => ~Handled(c)
        /\ Queued(c) \/ Handled(c) => peer[c] = "none"
        /\ conn[c] \in {"idle", "dialing", "task"} =>
            ~Queued(c) /\ ~Handled(c) /\ peer[c] = "none"

\* The map has the connection of each peer under its id, and what the loop
\* is building has a free place there.
MapInv ==
    /\ \A p \in Pids : peers[p] # NoConn => PidOf[peers[p]] = p /\ Mapped(peers[p])
    /\ \A c \in Conns : Mapped(c) => peers[PidOf[c]] = c
    /\ loop.at \in {"build", "insert"} => peers[PidOf[loop.c]] = NoConn

\* The slots that are taken are no more than there are.
SlotInv ==
    /\ IsFiniteSet(slot)
    /\ OutHeld <= OutSlots
    /\ InHeld <= InSlots

\* Until shutdown begins, a connection on its way to be a peer, or one that
\* runs as a peer, has its slot, and its task waits to be told.
UpInv ==
    /\ \A c \in Conns : conn[c] \in {"dialing", "task"} => c \in slot
    /\ phase = "up" =>
        /\ doomed = {} /\ stopping = {}
        /\ \A c \in Conns :
            /\ Queued(c) \/ Handled(c) \/ peer[c] = "run" =>
                conn[c] = "waiting" /\ c \in slot /\ c \notin sent
            /\ conn[c] \in {"idle", "dialing", "task"} => c \notin sent

\* The run loop is stopped before the map is gone through, and then every peer
\* is in what is left to close or was told.
DownInv ==
    /\ \A s, t \in stopping : s = t
    /\ phase = "pool" => LoopTask \in doomed \cup stopping \/ loop.at = "stopped"
    /\ phase \in {"close", "connector", "listener", "down"} => loop.at = "stopped"
    /\ phase = "close" =>
        \A c \in Conns : Mapped(c) => PeerTask(c) \in doomed \/ c \in sent
    /\ phase \in {"connector", "listener", "down"} =>
        \A c \in Conns : Mapped(c) => c \in sent

----------------------------------------------------------------------------
(* The actions, by the variables they leave alone                          *)

\* A connection's own task, but for Enqueue; the accept loop; the run loop;
\* a peer's task; Node::shutdown.
ConnActs(c) ==
    \/ Connect(c) \/ DialFails(c) \/ ConnectFails(c) \/ ConnectDropped(c)
    \/ DialSucceeds(c) \/ Accept(c) \/ UpgradeFails(c) \/ HandleReturns(c)
    \/ Disconnect(c) \/ ConnCancelled(c)
ListenActs ==
    ListenStarts \/ ListenFails \/ ListenAcquire \/ AcceptFails \/ ListenCancelled
LoopActs == LoopSteps \/ LoopCancelled
PeerActs(c) == PeerStops(c) \/ PeerSteps(c) \/ PeerCancelled(c)
DownActs ==
    \/ ShutdownPool \/ StopTask \/ TaskStopped \/ ClosePeers
    \/ (\E c \in Conns : ClosePeerInMap(c))
    \/ ShutdownConnector \/ ShutdownListener \/ ShutdownReturns

\* Next, as a case split.
LEMMA PoolCases ==
  ASSUME [Next]_vars
  PROVE  \/ \E c \in Conns : ConnActs(c)
         \/ \E c \in Conns : Enqueue(c)
         \/ ListenActs
         \/ LoopActs
         \/ \E c \in Conns : PeerActs(c)
         \/ DownActs
         \/ UNCHANGED vars
BY DEF Next, ConnSteps, ShutdownSteps, ConnActs, ListenActs, LoopActs, PeerActs, DownActs

\* What each group leaves alone.
LEMMA ConnFrame ==
  ASSUME NEW c \in Conns, ConnActs(c)
  PROVE  UNCHANGED <<queue, loop, peers, peer, sent, phase, doomed, stopping>>
BY DEF ConnActs, Connect, DialFails, ConnectFails, ConnectDropped, DialSucceeds, Accept,
       UpgradeFails, HandleReturns, Disconnect, ConnCancelled, poolVars, downVars

\* The accept loop ...
LEMMA ListenFrame ==
  ASSUME ListenActs
  PROVE  UNCHANGED <<conn, tries, slot, queue, loop, peers, peer, sent, phase, doomed,
                     stopping>>
BY DEF ListenActs, ListenStarts, ListenFails, ListenAcquire, AcceptFails, ListenCancelled,
       poolVars, downVars

\* ... the run loop ...
LEMMA LoopFrame ==
  ASSUME LoopActs
  PROVE  UNCHANGED <<conn, tries, slot, listener, phase, doomed, stopping>>
BY DEF LoopActs, LoopSteps, LoopNext, HandshakeEnds, ReportFailure, Reject, Admit,
       BuildPeer, InsertPeer, AnnouncePeer, LoopCancelled, connVars, downVars

\* ... a peer's task ...
LEMMA PeerFrame ==
  ASSUME NEW c \in Conns, PeerActs(c)
  PROVE  UNCHANGED <<conn, tries, slot, listener, queue, loop, phase, doomed, stopping>>
BY DEF PeerActs, PeerStops, PeerSteps, RemovePeer, ClosePeer, AnnounceRemoval,
       PeerCancelled, connVars, downVars

\* ... and shutdown.
LEMMA DownFrame ==
  ASSUME DownActs
  PROVE  UNCHANGED <<conn, tries, slot, listener, queue, loop, peers, peer>>
BY DEF DownActs, ShutdownPool, StopTask, TaskStopped, ClosePeers, ClosePeerInMap,
       ShutdownConnector, ShutdownListener, ShutdownReturns, Enter, connVars, poolVars

----------------------------------------------------------------------------
(* Types                                                                   *)

\* TypeOK in three parts, one for each of the groups above.
ConnType ==
    /\ conn \in [Conns -> ConnPCs]
    /\ slot \subseteq Conns
    /\ listener \in {"off", "acquire", "accept", "stopped"}
TriesType == tries \in [Conns -> 0 .. MaxRetries]
PoolType ==
    /\ queue \in Seq(Conns)
    /\ loop \in [at : LoopPCs, c : Conns \cup {NoConn}]
    /\ LoopInv
    /\ peers \in [Pids -> Conns \cup {NoConn}]
    /\ peer \in [Conns -> PeerPCs]
    /\ sent \subseteq Conns
DownType ==
    /\ phase \in Phases
    /\ doomed \subseteq AllTasks
    /\ stopping \subseteq AllTasks

\* The first connection of the queue, and what remains.
LEMMA TakeFirst ==
  ASSUME NEW q \in Seq(Conns), q # <<>>
  PROVE  /\ Len(q) \in Nat /\ Len(q) > 0
         /\ Head(q) \in Conns /\ Head(q) = q[1]
         /\ Tail(q) \in Seq(Conns) /\ Len(Tail(q)) = Len(q) - 1
         /\ \A i \in 1 .. Len(Tail(q)) : Tail(q)[i] = q[i + 1]
BY SMT

\* Connections and the accept loop keep their types ...
LEMMA ConnTypeStep == ConnType /\ [Next]_vars => ConnType'
<1> SUFFICES ASSUME ConnType, [Next]_vars PROVE ConnType'
  OBVIOUS
<1> USE DEF ConnType
<1>1. ASSUME NEW c \in Conns, ConnActs(c) \/ Enqueue(c) PROVE ConnType'
  BY <1>1 DEF ConnActs, Connect, DialFails, ConnectFails, ConnectDropped, DialSucceeds,
      Accept, UpgradeFails, HandleReturns, Disconnect, ConnCancelled, Enqueue, ConnGoto,
      ConnPCs
<1>2. CASE ListenActs
  BY <1>2 DEF ListenActs, ListenStarts, ListenFails, ListenAcquire, AcceptFails,
      ListenCancelled
<1>3. CASE LoopActs
  BY <1>3, LoopFrame
<1>4. ASSUME NEW c \in Conns, PeerActs(c) PROVE ConnType'
  BY <1>4, PeerFrame
<1>5. CASE DownActs
  BY <1>5, DownFrame
<1>6. CASE UNCHANGED vars
  BY <1>6 DEF vars
<1> QED BY <1>1, <1>2, <1>3, <1>4, <1>5, <1>6, PoolCases

\* ... and the retries of a connect call never pass max_retries ...
LEMMA TriesTypeStep == TriesType /\ [Next]_vars => TriesType'
<1> SUFFICES ASSUME TriesType, [Next]_vars PROVE TriesType'
  OBVIOUS
<1> USE SlotsAssumption DEF TriesType
<1>1. ASSUME NEW c \in Conns, DialFails(c) PROVE TriesType'
  BY <1>1, SMT DEF DialFails
<1>2. ASSUME NEW c \in Conns, ConnActs(c), ~DialFails(c) PROVE TriesType'
  BY <1>2, SMT DEF ConnActs, Connect, ConnectFails, ConnectDropped, DialSucceeds, Accept,
      UpgradeFails, HandleReturns, Disconnect, ConnCancelled
<1>3. ASSUME NEW c \in Conns, Enqueue(c) PROVE TriesType'
  BY <1>3 DEF Enqueue
<1>4. CASE ListenActs \/ LoopActs \/ DownActs
  BY <1>4, ListenFrame, LoopFrame, DownFrame
<1>5. ASSUME NEW c \in Conns, PeerActs(c) PROVE TriesType'
  BY <1>5, PeerFrame
<1>6. CASE UNCHANGED vars
  BY <1>6 DEF vars
<1> QED BY <1>1, <1>2, <1>3, <1>4, <1>5, <1>6, PoolCases

\* ... and so do the queue, the run loop and the peers ...
LEMMA PoolTypeStep == PoolType /\ [Next]_vars => PoolType'
<1> SUFFICES ASSUME PoolType, [Next]_vars PROVE PoolType'
  OBVIOUS
<1> USE ConnsAssumption DEF PoolType, LoopInv, LoopPCs, PeerPCs
<1>1. ASSUME NEW c \in Conns, ConnActs(c) PROVE PoolType'
  BY <1>1, ConnFrame
<1>2. ASSUME NEW c \in Conns, Enqueue(c) PROVE PoolType'
  BY <1>2, SMT DEF Enqueue, poolVars
<1>3. CASE ListenActs
  BY <1>3, ListenFrame
<1>4. CASE LoopNext
  BY <1>4, TakeFirst DEF LoopNext
<1>5. CASE HandshakeEnds \/ ReportFailure \/ Admit \/ BuildPeer
  BY <1>5 DEF HandshakeEnds, ReportFailure, Admit, BuildPeer, LoopGoto
<1>6. CASE Reject
  BY <1>6 DEF Reject
<1>7. CASE InsertPeer
  BY <1>7 DEF InsertPeer, LoopGoto, PeerGoto
<1>8. CASE AnnouncePeer \/ LoopCancelled
  BY <1>8, SMT DEF AnnouncePeer, LoopCancelled
<1>9. ASSUME NEW c \in Conns, PeerActs(c) PROVE PoolType'
  BY <1>9 DEF PeerActs, PeerStops, PeerSteps, RemovePeer, ClosePeer, AnnounceRemoval,
      PeerCancelled, PeerGoto
<1>10. CASE DownActs
  <2>1. sent' \subseteq Conns
    BY <1>10 DEF DownActs, ShutdownPool, StopTask, TaskStopped, ClosePeers, ClosePeerInMap,
       ShutdownConnector, ShutdownListener, ShutdownReturns
  <2> QED BY <1>10, <2>1, DownFrame
<1>11. CASE UNCHANGED vars
  BY <1>11 DEF vars
<1> QED BY <1>1, <1>2, <1>3, <1>4, <1>5, <1>6, <1>7, <1>8, <1>9, <1>10, <1>11, PoolCases
        DEF LoopActs, LoopSteps

\* ... and what shutdown has to do is to stop tasks of the node.
LEMMA DownTypeStep == DownType /\ [Next]_vars => DownType'
<1> SUFFICES ASSUME DownType, [Next]_vars PROVE DownType'
  OBVIOUS
<1> USE DEF DownType, Phases
<1>1. ASSUME NEW c \in Conns, ConnActs(c) PROVE DownType'
  BY <1>1, ConnFrame
<1>2. ASSUME NEW c \in Conns, Enqueue(c) PROVE DownType'
  BY <1>2 DEF Enqueue, downVars
<1>3. CASE ListenActs \/ LoopActs
  BY <1>3, ListenFrame, LoopFrame
<1>4. ASSUME NEW c \in Conns, PeerActs(c) PROVE DownType'
  BY <1>4, PeerFrame
<1>5. CASE StopTask \/ TaskStopped \/ \E c \in Conns : ClosePeerInMap(c)
  BY <1>5 DEF StopTask, TaskStopped, ClosePeerInMap
<1>6. CASE ClosePeers
  BY <1>6 DEF ClosePeers, AllTasks
<1>7. CASE ShutdownPool \/ ShutdownConnector \/ ShutdownListener \/ ShutdownReturns
  <2>1. \A ph \in Phases : GroupOf(ph) \subseteq AllTasks
    BY ConnsAssumption DEF GroupOf, AllTasks
  <2> QED BY <1>7, <2>1 DEF ShutdownPool, ShutdownConnector, ShutdownListener,
             ShutdownReturns, Enter
<1>8. CASE UNCHANGED vars
  BY <1>8 DEF vars
<1> QED BY <1>1, <1>2, <1>3, <1>4, <1>5, <1>6, <1>7, <1>8, PoolCases DEF DownActs

----------------------------------------------------------------------------
(* Where a connection is                                                   *)

\* Everything has its type.
TypeInv == ConnType /\ TriesType /\ PoolType /\ DownType

\* The queue after push_back ...
LEMMA PushQueue ==
  ASSUME NEW c \in Conns, queue \in Seq(Conns), queue' = Append(queue, c)
  PROVE  /\ \A d \in Conns : Queued(d)' <=> Queued(d) \/ d = c
         /\ Distinct /\ ~Queued(c) => Distinct'
<1>1. /\ Len(queue) \in Nat /\ Len(queue') = Len(queue) + 1
      /\ \A i \in 1 .. Len(queue) : queue'[i] = queue[i]
      /\ queue'[Len(queue) + 1] = c
  BY SMT
<1>2. ASSUME NEW d \in Conns PROVE Queued(d)' <=> Queued(d) \/ d = c
  BY <1>1, SMT DEF Queued
<1>3. ASSUME ~Queued(c), Distinct,
             NEW i \in 1 .. Len(queue'), NEW j \in 1 .. Len(queue'), queue'[i] = queue'[j]
      PROVE  i = j
  BY <1>1, <1>3, SMT DEF Queued, Distinct
<1> QED BY <1>2, <1>3 DEF Distinct

\* ... and after pop_front.
LEMMA TakeQueue ==
  ASSUME NEW c \in Conns, queue \in Seq(Conns), queue # <<>>, c = Head(queue),
         queue' = Tail(queue), Distinct
  PROVE  /\ Queued(c) /\ ~Queued(c)'
         /\ \A d \in Conns : Queued(d)' => Queued(d)
         /\ Distinct'
<1>1. /\ Len(queue) \in Nat /\ Len(queue) > 0 /\ Len(queue') = Len(queue) - 1
      /\ c = queue[1]
      /\ \A i \in 1 .. Len(queue') : queue'[i] = queue[i + 1]
  BY TakeFirst
<1>2. \A i \in 1 .. Len(queue') : i + 1 \in 1 .. Len(queue) /\ i + 1 # 1
  BY <1>1, SMT
<1>3. 1 \in 1 .. Len(queue)
  BY <1>1, SMT
<1>4. Queued(c)
  BY <1>1, <1>3 DEF Queued
<1>5. ~Queued(c)'
  BY <1>1, <1>2, <1>3 DEF Queued, Distinct
<1>6. ASSUME NEW d \in Conns, Queued(d)' PROVE Queued(d)
  BY <1>1, <1>2, <1>6 DEF Queued
<1>7. Distinct'
  <2>1. ASSUME NEW i \in 1 .. Len(queue'), NEW j \in 1 .. Len(queue'), queue'[i] = queue'[j]
        PROVE  i + 1 = j + 1
    BY <1>1, <1>2, <2>1, SMT DEF Distinct
  <2> QED BY <2>1, SMT DEF Distinct
<1> QED BY <1>4, <1>5, <1>6, <1>7

\* A queue that nobody touches.
LEMMA SameQueue ==
  ASSUME queue' = queue
  PROVE  (Distinct' <=> Distinct) /\ \A c \in Conns : Queued(c)' <=> Queued(c)
BY DEF Distinct, Queued

\* What LoopNext does with the first connection of the queue.
LEMMA LoopTakes ==
  ASSUME TypeInv, Distinct, LoopNext, NEW c \in Conns, c = Head(queue)
  PROVE  /\ loop'.c = c /\ loop'.at = "handshake"
         /\ Queued(c) /\ ~Queued(c)' /\ Distinct'
         /\ \A d \in Conns : Queued(d)' => Queued(d)
         /\ UNCHANGED <<conn, peers, peer, sent>>
<1>1. queue \in Seq(Conns) /\ queue # <<>> /\ queue' = Tail(queue)
  BY DEF TypeInv, PoolType, LoopNext
<1>2. loop'.c = c /\ loop'.at = "handshake" /\ UNCHANGED <<conn, peers, peer, sent>>
  BY DEF LoopNext, connVars
<1> QED BY <1>1, <1>2, TakeQueue

\* The steps of the loop that neither take a connection nor insert a peer
\* keep the connection they handle or let go of it.
LEMMA LoopKeeps ==
  ASSUME TypeInv, LoopActs, ~LoopNext, ~InsertPeer
  PROVE  /\ UNCHANGED <<conn, queue, peers, peer>>
         /\ \A c \in Conns : Handled(c)' => Handled(c)
BY ConnsAssumption, SMT
   DEF TypeInv, PoolType, LoopInv, LoopPCs, LoopActs, LoopSteps, HandshakeEnds,
       ReportFailure, Reject, Admit, BuildPeer, AnnouncePeer, LoopCancelled, LoopGoto,
       Handled, connVars

\* What InsertPeer does.
LEMMA LoopInserts ==
  ASSUME TypeInv, InsertPeer
  PROVE  \E c \in Conns : /\ loop.c = c /\ loop.at = "insert" /\ Handled(c)
                         /\ peer' = [peer EXCEPT ![c] = "run"]
                         /\ peers' = [peers EXCEPT ![PidOf[c]] = c]
                         /\ loop'.at = "added"
                         /\ \A d \in Conns : ~Handled(d)'
                         /\ UNCHANGED <<conn, queue, sent>>
<1>1. loop.c \in Conns /\ loop.at = "insert"
  BY DEF TypeInv, PoolType, LoopInv, InsertPeer
<1>2. PICK c \in Conns : c = loop.c
  BY <1>1
<1>3. loop'.at = "added"
  BY DEF InsertPeer, LoopGoto, TypeInv, PoolType
<1>4. \A d \in Conns : ~Handled(d)'
  BY <1>3 DEF Handled
<1> QED BY <1>1, <1>2, <1>3, <1>4 DEF InsertPeer, PeerGoto, Handled, connVars

\* Every step preserves PlaceInv: nobody puts a connection back.
LEMMA PlaceStep == TypeInv /\ PlaceInv /\ [Next]_vars => PlaceInv'
<1> SUFFICES ASSUME TypeInv, PlaceInv, [Next]_vars PROVE PlaceInv'
  OBVIOUS
<1>1. conn \in [Conns -> ConnPCs] /\ peer \in [Conns -> PeerPCs] /\ queue \in Seq(Conns)
  BY DEF TypeInv, ConnType, PoolType
<1>2. ASSUME NEW c \in Conns, ConnActs(c) PROVE PlaceInv'
  <2>1. UNCHANGED <<queue, loop, peer>>
    BY <1>2, ConnFrame
  <2>2. \A d \in Conns : conn'[d] \in {"idle", "dialing", "task"} =>
                           conn[d] \in {"idle", "dialing", "task"}
    BY <1>1, <1>2 DEF ConnActs, Connect, DialFails, ConnectFails, ConnectDropped,
        DialSucceeds, Accept, UpgradeFails, HandleReturns, Disconnect, ConnCancelled, ConnGoto
  <2> QED BY <2>1, <2>2, SameQueue DEF PlaceInv, Handled
<1>3. ASSUME NEW c \in Conns, Enqueue(c) PROVE PlaceInv'
  <2>1. /\ conn[c] = "task" /\ conn' = [conn EXCEPT ![c] = "waiting"]
        /\ queue' = Append(queue, c) /\ UNCHANGED <<loop, peer>>
    BY <1>3 DEF Enqueue, ConnGoto, poolVars
  <2>2. ~Queued(c)
    BY <2>1 DEF PlaceInv
  <2>3. Distinct' /\ \A d \in Conns : Queued(d)' <=> Queued(d) \/ d = c
    BY <1>1, <2>1, <2>2, PushQueue DEF PlaceInv
  <2> QED BY <1>1, <2>1, <2>3 DEF PlaceInv, Handled
<1>4. CASE ListenActs
  BY <1>4, ListenFrame, SameQueue DEF PlaceInv, Handled
<1>5. CASE LoopNext
  <2> Distinct
    BY DEF PlaceInv
  <2>1. PICK c \in Conns : c = Head(queue)
    BY <1>1, <1>5, TakeFirst DEF LoopNext
  <2>2. /\ loop'.c = c /\ loop'.at = "handshake"
        /\ Queued(c) /\ ~Queued(c)' /\ Distinct'
        /\ \A d \in Conns : Queued(d)' => Queued(d)
        /\ UNCHANGED <<conn, peer>>
    BY <1>5, <2>1, LoopTakes
  <2>3. \A d \in Conns : Handled(d)' <=> d = c
    BY <2>2 DEF Handled
  <2> QED BY <2>2, <2>3 DEF PlaceInv
<1>6. CASE LoopActs /\ ~LoopNext /\ ~InsertPeer
  BY <1>6, LoopKeeps, SameQueue DEF PlaceInv
<1>7. CASE InsertPeer
  <2>1. PICK c \in Conns : /\ Handled(c) /\ peer' = [peer EXCEPT ![c] = "run"]
                           /\ \A d \in Conns : ~Handled(d)'
                           /\ UNCHANGED <<conn, queue>>
    BY <1>7, LoopInserts
  <2> QED BY <1>1, <2>1, SameQueue DEF PlaceInv
<1>8. ASSUME NEW c \in Conns, PeerActs(c) PROVE PlaceInv'
  <2>1. UNCHANGED <<conn, queue, loop>>
    BY <1>8, PeerFrame
  <2>2. peer[c] # "none" /\ \A d \in Conns : d # c => peer'[d] = peer[d]
    BY <1>1, <1>8 DEF PeerActs, PeerStops, PeerSteps, RemovePeer, ClosePeer,
        AnnounceRemoval, PeerCancelled, PeerGoto
  <2> QED BY <2>1, <2>2, SameQueue DEF PlaceInv, Handled
<1>9. CASE DownActs
  BY <1>9, DownFrame, SameQueue DEF PlaceInv, Handled
<1>10. CASE UNCHANGED vars
  BY <1>10, SameQueue DEF vars, PlaceInv, Handled
<1> QED BY <1>2, <1>3, <1>4, <1>5, <1>6, <1>7, <1>8, <1>9, <1>10, PoolCases

----------------------------------------------------------------------------
(* The map of peers                                                        *)

\* Every step preserves MapInv: an id is inserted where there is none, and
\* taken out by the task of the peer that is there.
LEMMA MapStep == TypeInv /\ PlaceInv /\ MapInv /\ [Next]_vars => MapInv'
<1> SUFFICES ASSUME TypeInv, PlaceInv, MapInv, [Next]_vars PROVE MapInv'
  OBVIOUS
<1>1. /\ peers \in [Pids -> Conns \cup {NoConn}] /\ peer \in [Conns -> PeerPCs]
      /\ loop \in [at : LoopPCs, c : Conns \cup {NoConn}] /\ LoopInv
  BY DEF TypeInv, PoolType
<1> USE ConnsAssumption DEF Mapped
<1>2. CASE UNCHANGED <<loop, peers, peer>>
  BY <1>2 DEF MapInv
<1>3. CASE LoopNext
  BY <1>3 DEF MapInv, LoopNext
<1>4. CASE LoopActs /\ ~LoopNext /\ ~InsertPeer
  <2>1. UNCHANGED <<peers, peer>>
    BY <1>4, LoopKeeps
  <2>2. loop'.at \in {"build", "insert"} => peers[PidOf[loop'.c]] = NoConn
    BY <1>1, <1>4, SMT DEF MapInv, LoopActs, LoopSteps, HandshakeEnds, ReportFailure, Reject,
        Admit, BuildPeer, AnnouncePeer, LoopCancelled, LoopGoto
  <2> QED BY <2>1, <2>2 DEF MapInv
<1>5. CASE InsertPeer
  <2>1. PICK c \in Conns : /\ loop.c = c /\ loop.at = "insert" /\ Handled(c)
                           /\ peer' = [peer EXCEPT ![c] = "run"]
                           /\ peers' = [peers EXCEPT ![PidOf[c]] = c]
                           /\ loop'.at = "added"
    BY <1>5, LoopInserts
  <2>2. peers[PidOf[c]] = NoConn /\ peer[c] = "none"
    BY <2>1 DEF MapInv, PlaceInv
  <2> QED BY <1>1, <2>1, <2>2, SMT DEF MapInv
<1>6. ASSUME NEW c \in Conns, PeerStops(c) \/ PeerCancelled(c) PROVE MapInv'
  BY <1>1, <1>6, SMT DEF MapInv, PeerStops, PeerCancelled, PeerGoto
<1>7. ASSUME NEW c \in Conns, RemovePeer(c) PROVE MapInv'
  <2>1. peer[c] = "remove" /\ peers[PidOf[c]] = c
    BY <1>7 DEF RemovePeer, MapInv
  <2>2. /\ peer' = [peer EXCEPT ![c] = "close"] /\ loop' = loop
        /\ peers' = [peers EXCEPT ![PidOf[c]] = NoConn]
    BY <1>7, <2>1 DEF RemovePeer, PeerGoto
  <2> QED BY <1>1, <2>1, <2>2, SMT DEF MapInv
<1>8. ASSUME NEW c \in Conns, ClosePeer(c) \/ AnnounceRemoval(c) PROVE MapInv'
  BY <1>1, <1>8, SMT DEF MapInv, ClosePeer, AnnounceRemoval, PeerGoto
<1>9. ASSUME NEW c \in Conns, ConnActs(c) \/ Enqueue(c) PROVE UNCHANGED <<loop, peers, peer>>
  BY <1>9, ConnFrame DEF Enqueue, poolVars
<1> QED BY <1>2, <1>3, <1>4, <1>5, <1>6, <1>7, <1>8, <1>9, PoolCases, ListenFrame, DownFrame
        DEF PeerActs, PeerSteps, vars

----------------------------------------------------------------------------
(* Slots                                                                   *)

\* One element more or less.
LEMMA OneMore ==
  ASSUME NEW S, IsFiniteSet(S), NEW c
  PROVE  /\ IsFiniteSet(S \cup {c}) /\ IsFiniteSet(S \ {c})
         /\ Cardinality(S) \in Nat
         /\ Cardinality(S \cup {c}) \in Nat /\ Cardinality(S \cup {c}) <= Cardinality(S) + 1
         /\ Cardinality(S \ {c}) \in Nat /\ Cardinality(S \ {c}) <= Cardinality(S)
<1>1. Cardinality(S) \in Nat
  BY FS_CardinalityType
<1>2. IsFiniteSet(S \cup {c}) /\ Cardinality(S \cup {c}) \in {Cardinality(S), Cardinality(S) + 1}
  BY FS_AddElement
<1>3. IsFiniteSet(S \ {c}) /\ Cardinality(S \ {c}) \in {Cardinality(S), Cardinality(S) - 1}
  BY FS_RemoveElement
<1>4. Cardinality(S \ {c}) \in Nat
  BY <1>3, FS_CardinalityType
<1> QED BY <1>1, <1>2, <1>3, <1>4, SMT

\* The slots of each side are finite sets.
LEMMA SidesFinite ==
  ASSUME SlotInv
  PROVE  /\ IsFiniteSet(slot \cap Outbound) /\ Cardinality(slot \cap Outbound) \in Nat
         /\ IsFiniteSet(slot \ Outbound) /\ Cardinality(slot \ Outbound) \in Nat
<1>1. IsFiniteSet(slot \cap Outbound) /\ IsFiniteSet(slot \ Outbound)
  BY FS_Subset DEF SlotInv
<1> QED BY <1>1, FS_CardinalityType

\* A dropped slot of either side.
LEMMA SlotDropped ==
  ASSUME SlotInv, NEW c \in Conns, slot' = slot \ {c}, listener' = listener
  PROVE  SlotInv'
<1>1. slot' \cap Outbound = (slot \cap Outbound) \ {c} /\ slot' \ Outbound = (slot \ Outbound) \ {c}
  OBVIOUS
<1>2. IsFiniteSet(slot')
  BY OneMore DEF SlotInv
<1>3. Cardinality(slot' \cap Outbound) \in Nat
      /\ Cardinality(slot' \cap Outbound) <= Cardinality(slot \cap Outbound)
  BY <1>1, SidesFinite, OneMore
<1>4. Cardinality(slot' \ Outbound) \in Nat
      /\ Cardinality(slot' \ Outbound) <= Cardinality(slot \ Outbound)
  BY <1>1, SidesFinite, OneMore
<1>5. OutHeld' <= OutSlots
  BY <1>3, SidesFinite, SlotsAssumption, SMT DEF SlotInv, OutHeld
<1>6. InHeld' <= InSlots
  BY <1>4, SidesFinite, SlotsAssumption, SMT DEF SlotInv, InHeld
<1> QED BY <1>2, <1>5, <1>6 DEF SlotInv

\* Every step preserves SlotInv: a slot is acquired only when one is free, and
\* handed over from the accept loop to the connection's task.
LEMMA SlotStep == SlotInv /\ [Next]_vars => SlotInv'
<1> SUFFICES ASSUME SlotInv, [Next]_vars PROVE SlotInv'
  OBVIOUS
<1>1. CASE UNCHANGED <<slot, listener>>
  BY <1>1 DEF SlotInv, OutHeld, InHeld
<1>2. ASSUME NEW c \in Conns, Connect(c) PROVE SlotInv'
  <2>1. /\ c \in Outbound /\ slot' = slot \cup {c} /\ listener' = listener
        /\ Cardinality(slot \cap Outbound) < OutSlots
    BY <1>2 DEF Connect, OutHeld
  <2>2. slot' \cap Outbound = (slot \cap Outbound) \cup {c} /\ slot' \ Outbound = slot \ Outbound
    BY <2>1
  <2>3. IsFiniteSet(slot')
    BY <2>1, OneMore DEF SlotInv
  <2>4. /\ Cardinality(slot' \cap Outbound) \in Nat
        /\ Cardinality(slot' \cap Outbound) <= Cardinality(slot \cap Outbound) + 1
    BY <2>2, SidesFinite, OneMore
  <2>5. OutHeld' <= OutSlots
    BY <2>1, <2>4, SidesFinite, SlotsAssumption, SMT DEF OutHeld
  <2>6. InHeld' <= InSlots
    BY <2>1, <2>2 DEF SlotInv, InHeld
  <2> QED BY <2>3, <2>5, <2>6 DEF SlotInv
<1>3. ASSUME NEW c \in Conns, ConnectFails(c) \/ ConnectDropped(c) \/ Disconnect(c)
      PROVE  SlotInv'
  BY <1>3, SlotDropped DEF ConnectFails, ConnectDropped, Disconnect
<1>4. ASSUME NEW c \in Conns, Accept(c) PROVE SlotInv'
  <2>1. /\ c \notin Outbound /\ slot' = slot \cup {c}
        /\ listener = "accept" /\ listener' = "acquire"
    BY <1>4 DEF Accept
  <2>2. slot' \cap Outbound = slot \cap Outbound /\ slot' \ Outbound = (slot \ Outbound) \cup {c}
    BY <2>1
  <2>3. IsFiniteSet(slot')
    BY <2>1, OneMore DEF SlotInv
  <2>4. /\ Cardinality(slot' \ Outbound) \in Nat
        /\ Cardinality(slot' \ Outbound) <= Cardinality(slot \ Outbound) + 1
    BY <2>2, SidesFinite, OneMore
  <2>5. OutHeld' <= OutSlots
    BY <2>2 DEF SlotInv, OutHeld
  <2>6. Cardinality(slot \ Outbound) + 1 <= InSlots
    BY <2>1 DEF SlotInv, InHeld
  <2>7. InHeld' = Cardinality(slot' \ Outbound)
    BY <2>1, <2>4, SMT DEF InHeld
  <2>8. InHeld' <= InSlots
    BY <2>4, <2>6, <2>7, SidesFinite, SlotsAssumption, SMT
  <2> QED BY <2>3, <2>5, <2>8 DEF SlotInv
<1>5. CASE ListenActs
  <2>1. slot' = slot
    BY <1>5, ListenFrame
  <2>2. listener' = "accept" => InHeld < InSlots /\ listener # "accept"
    BY <1>5 DEF ListenActs, ListenStarts, ListenFails, ListenAcquire, AcceptFails,
        ListenCancelled
  <2>3. InHeld' <= InSlots
    BY <2>1, <2>2, SidesFinite, SlotsAssumption, SMT DEF SlotInv, InHeld
  <2> QED BY <2>1, <2>3 DEF SlotInv, OutHeld
<1>6. ASSUME NEW c \in Conns,
             \/ DialFails(c) \/ DialSucceeds(c) \/ UpgradeFails(c) \/ HandleReturns(c)
             \/ ConnCancelled(c) \/ Enqueue(c) \/ PeerActs(c)
      PROVE  UNCHANGED <<slot, listener>>
  BY <1>6, PeerFrame
     DEF DialFails, DialSucceeds, UpgradeFails, HandleReturns, ConnCancelled, Enqueue
<1> QED BY <1>1, <1>2, <1>3, <1>4, <1>5, <1>6, PoolCases, LoopFrame, DownFrame DEF ConnActs, vars

\* Every step preserves UpInv: as long as the node is up, nobody is told to
\* close whose peer runs, and the wait for that word is what keeps the slot.
LEMMA UpStep == TypeInv /\ PlaceInv /\ UpInv /\ [Next]_vars => UpInv'
<1> SUFFICES ASSUME TypeInv, PlaceInv, UpInv, [Next]_vars PROVE UpInv'
  OBVIOUS
<1>1. conn \in [Conns -> ConnPCs] /\ peer \in [Conns -> PeerPCs] /\ queue \in Seq(Conns)
  BY DEF TypeInv, ConnType, PoolType
<1>2. ASSUME NEW c \in Conns, ConnActs(c) PROVE UpInv'
  <2>1. UNCHANGED <<queue, loop, peers, peer, sent, phase, doomed, stopping>>
    BY <1>2, ConnFrame
  <2>2. \A d \in Conns : (Queued(d)' <=> Queued(d)) /\ (Handled(d)' <=> Handled(d))
    BY <2>1, SameQueue DEF Handled
  <2>3. \A d \in Conns : d # c => conn'[d] = conn[d] /\ (d \in slot' <=> d \in slot)
    BY <1>1, <1>2 DEF ConnActs, Connect, DialFails, ConnectFails, ConnectDropped,
        DialSucceeds, Accept, UpgradeFails, HandleReturns, Disconnect, ConnCancelled, ConnGoto
  <2>4. conn'[c] \in {"dialing", "task"} => c \in slot'
    BY <1>1, <1>2 DEF UpInv, ConnActs, Connect, DialFails, ConnectFails, ConnectDropped,
        DialSucceeds, Accept, UpgradeFails, HandleReturns, Disconnect, ConnCancelled, ConnGoto
  <2>5. conn'[c] \in {"idle", "dialing", "task"} => conn[c] \in {"idle", "dialing", "task"}
    BY <1>1, <1>2 DEF ConnActs, Connect, DialFails, ConnectFails, ConnectDropped,
        DialSucceeds, Accept, UpgradeFails, HandleReturns, Disconnect, ConnCancelled, ConnGoto
  <2>6. ASSUME phase = "up", Queued(c) \/ Handled(c) \/ peer[c] = "run"
        PROVE  FALSE
    <3>1. conn[c] = "waiting" /\ c \notin sent /\ stopping = {}
      BY <2>6 DEF UpInv
    <3>2. SenderAlive(c)
      BY <2>6 DEF SenderAlive, Queued, Handled
    <3> QED BY <1>2, <3>1, <3>2 DEF ConnActs, Connect, DialFails, ConnectFails,
        ConnectDropped, DialSucceeds, Accept, UpgradeFails, HandleReturns, Disconnect,
        ConnCancelled
  <2> QED BY <2>1, <2>2, <2>3, <2>4, <2>5, <2>6 DEF UpInv
<1>3. ASSUME NEW c \in Conns, Enqueue(c) PROVE UpInv'
  <2>1. /\ conn[c] = "task" /\ conn' = [conn EXCEPT ![c] = "waiting"]
        /\ queue' = Append(queue, c)
        /\ UNCHANGED <<slot, loop, peer, sent, phase, doomed, stopping>>
    BY <1>3 DEF Enqueue, ConnGoto, poolVars, downVars
  <2>2. \A d \in Conns : (Queued(d)' <=> Queued(d) \/ d = c) /\ (Handled(d)' <=> Handled(d))
    BY <1>1, <2>1, PushQueue DEF Handled
  <2> QED BY <1>1, <2>1, <2>2 DEF UpInv
<1>4. CASE ListenActs
  BY <1>4, ListenFrame, SameQueue DEF UpInv, Handled
<1>5. CASE LoopNext
  <2> Distinct
    BY DEF PlaceInv
  <2>1. PICK c \in Conns : c = Head(queue)
    BY <1>1, <1>5, TakeFirst DEF LoopNext
  <2>2. /\ loop'.c = c /\ Queued(c)
        /\ \A d \in Conns : Queued(d)' => Queued(d)
        /\ UNCHANGED <<conn, peer, sent>>
    BY <1>5, <2>1, LoopTakes
  <2>3. \A d \in Conns : Handled(d)' => d = c
    BY <2>2 DEF Handled
  <2>4. UNCHANGED <<slot, phase, doomed, stopping>>
    BY <1>5 DEF LoopNext, connVars, downVars
  <2> QED BY <2>2, <2>3, <2>4 DEF UpInv
<1>6. CASE LoopActs /\ ~LoopNext /\ ~InsertPeer
  <2>1. /\ UNCHANGED <<conn, slot, queue, peer, phase, doomed, stopping>>
        /\ \A d \in Conns : Handled(d)' => Handled(d)
    BY <1>6, LoopKeeps, LoopFrame
  <2>2. \A d \in Conns : d \in sent' =>
            d \in sent \/ (loop.c = d /\ loop.at = "reject" /\ loop'.c # d)
    <3>1. \/ sent' = sent
          \/ loop.at = "reject" /\ loop'.c = NoConn /\ sent' = sent \cup {loop.c}
      BY <1>6, SMT DEF LoopActs, LoopSteps, HandshakeEnds, ReportFailure, Reject, Admit,
          BuildPeer, AnnouncePeer, LoopCancelled
    <3> QED BY <3>1, ConnsAssumption
  <2>3. \A d \in Conns : Handled(d) =>
            /\ ~Queued(d) /\ peer[d] = "none" /\ conn[d] \notin {"idle", "dialing", "task"}
    BY DEF PlaceInv
  <2>4. \A d \in Conns : Queued(d)' <=> Queued(d)
    BY <2>1, SameQueue
  <2>5. \A d \in Conns : d \in sent' => d \in sent \/ Handled(d)
    BY <2>2 DEF Handled
  <2>6. \A d \in Conns : d \in sent' /\ d \notin sent => ~Handled(d)'
    BY <2>2 DEF Handled
  <2> QED BY <2>1, <2>3, <2>4, <2>5, <2>6 DEF UpInv
<1>7. CASE InsertPeer
  <2>1. PICK c \in Conns : /\ Handled(c) /\ peer' = [peer EXCEPT ![c] = "run"]
                           /\ \A d \in Conns : ~Handled(d)'
                           /\ UNCHANGED <<conn, queue, sent>>
    BY <1>7, LoopInserts
  <2>2. UNCHANGED <<slot, phase, doomed, stopping>>
    BY <1>7 DEF InsertPeer, connVars, downVars
  <2>3. \A d \in Conns : Queued(d)' <=> Queued(d)
    BY <2>1, SameQueue
  <2> QED BY <1>1, <2>1, <2>2, <2>3 DEF UpInv
<1>8. ASSUME NEW c \in Conns, PeerActs(c) PROVE UpInv'
  <2>1. UNCHANGED <<conn, slot, queue, loop, phase, doomed, stopping>>
    BY <1>8, PeerFrame
  <2>2. /\ peer[c] # "none" /\ peer'[c] # "run"
        /\ \A d \in Conns : d # c => peer'[d] = peer[d] /\ (d \in sent' <=> d \in sent)
    BY <1>1, <1>8 DEF PeerActs, PeerStops, PeerSteps, RemovePeer, ClosePeer,
        AnnounceRemoval, PeerCancelled, PeerGoto
  <2>3. ~Queued(c) /\ ~Handled(c) /\ conn[c] \notin {"idle", "dialing", "task"}
    BY <2>2 DEF PlaceInv
  <2>4. \A d \in Conns : (Queued(d)' <=> Queued(d)) /\ (Handled(d)' <=> Handled(d))
    BY <2>1, SameQueue DEF Handled
  <2> QED BY <2>1, <2>2, <2>3, <2>4 DEF UpInv
<1>9. CASE DownActs
  <2>1. UNCHANGED <<conn, slot>>
    BY <1>9, DownFrame
  <2>2. phase' # "up"
    BY <1>9 DEF DownActs, ShutdownPool, StopTask, TaskStopped, ClosePeers, ClosePeerInMap,
        ShutdownConnector, ShutdownListener, ShutdownReturns, Enter, UpInv
  <2> QED BY <2>1, <2>2 DEF UpInv
<1>10. CASE UNCHANGED vars
  BY <1>10, SameQueue DEF vars, UpInv, Handled
<1> QED BY <1>2, <1>3, <1>4, <1>5, <1>6, <1>7, <1>8, <1>9, <1>10, PoolCases

----------------------------------------------------------------------------
(* Shutdown                                                                *)

\* The names of the tasks differ.
LEMMA TaskNames ==
  /\ LoopTask # ListenTask
  /\ \A c \in Conns : LoopTask # ConnTask(c) /\ LoopTask # PeerTask(c)
  /\ \A c, d \in Conns : PeerTask(c) = PeerTask(d) => c = d
BY DEF LoopTask, ListenTask, ConnTask, PeerTask

\* Once the run loop is stopped nobody becomes a peer.
LEMMA NoNewPeer ==
  ASSUME TypeInv, PlaceInv, [Next]_vars, loop.at = "stopped"
  PROVE  loop'.at = "stopped" /\ \A c \in Conns : Mapped(c)' => Mapped(c)
<1>1. peer \in [Conns -> PeerPCs]
  BY DEF TypeInv, PoolType
<1>2. CASE UNCHANGED <<loop, peer>>
  BY <1>2 DEF Mapped
<1>3. CASE LoopActs
  BY <1>3, SMT DEF LoopActs, LoopSteps, LoopNext, HandshakeEnds, ReportFailure, Reject, Admit,
      BuildPeer, InsertPeer, AnnouncePeer, LoopCancelled, Mapped
<1>4. ASSUME NEW c \in Conns, PeerActs(c)
      PROVE  loop' = loop /\ \A d \in Conns : Mapped(d)' => Mapped(d)
  BY <1>1, <1>4, PeerFrame DEF PeerActs, PeerStops, PeerSteps, RemovePeer, ClosePeer,
      AnnounceRemoval, PeerCancelled, PeerGoto, Mapped
<1>5. ASSUME NEW c \in Conns, ConnActs(c) \/ Enqueue(c) PROVE UNCHANGED <<loop, peer>>
  BY <1>5, ConnFrame DEF Enqueue, poolVars
<1> QED BY <1>2, <1>3, <1>4, <1>5, PoolCases, ListenFrame, DownFrame DEF vars

\* Every step preserves DownInv.
LEMMA DownStep == TypeInv /\ PlaceInv /\ MapInv /\ UpInv /\ DownInv /\ [Next]_vars => DownInv'
<1> SUFFICES ASSUME TypeInv, PlaceInv, MapInv, UpInv, DownInv, [Next]_vars PROVE DownInv'
  OBVIOUS
<1>1. ASSUME UNCHANGED <<phase, doomed, stopping>>, sent \subseteq sent' PROVE DownInv'
  <2>1. loop.at = "stopped" => loop'.at = "stopped" /\ \A c \in Conns : Mapped(c)' => Mapped(c)
    BY NoNewPeer
  <2> QED BY <1>1, <2>1 DEF DownInv
<1>2. ASSUME NEW c \in Conns, ConnActs(c) \/ Enqueue(c) \/ PeerActs(c)
      PROVE  UNCHANGED <<phase, doomed, stopping>> /\ sent \subseteq sent'
  BY <1>2, ConnFrame, PeerFrame
     DEF Enqueue, downVars, PeerActs, PeerStops, PeerSteps, RemovePeer, ClosePeer,
         AnnounceRemoval, PeerCancelled
<1>3. CASE ListenActs \/ LoopActs \/ UNCHANGED vars
  <2>1. UNCHANGED <<phase, doomed, stopping>>
    BY <1>3, ListenFrame, LoopFrame DEF vars
  <2>2. sent \subseteq sent'
    BY <1>3, ListenFrame DEF vars, LoopActs, LoopSteps, LoopNext, HandshakeEnds,
        ReportFailure, Reject, Admit, BuildPeer, InsertPeer, AnnouncePeer, LoopCancelled
  <2> QED BY <1>1, <2>1, <2>2
<1>4. CASE DownActs
  <2>1. UNCHANGED <<loop, peers, peer>> /\ \A c \in Conns : Mapped(c)' <=> Mapped(c)
    BY <1>4, DownFrame DEF Mapped
  <2>2. CASE ShutdownPool
    BY <2>1, <2>2 DEF ShutdownPool, Enter, GroupOf, DownInv
  <2>3. CASE StopTask
    BY <2>1, <2>3 DEF StopTask, DownInv
  <2>4. CASE TaskStopped
    <3>1. PICK t \in stopping : TaskOver(t)
      BY <2>4 DEF TaskStopped
    <3>2. LoopTask \in stopping => loop.at = "stopped"
      BY <3>1, TaskNames DEF TaskOver, DownInv
    <3> QED BY <2>1, <2>4, <3>2 DEF TaskStopped, DownInv
  <2>5. CASE ClosePeers
    <3>1. phase = "pool" /\ phase' = "close" /\ UNCHANGED stopping /\ loop.at = "stopped"
      BY <2>5 DEF ClosePeers, Cancelled, DownInv
    <3>2. \A c \in Conns : Mapped(c) => PeerTask(c) \in doomed'
      BY <2>5 DEF ClosePeers, MapInv
    <3> QED BY <2>1, <3>1, <3>2 DEF DownInv
  <2>6. ASSUME NEW c \in Conns, ClosePeerInMap(c) PROVE DownInv'
    BY <2>1, <2>6, TaskNames DEF ClosePeerInMap, DownInv
  <2>7. CASE ShutdownConnector
    BY <2>1, <2>7 DEF ShutdownConnector, Enter, DownInv
  <2>8. CASE ShutdownListener \/ ShutdownReturns
    BY <2>1, <2>8 DEF ShutdownListener, ShutdownReturns, Enter, DownInv
  <2> QED BY <1>4, <2>2, <2>3, <2>4, <2>5, <2>6, <2>7, <2>8 DEF DownActs
<1> QED BY <1>1, <1>2, <1>3, <1>4, PoolCases

----------------------------------------------------------------------------
(* Theorems                                                                *)

\* The inductive invariant, with TypeOK in its parts.
PoolInv == TypeInv /\ PlaceInv /\ MapInv /\ SlotInv /\ UpInv /\ DownInv

\* The parts make up TypeOK.
LEMMA TypeParts == TypeInv => TypeOK /\ LoopInv
BY DEF TypeInv, ConnType, TriesType, PoolType, DownType, TypeOK

\* Nothing is connected at first.
LEMMA PoolInit == Init => PoolInv
<1> SUFFICES ASSUME Init PROVE PoolInv
  OBVIOUS
<1> USE ConnsAssumption, SlotsAssumption DEF Init
<1>1. ConnType /\ PoolType /\ DownType
  BY SMT DEF ConnType, PoolType, DownType, LoopInv, ConnPCs, LoopPCs, PeerPCs, Phases
<1>2. TriesType
  BY SMT DEF TriesType
<1>3. Distinct /\ \A c \in Conns : ~Queued(c) /\ ~Handled(c)
  BY SMT DEF Distinct, Queued, Handled
<1>4. PlaceInv
  BY <1>3 DEF PlaceInv
<1>5. MapInv
  BY DEF MapInv, Mapped
<1>6. SlotInv
  <2>1. IsFiniteSet(slot) /\ slot \cap Outbound = {} /\ slot \ Outbound = {}
    BY FS_EmptySet
  <2>2. Cardinality(slot \cap Outbound) = 0 /\ Cardinality(slot \ Outbound) = 0
    BY <2>1, FS_EmptySet
  <2> QED BY <2>1, <2>2, SMT DEF SlotInv, OutHeld, InHeld
<1>7. UpInv
  BY <1>3 DEF UpInv
<1>8. DownInv
  BY DEF DownInv
<1> QED BY <1>1, <1>2, <1>4, <1>5, <1>6, <1>7, <1>8 DEF PoolInv, TypeInv

\* It is inductive.
LEMMA PoolStep == PoolInv /\ [Next]_vars => PoolInv'
BY ConnTypeStep, TriesTypeStep, PoolTypeStep, DownTypeStep, PlaceStep, MapStep, SlotStep,
   UpStep, DownStep
   DEF PoolInv, TypeInv

\* The map of peers and the peers' tasks agree, so what remove_peer takes out
\* of the map by id is the task's own peer.
THEOREM MapTheorem == Spec => []MapMatchesTasks
<1>1. PoolInv => MapMatchesTasks
  BY TypeParts DEF PoolInv, MapInv, MapMatchesTasks, Mapped
<1> QED BY <1>1, PoolInit, PoolStep, PTL DEF Spec

\* The peers that run on one side are within that side's connection slots.
THEOREM SlotsTheorem == Spec => []PeersWithinSlots
<1>1. ASSUME PoolInv, phase = "up"
      PROVE  /\ Cardinality({c \in Outbound : peer[c] = "run"}) <= OutSlots
             /\ Cardinality({c \in Conns \ Outbound : peer[c] = "run"}) <= InSlots
  <2>1. /\ {c \in Outbound : peer[c] = "run"} \subseteq slot \cap Outbound
        /\ {c \in Conns \ Outbound : peer[c] = "run"} \subseteq slot \ Outbound
    BY <1>1, ConnsAssumption DEF PoolInv, UpInv
  <2>2. SlotInv
    BY <1>1 DEF PoolInv
  <2>3. /\ Cardinality({c \in Outbound : peer[c] = "run"}) \in Nat
        /\ Cardinality({c \in Outbound : peer[c] = "run"}) <= Cardinality(slot \cap Outbound)
    BY <2>1, <2>2, SidesFinite, FS_Subset, FS_CardinalityType
  <2>4. /\ Cardinality({c \in Conns \ Outbound : peer[c] = "run"}) \in Nat
        /\ Cardinality({c \in Conns \ Outbound : peer[c] = "run"}) <= Cardinality(slot \ Outbound)
    BY <2>1, <2>2, SidesFinite, FS_Subset, FS_CardinalityType
  <2>5. Cardinality(slot \cap Outbound) <= OutSlots
    BY <2>2 DEF SlotInv, OutHeld
  <2>6. Cardinality(slot \ Outbound) <= InSlots
    BY <2>2, SidesFinite, SlotsAssumption, SMT DEF SlotInv, InHeld
  <2> QED BY <2>2, <2>3, <2>4, <2>5, <2>6, SidesFinite, SlotsAssumption, SMT
<1>2. PoolInv => PeersWithinSlots
  BY <1>1 DEF PeersWithinSlots
<1> QED BY <1>2, PoolInit, PoolStep, PTL DEF Spec

\* After PeerPool::shutdown every connection that became a peer and has not
\* left the map was told to close, however far its admission was.
THEOREM ClosedTheorem == Spec => []AdmittedPeersClosed
<1>1. PoolInv => AdmittedPeersClosed
  BY DEF PoolInv, DownInv, AdmittedPeersClosed, Mapped
<1> QED BY <1>1, PoolInit, PoolStep, PTL DEF Spec

=============================================================================
