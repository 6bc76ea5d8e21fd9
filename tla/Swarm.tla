------------------------------- MODULE Swarm --------------------------------
(***************************************************************************)
(* karyon_swarm: which connected peers belong to which swarm.  The pool    *)
(* admits and removes peers and emits an event for each; monitor_peers     *)
(* takes the events one by one; join and leave run in the caller's task.   *)
(* Each step below is what happens between two awaits that other tasks can *)
(* observe.  The monitor holds swarms.read() while at "insert", a caller   *)
(* while at "each", "member" or "index".                                   *)
(*                                                                         *)
(* The pool is abstracted to its map and its events.  Its run loop emits   *)
(* Added, the task of each peer that left emits Removed, both some time    *)
(* after they changed the map, and any listener may keep them waiting.     *)
(***************************************************************************)
EXTENDS Naturals, Sequences, FiniteSets

CONSTANTS
    Pids,        \* remote peers
    Keys,        \* swarm keys
    Protos,      \* protocol ids
    ProtoOf,     \* the protocol a swarm wraps
    Joined,      \* swarms joined before the node runs
    Callers,     \* tasks that join or leave
    MaxCalls,    \* bound: joins and leaves in all
    MaxConnects, \* bound: connections in all
    BufferSize,  \* DEFAULT_CHANNEL_BUFFER_SIZE
    Workloads,   \* bound: "calls" to join and leave, or "listeners" that come and go
    NoPid, NoKey

ASSUME SwarmAssumption ==
    /\ ProtoOf \in [Keys -> Protos]
    /\ Joined \subseteq Keys
    /\ Workloads \subseteq {"calls", "listeners"}
    /\ MaxCalls \in Nat /\ MaxConnects \in Nat
    /\ BufferSize \in Nat \ {0}
    /\ NoPid \notin Pids /\ NoKey \notin Keys

VARIABLES
    attached,    \* protocols attached to the node
    pool,        \* the pool's map: the protocols negotiated with each peer
    due,         \* the events that were not emitted yet: none or one each
    registered, open, buffer, emits,    \* see EventEmitter
    connects,
    workload,    \* one of Workloads
    swarms,      \* joined keys
    members,     \* SwarmInfo::peers of each key
    peer_swarms, \* the reverse index
    monitor,     \* [at, pid, set]: the monitor_peers task
    caller,      \* [at, key, pids, pid]: each caller
    calls,
    late,        \* history: keys joined while the node runs
    last         \* history: the last event that monitor_peers took of each peer

\* The pool's run loop, and a task for each peer that leaves.
RunLoop == 0
Emitters == RunLoop .. MaxConnects

\* The swarm's listener, and one that a user of the node registers.
Listeners == {"swarm", "user"}
Kinds == {"added", "removed"}
Events == [kind : Kinds, pid : Pids]

INSTANCE EventEmitter

emitterVars == <<registered, open, buffer, emits>>
membership == <<swarms, members, peer_swarms>>
network == <<attached, pool, due, emitterVars, connects, workload>>
callVars == <<caller, calls, late>>
vars == <<network, membership, monitor, last, callVars>>

Idle == [at |-> "idle", pid |-> NoPid, set |-> {}]
Resting == [at |-> "idle", key |-> NoKey, pids |-> {}, pid |-> NoPid]

MonitorPCs == {"stopped", "idle", "protos", "swarms", "insert", "unindex", "remove"}
CallerPCs == {"idle", "register", "snapshot", "lookup", "each",
              "member", "index", "strip"}

TypeOK ==
    /\ attached \subseteq Protos
    /\ DOMAIN pool \subseteq Pids
    /\ \A x \in DOMAIN pool : pool[x] \subseteq Protos
    /\ \A e \in Emitters : due[e] \in Seq(Events) /\ Len(due[e]) <= 1
    /\ EmitterTypeOK
    /\ last \in [Pids -> Kinds \cup {"none"}]
    /\ connects \in 0 .. MaxConnects /\ workload \in Workloads
    /\ swarms \subseteq Keys
    /\ members \in [Keys -> SUBSET Pids]
    /\ peer_swarms \in [Pids -> SUBSET Keys]
    /\ monitor.at \in MonitorPCs /\ monitor.pid \in Pids \cup {NoPid}
    /\ \A c \in Callers : caller[c].at \in CallerPCs
    /\ calls \in 0 .. MaxCalls
    /\ late \subseteq Keys

Init ==
    /\ attached = {ProtoOf[k] : k \in Joined}
    /\ pool = [x \in {} |-> {}]
    /\ due = [e \in Emitters |-> <<>>]
    /\ EmitterInit({"swarm"})
    /\ last = [x \in Pids |-> "none"]
    /\ connects = 0
    /\ workload \in Workloads
    /\ swarms = Joined
    /\ members = [k \in Keys |-> {}]
    /\ peer_swarms = [x \in Pids |-> {}]
    /\ monitor = Idle
    /\ caller = [c \in Callers |-> Resting]
    /\ calls = 0
    /\ late = {}

Readers ==
    (IF monitor.at = "insert" THEN {"monitor"} ELSE {})
    \cup {c \in Callers : caller[c].at \in {"each", "member", "index"}}

----------------------------------------------------------------------------
(* The pool: a peer is admitted with protocols attached here, or removed   *)

Free(e) == due[e] = <<>> /\ ~Sending(e)

Connect(x, protos) ==
    /\ Free(RunLoop)
    /\ x \notin DOMAIN pool
    /\ connects < MaxConnects
    /\ protos \subseteq attached
    /\ pool' = [y \in DOMAIN pool \cup {x} |-> IF y = x THEN protos ELSE pool[y]]
    /\ due' = [due EXCEPT ![RunLoop] = <<[kind |-> "added", pid |-> x]>>]
    /\ connects' = connects + 1
    /\ UNCHANGED <<attached, workload, emitterVars, membership, monitor, last, callVars>>

Disconnect(x) ==
    LET task == CHOOSE e \in Emitters \ {RunLoop} : Free(e) IN
    /\ x \in DOMAIN pool
    /\ pool' = [y \in DOMAIN pool \ {x} |-> pool[y]]
    /\ due' = [due EXCEPT ![task] = <<[kind |-> "removed", pid |-> x]>>]
    /\ UNCHANGED <<attached, connects, workload, emitterVars, membership, monitor, last, callVars>>

Announce(e) ==
    /\ due[e] # <<>>
    /\ Emit(e, due[e][1])
    /\ due' = [due EXCEPT ![e] = <<>>]
    /\ UNCHANGED <<attached, pool, connects, workload, membership, monitor, last, callVars>>

EmitStep(e) ==
    /\ EmitReturns(e) \/ \E l \in Listeners : Send(e, l) \/ SendFails(e, l)
    /\ UNCHANGED <<attached, pool, due, connects, workload, membership, monitor, last, callVars>>

\* The user's listener may come and go, and take as long as it likes.
UserStep ==
    /\ workload = "listeners"
    /\ RegisterListener("user") \/ Recv("user") \/ Cancel("user") \/ Drop("user")
    /\ UNCHANGED <<attached, pool, due, connects, workload, membership, monitor, last, callVars>>

----------------------------------------------------------------------------
(* monitor_peers                                                           *)

ReceiveEvent ==
    LET event == Head(buffer["swarm"]) IN
    /\ monitor.at = "idle"
    /\ Recv("swarm")
    /\ monitor' = [Idle EXCEPT !.pid = event.pid,
                     !.at = IF event.kind = "added" THEN "protos" ELSE "unindex"]
    /\ last' = [last EXCEPT ![event.pid] = event.kind]
    /\ UNCHANGED <<attached, pool, due, connects, workload, membership, callVars>>

\* Swarm::shutdown cancels the task at one of its awaits.
StopMonitor ==
    /\ workload = "listeners"
    /\ monitor.at # "stopped"
    /\ monitor' = [Idle EXCEPT !.at = "stopped"]
    /\ Drop("swarm")
    /\ UNCHANGED <<attached, pool, due, connects, workload, membership, last, callVars>>

\* on_peer_added: node.peer_protocol_set(pid)
ReadProtocols ==
    /\ monitor.at = "protos"
    /\ monitor' = IF monitor.pid \in DOMAIN pool
                  THEN [monitor EXCEPT !.at = "swarms", !.set = pool[monitor.pid]]
                  ELSE Idle
    /\ UNCHANGED <<network, membership, last, callVars>>

\* on_peer_added: insert the peer in every swarm whose protocol it speaks.
\* The read lock is held on to the end.
InsertMember ==
    LET keys == {k \in swarms : ProtoOf[k] \in monitor.set} IN
    /\ monitor.at = "swarms"
    /\ members' = [k \in Keys |-> IF k \in keys THEN members[k] \cup {monitor.pid}
                                                ELSE members[k]]
    /\ monitor' = IF keys = {} THEN Idle ELSE [monitor EXCEPT !.at = "insert", !.set = keys]
    /\ UNCHANGED <<network, swarms, peer_swarms, last, callVars>>

\* on_peer_added that forgets the reverse index.
SkipIndex ==
    /\ monitor.at = "insert"
    /\ monitor' = Idle
    /\ UNCHANGED <<network, membership, last, callVars>>

\* on_peer_added: peer_swarms.insert(pid, joined_keys)
IndexMember ==
    /\ monitor.at = "insert"
    /\ peer_swarms' = [peer_swarms EXCEPT ![monitor.pid] = monitor.set]
    /\ monitor' = Idle
    /\ UNCHANGED <<network, swarms, members, last, callVars>>

\* on_peer_removed: peer_swarms.remove(pid)
Unindex ==
    LET keys == peer_swarms[monitor.pid] IN
    /\ monitor.at = "unindex"
    /\ peer_swarms' = [peer_swarms EXCEPT ![monitor.pid] = {}]
    /\ monitor' = IF keys = {} THEN Idle ELSE [monitor EXCEPT !.at = "remove", !.set = keys]
    /\ UNCHANGED <<network, swarms, members, last, callVars>>

\* on_peer_removed: remove the peer from each of those swarms.
RemoveMember ==
    LET keys == monitor.set \cap swarms IN
    /\ monitor.at = "remove"
    /\ members' = [k \in Keys |-> IF k \in keys THEN members[k] \ {monitor.pid}
                                                ELSE members[k]]
    /\ monitor' = Idle
    /\ UNCHANGED <<network, swarms, peer_swarms, last, callVars>>

----------------------------------------------------------------------------
(* join_inner and scan_peers_for_swarm                                     *)

\* node.attach_protocol
Join(c, k) ==
    /\ workload = "calls"
    /\ caller[c].at = "idle"
    /\ calls < MaxCalls
    /\ calls' = calls + 1
    /\ attached' = attached \cup {ProtoOf[k]}
    /\ caller' = [caller EXCEPT ![c] = [Resting EXCEPT !.at = "register", !.key = k]]
    /\ late' = late \cup {k}
    /\ UNCHANGED <<pool, due, emitterVars, connects, workload, membership, monitor, last>>

\* swarms.write().insert(key, info) with an empty peer set
Register(c) ==
    /\ caller[c].at = "register"
    /\ Readers = {}
    /\ swarms' = swarms \cup {caller[c].key}
    /\ members' = [members EXCEPT ![caller[c].key] = {}]
    /\ caller' = [caller EXCEPT ![c].at = "snapshot"]
    /\ UNCHANGED <<network, peer_swarms, monitor, last, calls, late>>

\* inbound_peers and outbound_peers
Snapshot(c) ==
    /\ caller[c].at = "snapshot"
    /\ caller' = [caller EXCEPT ![c].at = "lookup", ![c].pids = DOMAIN pool]
    /\ UNCHANGED <<network, membership, monitor, last, calls, late>>

\* swarms.read(): the swarm may have been left meanwhile.
Lookup(c) ==
    /\ caller[c].at = "lookup"
    /\ caller' = [caller EXCEPT ![c] =
                    IF caller[c].key \in swarms THEN [@ EXCEPT !.at = "each"] ELSE Resting]
    /\ UNCHANGED <<network, membership, monitor, last, calls, late>>

\* One peer of the snapshot: does it speak the protocol?
ScanPeer(c, x) ==
    LET speaks == x \in DOMAIN pool /\ ProtoOf[caller[c].key] \in pool[x] IN
    /\ caller[c].at = "each"
    /\ x \in caller[c].pids
    /\ caller' = [caller EXCEPT ![c].pids = @ \ {x},
                                ![c].pid = IF speaks THEN x ELSE NoPid,
                                ![c].at = IF speaks THEN "member" ELSE "each"]
    /\ UNCHANGED <<network, membership, monitor, last, calls, late>>

\* info.peers.insert(pid)
ScanInsert(c) ==
    /\ caller[c].at = "member"
    /\ members' = [members EXCEPT ![caller[c].key] = @ \cup {caller[c].pid}]
    /\ caller' = [caller EXCEPT ![c].at = "index"]
    /\ UNCHANGED <<network, swarms, peer_swarms, monitor, last, calls, late>>

\* peer_swarms.entry(pid).insert(key)
ScanIndex(c) ==
    /\ caller[c].at = "index"
    /\ peer_swarms' = [peer_swarms EXCEPT ![caller[c].pid] = @ \cup {caller[c].key}]
    /\ caller' = [caller EXCEPT ![c].at = "each", ![c].pid = NoPid]
    /\ UNCHANGED <<network, swarms, members, monitor, last, calls, late>>

ScanEnds(c) ==
    /\ caller[c].at = "each"
    /\ caller[c].pids = {}
    /\ caller' = [caller EXCEPT ![c] = Resting]
    /\ UNCHANGED <<network, membership, monitor, last, calls, late>>

(* leave                                                                   *)

\* swarms.write().remove(key)
Leave(c, k) ==
    /\ workload = "calls"
    /\ caller[c].at = "idle"
    /\ calls < MaxCalls
    /\ Readers = {}
    /\ calls' = calls + 1
    /\ swarms' = swarms \ {k}
    /\ members' = [members EXCEPT ![k] = {}]
    /\ caller' = [caller EXCEPT ![c] = [Resting EXCEPT !.at = "strip", !.key = k]]
    /\ UNCHANGED <<network, peer_swarms, monitor, last, late>>

\* the key leaves every entry of the reverse index
Strip(c) ==
    /\ caller[c].at = "strip"
    /\ peer_swarms' = [x \in Pids |-> peer_swarms[x] \ {caller[c].key}]
    /\ caller' = [caller EXCEPT ![c] = Resting]
    /\ UNCHANGED <<network, swarms, members, monitor, last, calls, late>>

----------------------------------------------------------------------------
Monitor == ReceiveEvent \/ ReadProtocols \/ InsertMember \/ IndexMember
           \/ Unindex \/ RemoveMember

Call(c) ==
    \/ \E k \in Keys : Join(c, k) \/ Leave(c, k)
    \/ Register(c) \/ Snapshot(c) \/ Lookup(c) \/ ScanInsert(c) \/ ScanIndex(c)
    \/ ScanEnds(c)
    \/ \E x \in Pids : ScanPeer(c, x)
    \/ Strip(c)

Next ==
    \/ \E x \in Pids : Disconnect(x) \/ \E protos \in SUBSET Protos : Connect(x, protos)
    \/ \E e \in Emitters : Announce(e) \/ EmitStep(e)
    \/ Monitor \/ StopMonitor \/ UserStep
    \/ \E c \in Callers : Call(c)

Spec == Init /\ [][Next]_vars

----------------------------------------------------------------------------
(* Properties                                                              *)

\* Another listener may still keep an emitter waiting.
Settled ==
    /\ \A e \in Emitters : due[e] = <<>> /\ ~Waits(e, "swarm")
    /\ buffer["swarm"] = <<>> /\ monitor = Idle /\ \A c \in Callers : caller[c] = Resting

Speaks(x, k) == x \in DOMAIN pool /\ ProtoOf[k] \in pool[x]

\* "Connected peers currently in this swarm": once every event is handled and
\* every call has returned, a swarm that was joined before the node ran, whose
\* members only monitor_peers inserts, lists no peer that is not connected.
EarlyMembersAreConnected ==
    Settled => \A k \in swarms \ late : \A x \in members[k] : Speaks(x, k)

\* Conversely every connected peer that speaks a joined swarm's protocol is in
\* it, whether it connected before, during or after the join; unless the pool
\* announced the removal of its former connection after its new one.
ConnectedAreMembers ==
    Settled => \A k \in swarms : \A x \in Pids :
        Speaks(x, k) => x \in members[k] \/ last[x] = "removed"

\* A swarm's members are the connected peers that speak its protocol.
MembershipInv == TypeOK /\ EarlyMembersAreConnected /\ ConnectedAreMembers

=============================================================================
