------------------------------ MODULE Session -------------------------------
(***************************************************************************)
(* A connection between two karyon nodes, from its first message to its    *)
(* last: the handshake, the streams that QUIC sets up per protocol, the    *)
(* ping protocol and another one.  Both nodes run the same code; any wait  *)
(* may time out, so that one may have a peer and the other not.            *)
(*                                                                         *)
(* A version is [v, req]: what the node runs and the set of versions it    *)
(* accepts.  The content of a VerMsg never changes, so the message is      *)
(* "version" and its content is read from the sender's configuration.      *)
(* The nonces of pings are random and taken to be distinct: a pong is      *)
(* "fresh" while the ping that it answers is the last of its node.         *)
(***************************************************************************)
EXTENDS Naturals, Sequences, FiniteSets

CONSTANTS
    Nodes,      \* the two ends of the connection
    Dialer,     \* the one that connected; its peer is outbound
    Ping,       \* PING_PROTO_ID
    Chat,       \* another protocol
    Versions,   \* versions that a node or Chat may have
    NoVersion,  \* Chat is not attached
    SendCap,    \* SEND_QUEUE_SIZE, and what the connection holds
    RecvCap,    \* RECV_QUEUE_SIZE
    MaxFailures,\* MAX_FAILURES
    MaxData     \* bound: messages of Chat that each node sends

Protos == {Ping, Chat}

ASSUME SessionAssumption ==
    /\ IsFiniteSet(Nodes) /\ Cardinality(Nodes) = 2 /\ Dialer \in Nodes
    /\ Ping # Chat /\ NoVersion \notin Versions
    /\ {SendCap, RecvCap, MaxFailures} \subseteq Nat \ {0} /\ MaxData \in Nat

VARIABLES
    wire,       \* "single" (TCP, TLS) or "mux" (QUIC: one stream per protocol)
    version,    \* config.version of each node
    meta,       \* the version of Chat at each node
    required,   \* nodes that marked Chat REQUIRED
    verified,   \* the transport's identity for the remote agrees with its claim
    pinging,    \* nodes whose ping_interval is short enough to matter
    at,         \* where each node is
    shared,     \* the protocol set each node computed
    streams,    \* the protocols whose stream each node has set up
    pipe,       \* the messages on their way to each node, per stream
    sent,       \* messages of Chat that each node has sent
    inbox,      \* the ping protocol's recv queue
    busy,       \* the message that recv_loop has not handed on yet, if any
    chan,       \* the pong channel
    loop,       \* where ping_loop is
    retry,
    late        \* history: a pong was not there when ping_timeout was over

config == <<wire, version, meta, required, verified, pinging>>
pingVars == <<inbox, busy, chan, loop, retry, late>>
vars == <<config, at, shared, streams, pipe, sent, pingVars>>

Other(n) == CHOOSE m \in Nodes : m # n
Handshaking == {"start", "version", "ack", "setup"}
Ages == {"fresh", "stale"}
Pings == [cmd : {"ping", "pong"}, age : Ages]
Messages == [cmd : {"version", "ack", "nack", "chat"}] \cup Pings
Streams == {"pipe"} \cup Protos

TypeOK ==
    /\ wire \in {"single", "mux"}
    /\ version \in [Nodes -> Versions]
    /\ meta \in [Nodes -> Versions \cup {NoVersion}]
    /\ required \subseteq Nodes /\ pinging \subseteq Nodes
    /\ verified \in [Nodes -> BOOLEAN]
    /\ at \in [Nodes -> Handshaking \cup {"peer", "failed", "ended"}]
    /\ shared \in [Nodes -> SUBSET Protos] /\ streams \in [Nodes -> SUBSET Protos]
    /\ \A n \in Nodes :
        /\ \A s \in Streams : pipe[n][s] \in Seq(Messages)
        /\ inbox[n] \in Seq(Pings) /\ Len(inbox[n]) <= RecvCap
        /\ busy[n] \in Seq(Pings) /\ Len(busy[n]) <= 1
        /\ chan[n] \in Seq(Ages) /\ Len(chan[n]) <= 1
    /\ sent \in [Nodes -> 0 .. MaxData]
    /\ loop \in [Nodes -> {"sleep", "send", "wait"}]
    /\ retry \in [Nodes -> 0 .. MaxFailures] /\ late \in [Nodes -> BOOLEAN]

\* What was attached besides Ping, and whether it is REQUIRED.
attach_protocol ==
    /\ meta \in [Nodes -> Versions \cup {NoVersion}]
    /\ required \in SUBSET {n \in Nodes : meta[n] # NoVersion}

\* Node::run attaches Ping.  The pings are looked at between nodes
\* that agree on everything, the negotiation between nodes whose next ping is
\* far away.
Init ==
    /\ wire \in {"single", "mux"}
    /\ version \in [Nodes -> Versions]
    /\ attach_protocol
    /\ verified \in [Nodes -> BOOLEAN]
    /\ pinging \in SUBSET Nodes
    /\ pinging # {} =>
        /\ required = {} /\ \A n \in Nodes : verified[n]
        /\ version = [n \in Nodes |-> CHOOSE v \in Versions : v.v \in v.req]
        /\ meta = version
    /\ at = [n \in Nodes |-> "start"]
    /\ shared = [n \in Nodes |-> {}] /\ streams = [n \in Nodes |-> {}]
    /\ pipe = [n \in Nodes |-> [s \in Streams |-> <<>>]]
    /\ sent = [n \in Nodes |-> 0]
    /\ inbox = [n \in Nodes |-> <<>>] /\ chan = [n \in Nodes |-> <<>>]
    /\ busy = [n \in Nodes |-> <<>>] /\ loop = [n \in Nodes |-> "sleep"]
    /\ retry = [n \in Nodes |-> 0] /\ late = [n \in Nodes |-> FALSE]

----------------------------------------------------------------------------
(* What validate_version_msg decides                                       *)

version_match(version_req, v) == v \in version_req

\* Only the local requirement is looked at.
OneSidedMatch(ours, theirs) == version_match(ours.req, theirs.v)

mutual_match(ours, theirs) ==
    version_match(ours.req, theirs.v) /\ version_match(theirs.req, ours.v)

protocols_intersection(n) ==
    {Ping} \cup
    {p \in {Chat} : /\ NoVersion \notin {meta[n], meta[Other(n)]}
                    /\ mutual_match(meta[n], meta[Other(n)])}

Accepts(n) ==
    /\ mutual_match(version[n], version[Other(n)])
    /\ verified[n]
    /\ n \in required => Chat \in protocols_intersection(n)

----------------------------------------------------------------------------
(* The handshake                                                           *)

Put(n, s, msg) == pipe' = [pipe EXCEPT ![Other(n)][s] = Append(@, msg)]
NextIs(n, s, cmds) == pipe[n][s] # <<>> /\ Head(pipe[n][s]).cmd \in cmds
Answer(n, cmd) ==
    pipe' = [pipe EXCEPT ![Other(n)]["pipe"] = Append(@, [cmd |-> cmd]),
                         ![n]["pipe"] = Tail(@)]
Go(n, pc) == at' = [at EXCEPT ![n] = pc]

send_vermsg(n) ==
    /\ at[n] = "start"
    /\ Put(n, "pipe", [cmd |-> "version"])
    /\ Go(n, "version")
    /\ UNCHANGED <<config, shared, streams, sent, pingVars>>

\* The VerMsg is accepted and acknowledged.
AcceptVersion(n) ==
    /\ at[n] = "version" /\ NextIs(n, "pipe", {"version"})
    /\ Accepts(n)
    /\ shared' = [shared EXCEPT ![n] = protocols_intersection(n)]
    /\ Answer(n, "ack")
    /\ Go(n, "ack")
    /\ UNCHANGED <<config, streams, sent, pingVars>>

\* IncompatibleVersion or IncompatiblePeer: VerAck(false), then the error.
RefuseVersion(n) ==
    /\ at[n] = "version" /\ NextIs(n, "pipe", {"version"})
    /\ ~Accepts(n)
    /\ Answer(n, "nack")
    /\ Go(n, "failed")
    /\ UNCHANGED <<config, shared, streams, sent, pingVars>>

\* The peer is built, over QUIC once its streams are there.
ReceiveAck(n) ==
    /\ at[n] = "ack" /\ NextIs(n, "pipe", {"ack", "nack"})
    /\ pipe' = [pipe EXCEPT ![n]["pipe"] = Tail(@)]
    /\ Go(n, IF Head(pipe[n]["pipe"]).cmd = "nack" THEN "failed"
             ELSE IF wire = "mux" THEN "setup"
             ELSE "peer")
    /\ UNCHANGED <<config, shared, streams, sent, pingVars>>

\* setup_quic_streams of the dialer: a stream with its StreamInit per protocol.
OpenStream(n) ==
    /\ at[n] = "setup" /\ n = Dialer
    /\ \E p \in shared[n] \ streams[n] : streams' = [streams EXCEPT ![n] = @ \cup {p}]
    /\ UNCHANGED <<config, at, shared, pipe, sent, pingVars>>

\* And of the other: the streams come in any order.  One of a protocol that
\* is not shared is an error.
AcceptStream(n) ==
    /\ at[n] = "setup" /\ n # Dialer
    /\ \E p \in streams[Dialer] \ streams[n] :
        IF p \in shared[n]
        THEN streams' = [streams EXCEPT ![n] = @ \cup {p}] /\ UNCHANGED at
        ELSE Go(n, "failed") /\ UNCHANGED streams
    /\ UNCHANGED <<config, shared, pipe, sent, pingVars>>

SetupDone(n) ==
    /\ at[n] = "setup"
    /\ Cardinality(streams[n]) = Cardinality(shared[n])
    /\ Go(n, "peer")
    /\ UNCHANGED <<config, shared, streams, pipe, sent, pingVars>>

\* A timeout, a read or write error, or the pool refuses the peer.
HandshakeFails(n) ==
    /\ at[n] \in Handshaking
    /\ Go(n, "failed")
    /\ UNCHANGED <<config, shared, streams, pipe, sent, pingVars>>

----------------------------------------------------------------------------
(* The wire of a peer                                                      *)

StreamOf(p) == IF wire = "mux" THEN p ELSE "pipe"
Full(n, p) == Len(pipe[Other(n)][StreamOf(p)]) >= SendCap

\* PeerPool::broadcast of Chat: every connected peer is sent to.  QUIC has no
\* send queue for a protocol that was not negotiated: UnsupportedProtocol.
Broadcast(n) ==
    /\ at[n] = "peer" /\ meta[n] # NoVersion
    /\ wire = "mux" => Chat \in streams[n]
    /\ sent[n] < MaxData /\ ~Full(n, Chat)
    /\ Put(n, StreamOf(Chat), [cmd |-> "chat"])
    /\ sent' = [sent EXCEPT ![n] = @ + 1]
    /\ UNCHANGED <<config, at, shared, streams, pingVars>>

\* The tasks of the peer are cancelled.
End(n) ==
    /\ Go(n, "ended")
    /\ inbox' = [inbox EXCEPT ![n] = <<>>] /\ chan' = [chan EXCEPT ![n] = <<>>]
    /\ busy' = [busy EXCEPT ![n] = <<>>] /\ loop' = [loop EXCEPT ![n] = "sleep"]
    /\ UNCHANGED <<config, shared, streams, pipe, sent>>

\* The readers: to a protocol's recv queue.  Chat takes what it gets.
Deliver(n, s) ==
    /\ at[n] = "peer" /\ NextIs(n, s, {"chat"}) /\ Chat \in shared[n]
    /\ pipe' = [pipe EXCEPT ![n][s] = Tail(@)]
    /\ UNCHANGED <<config, at, shared, streams, sent, pingVars>>

DeliverPing(n, s) ==
    /\ at[n] = "peer" /\ NextIs(n, s, {"ping", "pong"})
    /\ Len(inbox[n]) < RecvCap
    /\ inbox' = [inbox EXCEPT ![n] = Append(@, Head(pipe[n][s]))]
    /\ pipe' = [pipe EXCEPT ![n][s] = Tail(@)]
    /\ UNCHANGED <<config, at, shared, streams, sent, busy, chan, loop, retry, late>>

\* "Not negotiated with this peer": the reader stops the peer.
UnsupportedProtocol(n, s) ==
    /\ at[n] = "peer" /\ NextIs(n, s, {"chat"}) /\ Chat \notin shared[n]
    /\ End(n)
    /\ UNCHANGED <<retry, late>>

\* Otherwise: the connection breaks, the remote shuts down or this node does.
PeerEnds(n) ==
    /\ at[n] = "peer"
    /\ End(n)
    /\ UNCHANGED <<retry, late>>

----------------------------------------------------------------------------
(* PingProtocol::recv_loop                                                 *)

\* A Ping is to be answered, a Pong goes to the channel, which holds one.
RecvPing(n) ==
    /\ busy[n] = <<>> /\ inbox[n] # <<>>
    /\ inbox' = [inbox EXCEPT ![n] = Tail(@)]
    /\ busy' = [busy EXCEPT ![n] = <<Head(inbox[n])>>]
    /\ UNCHANGED <<config, at, shared, streams, pipe, sent, chan, loop, retry, late>>

SendPong(n) ==
    /\ busy[n] # <<>> /\ Head(busy[n]).cmd = "ping" /\ ~Full(n, Ping)
    /\ Put(n, StreamOf(Ping), [Head(busy[n]) EXCEPT !.cmd = "pong"])
    /\ busy' = [busy EXCEPT ![n] = <<>>]
    /\ UNCHANGED <<config, at, shared, streams, sent, inbox, chan, loop, retry, late>>

PassPong(n) ==
    /\ busy[n] # <<>> /\ Head(busy[n]).cmd = "pong" /\ chan[n] = <<>>
    /\ chan' = [chan EXCEPT ![n] = <<Head(busy[n]).age>>]
    /\ busy' = [busy EXCEPT ![n] = <<>>]
    /\ UNCHANGED <<config, at, shared, streams, pipe, sent, inbox, loop, retry, late>>

----------------------------------------------------------------------------
(* PingProtocol::ping_loop                                                 *)

SleepOver(n) ==
    /\ at[n] = "peer" /\ n \in pinging /\ loop[n] = "sleep"
    /\ loop' = [loop EXCEPT ![n] = "send"]
    /\ UNCHANGED <<config, at, shared, streams, pipe, sent, inbox, busy, chan, retry,
                   late>>

\* What belongs to the earlier pings of a node, with the remote or on its way
\* back, is stale from now on.
Aged(ms, cmd) ==
    [i \in DOMAIN ms |-> IF ms[i].cmd = cmd THEN [ms[i] EXCEPT !.age = "stale"] ELSE ms[i]]

SendPing(n) ==
    LET s == StreamOf(Ping)  o == Other(n) IN
    /\ loop[n] = "send" /\ ~Full(n, Ping)
    /\ loop' = [loop EXCEPT ![n] = "wait"]
    /\ pipe' = [pipe EXCEPT
                    ![o][s] = Append(Aged(@, "ping"), [cmd |-> "ping", age |-> "fresh"]),
                    ![n][s] = Aged(@, "pong")]
    /\ inbox' = [inbox EXCEPT ![o] = Aged(@, "ping"), ![n] = Aged(@, "pong")]
    /\ busy' = [busy EXCEPT ![o] = Aged(@, "ping"), ![n] = Aged(@, "pong")]
    /\ chan' = [chan EXCEPT ![n] = [i \in DOMAIN @ |-> "stale"]]
    /\ UNCHANGED <<config, at, shared, streams, sent, retry, late>>

\* The failures in a row; at the last one the protocol returns an error, and
\* that ends the peer.
Failure(n) ==
    /\ retry' = [retry EXCEPT ![n] = @ + 1]
    /\ IF retry[n] + 1 = MaxFailures THEN End(n)
       ELSE /\ loop' = [loop EXCEPT ![n] = "sleep"]
            /\ UNCHANGED <<config, at, shared, streams, pipe, sent, inbox, busy>>

\* The last failure is not reported: recv_loop goes on alone.
PingTimeoutUnreported(n) ==
    /\ loop[n] = "wait" /\ chan[n] = <<>>
    /\ retry[n] + 1 # MaxFailures
    /\ late' = [late EXCEPT ![n] = TRUE]
    /\ Failure(n)
    /\ UNCHANGED chan

PingTimeout(n) ==
    /\ loop[n] = "wait" /\ chan[n] = <<>>
    /\ late' = [late EXCEPT ![n] = TRUE]
    /\ Failure(n)
    /\ retry[n] + 1 # MaxFailures => UNCHANGED chan

\* The nonce compared with is that of the ping before.
TakePongOffByOne(n) ==
    /\ loop[n] = "wait" /\ chan[n] # <<>>
    /\ IF chan[n] = <<"stale">>
       THEN /\ retry' = [retry EXCEPT ![n] = 0]
            /\ loop' = [loop EXCEPT ![n] = "sleep"]
            /\ chan' = [chan EXCEPT ![n] = <<>>]
            /\ UNCHANGED <<config, at, shared, streams, pipe, sent, inbox, busy>>
       ELSE /\ Failure(n)
            /\ retry[n] + 1 # MaxFailures => chan' = [chan EXCEPT ![n] = <<>>]
    /\ UNCHANGED late

\* The pong of an earlier ping is a failure, too.
TakePong(n) ==
    /\ loop[n] = "wait" /\ chan[n] # <<>>
    /\ IF chan[n] = <<"fresh">>
       THEN /\ retry' = [retry EXCEPT ![n] = 0]
            /\ loop' = [loop EXCEPT ![n] = "sleep"]
            /\ chan' = [chan EXCEPT ![n] = <<>>]
            /\ UNCHANGED <<config, at, shared, streams, pipe, sent, inbox, busy>>
       ELSE /\ Failure(n)
            /\ retry[n] + 1 # MaxFailures => chan' = [chan EXCEPT ![n] = <<>>]
    /\ UNCHANGED late

----------------------------------------------------------------------------

HandshakeStep(n) ==
    \/ send_vermsg(n) \/ AcceptVersion(n) \/ RefuseVersion(n) \/ ReceiveAck(n)
    \/ OpenStream(n) \/ AcceptStream(n) \/ SetupDone(n) \/ HandshakeFails(n)
ReadStep(n) == \E s \in Streams : Deliver(n, s) \/ DeliverPing(n, s) \/ UnsupportedProtocol(n, s)
RecvStep(n) == RecvPing(n) \/ SendPong(n) \/ PassPong(n)
PingStep(n) == SleepOver(n) \/ SendPing(n) \/ PingTimeout(n) \/ TakePong(n)

Next ==
    \E n \in Nodes :
        \/ HandshakeStep(n) \/ Broadcast(n) \/ ReadStep(n) \/ PeerEnds(n)
        \/ RecvStep(n) \/ PingStep(n)

Spec == Init /\ [][Next]_vars

\* Nodes go on and timers run out.  The connection owes nothing.
FairSpec ==
    /\ Spec
    /\ \A n \in Nodes : WF_vars(HandshakeStep(n)) /\ WF_vars(PingStep(n))

----------------------------------------------------------------------------
(* Properties                                                              *)

\* "So both sides end up with the same protocol set" (handshake.rs): a node
\* with a peer runs the set the remote computed, and it holds every protocol
\* that either of them requires.  Over QUIC, the stream that a node accepts is
\* of a protocol that it negotiated ("Both sides negotiated the same set").
SameProtocols ==
    \A n \in Nodes :
        /\ at[n] = "peer" =>
            /\ shared[n] = shared[Other(n)]
            /\ required # {} => Chat \in shared[n]
        /\ at[n] = "setup" => streams[Dialer] \subseteq shared[n]

\* "a message for any other protocol is a protocol violation" (connection.rs):
\* over QUIC, whose sender has no queue for a protocol that was not negotiated,
\* two correct nodes never commit one.
NoMuxViolation ==
    wire = "mux" =>
        \A n \in Nodes : at[n] = "peer" /\ NextIs(n, Chat, {"chat"}) => Chat \in shared[n]

\* The two nodes agree on what they speak, and keep to it.
AgreementInv == TypeOK /\ SameProtocols /\ NoMuxViolation

\* ping_loop counts failures only once a pong was really late: a remote that
\* always answers within ping_timeout is never given up, whatever else is on
\* the wire and however the two loops and the channel between them interleave.
OnlyLatePongsCount == \A n \in Nodes : retry[n] > 0 => late[n]

\* A peer whose remote is gone is given up although the connection never says
\* so, unless the ping waits for ever for room in the send queue.
RemoteGoneNoticed ==
    \A n \in Nodes :
        at[n] = "peer" /\ n \in pinging /\ at[Other(n)] \in {"failed", "ended"}
            ~> at[n] = "ended" \/ [](loop[n] = "send" /\ Full(n, Ping))

=============================================================================
