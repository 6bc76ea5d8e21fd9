---------------------------- MODULE StunProofs ------------------------------
(***************************************************************************)
(* Proofs about STUN clients and the StunServer, for any finite set of     *)
(* queries, transports, sockets and addresses, any limits, frames of any   *)
(* length read in chunks of any size, and a network that loses, repeats    *)
(* and reorders datagrams.                                                 *)
(***************************************************************************)
EXTENDS Stun, FiniteSetTheorems, TLAPS

\* Most steps need no arithmetic and are for Zenon; a leaf that does says SMT.
USE Zenon

\* The endpoints that the queries go to and the sockets they bind.
SetupType ==
    /\ transport \in [Queries -> Transports]
    /\ sock \in [Queries -> Sockets]

\* The clients: what is of UDP and what is of streams does not mix, a query
\* has transmissions left when it is about to send, and every datagram carries
\* an address that the network gave to the query whose transaction it names.
ClientInv ==
    /\ pc \in [Queries -> {"idle", "bound", "wait", "connect", "send"} \cup Over]
    /\ result \in [Queries -> Addrs \cup {"none"}]
    /\ seen \in [Queries -> SUBSET Addrs]
    /\ net \subseteq {"request", "response"} \X Queries \X Addrs
    /\ \A d \in net : d[3] \in seen[d[2]]
    /\ \A q \in Queries : pc[q] \in {"connect", "send"} => transport[q] # "udp"
    /\ OwnAnswer

\* Transmissions over UDP.
TriesInv ==
    /\ tries \in [Queries -> 0 .. Tries]
    /\ \A q \in Queries : /\ pc[q] = "idle" => tries[q] = 0
                          /\ pc[q] = "bound" => tries[q] < Tries

\* The server's connections and streams: a TCP or TLS stream is served by its
\* connection's task, so it is over when the connection is; shutdown cancels
\* only QUIC streams by themselves.
ConnInv ==
    /\ conn \in [Queries -> {"none", "backlog", "counted", "refused",
                             "handshake", "serve", "over"}]
    /\ stream \in [Queries -> {"none", "read", "reply", "over"}]
    /\ loops \subseteq Transports /\ doomed \subseteq Tasks
    /\ \A c \in Queries :
        /\ conn[c] \in {"none", "backlog", "counted", "refused", "handshake"} =>
            stream[c] = "none"
        /\ stream[c] \in {"read", "reply"} /\ transport[c] # "quic" => conn[c] = "serve"
        /\ transport[c] = "udp" \/ pc[c] = "idle" => conn[c] = "none"
        /\ <<"stream", c>> \in doomed => transport[c] = "quic" /\ stream[c] # "none"

\* All that a client sends on its stream.
Total(q) == Requests[q] * FrameLen

\* The data: what was sent is read or not yet read, and no whole request is in
\* the buffer of a reader that waits for more.
DataInv ==
    /\ up \in [Queries -> Nat] /\ buf \in [Queries -> Nat] /\ answers \in [Queries -> Nat]
    /\ \A q \in Queries :
        /\ up[q] + buf[q] <= Total(q)
        /\ answers[q] <= DownCap
        /\ transport[q] = "udp" => answers[q] = 0
        /\ stream[q] \in {"none", "over"} => buf[q] = 0
        /\ stream[q] = "read" => buf[q] < FrameLen
        /\ pc[q] \in {"idle", "connect", "send"} => up[q] = 0 /\ buf[q] = 0

Refused == {c \in Queries : conn[c] = "refused"}

\* StunServer.conns.
CountInv ==
    /\ count = Cardinality(Held) + Cardinality(Refused)
    /\ Cardinality(Held) <= MaxConns

----------------------------------------------------------------------------
(* What the steps change                                                    *)

\* The steps that the clients and udp_loop do not take.
ServerActs ==
    \/ \E c \in Queries : AcceptStep(c) \/ ConnStep(c) \/ QuicConnEnds(c)
    \/ Shutdown \/ CancelStep

\* Steps of a client that change nothing but where it is.
PcActs(q) ==
    Bind(q) \/ QueryFails(q) \/ WindowEnds(q) \/ Connected(q)
            \/ StreamTimeout(q) \/ StreamFails(q)

\* A server step leaves the clients and the datagrams alone, and no step
\* changes the endpoint or the socket of a query.
LEMMA ServerFrame ==
    /\ ServerActs => UNCHANGED <<setup, clientVars, net>>
    /\ \A q \in Queries : PcActs(q) =>
        UNCHANGED <<setup, tries, result, seen, net, serverVars, dataVars, taskVars>>
    /\ [Next]_vars => UNCHANGED setup
<1>1. ServerActs => UNCHANGED <<setup, clientVars, net>>
    BY DEF ServerActs, AcceptStep, ConnStep, CancelStep, TakeSlot, Refuse, SpawnConn,
           HandshakeDone, HandshakeFails, AcceptStream, QuicConnEnds, ReadChunk, Reply,
           ReadEnds, WriteFails, Shutdown, CancelLoop, CancelConn, CancelStream
<1>2. \A q \in Queries : PcActs(q) =>
        UNCHANGED <<setup, tries, result, seen, net, serverVars, dataVars, taskVars>>
    BY DEF PcActs, Bind, QueryFails, WindowEnds, Connected, StreamTimeout, StreamFails
<1>3. [Next]_vars => UNCHANGED setup
    BY <1>1, <1>2 DEF Next, vars, ServerActs, PcActs, ClientStep, Transmit, RecvResponse,
           RecvAnswer, Connect, SendRequests, UdpServe
<1> QED BY <1>1, <1>2, <1>3

\* The steps of Next, by what they change.
LEMMA Cases ==
    ASSUME [Next]_vars
    PROVE  \/ \E q \in Queries :
                \/ PcActs(q) \/ Transmit(q) \/ Connect(q) \/ SendRequests(q) \/ RecvAnswer(q)
                \/ \E d \in net : RecvResponse(q, d)
           \/ \E d \in net : UdpServe(d)
           \/ ServerActs
           \/ UNCHANGED vars
BY DEF Next, ServerActs, PcActs, ClientStep

----------------------------------------------------------------------------
(* The clients                                                              *)

\* udp_discover and query_stream keep the clients' invariant: a response that
\* udp_loop sends goes to the address that its request came from, and
\* validate_response lets no other query take it.
LEMMA ClientKept ==
    ASSUME SetupType, ClientInv, [Next]_vars,
           \A q \in Queries : transport[q] = "udp" => ~(answers[q] > 0)
    PROVE  ClientInv'
<1>1. UNCHANGED setup
    BY ServerFrame
<1>2. ASSUME NEW q \in Queries, PcActs(q) PROVE ClientInv'
  <2>1. UNCHANGED <<result, seen, net>>
    BY <1>2, ServerFrame
  <2>2. /\ pc' \in [Queries -> {"idle", "bound", "wait", "connect", "send"} \cup Over]
        /\ \A r \in Queries : pc'[r] = "ok" => pc[r] = "ok"
        /\ \A r \in Queries : pc'[r] \in {"connect", "send"} => pc[r] \in {"connect", "send"}
    BY <1>2 DEF ClientInv, PcActs, Bind, QueryFails, WindowEnds, Connected, StreamTimeout,
                StreamFails, Go, Over
  <2> QED BY <1>1, <2>1, <2>2 DEF ClientInv, OwnAnswer, setup
<1>3. ASSUME NEW q \in Queries, Transmit(q) PROVE ClientInv'
  <2>1. PICK a \in Addrs : net' = net \cup {<<"request", q, a>>} /\ Saw(q, a)
    BY <1>3 DEF Transmit
  <2>2. /\ pc' \in [Queries -> {"idle", "bound", "wait", "connect", "send"} \cup Over]
        /\ \A r \in Queries : pc'[r] = "ok" => pc[r] = "ok"
        /\ \A r \in Queries : pc'[r] \in {"connect", "send"} => pc[r] \in {"connect", "send"}
        /\ UNCHANGED result
    BY <1>3 DEF ClientInv, Transmit, Go
  <2>3. /\ seen' \in [Queries -> SUBSET Addrs]
        /\ \A r \in Queries : seen[r] \subseteq seen'[r]
        /\ a \in seen'[q]
    BY <2>1 DEF ClientInv, Saw
  <2>4. net' \subseteq {"request", "response"} \X Queries \X Addrs
    BY <2>1, SMT DEF ClientInv
  <2>5. \A d \in net' : d[3] \in seen'[d[2]]
    <3> TAKE d \in net'
    <3>1. CASE d \in net
      BY <3>1, <2>3 DEF ClientInv
    <3>2. CASE d = <<"request", q, a>>
      BY <3>2, <2>3
    <3> QED BY <3>1, <3>2, <2>1
  <2> QED BY <1>1, <2>2, <2>3, <2>4, <2>5 DEF ClientInv, OwnAnswer, setup
<1>4. ASSUME NEW q \in Queries, Connect(q) \/ SendRequests(q) PROVE ClientInv'
    BY <1>1, <1>4 DEF ClientInv, OwnAnswer, setup, Connect, SendRequests, Go
<1>5. ASSUME NEW q \in Queries, RecvAnswer(q) PROVE ClientInv'
  <2>1. transport[q] # "udp"
    BY <1>5 DEF RecvAnswer
  <2> QED BY <1>1, <1>5, <2>1 DEF ClientInv, OwnAnswer, setup, RecvAnswer, Go, Over
<1>6. ASSUME NEW q \in Queries, NEW d \in net, RecvResponse(q, d) PROVE ClientInv'
  <2>1. d[3] \in seen[q] /\ d[3] \in Addrs
    BY <1>6 DEF ClientInv, RecvResponse, Valid
  <2> QED BY <1>1, <1>6, <2>1 DEF ClientInv, OwnAnswer, setup, RecvResponse, Go, Over
<1>7. ASSUME NEW d \in net, UdpServe(d) PROVE ClientInv'
  <2>1. d[2] \in Queries /\ d[3] \in Addrs /\ d[3] \in seen[d[2]]
    BY DEF ClientInv
  <2>2. net' \subseteq {"request", "response"} \X Queries \X Addrs
    BY <1>7, <2>1, SMT DEF ClientInv, UdpServe
  <2>3. \A e \in net' : e[3] \in seen[e[2]]
    BY <1>7, <2>1, SMT DEF ClientInv, UdpServe
  <2> QED BY <1>1, <1>7, <2>2, <2>3 DEF ClientInv, OwnAnswer, setup, UdpServe, clientVars
<1>8. CASE ServerActs \/ UNCHANGED vars
  <2>1. UNCHANGED <<clientVars, net>>
    BY <1>8, ServerFrame DEF vars
  <2> QED BY <1>1, <2>1 DEF ClientInv, OwnAnswer, setup, clientVars
<1> QED BY <1>2, <1>3, <1>4, <1>5, <1>6, <1>7, <1>8, Cases

\* The limits of the configuration are positive, and so is what a client sends.
LEMMA Limits ==
    /\ Tries \in Nat /\ Tries > 0 /\ MaxConns \in Nat /\ MaxConns > 0
    /\ FrameLen \in Nat /\ FrameLen > 0 /\ DownCap \in Nat
    /\ \A q \in Queries : Total(q) \in Nat
<1>1. \A q \in Queries : Requests[q] \in Nat /\ FrameLen \in Nat
    BY StunAssumption
<1>2. \A q \in Queries : Requests[q] * FrameLen \in Nat
    BY <1>1, SMT
<1> QED BY <1>2, StunAssumption, SMT DEF Total

\* udp_discover sends no more than UDP_RETRIES_MS has entries.
LEMMA TriesKept ==
    ASSUME ClientInv, TriesInv, [Next]_vars
    PROVE  TriesInv'
<1> USE Limits
<1>1. ASSUME NEW q \in Queries, PcActs(q) PROVE TriesInv'
  <2>1. tries' = tries
    BY <1>1, ServerFrame
  <2>2. \A r \in Queries :
            /\ pc'[r] = "idle" => pc[r] = "idle"
            /\ pc'[r] = "bound" => pc[r] \in {"idle", "bound"} \/ tries[r] < Tries
    BY <1>1 DEF ClientInv, PcActs, Bind, QueryFails, WindowEnds, Connected, StreamTimeout,
                StreamFails, Go
  <2> QED BY <2>1, <2>2 DEF TriesInv
<1>2. ASSUME NEW q \in Queries, Transmit(q) PROVE TriesInv'
    BY <1>2, SMT DEF TriesInv, ClientInv, Transmit, Go
<1>3. ASSUME NEW q \in Queries,
             \/ Connect(q) \/ SendRequests(q) \/ RecvAnswer(q)
             \/ \E d \in net : RecvResponse(q, d)
      PROVE TriesInv'
    BY <1>3 DEF TriesInv, ClientInv, Connect, SendRequests, RecvAnswer, RecvResponse, Go
<1>4. CASE (\E d \in net : UdpServe(d)) \/ ServerActs \/ UNCHANGED vars
    BY <1>4, ServerFrame DEF TriesInv, UdpServe, clientVars, vars
<1> QED BY <1>1, <1>2, <1>3, <1>4, Cases

----------------------------------------------------------------------------
(* The server's connections and streams                                     *)

\* Nothing that the server's tasks are made of changes.
SameTasks == UNCHANGED <<conn, stream, loops, doomed>>

\* accept loops, tls_conn, quic_conn, stream_conn_loop and shutdown keep a TCP
\* or TLS stream within its connection, and doom no such stream by itself.
LEMMA ConnKept ==
    ASSUME SetupType, ClientInv, ConnInv, [Next]_vars
    PROVE  ConnInv'
<1>1. transport' = transport
    BY ServerFrame DEF setup
<1>2. ASSUME \A r \in Queries : pc'[r] = "idle" => pc[r] = "idle", SameTasks PROVE ConnInv'
    BY <1>1, <1>2 DEF ConnInv, SameTasks
<1>3. ASSUME NEW q \in Queries, PcActs(q) PROVE ConnInv'
  <2>1. SameTasks
    BY <1>3, ServerFrame DEF SameTasks, serverVars, taskVars
  <2>2. \A r \in Queries : pc'[r] = "idle" => pc[r] = "idle"
    BY <1>3 DEF ClientInv, PcActs, Bind, QueryFails, WindowEnds, Connected, StreamTimeout,
                StreamFails, Go
  <2> QED BY <2>1, <2>2, <1>2
<1>4. ASSUME NEW q \in Queries,
             \/ Transmit(q) \/ SendRequests(q) \/ RecvAnswer(q)
             \/ \E d \in net : RecvResponse(q, d)
      PROVE ConnInv'
  <2>1. SameTasks
    BY <1>4 DEF Transmit, SendRequests, RecvAnswer, RecvResponse, SameTasks, serverVars, taskVars
  <2>2. \A r \in Queries : pc'[r] = "idle" => pc[r] = "idle"
    BY <1>4 DEF ClientInv, Transmit, SendRequests, RecvAnswer, RecvResponse, Go
  <2> QED BY <2>1, <2>2, <1>2
<1>5. ASSUME NEW q \in Queries, Connect(q) PROVE ConnInv'
    BY <1>1, <1>5 DEF ConnInv, ClientInv, Connect, Go, taskVars
<1>6. CASE (\E d \in net : UdpServe(d)) \/ UNCHANGED vars
    BY <1>2, <1>6 DEF UdpServe, clientVars, serverVars, taskVars, vars, SameTasks
<1>7. ASSUME ServerActs PROVE ConnInv'
  <2>1. pc' = pc
    BY <1>7, ServerFrame DEF clientVars
  <2>2. ASSUME NEW c \in Queries, TakeSlot(c) \/ Refuse(c) PROVE ConnInv'
    BY <1>1, <2>1, <2>2 DEF ConnInv, TakeSlot, Refuse, taskVars
  <2>3. ASSUME NEW c \in Queries, SpawnConn(c) PROVE ConnInv'
    BY <1>1, <2>1, <2>3, SMT DEF ConnInv, SpawnConn, taskVars
  <2>4. ASSUME NEW c \in Queries, HandshakeDone(c) PROVE ConnInv'
    BY <1>1, <2>1, <2>4 DEF ConnInv, HandshakeDone, taskVars
  <2>5. ASSUME NEW c \in Queries, HandshakeFails(c) \/ QuicConnEnds(c) PROVE ConnInv'
    BY <1>1, <2>1, <2>5 DEF ConnInv, HandshakeFails, QuicConnEnds, ConnEnds, taskVars
  <2>6. ASSUME NEW c \in Queries, AcceptStream(c) PROVE ConnInv'
    BY <1>1, <2>1, <2>6 DEF ConnInv, AcceptStream, taskVars
  <2>7. ASSUME NEW c \in Queries, Reply(c) \/ \E n \in 1 .. FrameLen * Requests[c] : ReadChunk(c, n)
        PROVE ConnInv'
    <3>1. /\ stream[c] \in {"read", "reply"} /\ UNCHANGED <<conn, loops, doomed>>
          /\ \/ stream' = [stream EXCEPT ![c] = "read"]
             \/ stream' = [stream EXCEPT ![c] = "reply"]
      BY <2>7 DEF Reply, ReadChunk, Decode, taskVars
    <3> QED BY <1>1, <2>1, <3>1 DEF ConnInv
  <2>8. ASSUME NEW c \in Queries, ReadEnds(c) \/ WriteFails(c) PROVE ConnInv'
    BY <1>1, <2>1, <2>8, SMT DEF ConnInv, ReadEnds, WriteFails, StreamEnds, ConnEnds, taskVars
  <2>9. ASSUME Shutdown PROVE ConnInv'
    <3>1. doomed' \subseteq Tasks
      BY <2>9, SMT DEF ConnInv, Shutdown, Tasks
    <3>2. \A c \in Queries : <<"stream", c>> \in doomed' => transport[c] = "quic" /\ stream[c] # "none"
      BY <2>9 DEF Shutdown
    <3> QED BY <1>1, <2>1, <2>9, <3>1, <3>2 DEF ConnInv, Shutdown, serverVars
  <2>10. ASSUME NEW t \in Transports, CancelLoop(t) PROVE ConnInv'
    BY <1>1, <2>1, <2>10 DEF ConnInv, CancelLoop, serverVars
  <2>11. ASSUME NEW c \in Queries, CancelConn(c) PROVE ConnInv'
    <3>1. doomed' \subseteq doomed /\ loops' = loops
      BY <2>11 DEF CancelConn
    <3>2. \/ UNCHANGED <<conn, stream>>
          \/ /\ conn[c] = "handshake" \/ (transport[c] = "quic" /\ conn[c] = "serve")
             /\ conn' = [conn EXCEPT ![c] = "over"] /\ UNCHANGED stream
          \/ /\ conn[c] = "serve"
             /\ conn' = [conn EXCEPT ![c] = "over"]
             /\ stream' = [stream EXCEPT ![c] = "over"]
      BY <2>11 DEF CancelConn, ConnEnds, StreamEnds, serverVars
    <3>3. CASE UNCHANGED <<conn, stream>>
      BY <1>1, <2>1, <3>1, <3>3 DEF ConnInv
    <3>4. CASE /\ conn[c] = "handshake" \/ (transport[c] = "quic" /\ conn[c] = "serve")
               /\ conn' = [conn EXCEPT ![c] = "over"] /\ UNCHANGED stream
      BY <1>1, <2>1, <3>1, <3>4 DEF ConnInv
    <3>5. CASE /\ conn[c] = "serve"
               /\ conn' = [conn EXCEPT ![c] = "over"]
               /\ stream' = [stream EXCEPT ![c] = "over"]
      BY <1>1, <2>1, <3>1, <3>5 DEF ConnInv
    <3> QED BY <3>2, <3>3, <3>4, <3>5
  <2>12. ASSUME NEW c \in Queries, CancelStream(c) PROVE ConnInv'
    <3>1. doomed' \subseteq doomed /\ loops' = loops
      BY <2>12 DEF CancelStream
    <3>2. /\ transport[c] = "quic" /\ stream[c] # "none" /\ UNCHANGED conn
          /\ stream' = [stream EXCEPT ![c] = "over"]
      BY <2>12 DEF CancelStream, StreamEnds, ConnInv
    <3> QED BY <1>1, <2>1, <3>1, <3>2 DEF ConnInv
  <2> QED BY <1>7, <2>2, <2>3, <2>4, <2>5, <2>6, <2>7, <2>8, <2>9, <2>10, <2>11, <2>12
          DEF ServerActs, AcceptStep, ConnStep, CancelStep
<1> QED BY <1>3, <1>4, <1>5, <1>6, <1>7, Cases

----------------------------------------------------------------------------
(* The data on the streams                                                  *)

\* stream_conn_loop and FramedReader: what is in the buffer was sent, and
\* decode has been tried on it before the reader waits for more.
LEMMA DataKept ==
    ASSUME SetupType, ClientInv, ConnInv, DataInv, [Next]_vars
    PROVE  DataInv'
<1> USE Limits
<1>1. transport' = transport
    BY ServerFrame DEF setup
<1>2. ASSUME \A r \in Queries : pc'[r] \in {"idle", "connect", "send"} =>
                                  pc[r] \in {"idle", "connect", "send"},
             UNCHANGED <<up, buf, answers, stream>>
      PROVE DataInv'
    BY <1>1, <1>2 DEF DataInv, Total
<1>3. ASSUME NEW q \in Queries, PcActs(q) PROVE DataInv'
  <2>1. UNCHANGED <<up, buf, answers, stream>>
    BY <1>3, ServerFrame DEF serverVars, dataVars
  <2>2. \A r \in Queries : pc'[r] \in {"idle", "connect", "send"} =>
                             pc[r] \in {"idle", "connect", "send"}
    BY <1>3 DEF ClientInv, PcActs, Bind, QueryFails, WindowEnds, Connected, StreamTimeout,
                StreamFails, Go
  <2> QED BY <2>1, <2>2, <1>2
<1>4. ASSUME NEW q \in Queries,
             Transmit(q) \/ Connect(q) \/ \E d \in net : RecvResponse(q, d)
      PROVE DataInv'
  <2>1. UNCHANGED <<up, buf, answers, stream>>
    BY <1>4 DEF Transmit, Connect, RecvResponse, serverVars, dataVars
  <2>2. \A r \in Queries : pc'[r] \in {"idle", "connect", "send"} =>
                             pc[r] \in {"idle", "connect", "send"}
    BY <1>4 DEF ClientInv, Transmit, Connect, RecvResponse, Go
  <2> QED BY <2>1, <2>2, <1>2
<1>5. ASSUME NEW q \in Queries, SendRequests(q) PROVE DataInv'
  <2>1. /\ up' = [up EXCEPT ![q] = Total(q)] /\ up[q] = 0 /\ buf[q] = 0
        /\ pc' = [pc EXCEPT ![q] = "wait"]
        /\ UNCHANGED <<buf, answers, stream>>
    BY <1>5 DEF SendRequests, Go, DataInv, Total, serverVars
  <2> HIDE DEF Total
  <2> QED BY <1>1, <2>1, SMT DEF DataInv, ClientInv
<1>6. ASSUME NEW q \in Queries, RecvAnswer(q) PROVE DataInv'
  <2>1. /\ answers[q] > 0 /\ answers' = [answers EXCEPT ![q] = @ - 1]
        /\ pc' = [pc EXCEPT ![q] = "ok"]
        /\ UNCHANGED <<up, buf, stream>>
    BY <1>6 DEF RecvAnswer, Go, serverVars
  <2> QED BY <1>1, <2>1, SMT DEF DataInv, ClientInv
<1>7. CASE (\E d \in net : UdpServe(d)) \/ UNCHANGED vars
    BY <1>2, <1>7 DEF UdpServe, clientVars, serverVars, dataVars, vars
<1>8. ASSUME ServerActs PROVE DataInv'
  <2>1. pc' = pc
    BY <1>8, ServerFrame DEF clientVars
  <2>2. ASSUME NEW c \in Queries, TakeSlot(c) \/ Refuse(c) \/ HandshakeFails(c) \/ QuicConnEnds(c)
        PROVE DataInv'
    BY <1>2, <2>1, <2>2 DEF TakeSlot, Refuse, HandshakeFails, QuicConnEnds, dataVars
  <2>3. ASSUME Shutdown \/ \E t \in Transports : CancelLoop(t) PROVE DataInv'
    BY <1>2, <2>1, <2>3 DEF Shutdown, CancelLoop, dataVars, serverVars
  <2>4. ASSUME NEW c \in Queries, SpawnConn(c) \/ HandshakeDone(c) \/ AcceptStream(c)
        PROVE DataInv'
    <3>1. /\ UNCHANGED <<up, buf, answers>>
          /\ stream[c] = "none"
          /\ stream' = stream \/ stream' = [stream EXCEPT ![c] = "read"]
      BY <2>4 DEF SpawnConn, HandshakeDone, AcceptStream, dataVars, ConnInv
    <3>2. stream \in [Queries -> {"none", "read", "reply", "over"}]
      BY DEF ConnInv
    <3> QED BY <1>1, <2>1, <3>1, <3>2 DEF DataInv
  <2>5. ASSUME NEW c \in Queries, NEW n \in 1 .. FrameLen * Requests[c], ReadChunk(c, n)
        PROVE DataInv'
    <3>1. /\ stream[c] = "read" /\ n <= up[c] /\ n \in Nat /\ n > 0
          /\ up' = [up EXCEPT ![c] = @ - n] /\ answers' = answers
          /\ Decode(c, buf[c] + n)
      BY <2>5, SMT DEF ReadChunk
    <3>2. stream \in [Queries -> {"none", "read", "reply", "over"}]
      BY DEF ConnInv
    <3> HIDE DEF Total
    <3>3. /\ up \in [Queries -> Nat] /\ buf \in [Queries -> Nat] /\ answers \in [Queries -> Nat]
          /\ up[c] + buf[c] <= Total(c) /\ up[c] > 0
      BY <3>1, SMT DEF DataInv
    <3>4. /\ up'[c] = up[c] - n /\ answers'[c] = answers[c]
          /\ \/ buf'[c] = buf[c] + n - FrameLen /\ buf[c] + n >= FrameLen /\ stream'[c] = "reply"
             \/ buf'[c] = buf[c] + n /\ buf[c] + n < FrameLen /\ stream'[c] = "read"
      BY <3>1, <3>2, <3>3, SMT DEF Decode
    <3>5. /\ up' \in [Queries -> Nat] /\ buf' \in [Queries -> Nat] /\ answers' \in [Queries -> Nat]
      <4>1. up[c] - n \in Nat /\ buf[c] + n \in Nat
        BY <3>1, <3>3, SMT
      <4> QED BY <3>1, <3>3, <4>1, SMT DEF Decode
    <3>6. \A q \in Queries \ {c} : /\ up'[q] = up[q] /\ buf'[q] = buf[q]
                                   /\ answers'[q] = answers[q] /\ stream'[q] = stream[q]
      BY <3>1, <3>2, <3>3 DEF Decode
    <3> QED BY <1>1, <2>1, <3>3, <3>4, <3>5, <3>6, SMT DEF DataInv
  <2>6. ASSUME NEW c \in Queries, Reply(c) PROVE DataInv'
    <3>1. /\ stream[c] = "reply" /\ answers[c] < DownCap /\ up' = up
          /\ answers' = [answers EXCEPT ![c] = @ + 1]
          /\ Decode(c, buf[c])
      BY <2>6 DEF Reply
    <3>2. /\ stream \in [Queries -> {"none", "read", "reply", "over"}]
          /\ transport[c] # "udp"
      BY <3>1 DEF ConnInv
    <3>3. /\ up \in [Queries -> Nat] /\ buf \in [Queries -> Nat] /\ answers \in [Queries -> Nat]
      BY DEF DataInv
    <3>4. /\ answers'[c] = answers[c] + 1
          /\ \/ buf'[c] = buf[c] - FrameLen /\ buf[c] >= FrameLen /\ stream'[c] = "reply"
             \/ buf'[c] = buf[c] /\ buf[c] < FrameLen /\ stream'[c] = "read"
      BY <3>1, <3>2, <3>3, SMT DEF Decode
    <3>5. /\ buf' \in [Queries -> Nat] /\ answers' \in [Queries -> Nat]
      BY <3>1, <3>3, SMT DEF Decode
    <3>6. \A q \in Queries \ {c} : /\ buf'[q] = buf[q]
                                   /\ answers'[q] = answers[q] /\ stream'[q] = stream[q]
      BY <3>1, <3>2, <3>3 DEF Decode
    <3> QED BY <1>1, <2>1, <3>1, <3>2, <3>3, <3>4, <3>5, <3>6, SMT DEF DataInv
  <2>7. ASSUME NEW c \in Queries, StreamEnds(c) PROVE DataInv'
    <3>1. /\ stream' = [stream EXCEPT ![c] = "over"]
          /\ up' = [up EXCEPT ![c] = 0] /\ buf' = [buf EXCEPT ![c] = 0]
          /\ answers' = answers
      BY <2>7 DEF StreamEnds
    <3>2. stream \in [Queries -> {"none", "read", "reply", "over"}]
      BY DEF ConnInv
    <3> QED BY <1>1, <2>1, <3>1, <3>2, SMT DEF DataInv
  <2>8. ASSUME NEW c \in Queries, ReadEnds(c) \/ WriteFails(c) \/ CancelStream(c)
        PROVE DataInv'
    BY <2>7, <2>8 DEF ReadEnds, WriteFails, CancelStream
  <2>9. ASSUME NEW c \in Queries, CancelConn(c) PROVE DataInv'
    BY <1>2, <2>1, <2>7, <2>9 DEF CancelConn, serverVars, dataVars
  <2> QED BY <1>8, <2>2, <2>3, <2>4, <2>5, <2>6, <2>8, <2>9
          DEF ServerActs, AcceptStep, ConnStep, CancelStep
<1> QED BY <1>3, <1>4, <1>5, <1>6, <1>7, <1>8, Cases

----------------------------------------------------------------------------
(* The count of connections                                                 *)

\* Either the count and the counted connections stay as they are, or one
\* accept loop's take_slot, one refusal or the end of one open connection
\* changes both.
LEMMA CountCases ==
    ASSUME SetupType, ClientInv, ConnInv, [Next]_vars
    PROVE  \/ count' = count /\ Held' = Held /\ Refused' = Refused
           \/ \E c \in Queries : TakeSlot(c) \/ Refuse(c) \/ (c \in Held /\ ConnEnds(c))
<1>1. ASSUME UNCHANGED <<conn, count>>
      PROVE count' = count /\ Held' = Held /\ Refused' = Refused
    BY <1>1 DEF Held, Refused
<1>2. ASSUME NEW q \in Queries, Connect(q)
      PROVE count' = count /\ Held' = Held /\ Refused' = Refused
    BY <1>2 DEF Connect, Go, ConnInv, Held, Refused
<1>3. ASSUME NEW q \in Queries, SpawnConn(q) \/ HandshakeDone(q)
      PROVE count' = count /\ Held' = Held /\ Refused' = Refused
    BY <1>3 DEF SpawnConn, HandshakeDone, ConnInv, Held, Refused
<1>4. ASSUME NEW c \in Queries, HandshakeFails(c) \/ QuicConnEnds(c)
      PROVE c \in Held /\ ConnEnds(c)
    BY <1>4 DEF HandshakeFails, QuicConnEnds, Held
<1>5. ASSUME NEW c \in Queries, ReadEnds(c) \/ WriteFails(c)
      PROVE UNCHANGED <<conn, count>> \/ (c \in Held /\ ConnEnds(c))
    BY <1>5 DEF ReadEnds, WriteFails, StreamEnds, ConnInv, Held
<1>6. ASSUME NEW c \in Queries, CancelConn(c)
      PROVE UNCHANGED <<conn, count>> \/ (c \in Held /\ ConnEnds(c))
    BY <1>6 DEF CancelConn, StreamEnds, serverVars, Held
<1>7. ASSUME NEW c \in Queries, CancelStream(c) PROVE UNCHANGED <<conn, count>>
    BY <1>7 DEF CancelStream, StreamEnds, ConnInv
<1>8. ASSUME NEW c \in Queries,
             AcceptStream(c) \/ Reply(c) \/ \E n \in 1 .. FrameLen * Requests[c] : ReadChunk(c, n)
      PROVE UNCHANGED <<conn, count>>
    BY <1>8 DEF AcceptStream, Reply, ReadChunk
<1>9. ASSUME Shutdown \/ (\E t \in Transports : CancelLoop(t)) \/ UNCHANGED vars
      PROVE UNCHANGED <<conn, count>>
    BY <1>9 DEF Shutdown, CancelLoop, serverVars, vars
<1>10. ASSUME \/ \E d \in net : UdpServe(d)
              \/ \E q \in Queries : \/ PcActs(q) \/ Transmit(q) \/ SendRequests(q) \/ RecvAnswer(q)
                                    \/ \E d \in net : RecvResponse(q, d)
       PROVE UNCHANGED <<conn, count>>
    BY <1>10, ServerFrame DEF UdpServe, Transmit, SendRequests, RecvAnswer, RecvResponse, serverVars
<1>11. ASSUME ServerActs
       PROVE  \/ count' = count /\ Held' = Held /\ Refused' = Refused
              \/ \E c \in Queries : TakeSlot(c) \/ Refuse(c) \/ (c \in Held /\ ConnEnds(c))
    BY <1>1, <1>3, <1>4, <1>5, <1>6, <1>7, <1>8, <1>9, <1>11
       DEF ServerActs, AcceptStep, ConnStep, CancelStep
<1> QED BY <1>1, <1>2, <1>9, <1>10, <1>11, Cases

\* The sets that take_slot counts are finite and apart.
LEMMA CountedFinite ==
    /\ IsFiniteSet(Held) /\ IsFiniteSet(Refused)
    /\ Cardinality(Held) \in Nat /\ Cardinality(Refused) \in Nat
    /\ Cardinality(Held) + Cardinality(Refused) <= Cardinality(Queries)
<1>1. /\ Held \subseteq Queries /\ Refused \subseteq Queries /\ Held \cup Refused \subseteq Queries
      /\ Held \cap Refused = {}
    BY DEF Held, Refused
<1>2. IsFiniteSet(Held) /\ IsFiniteSet(Refused) /\ IsFiniteSet(Held \cup Refused)
    BY <1>1, StunAssumption, FS_Subset
<1>3. /\ Cardinality(Held) \in Nat /\ Cardinality(Refused) \in Nat
      /\ Cardinality(Held \cup Refused) <= Cardinality(Queries)
    BY <1>1, <1>2, StunAssumption, FS_CardinalityType, FS_Subset
<1>4. Cardinality(Held \cup Refused)
        = Cardinality(Held) + Cardinality(Refused) - Cardinality(Held \cap Refused)
    BY <1>2, FS_Union
<1>5. Cardinality(Held \cap Refused) = 0
    BY <1>1, FS_EmptySet
<1> QED BY <1>2, <1>3, <1>4, <1>5, SMT

\* StunServer.conns counts the open connections and those about to be refused,
\* and the former are no more than max_connections.
LEMMA CountKept ==
    ASSUME SetupType, ClientInv, ConnInv, CountInv, [Next]_vars
    PROVE  CountInv'
<1> USE Limits, CountedFinite
<1>1. CASE count' = count /\ Held' = Held /\ Refused' = Refused
    BY <1>1 DEF CountInv
<1>2. ASSUME NEW c \in Queries, TakeSlot(c) PROVE CountInv'
  <2>1. c \notin Held /\ c \notin Refused /\ count' = count + 1
    BY <1>2 DEF TakeSlot, Held, Refused
  <2>2. Cardinality(Held \cup {c}) = Cardinality(Held) + 1
    BY <2>1, FS_AddElement
  <2>3. Cardinality(Refused \cup {c}) = Cardinality(Refused) + 1
    BY <2>1, FS_AddElement
  <2>4. CASE count < MaxConns
    <3>1. Held' = Held \cup {c} /\ Refused' = Refused
      BY <1>2, <2>4 DEF TakeSlot, Held, Refused, ConnInv
    <3> QED BY <2>1, <2>2, <2>4, <3>1, SMT DEF CountInv
  <2>5. CASE ~(count < MaxConns)
    <3>1. Held' = Held /\ Refused' = Refused \cup {c}
      BY <1>2, <2>5 DEF TakeSlot, Held, Refused, ConnInv
    <3> QED BY <2>1, <2>3, <3>1, SMT DEF CountInv
  <2> QED BY <2>4, <2>5
<1>3. ASSUME NEW c \in Queries, Refuse(c) PROVE CountInv'
  <2>1. /\ c \in Refused /\ count' = count - 1
        /\ Held' = Held /\ Refused' = Refused \ {c}
    BY <1>3 DEF Refuse, Held, Refused, ConnInv
  <2>2. Cardinality(Refused \ {c}) = Cardinality(Refused) - 1
    BY <2>1, FS_RemoveElement
  <2> QED BY <2>1, <2>2, SMT DEF CountInv
<1>4. ASSUME NEW c \in Queries, c \in Held, ConnEnds(c) PROVE CountInv'
  <2>1. /\ count' = count - 1
        /\ Held' = Held \ {c} /\ Refused' = Refused
    BY <1>4 DEF ConnEnds, Held, Refused, ConnInv
  <2>2. Cardinality(Held \ {c}) = Cardinality(Held) - 1
    BY <1>4, FS_RemoveElement
  <2> QED BY <2>1, <2>2, SMT DEF CountInv
<1> QED BY <1>1, <1>2, <1>3, <1>4, CountCases

----------------------------------------------------------------------------
(* The theorems                                                             *)

\* The inductive invariant.
StunInv == SetupType /\ ClientInv /\ TriesInv /\ ConnInv /\ DataInv /\ CountInv

\* A fresh server and clients that have not begun satisfy it.
LEMMA StunInit == Init => StunInv
<1> SUFFICES ASSUME Init PROVE StunInv
    OBVIOUS
<1> USE Limits
<1>1. SetupType
    BY StunAssumption DEF Init, SetupType, Transports
<1>2. ClientInv
    BY DEF Init, ClientInv, OwnAnswer, Over
<1>3. TriesInv
    BY SMT DEF Init, TriesInv
<1>4. ConnInv
    BY <1>1 DEF Init, ConnInv, SetupType
<1>5. DataInv
    BY SMT DEF Init, DataInv
<1>6. CountInv
  <2>1. Held = {} /\ Refused = {} /\ count = 0
    BY DEF Init, Held, Refused
  <2>2. Cardinality({}) = 0
    BY FS_EmptySet
  <2> QED BY <2>1, <2>2, SMT DEF CountInv
<1> QED BY <1>1, <1>2, <1>3, <1>4, <1>5, <1>6 DEF StunInv

\* Every step of a client or of the server keeps it.
LEMMA StunStep == StunInv /\ [Next]_vars => StunInv'
<1> SUFFICES ASSUME StunInv, [Next]_vars PROVE StunInv'
    OBVIOUS
<1>1. SetupType'
    BY ServerFrame DEF StunInv, SetupType, setup
<1>2. \A q \in Queries : transport[q] = "udp" => ~(answers[q] > 0)
    BY SMT DEF StunInv, DataInv
<1> QED BY <1>1, <1>2, ClientKept, TriesKept, ConnKept, DataKept, CountKept DEF StunInv

\* It implies the invariants of the runs.
LEMMA StunImplies == StunInv => AnswerInv /\ NoStrandedRequest
<1> SUFFICES ASSUME StunInv PROVE AnswerInv /\ NoStrandedRequest
    OBVIOUS
<1>1. count \in 0 .. Cardinality(Queries)
  <2>1. Cardinality(Queries) \in Nat
    BY StunAssumption, FS_CardinalityType
  <2> QED BY <2>1, CountedFinite, SMT DEF StunInv, CountInv
<1>2. \A q \in Queries : /\ up[q] \in 0 .. Total(q)
                         /\ buf[q] \in 0 .. Total(q)
                         /\ answers[q] \in 0 .. DownCap
  <2> HIDE DEF Total
  <2> QED BY Limits, SMT DEF StunInv, DataInv
<1>3. TypeOK
    BY <1>1, <1>2 DEF StunInv, SetupType, ClientInv, TriesInv, ConnInv, TypeOK, Total
<1>4. OwnAnswer /\ SlotLimit
    BY DEF StunInv, ClientInv, CountInv, SlotLimit, Refused
<1>5. NoStrandedRequest
    BY DEF StunInv, DataInv, NoStrandedRequest
<1> QED BY <1>3, <1>4, <1>5 DEF AnswerInv

\* A query over UDP returns an address that the network gave to one of its own
\* requests, though datagrams are lost, repeated and reordered and sockets
\* reused, and the server holds no more than max_connections and counts them
\* exactly, for any number of queries, limits and accept loops.
THEOREM AnswerTheorem == Spec => []AnswerInv
<1>1. Init => StunInv
    BY StunInit
<1>2. StunInv /\ [Next]_vars => StunInv'
    BY StunStep
<1>3. StunInv => AnswerInv
    BY StunImplies
<1> QED BY <1>1, <1>2, <1>3, PTL DEF Spec

\* The server never waits for data with a whole request in its buffer, for
\* requests of any length in chunks of any size.
THEOREM StrandedTheorem == Spec => []NoStrandedRequest
<1>1. Init => StunInv
    BY StunInit
<1>2. StunInv /\ [Next]_vars => StunInv'
    BY StunStep
<1>3. StunInv => NoStrandedRequest
    BY StunImplies
<1> QED BY <1>1, <1>2, <1>3, PTL DEF Spec

=============================================================================
