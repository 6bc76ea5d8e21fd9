-------------------------------- MODULE Stun --------------------------------
(***************************************************************************)
(* STUN clients and the StunServer: Binding queries over UDP, with         *)
(* retransmission, and over TCP, TLS and QUIC streams, with the server's   *)
(* connection slots, its framed reads and its shutdown.                    *)
(*                                                                         *)
(* A query is its transaction id, which is random and taken to be distinct *)
(* for each, and its connection.  On a stream a client other than          *)
(* StunClient may send several requests at once; a request is FrameLen     *)
(* units of data, read in chunks of any size.  Datagrams are lost,         *)
(* duplicated and reordered: one that was sent can be received at any time *)
(* or never.  Stray and malformed datagrams change nothing.                *)
(***************************************************************************)
EXTENDS Integers, FiniteSets

CONSTANTS
    Queries,
    Choices,    \* assignments of a transport to each query
    Sockets,    \* local addresses that UDP queries bind to
    Addrs,      \* public addresses that a NAT may give a query
    Tries,      \* number of UDP_RETRIES_MS
    MaxConns,   \* config.max_connections
    FrameLen,
    Requests,   \* how many requests each client sends if it has a stream
    DownCap     \* responses a connection takes before the client reads

ASSUME StunAssumption ==
    /\ IsFiniteSet(Queries) /\ Addrs # {} /\ Sockets # {}
    /\ {Tries, MaxConns, FrameLen, DownCap} \subseteq Nat \ {0}
    /\ Requests \in [Queries -> Nat \ {0}]
    /\ Choices \subseteq [Queries -> {"udp", "tcp", "tls", "quic"}]

VARIABLES
    transport,  \* scheme of the server endpoint of each query
    sock,       \* the socket of each query over UDP
    pc,         \* where the client of each query is
    tries,      \* transmissions of each query over UDP
    result,     \* the address that a query over UDP returned
    seen,       \* history: addresses that the network gave to a query's requests
    net,        \* datagrams sent so far
    conn,       \* the server's side of each connection
    stream,     \* stream_conn_loop of each connection
    count,      \* StunServer.conns
    up,         \* units that the client sent and the server has not read
    buf,        \* those in the buffer of its FramedReader
    answers,    \* responses that the client has not read
    loops,      \* the server's accept loops and its udp_loop, while they run
    doomed      \* tasks that StunServer::shutdown has yet to cancel

setup == <<transport, sock>>
clientVars == <<pc, tries, result, seen>>
serverVars == <<conn, stream, count>>
dataVars == <<up, buf, answers>>
taskVars == <<loops, doomed>>
vars == <<setup, clientVars, net, serverVars, dataVars, taskVars>>

Transports == {"udp", "tcp", "tls", "quic"}
Over == {"ok", "timeout", "failed"}
Tasks == ({"loop"} \X Transports) \cup ({"conn", "stream"} \X Queries)

TypeOK ==
    /\ transport \in [Queries -> Transports]
    /\ sock \in [Queries -> Sockets]
    /\ pc \in [Queries -> {"idle", "bound", "wait", "connect", "send"} \cup Over]
    /\ tries \in [Queries -> 0 .. Tries]
    /\ result \in [Queries -> Addrs \cup {"none"}]
    /\ seen \in [Queries -> SUBSET Addrs]
    /\ net \subseteq {"request", "response"} \X Queries \X Addrs
    /\ conn \in [Queries -> {"none", "backlog", "counted", "refused",
                             "handshake", "serve", "over"}]
    /\ stream \in [Queries -> {"none", "read", "reply", "over"}]
    /\ count \in 0 .. Cardinality(Queries)
    /\ \A q \in Queries : /\ up[q] \in 0 .. Requests[q] * FrameLen
                          /\ buf[q] \in 0 .. Requests[q] * FrameLen
                          /\ answers[q] \in 0 .. DownCap
    /\ loops \subseteq Transports /\ doomed \subseteq Tasks

\* The server runs, with the endpoints that are queried.
Init ==
    /\ transport \in Choices
    /\ sock \in [Queries -> Sockets]
    /\ pc = [q \in Queries |-> "idle"]
    /\ tries = [q \in Queries |-> 0]
    /\ result = [q \in Queries |-> "none"]
    /\ seen = [q \in Queries |-> {}]
    /\ net = {}
    /\ conn = [q \in Queries |-> "none"]
    /\ stream = [q \in Queries |-> "none"]
    /\ count = 0
    /\ up = [q \in Queries |-> 0] /\ buf = up /\ answers = up
    /\ loops = {transport[q] : q \in Queries} /\ doomed = {}

Go(q, from, to) == pc[q] = from /\ pc' = [pc EXCEPT ![q] = to]

Saw(q, a) == seen' = [seen EXCEPT ![q] = @ \cup {a}]

----------------------------------------------------------------------------
(* discover over UDP                                                        *)

InUse(s) == \E r \in Queries : sock[r] = s /\ pc[r] \in {"bound", "wait"}

Bind(q) ==
    /\ transport[q] = "udp"
    /\ Go(q, "idle", IF InUse(sock[q]) THEN "failed" ELSE "bound")
    /\ UNCHANGED <<setup, tries, result, seen, net, serverVars, dataVars, taskVars>>

\* send_to; the network gives the datagram a source address.
Transmit(q) ==
    /\ Go(q, "bound", "wait")
    /\ tries' = [tries EXCEPT ![q] = @ + 1]
    /\ \E a \in Addrs : net' = net \cup {<<"request", q, a>>} /\ Saw(q, a)
    /\ UNCHANGED <<setup, result, serverVars, dataVars, taskVars>>

\* Each window starts the schedule again.
RetryForEver(q) ==
    /\ transport[q] = "udp"
    /\ Go(q, "wait", "bound")
    /\ tries' = [tries EXCEPT ![q] = 0]
    /\ UNCHANGED <<setup, result, seen, net, serverVars, dataVars, taskVars>>

\* The window of await_udp_response ends.
WindowEnds(q) ==
    /\ transport[q] = "udp"
    /\ Go(q, "wait", IF tries[q] < Tries THEN "bound" ELSE "timeout")
    /\ UNCHANGED <<setup, tries, result, seen, net, serverVars, dataVars, taskVars>>

\* Any response counts.
ValidAnyway(q, d) == d[1] = "response"

\* What await_udp_response returns an address for: it skips what comes from
\* another client, as a request does, and validate_response's mismatch.
Valid(q, d) == d[1] = "response" /\ d[2] = q

\* A datagram comes to the socket.
RecvResponse(q, d) ==
    /\ transport[q] = "udp"
    /\ d \in net /\ sock[d[2]] = sock[q]
    /\ Valid(q, d)
    /\ Go(q, "wait", "ok")
    /\ result' = [result EXCEPT ![q] = d[3]]
    /\ UNCHANGED <<setup, tries, seen, net, serverVars, dataVars, taskVars>>

\* A send or a receive fails, or the server's answer to the query is an error, a
\* request or has no address: any other error of validate_response ends the
\* query.
QueryFails(q) ==
    /\ transport[q] = "udp"
    /\ pc[q] \in {"bound", "wait"}
    /\ pc' = [pc EXCEPT ![q] = "failed"]
    /\ UNCHANGED <<setup, tries, result, seen, net, serverVars, dataVars, taskVars>>

\* udp_loop and handle_binding
UdpServe(d) ==
    /\ "udp" \in loops
    /\ d \in net /\ d[1] = "request"
    /\ net' = net \cup {<<"response", d[2], d[3]>>}
    /\ UNCHANGED <<setup, clientVars, serverVars, dataVars, taskVars>>

----------------------------------------------------------------------------
(* discover over a stream, within STREAM_TIMEOUT_SECS                       *)

Connect(q) ==
    /\ transport[q] # "udp"
    /\ Go(q, "idle", "connect")
    /\ conn' = [conn EXCEPT ![q] = "backlog"]
    /\ UNCHANGED <<setup, tries, result, seen, net, stream, count, dataVars, taskVars>>

\* TCP is ready at once; the other handshakes need the server's task.
Connected(q) ==
    /\ transport[q] = "tcp" \/ conn[q] = "serve"
    /\ Go(q, "connect", "send")
    /\ UNCHANGED <<setup, tries, result, seen, net, serverVars, dataVars, taskVars>>

\* query_stream, and clients that send more.
SendRequests(q) ==
    /\ Go(q, "send", "wait")
    /\ up' = [up EXCEPT ![q] = Requests[q] * FrameLen]
    /\ UNCHANGED <<setup, tries, result, seen, net, serverVars, buf, answers, taskVars>>

\* The address in it is that of the connection.
RecvAnswer(q) ==
    /\ answers[q] > 0
    /\ Go(q, "wait", "ok")
    /\ answers' = [answers EXCEPT ![q] = @ - 1]
    /\ UNCHANGED <<setup, tries, result, seen, net, serverVars, up, buf, taskVars>>

\* with_timeout: the query is dropped and its connection closed.
StreamTimeout(q) ==
    /\ transport[q] # "udp"
    /\ pc[q] \in {"connect", "send", "wait"}
    /\ pc' = [pc EXCEPT ![q] = "timeout"]
    /\ UNCHANGED <<setup, tries, result, seen, net, serverVars, dataVars, taskVars>>

\* The server closed the connection or the stream, or refused it.
StreamFails(q) ==
    /\ transport[q] # "udp"
    /\ pc[q] \in {"connect", "send", "wait"}
    /\ conn[q] = "over" \/ stream[q] = "over"
    /\ pc' = [pc EXCEPT ![q] = "failed"]
    /\ UNCHANGED <<setup, tries, result, seen, net, serverVars, dataVars, taskVars>>

----------------------------------------------------------------------------
(* tcp_loop, tls_loop and quic_loop                                         *)

Busy(t) == \E c \in Queries : transport[c] = t /\ conn[c] \in {"counted", "refused"}

\* accept, and take_slot's fetch_add.
TakeSlot(c) ==
    /\ conn[c] = "backlog"
    /\ transport[c] \in loops /\ ~Busy(transport[c])
    /\ count' = count + 1
    /\ conn' = [conn EXCEPT ![c] = IF count < MaxConns THEN "counted" ELSE "refused"]
    /\ UNCHANGED <<setup, clientVars, net, stream, dataVars, taskVars>>

\* The slot and the connection are dropped.
Refuse(c) ==
    /\ conn[c] = "refused"
    /\ count' = count - 1
    /\ conn' = [conn EXCEPT ![c] = "over"]
    /\ UNCHANGED <<setup, clientVars, net, stream, dataVars, taskVars>>

SpawnConn(c) ==
    /\ conn[c] = "counted"
    /\ IF transport[c] = "tcp"
       THEN /\ conn' = [conn EXCEPT ![c] = "serve"]
            /\ stream' = [stream EXCEPT ![c] = "read"]
       ELSE /\ conn' = [conn EXCEPT ![c] = "handshake"]
            /\ UNCHANGED stream
    /\ UNCHANGED <<setup, clientVars, net, count, dataVars, taskVars>>

\* tls_conn goes on with the stream, quic_conn waits for one.
HandshakeDone(c) ==
    /\ conn[c] = "handshake"
    /\ pc[c] = "connect"
    /\ conn' = [conn EXCEPT ![c] = "serve"]
    /\ stream' = IF transport[c] = "tls" THEN [stream EXCEPT ![c] = "read"] ELSE stream
    /\ UNCHANGED <<setup, clientVars, net, count, dataVars, taskVars>>

\* The end of a connection's task drops its slot.
ConnEnds(c) ==
    /\ conn' = [conn EXCEPT ![c] = "over"]
    /\ count' = count - 1

\* No timeout: a client that goes silent is not noticed.
HandshakeUntimed(c) ==
    /\ conn[c] = "handshake"
    /\ pc[c] = "failed"
    /\ ConnEnds(c)
    /\ UNCHANGED <<setup, clientVars, net, stream, dataVars, taskVars>>

\* It fails, or HANDSHAKE_TIMEOUT_SECS run out.
HandshakeFails(c) ==
    /\ conn[c] = "handshake"
    /\ ConnEnds(c)
    /\ UNCHANGED <<setup, clientVars, net, stream, dataVars, taskVars>>

\* quic_conn: the client's stream gets a task of its own.
AcceptStream(c) ==
    /\ transport[c] = "quic" /\ conn[c] = "serve"
    /\ stream[c] = "none" /\ up[c] > 0
    /\ stream' = [stream EXCEPT ![c] = "read"]
    /\ UNCHANGED <<setup, clientVars, net, conn, count, dataVars, taskVars>>

\* accept_stream fails once the client is gone, or the connection lost.
QuicConnEnds(c) ==
    /\ transport[c] = "quic" /\ conn[c] = "serve"
    /\ ConnEnds(c)
    /\ UNCHANGED <<setup, clientVars, net, stream, dataVars, taskVars>>

----------------------------------------------------------------------------
(* stream_conn_loop and FramedReader::recv_msg                              *)

\* What decode makes of n units: a message, or nothing yet.
Decode(c, n) ==
    IF n >= FrameLen
    THEN /\ buf' = [buf EXCEPT ![c] = n - FrameLen]
         /\ stream' = [stream EXCEPT ![c] = "reply"]
    ELSE /\ buf' = [buf EXCEPT ![c] = n]
         /\ stream' = [stream EXCEPT ![c] = "read"]

ReadChunk(c, n) ==
    /\ stream[c] = "read"
    /\ n <= up[c]
    /\ up' = [up EXCEPT ![c] = @ - n]
    /\ Decode(c, buf[c] + n)
    /\ UNCHANGED <<setup, clientVars, net, conn, count, answers, taskVars>>

\* The next recv_msg reads before it looks at the buffer.
ReplyThenRead(c) ==
    /\ stream[c] = "reply"
    /\ answers[c] < DownCap
    /\ answers' = [answers EXCEPT ![c] = @ + 1]
    /\ stream' = [stream EXCEPT ![c] = "read"]
    /\ UNCHANGED <<setup, clientVars, net, conn, count, up, buf, taskVars>>

\* The response is written; the next recv_msg tries the buffer first.
Reply(c) ==
    /\ stream[c] = "reply"
    /\ answers[c] < DownCap
    /\ answers' = [answers EXCEPT ![c] = @ + 1]
    /\ Decode(c, buf[c])
    /\ UNCHANGED <<setup, clientVars, net, conn, count, up, taskVars>>

\* The task of a TCP or TLS stream is that of its connection.
StreamEnds(c) ==
    /\ stream' = [stream EXCEPT ![c] = "over"]
    /\ up' = [up EXCEPT ![c] = 0]
    /\ buf' = [buf EXCEPT ![c] = 0]
    /\ UNCHANGED answers
    /\ IF transport[c] = "quic" THEN UNCHANGED <<conn, count>> ELSE ConnEnds(c)

\* The client hung up or sent garbage, or STREAM_IDLE_TIMEOUT_SECS run out.
ReadEnds(c) ==
    /\ stream[c] = "read"
    /\ StreamEnds(c)
    /\ UNCHANGED <<setup, clientVars, net, taskVars>>

\* A write has no timeout: it fails once the connection is gone.
WriteFails(c) ==
    /\ stream[c] = "reply"
    /\ pc[c] \in Over \/ conn[c] = "over"
    /\ StreamEnds(c)
    /\ UNCHANGED <<setup, clientVars, net, taskVars>>

----------------------------------------------------------------------------
(* StunServer::shutdown                                                     *)

\* The tasks of the moment; loops not yet cancelled may spawn more.
Shutdown ==
    /\ loops # {} /\ doomed = {}
    /\ doomed' = ({"loop"} \X loops)
                 \cup {<<"conn", c>> : c \in {d \in Queries : conn[d] \in {"handshake", "serve"}}}
                 \cup {<<"stream", c>> : c \in {d \in Queries :
                          transport[d] = "quic" /\ stream[d] \in {"read", "reply"}}}
    /\ UNCHANGED <<setup, clientVars, net, serverVars, dataVars, loops>>

CancelLoop(t) ==
    /\ <<"loop", t>> \in doomed
    /\ ~Busy(t)
    /\ loops' = loops \ {t}
    /\ doomed' = doomed \ {<<"loop", t>>}
    /\ UNCHANGED <<setup, clientVars, net, serverVars, dataVars>>

CancelConn(c) ==
    /\ <<"conn", c>> \in doomed
    /\ doomed' = doomed \ {<<"conn", c>>}
    /\ \/ conn[c] = "over" /\ UNCHANGED <<serverVars, dataVars>>
       \/ /\ \/ conn[c] = "handshake"
             \/ transport[c] = "quic" /\ conn[c] = "serve"
          /\ ConnEnds(c)
          /\ UNCHANGED <<stream, dataVars>>
       \/ /\ transport[c] # "quic" /\ conn[c] = "serve"
          /\ StreamEnds(c)
    /\ UNCHANGED <<setup, clientVars, net, loops>>

CancelStream(c) ==
    /\ <<"stream", c>> \in doomed
    /\ doomed' = doomed \ {<<"stream", c>>}
    /\ StreamEnds(c)
    /\ UNCHANGED <<setup, clientVars, net, loops>>

----------------------------------------------------------------------------

ClientStep(q) ==
    \/ Transmit(q) \/ WindowEnds(q) \/ (\E d \in net : RecvResponse(q, d))
    \/ Connected(q) \/ RecvAnswer(q) \/ StreamTimeout(q) \/ StreamFails(q)

AcceptStep(c) == TakeSlot(c) \/ Refuse(c) \/ SpawnConn(c)

ConnStep(c) ==
    \/ HandshakeDone(c) \/ HandshakeFails(c) \/ AcceptStream(c)
    \/ (\E n \in 1 .. FrameLen * Requests[c] : ReadChunk(c, n))
    \/ Reply(c) \/ ReadEnds(c) \/ WriteFails(c)

CancelStep ==
    \/ \E t \in Transports : CancelLoop(t)
    \/ \E c \in Queries : CancelConn(c) \/ CancelStream(c)

Next ==
    \/ \E q \in Queries :
        \/ Bind(q) \/ Connect(q) \/ QueryFails(q)
        \/ SendRequests(q) \/ ClientStep(q) \/ AcceptStep(q) \/ ConnStep(q) \/ QuicConnEnds(q)
    \/ \E d \in net : UdpServe(d)
    \/ Shutdown \/ CancelStep

Spec == Init /\ [][Next]_vars

\* Tasks are polled and timers run out, on both sides; QUIC notices a client
\* that closed its connection.  The network owes nothing.
FairSpec ==
    /\ Spec
    /\ \A q \in Queries :
        /\ WF_vars(ClientStep(q)) /\ WF_vars(AcceptStep(q)) /\ WF_vars(ConnStep(q))
        /\ WF_vars(pc[q] \in Over /\ QuicConnEnds(q))
    /\ WF_vars(CancelStep)

----------------------------------------------------------------------------

\* A query returns an address that the network gave to one of its own
\* requests, with late, repeated and reordered answers on a socket that
\* served an earlier query (await_udp_response skips other transactions).
OwnAnswer ==
    \A q \in Queries : pc[q] = "ok" /\ transport[q] = "udp" => result[q] \in seen[q]

Held == {c \in Queries : conn[c] \in {"counted", "handshake", "serve"}}

\* No more than max_connections are open, though loops count in parallel and
\* undo the count when it was too high; and the count is that of the open
\* connections and those about to be refused, whatever ended the others.
SlotLimit ==
    /\ Cardinality(Held) <= MaxConns
    /\ count = Cardinality(Held) + Cardinality({c \in Queries : conn[c] = "refused"})

\* A query is answered with its own address, by a server that keeps its limit.
AnswerInv == TypeOK /\ OwnAnswer /\ SlotLimit

\* The server does not wait for data while its buffer has a whole request,
\* however the client's requests are cut into chunks.
NoStrandedRequest ==
    \A c \in Queries : stream[c] = "read" => buf[c] < FrameLen

\* discover ends: after its retransmissions or by its timeout.
QueryEnds == \A q \in Queries : pc[q] # "idle" ~> pc[q] \in Over

\* A client that is done or gone costs no slot for ever: the server notices
\* in the handshake, in a read and in a write.
SlotReturned == \A c \in Queries : (pc[c] \in Over /\ c \in Held) ~> c \notin Held

=============================================================================
