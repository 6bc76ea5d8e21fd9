--------------------------- MODULE SessionProofs ----------------------------
(***************************************************************************)
(* Proofs about a connection between two karyon nodes, for any versions,   *)
(* any capacities of queues and any number of messages: the two agree on   *)
(* what they speak, and keep to it.                                        *)
(***************************************************************************)
EXTENDS Session, FiniteSetTheorems, TLAPS

----------------------------------------------------------------------------
(* The inductive invariant, by what it is about                            *)

\* Most steps need no arithmetic and are for Zenon; a leaf that does says SMT.
USE Zenon

ConfigType ==
    /\ wire \in {"single", "mux"}
    /\ version \in [Nodes -> Versions]
    /\ meta \in [Nodes -> Versions \cup {NoVersion}]
    /\ required \subseteq Nodes /\ pinging \subseteq Nodes
    /\ verified \in [Nodes -> BOOLEAN]

PlaceType ==
    /\ at \in [Nodes -> Handshaking \cup {"peer", "failed", "ended"}]
    /\ shared \in [Nodes -> SUBSET Protos] /\ streams \in [Nodes -> SUBSET Protos]
    /\ loop \in [Nodes -> {"sleep", "send", "wait"}]
    /\ \A n \in Nodes : loop[n] # "sleep" => at[n] = "peer"

NumberType ==
    /\ sent \in [Nodes -> 0 .. MaxData]
    /\ retry \in [Nodes -> 0 .. MaxFailures]
    /\ \A n \in Nodes : at[n] # "ended" => retry[n] < MaxFailures

LateType == late \in [Nodes -> BOOLEAN]

PipeType == pipe \in [Nodes -> [Streams -> Seq(Messages)]]

BoxType ==
    /\ inbox \in [Nodes -> Seq(Pings)]
    /\ busy \in [Nodes -> Seq(Pings)]
    /\ chan \in [Nodes -> Seq(Ages)]
    /\ \A n \in Nodes : Len(inbox[n]) <= RecvCap /\ Len(busy[n]) <= 1 /\ Len(chan[n]) <= 1

\* A message of this kind is among those of ms, there is one at most, and it
\* belongs to the last ping.
Has(ms, cmd) == \E i \in 1 .. Len(ms) : ms[i].cmd = cmd
One(ms, cmd) ==
    \A i, j \in 1 .. Len(ms) : ms[i].cmd = cmd /\ ms[j].cmd = cmd => i = j
Fresh(ms, cmd) == \A i \in 1 .. Len(ms) : ms[i].cmd = cmd => ms[i].age = "fresh"

\* n accepted the VerMsg of the other.
Accepted(n) == Accepts(n) /\ shared[n] = protocols_intersection(n)

\* An acknowledgement is on its way only from a node that accepted, and the
\* messages of a protocol keep to its stream.
WireInv ==
    \A n \in Nodes :
        /\ Has(pipe[n]["pipe"], "ack") => Accepted(Other(n))
        /\ wire = "mux" /\ Has(pipe[n][Chat], "chat") => Chat \in streams[Other(n)]
        /\ \A t \in Streams \ {StreamOf(Ping)} : ~Has(pipe[n][t], "ping") /\ ~Has(pipe[n][t], "pong")

\* Where the handshake has come to says what the two have agreed on.
AgreedInv ==
    \A n \in Nodes :
        /\ shared[n] \subseteq protocols_intersection(n)
        /\ streams[n] \subseteq shared[n]
        /\ at[n] \in {"ack", "setup", "peer", "ended"} => Accepted(n)
        /\ at[n] \in {"setup", "peer", "ended"} => Accepted(Other(n))

----------------------------------------------------------------------------
(* The two nodes, their streams and their messages                         *)

\* The limits are positive.
LEMMA Limits ==
    /\ SendCap \in Nat /\ RecvCap \in Nat /\ MaxFailures \in Nat /\ MaxFailures > 0
    /\ MaxData \in Nat
BY SessionAssumption, SMT

\* A connection has two ends.
LEMMA TwoNodes ==
    ASSUME NEW n \in Nodes
    PROVE  /\ Other(n) \in Nodes /\ Other(n) # n /\ Other(Other(n)) = n
           /\ \A m \in Nodes : m = n \/ m = Other(n)
<1>1. IsFiniteSet(Nodes \ {n}) /\ Cardinality(Nodes \ {n}) = 1
  <2>1. IsFiniteSet(Nodes) /\ Cardinality(Nodes) = 2
    BY SessionAssumption
  <2>2. IsFiniteSet(Nodes \ {n}) /\ Cardinality(Nodes \ {n}) = Cardinality(Nodes) - 1
    BY <2>1, FS_RemoveElement
  <2> QED BY <2>1, <2>2, SMT
<1>2. PICK o : Nodes \ {n} = {o}
    BY <1>1, FS_Singleton
<1>3. o \in Nodes /\ o # n /\ \A m \in Nodes : m = n \/ m = o
    BY <1>2
<1>4. Other(n) = o
    BY <1>3 DEF Other
<1>5. Other(o) = n
    BY <1>3 DEF Other
<1> QED BY <1>3, <1>4, <1>5

\* Every protocol has a stream.
LEMMA StreamTypes ==
    /\ "pipe" \in Streams /\ Ping \in Streams /\ Chat \in Streams
    /\ StreamOf(Ping) \in Streams /\ StreamOf(Chat) \in Streams
BY DEF Streams, Protos, StreamOf

\* Messages with and without an age.
LEMMA MessageTypes ==
    /\ \A c \in {"version", "ack", "nack", "chat"} : [cmd |-> c] \in Messages /\ [cmd |-> c].cmd = c
    /\ \A c \in {"ping", "pong"}, a \in Ages :
        /\ [cmd |-> c, age |-> a] \in Pings
        /\ [cmd |-> c, age |-> a].cmd = c /\ [cmd |-> c, age |-> a].age = a
    /\ Pings \subseteq Messages
    /\ \A m \in Messages : m.cmd \in {"ping", "pong"} => m \in Pings
    /\ \A m \in Pings : m.cmd \in {"ping", "pong"} /\ m.age \in Ages
<1>1. \A c \in {"version", "ack", "nack", "chat"} : [cmd |-> c] \in Messages /\ [cmd |-> c].cmd = c
    BY DEF Messages
<1>2. \A c \in {"ping", "pong"}, a \in Ages :
        /\ [cmd |-> c, age |-> a] \in Pings
        /\ [cmd |-> c, age |-> a].cmd = c /\ [cmd |-> c, age |-> a].age = a
    BY DEF Pings
<1>3. \A m \in Messages : m.cmd \in {"ping", "pong"} => m \in Pings
    BY DEF Messages
<1>4. \A m \in Pings : m.cmd \in {"ping", "pong"} /\ m.age \in Ages
    BY DEF Pings
<1> QED BY <1>1, <1>2, <1>3, <1>4 DEF Messages

\* Without its first message.
LEMMA Taken ==
    ASSUME NEW S, NEW q \in Seq(S), q # <<>>
    PROVE  /\ Head(q) \in S /\ Tail(q) \in Seq(S)
           /\ Len(q) \in Nat /\ Len(q) > 0 /\ Len(Tail(q)) = Len(q) - 1
           /\ Head(q) = q[1] /\ \A i \in 1 .. Len(Tail(q)) : Tail(q)[i] = q[i + 1]
BY SMT

\* With one more at its end.
LEMMA Added ==
    ASSUME NEW S, NEW q \in Seq(S), NEW x \in S
    PROVE  /\ Append(q, x) \in Seq(S)
           /\ Len(q) \in Nat /\ Len(Append(q, x)) = Len(q) + 1
           /\ Append(q, x)[Len(q) + 1] = x
           /\ \A i \in 1 .. Len(q) : Append(q, x)[i] = q[i]
BY SMT

\* What taking the first message does to the messages of a kind.
LEMMA TakenHas ==
    ASSUME NEW S, NEW q \in Seq(S), q # <<>>, NEW c
    PROVE  /\ Head(q).cmd = c => Has(q, c)
           /\ Has(Tail(q), c) => Has(q, c)
           /\ Head(q).cmd # c => (Has(Tail(q), c) <=> Has(q, c))
           /\ One(q, c) => One(Tail(q), c)
           /\ One(q, c) /\ Head(q).cmd = c => ~Has(Tail(q), c)
           /\ Fresh(q, c) => Fresh(Tail(q), c)
           /\ Fresh(q, c) /\ Head(q).cmd = c => Head(q).age = "fresh"
<1> DEFINE p == Tail(q)
           h == Head(q)
<1>1. /\ Len(q) \in Nat /\ Len(q) > 0 /\ Len(p) = Len(q) - 1 /\ h = q[1]
      /\ \A i \in 1 .. Len(p) : p[i] = q[i + 1]
    BY Taken
<1> HIDE DEF p, h
<1>2. 1 \in 1 .. Len(q) /\ \A i \in 1 .. Len(p) : i + 1 \in 1 .. Len(q) /\ i + 1 # 1
    BY <1>1, SMT
<1>3. h.cmd = c => Has(q, c)
    BY <1>1, <1>2 DEF Has
<1>4. Has(p, c) => Has(q, c)
    BY <1>1, <1>2 DEF Has
<1>5. ASSUME h.cmd # c, Has(q, c) PROVE Has(p, c)
  <2>1. PICK i \in 1 .. Len(q) : q[i].cmd = c
    BY <1>5 DEF Has
  <2>2. i # 1
    BY <1>1, <1>5, <2>1
  <2>3. i - 1 \in 1 .. Len(p) /\ (i - 1) + 1 = i
    BY <1>1, <2>2, SMT
  <2>4. p[i - 1] = q[i]
    BY <1>1, <2>3
  <2> QED BY <2>1, <2>3, <2>4 DEF Has
<1>6. ASSUME One(q, c) PROVE One(p, c)
  <2>1. ASSUME NEW i \in 1 .. Len(p), NEW j \in 1 .. Len(p), p[i].cmd = c, p[j].cmd = c
        PROVE  i + 1 = j + 1
    BY <1>1, <1>2, <1>6, <2>1 DEF One
  <2> QED BY <2>1, SMT DEF One
<1>7. ASSUME One(q, c), h.cmd = c PROVE ~Has(p, c)
    BY <1>1, <1>2, <1>7 DEF One, Has
<1>8. Fresh(q, c) => Fresh(p, c)
    BY <1>1, <1>2 DEF Fresh
<1>9. Fresh(q, c) /\ h.cmd = c => h.age = "fresh"
    BY <1>1, <1>2 DEF Fresh
<1> QED BY <1>3, <1>4, <1>5, <1>6, <1>7, <1>8, <1>9 DEF p, h

\* What one more message does to the messages of a kind.
LEMMA AddedHas ==
    ASSUME NEW S, NEW q \in Seq(S), NEW x \in S, NEW c
    PROVE  /\ Has(Append(q, x), c) <=> Has(q, c) \/ x.cmd = c
           /\ One(q, c) /\ (x.cmd # c \/ ~Has(q, c)) => One(Append(q, x), c)
           /\ Fresh(q, c) /\ (x.cmd = c => x.age = "fresh") => Fresh(Append(q, x), c)
<1> DEFINE p == Append(q, x)
<1>1. /\ Len(q) \in Nat /\ Len(p) = Len(q) + 1 /\ p[Len(q) + 1] = x
      /\ \A i \in 1 .. Len(q) : p[i] = q[i]
    BY Added, SMT
<1> HIDE DEF p
<1>2. Has(p, c) <=> Has(q, c) \/ x.cmd = c
    BY <1>1, SMT DEF Has
<1>3. ASSUME One(q, c), x.cmd # c \/ ~Has(q, c) PROVE One(p, c)
    BY <1>1, <1>3, SMT DEF Has, One
<1>4. ASSUME Fresh(q, c), x.cmd = c => x.age = "fresh" PROVE Fresh(p, c)
    BY <1>1, <1>4, SMT DEF Fresh
<1> QED BY <1>2, <1>3, <1>4 DEF p

\* Aging pings leaves pongs as they are, and the reverse.
LEMMA AgedHas ==
    ASSUME NEW S \in {Messages, Pings}, NEW q \in Seq(S), NEW d \in {"ping", "pong"}
    PROVE  /\ Aged(q, d) \in Seq(S) /\ Len(Aged(q, d)) = Len(q)
           /\ \A e : Has(Aged(q, d), e) <=> Has(q, e)
           /\ \A e : One(q, e) => One(Aged(q, d), e)
           /\ \A e : e # d /\ Fresh(q, e) => Fresh(Aged(q, d), e)
<1> DEFINE p == Aged(q, d)
<1>1. Len(q) \in Nat /\ DOMAIN q = 1 .. Len(q) /\ \A i \in 1 .. Len(q) : q[i] \in S
    BY SMT
<1>2. ASSUME NEW m \in S, m.cmd = d
      PROVE  [m EXCEPT !.age = "stale"] \in S /\ [m EXCEPT !.age = "stale"].cmd = d
  <2>1. m \in Pings
    BY <1>2, MessageTypes
  <2>2. [m EXCEPT !.age = "stale"] \in Pings /\ [m EXCEPT !.age = "stale"].cmd = d
    BY <1>2, <2>1 DEF Pings, Ages
  <2> QED BY <2>2, MessageTypes
<1>3. p = [i \in 1 .. Len(q) |-> IF q[i].cmd = d THEN [q[i] EXCEPT !.age = "stale"] ELSE q[i]]
    BY <1>1 DEF Aged
<1>4. \A i \in 1 .. Len(q) : /\ p[i] \in S /\ p[i].cmd = q[i].cmd
                             /\ q[i].cmd # d => p[i] = q[i]
    BY <1>1, <1>2, <1>3
<1>5. p \in [1 .. Len(q) -> S]
    BY <1>3, <1>4
<1> HIDE DEF p
<1>6. p \in Seq(S) /\ Len(p) = Len(q)
    BY <1>1, <1>5, SMT
<1>7. \A e : Has(p, e) <=> Has(q, e)
    BY <1>4, <1>6 DEF Has
<1>8. \A e : One(q, e) => One(p, e)
    BY <1>4, <1>6 DEF One
<1>9. \A e : e # d /\ Fresh(q, e) => Fresh(p, e)
    BY <1>4, <1>6 DEF Fresh
<1> QED BY <1>6, <1>7, <1>8, <1>9 DEF p

----------------------------------------------------------------------------
(* What the steps change                                                   *)

\* A message is put on its way.
LEMMA PutEffect ==
    ASSUME PipeType, NEW n \in Nodes, NEW s \in Streams, NEW msg \in Messages, Put(n, s, msg)
    PROVE  /\ PipeType'
           /\ pipe'[Other(n)][s] = Append(pipe[Other(n)][s], msg)
           /\ \A m \in Nodes, t \in Streams : m # Other(n) \/ t # s => pipe'[m][t] = pipe[m][t]
<1>1. Other(n) \in Nodes
    BY TwoNodes
<1>2. pipe[Other(n)][s] \in Seq(Messages)
    BY <1>1 DEF PipeType
<1>3. Append(pipe[Other(n)][s], msg) \in Seq(Messages)
    BY <1>2, Added
<1> QED BY <1>1, <1>3 DEF Put, PipeType

\* The first message is taken.
LEMMA TakeEffect ==
    ASSUME PipeType, NEW n \in Nodes, NEW s \in Streams, pipe[n][s] # <<>>,
           pipe' = [pipe EXCEPT ![n][s] = Tail(@)]
    PROVE  /\ PipeType'
           /\ pipe'[n][s] = Tail(pipe[n][s])
           /\ \A m \in Nodes, t \in Streams : m # n \/ t # s => pipe'[m][t] = pipe[m][t]
<1>1. pipe[n][s] \in Seq(Messages)
    BY DEF PipeType
<1>2. Tail(pipe[n][s]) \in Seq(Messages)
    BY <1>1, Taken
<1> QED BY <1>2 DEF PipeType

\* The VerMsg is taken, and the answer put on its way.
LEMMA AnswerEffect ==
    ASSUME PipeType, NEW n \in Nodes, NEW cmd \in {"ack", "nack"}, pipe[n]["pipe"] # <<>>,
           Answer(n, cmd)
    PROVE  /\ PipeType'
           /\ pipe'[n]["pipe"] = Tail(pipe[n]["pipe"])
           /\ pipe'[Other(n)]["pipe"] = Append(pipe[Other(n)]["pipe"], [cmd |-> cmd])
           /\ \A m \in Nodes, t \in Streams : t # "pipe" => pipe'[m][t] = pipe[m][t]
<1>1. Other(n) \in Nodes /\ Other(n) # n /\ "pipe" \in Streams
    BY TwoNodes, StreamTypes
<1>2. pipe[n]["pipe"] \in Seq(Messages) /\ pipe[Other(n)]["pipe"] \in Seq(Messages)
    BY <1>1 DEF PipeType
<1> DEFINE x == [cmd |-> cmd]
<1>3. x \in Messages
    BY MessageTypes
<1>4. Answer(n, cmd) => pipe' = [pipe EXCEPT ![Other(n)]["pipe"] = Append(@, x),
                                             ![n]["pipe"] = Tail(@)]
    BY DEF Answer
<1> HIDE DEF x
<1>5. Tail(pipe[n]["pipe"]) \in Seq(Messages) /\ Append(pipe[Other(n)]["pipe"], x) \in Seq(Messages)
    BY <1>2, <1>3, Taken, Added
<1>6. pipe' = [pipe EXCEPT ![Other(n)]["pipe"] = Append(@, x), ![n]["pipe"] = Tail(@)]
    BY <1>4
<1>7. /\ PipeType'
      /\ pipe'[n]["pipe"] = Tail(pipe[n]["pipe"])
      /\ pipe'[Other(n)]["pipe"] = Append(pipe[Other(n)]["pipe"], x)
      /\ \A m \in Nodes, t \in Streams : t # "pipe" => pipe'[m][t] = pipe[m][t]
    BY <1>1, <1>5, <1>6 DEF PipeType
<1> QED BY <1>7 DEF x

\* The configuration is fixed, and so is what it makes of the protocols.
LEMMA ConfigKept ==
    ASSUME ConfigType, [Next]_vars
    PROVE  /\ UNCHANGED config /\ ConfigType'
           /\ \A n \in Nodes : /\ protocols_intersection(n)' = protocols_intersection(n)
                               /\ Accepts(n)' <=> Accepts(n)
           /\ \A p \in Protos : StreamOf(p)' = StreamOf(p)
<1>1. UNCHANGED config
  <2>1. ASSUME NEW n \in Nodes, HandshakeStep(n) PROVE UNCHANGED config
    BY <2>1 DEF HandshakeStep, send_vermsg, AcceptVersion, RefuseVersion, ReceiveAck, OpenStream,
                AcceptStream, SetupDone, HandshakeFails
  <2>2. ASSUME NEW n \in Nodes, Broadcast(n) \/ ReadStep(n) \/ PeerEnds(n) PROVE UNCHANGED config
    BY <2>2 DEF Broadcast, ReadStep, Deliver, DeliverPing, UnsupportedProtocol, PeerEnds, End
  <2>3. ASSUME NEW n \in Nodes, RecvStep(n) \/ PingStep(n) PROVE UNCHANGED config
    BY <2>3 DEF RecvStep, PingStep, RecvPing, SendPong, PassPong, SleepOver, SendPing, PingTimeout,
                TakePong, Failure, End
  <2> QED BY <2>1, <2>2, <2>3 DEF Next, vars
<1>2. ConfigType'
    BY <1>1 DEF ConfigType, config
<1>3. \A n \in Nodes : protocols_intersection(n)' = protocols_intersection(n)
    BY <1>1 DEF config, protocols_intersection, Other
<1>4. \A n \in Nodes : Accepts(n)' <=> Accepts(n)
    BY <1>1, <1>3 DEF config, Accepts, Other
<1> QED BY <1>1, <1>2, <1>3, <1>4 DEF StreamOf, config

\* Steps that touch neither messages nor the ping protocol.
QuietActs(n) ==
    OpenStream(n) \/ AcceptStream(n) \/ SetupDone(n) \/ HandshakeFails(n)

\* The ends of a peer, by the reader, by ping_loop or from outside.
EndActs(n) == UnsupportedProtocol(n, "pipe") \/ UnsupportedProtocol(n, Ping)
              \/ UnsupportedProtocol(n, Chat) \/ PeerEnds(n)

\* ping_loop counts a failure.
Fails(n) ==
    /\ loop[n] = "wait" /\ Failure(n)
    /\ \/ /\ late' = [late EXCEPT ![n] = TRUE]
          /\ retry[n] + 1 # MaxFailures => UNCHANGED chan
       \/ /\ late' = late /\ chan[n] # <<>> /\ chan[n] # <<"fresh">>
          /\ retry[n] + 1 # MaxFailures => chan' = [chan EXCEPT ![n] = <<>>]

\* ping_loop gets its pong.
Succeeds(n) ==
    /\ loop[n] = "wait" /\ chan[n] # <<>>
    /\ retry' = [retry EXCEPT ![n] = 0]
    /\ loop' = [loop EXCEPT ![n] = "sleep"]
    /\ chan' = [chan EXCEPT ![n] = <<>>]
    /\ UNCHANGED <<config, at, shared, streams, pipe, sent, inbox, busy, late>>

\* The steps of Next, by what they change.
LEMMA Cases ==
    ASSUME [Next]_vars
    PROVE  \/ \E n \in Nodes :
                \/ send_vermsg(n) \/ AcceptVersion(n) \/ RefuseVersion(n) \/ ReceiveAck(n)
                \/ QuietActs(n) \/ Broadcast(n) \/ EndActs(n)
                \/ \E s \in Streams : Deliver(n, s) \/ DeliverPing(n, s)
                \/ RecvPing(n) \/ SendPong(n) \/ PassPong(n)
                \/ SleepOver(n) \/ SendPing(n) \/ Fails(n) \/ Succeeds(n)
           \/ UNCHANGED vars
<1>1. ASSUME NEW n \in Nodes, PingTimeout(n) PROVE Fails(n)
    BY <1>1 DEF PingTimeout, Fails
<1>2. ASSUME NEW n \in Nodes, TakePong(n) PROVE Fails(n) \/ Succeeds(n)
    BY <1>2 DEF TakePong, Fails, Succeeds
<1>3. ASSUME NEW n \in Nodes, NEW s \in Streams, UnsupportedProtocol(n, s) PROVE EndActs(n)
    BY <1>3 DEF EndActs, Streams, Protos
<1> QED BY <1>1, <1>2, <1>3 DEF Next, HandshakeStep, ReadStep, RecvStep, PingStep, QuietActs, EndActs

\* The end of a peer ends its tasks and nothing else.
LEMMA EndEffect ==
    ASSUME NEW n \in Nodes, EndActs(n)
    PROVE  End(n) /\ UNCHANGED <<retry, late>> /\ at[n] = "peer"
BY DEF EndActs, UnsupportedProtocol, PeerEnds

\* Nothing of the ping protocol changes.
LEMMA HandshakeFrame ==
    ASSUME NEW n \in Nodes,
           \/ send_vermsg(n) \/ AcceptVersion(n) \/ RefuseVersion(n) \/ ReceiveAck(n)
           \/ QuietActs(n)
    PROVE  /\ UNCHANGED <<sent, inbox, busy, chan, loop, retry, late>>
           /\ QuietActs(n) => UNCHANGED pipe
           /\ at[n] \in Handshaking
BY DEF send_vermsg, AcceptVersion, RefuseVersion, ReceiveAck, QuietActs, OpenStream, AcceptStream,
       SetupDone, HandshakeFails, pingVars, Handshaking

----------------------------------------------------------------------------
(* Types                                                                   *)

\* Where the handshake goes, and what it leaves in shared and streams.
LEMMA HandshakeEffect ==
    ASSUME NEW n \in Nodes,
           \/ send_vermsg(n) \/ AcceptVersion(n) \/ RefuseVersion(n) \/ ReceiveAck(n)
           \/ QuietActs(n)
    PROVE  /\ at' = at \/ \E to \in {"version", "ack", "setup", "peer", "failed"} :
                              at' = [at EXCEPT ![n] = to]
           /\ shared' = shared \/ shared' = [shared EXCEPT ![n] = protocols_intersection(n)]
           /\ streams' = streams \/ \E p \in (shared[n] \cup streams[Dialer]) \cap shared[n] :
                                       streams' = [streams EXCEPT ![n] = @ \cup {p}]
BY DEF send_vermsg, AcceptVersion, RefuseVersion, ReceiveAck, QuietActs, OpenStream, AcceptStream,
       SetupDone, HandshakeFails, Go

\* Where everybody is stays what it is.
LEMMA PlaceKept ==
    ASSUME ConfigType, PlaceType, [Next]_vars PROVE PlaceType'
<1>1. ASSUME UNCHANGED <<at, shared, streams, loop>> PROVE PlaceType'
    BY <1>1 DEF PlaceType
<1>2. ASSUME NEW n \in Nodes,
             \/ send_vermsg(n) \/ AcceptVersion(n) \/ RefuseVersion(n) \/ ReceiveAck(n)
             \/ QuietActs(n)
      PROVE PlaceType'
  <2>1. loop' = loop /\ at[n] \in Handshaking /\ loop[n] = "sleep"
    BY <1>2, HandshakeFrame DEF PlaceType, Handshaking
  <2>2. protocols_intersection(n) \in SUBSET Protos
    BY DEF protocols_intersection, Protos
  <2>3. shared' \in [Nodes -> SUBSET Protos]
    BY <1>2, <2>2, HandshakeEffect, SMT DEF PlaceType
  <2>4. streams' \in [Nodes -> SUBSET Protos]
    BY <1>2, HandshakeEffect, SMT DEF PlaceType
  <2>5. /\ at' \in [Nodes -> Handshaking \cup {"peer", "failed", "ended"}]
        /\ \A m \in Nodes : m # n => at'[m] = at[m]
    <3>1. at' = at \/ \E to \in {"version", "ack", "setup", "peer", "failed"} :
                          at' = [at EXCEPT ![n] = to]
      BY <1>2, HandshakeEffect
    <3> QED BY <3>1 DEF PlaceType, Handshaking
  <2> QED BY <2>1, <2>3, <2>4, <2>5 DEF PlaceType
<1>3. ASSUME NEW n \in Nodes, End(n) PROVE PlaceType'
    BY <1>3 DEF PlaceType, End, Go
<1>4. ASSUME NEW n \in Nodes,
             \/ Broadcast(n) \/ RecvPing(n) \/ SendPong(n) \/ PassPong(n)
             \/ \E s \in Streams : Deliver(n, s) \/ DeliverPing(n, s)
      PROVE PlaceType'
    BY <1>1, <1>4 DEF Broadcast, RecvPing, SendPong, PassPong, Deliver, DeliverPing, pingVars
<1>5. ASSUME NEW n \in Nodes, SleepOver(n) \/ SendPing(n) \/ Succeeds(n) PROVE PlaceType'
  <2>1. /\ UNCHANGED <<at, shared, streams>> /\ at[n] = "peer"
        /\ \E to \in {"send", "wait", "sleep"} : loop' = [loop EXCEPT ![n] = to]
    BY <1>5 DEF SleepOver, SendPing, Succeeds, PlaceType
  <2> QED BY <2>1 DEF PlaceType
<1>6. ASSUME NEW n \in Nodes, Fails(n) PROVE PlaceType'
  <2>1. \/ End(n)
        \/ UNCHANGED <<at, shared, streams>> /\ loop' = [loop EXCEPT ![n] = "sleep"]
    BY <1>6 DEF Fails, Failure
  <2>2. CASE UNCHANGED <<at, shared, streams>> /\ loop' = [loop EXCEPT ![n] = "sleep"]
    BY <2>2 DEF PlaceType
  <2> QED BY <1>3, <2>1, <2>2
<1>7. CASE UNCHANGED vars
    BY <1>1, <1>7 DEF vars, pingVars
<1> QED BY <1>2, <1>3, <1>4, <1>5, <1>6, <1>7, Cases, EndEffect

\* ping_loop gives up at MAX_FAILURES in a row, not before and not after.
LEMMA NumberKept ==
    ASSUME PlaceType, NumberType, [Next]_vars PROVE NumberType'
<1> USE Limits
<1>1. ASSUME UNCHANGED <<sent, retry>>, \A m \in Nodes : at'[m] # "ended" => at[m] # "ended"
      PROVE NumberType'
    BY <1>1 DEF NumberType
<1>2. ASSUME NEW n \in Nodes,
             \/ send_vermsg(n) \/ AcceptVersion(n) \/ RefuseVersion(n) \/ ReceiveAck(n)
             \/ QuietActs(n)
      PROVE NumberType'
  <2>1. at[n] # "ended" /\ UNCHANGED <<sent, retry>>
    BY <1>2, HandshakeFrame DEF Handshaking
  <2>2. \A m \in Nodes : at'[m] # "ended" => at[m] # "ended"
    BY <1>2, <2>1, HandshakeEffect DEF PlaceType
  <2> QED BY <1>1, <2>1, <2>2
<1>3. ASSUME NEW n \in Nodes, EndActs(n) PROVE NumberType'
  <2>1. UNCHANGED <<sent, retry>> /\ at' = [at EXCEPT ![n] = "ended"]
    BY <1>3, EndEffect DEF End, Go
  <2>2. \A m \in Nodes : at'[m] # "ended" => at[m] # "ended"
    BY <2>1 DEF PlaceType
  <2> QED BY <1>1, <2>1, <2>2
<1>4. ASSUME NEW n \in Nodes, Broadcast(n) PROVE NumberType'
  <2>1. sent[n] < MaxData /\ sent' = [sent EXCEPT ![n] = @ + 1] /\ UNCHANGED <<at, retry>>
    BY <1>4 DEF Broadcast, pingVars
  <2>2. sent' \in [Nodes -> 0 .. MaxData]
    BY <2>1, SMT DEF NumberType
  <2> QED BY <2>1, <2>2 DEF NumberType
<1>5. ASSUME NEW n \in Nodes,
             \/ RecvPing(n) \/ SendPong(n) \/ PassPong(n) \/ SleepOver(n) \/ SendPing(n)
             \/ \E s \in Streams : Deliver(n, s) \/ DeliverPing(n, s)
      PROVE NumberType'
  <2>1. UNCHANGED <<sent, retry, at>>
    BY <1>5 DEF RecvPing, SendPong, PassPong, SleepOver, SendPing, Deliver, DeliverPing, pingVars
  <2> QED BY <1>1, <2>1
<1>6. ASSUME NEW n \in Nodes, Succeeds(n) PROVE NumberType'
  <2>1. retry' = [retry EXCEPT ![n] = 0] /\ UNCHANGED <<sent, at>>
    BY <1>6 DEF Succeeds
  <2> QED BY <2>1, SMT DEF NumberType
<1>7. ASSUME NEW n \in Nodes, Fails(n) PROVE NumberType'
  <2>1. /\ retry' = [retry EXCEPT ![n] = @ + 1] /\ sent' = sent /\ at[n] = "peer"
        /\ \/ retry[n] + 1 = MaxFailures /\ at' = [at EXCEPT ![n] = "ended"]
           \/ retry[n] + 1 # MaxFailures /\ at' = at
    BY <1>7 DEF Fails, Failure, End, Go, PlaceType
  <2>2. retry[n] \in Nat /\ retry[n] < MaxFailures
    BY <2>1, SMT DEF NumberType
  <2>3. at \in [Nodes -> Handshaking \cup {"peer", "failed", "ended"}]
    BY DEF PlaceType
  <2>4. retry' \in [Nodes -> 0 .. MaxFailures]
    BY <2>1, <2>2, SMT DEF NumberType
  <2>5. \A m \in Nodes : at'[m] # "ended" => retry'[m] < MaxFailures
    <3>1. CASE retry[n] + 1 = MaxFailures /\ at' = [at EXCEPT ![n] = "ended"]
      BY <2>1, <2>3, <3>1 DEF NumberType
    <3>2. CASE retry[n] + 1 # MaxFailures /\ at' = at
      BY <2>1, <2>2, <3>2, SMT DEF NumberType
    <3> QED BY <2>1, <3>1, <3>2
  <2> QED BY <2>1, <2>4, <2>5 DEF NumberType
<1>8. CASE UNCHANGED vars
    BY <1>1, <1>8 DEF vars, pingVars
<1> QED BY <1>2, <1>3, <1>4, <1>5, <1>6, <1>7, <1>8, Cases

\* Only ping_loop's failures are noted.
LEMMA LateTypeKept ==
    ASSUME LateType, [Next]_vars PROVE LateType'
<1>1. ASSUME NEW n \in Nodes,
             \/ send_vermsg(n) \/ AcceptVersion(n) \/ RefuseVersion(n) \/ ReceiveAck(n)
             \/ QuietActs(n) \/ EndActs(n) \/ Broadcast(n) \/ RecvPing(n) \/ SendPong(n)
             \/ PassPong(n) \/ SleepOver(n) \/ SendPing(n) \/ Succeeds(n)
             \/ \E s \in Streams : Deliver(n, s) \/ DeliverPing(n, s)
      PROVE UNCHANGED late
    BY <1>1, HandshakeFrame, EndEffect DEF Broadcast, RecvPing, SendPong, PassPong, SleepOver, SendPing,
       Deliver, DeliverPing, Succeeds, pingVars
<1>2. ASSUME NEW n \in Nodes, Fails(n)
      PROVE  late' = late \/ late' = [late EXCEPT ![n] = TRUE]
    BY <1>2 DEF Fails
<1>3. CASE UNCHANGED vars
    BY <1>3 DEF vars, pingVars, LateType
<1> QED BY <1>1, <1>2, <1>3, Cases DEF LateType

\* SendPing, stream by stream and queue by queue.
LEMMA SendPingEffect ==
    ASSUME PipeType, BoxType, NEW n \in Nodes, SendPing(n),
           NEW o \in Nodes, o = Other(n), NEW s \in Streams, s = StreamOf(Ping)
    PROVE  /\ PipeType' /\ BoxType'
           /\ pipe'[o][s] = Append(Aged(pipe[o][s], "ping"), [cmd |-> "ping", age |-> "fresh"])
           /\ pipe'[n][s] = Aged(pipe[n][s], "pong")
           /\ \A m \in Nodes, t \in Streams : t # s => pipe'[m][t] = pipe[m][t]
           /\ inbox'[o] = Aged(inbox[o], "ping") /\ inbox'[n] = Aged(inbox[n], "pong")
           /\ busy'[o] = Aged(busy[o], "ping") /\ busy'[n] = Aged(busy[n], "pong")
           /\ chan'[o] = chan[o]
<1> DEFINE x == [cmd |-> "ping", age |-> "fresh"]
<1>1. x \in Messages
    BY MessageTypes DEF Ages
<1>2. n # o /\ \A m \in Nodes : m = n \/ m = o
    BY TwoNodes
<1>3. /\ pipe' = [pipe EXCEPT ![o][s] = Append(Aged(@, "ping"), x), ![n][s] = Aged(@, "pong")]
      /\ inbox' = [inbox EXCEPT ![o] = Aged(@, "ping"), ![n] = Aged(@, "pong")]
      /\ busy' = [busy EXCEPT ![o] = Aged(@, "ping"), ![n] = Aged(@, "pong")]
      /\ chan' = [chan EXCEPT ![n] = [i \in DOMAIN @ |-> "stale"]]
    BY DEF SendPing
<1> HIDE DEF x
<1>4. pipe[o][s] \in Seq(Messages) /\ pipe[n][s] \in Seq(Messages)
    BY DEF PipeType
<1>5. Aged(pipe[o][s], "ping") \in Seq(Messages) /\ Aged(pipe[n][s], "pong") \in Seq(Messages)
    BY <1>4, AgedHas
<1>6. Append(Aged(pipe[o][s], "ping"), x) \in Seq(Messages)
    BY <1>1, <1>5, Added
<1>7. /\ pipe'[o][s] = Append(Aged(pipe[o][s], "ping"), x)
      /\ pipe'[n][s] = Aged(pipe[n][s], "pong")
      /\ \A m \in Nodes, t \in Streams : t # s => pipe'[m][t] = pipe[m][t]
      /\ pipe' \in [Nodes -> [Streams -> Seq(Messages)]]
    BY <1>2, <1>3, <1>5, <1>6 DEF PipeType
<1>8. /\ inbox[o] \in Seq(Pings) /\ inbox[n] \in Seq(Pings)
      /\ busy[o] \in Seq(Pings) /\ busy[n] \in Seq(Pings)
    BY DEF BoxType
<1>9. /\ Aged(inbox[o], "ping") \in Seq(Pings) /\ Len(Aged(inbox[o], "ping")) = Len(inbox[o])
      /\ Aged(inbox[n], "pong") \in Seq(Pings) /\ Len(Aged(inbox[n], "pong")) = Len(inbox[n])
      /\ Aged(busy[o], "ping") \in Seq(Pings) /\ Len(Aged(busy[o], "ping")) = Len(busy[o])
      /\ Aged(busy[n], "pong") \in Seq(Pings) /\ Len(Aged(busy[n], "pong")) = Len(busy[n])
    BY <1>8, AgedHas
<1>10. /\ inbox' \in [Nodes -> Seq(Pings)] /\ busy' \in [Nodes -> Seq(Pings)]
       /\ inbox'[o] = Aged(inbox[o], "ping") /\ inbox'[n] = Aged(inbox[n], "pong")
       /\ busy'[o] = Aged(busy[o], "ping") /\ busy'[n] = Aged(busy[n], "pong")
    BY <1>2, <1>3, <1>9 DEF BoxType
<1>11. /\ [i \in DOMAIN chan[n] |-> "stale"] \in Seq(Ages)
       /\ Len([i \in DOMAIN chan[n] |-> "stale"]) = Len(chan[n])
  <2>1. chan[n] \in Seq(Ages)
    BY DEF BoxType
  <2>2. Len(chan[n]) \in Nat /\ DOMAIN chan[n] = 1 .. Len(chan[n])
    BY <2>1, SMT
  <2>3. [i \in 1 .. Len(chan[n]) |-> "stale"] \in [1 .. Len(chan[n]) -> Ages]
    BY DEF Ages
  <2> QED BY <2>2, <2>3, SMT
<1>12. /\ chan' \in [Nodes -> Seq(Ages)] /\ chan'[o] = chan[o]
       /\ Len(chan'[n]) = Len(chan[n])
    BY <1>2, <1>3, <1>11 DEF BoxType
<1>13. \A m \in Nodes : Len(inbox'[m]) <= RecvCap /\ Len(busy'[m]) <= 1 /\ Len(chan'[m]) <= 1
    BY <1>2, <1>9, <1>10, <1>12 DEF BoxType
<1> QED BY <1>7, <1>10, <1>12, <1>13 DEF PipeType, BoxType, x

\* The recv queue, recv_loop and the pong channel hold what they may.
LEMMA BoxKept ==
    ASSUME PipeType, BoxType, [Next]_vars PROVE BoxType'
<1> USE Limits
<1>1. ASSUME UNCHANGED <<inbox, busy, chan>> PROVE BoxType'
    BY <1>1 DEF BoxType
<1>2. ASSUME NEW n \in Nodes,
             \/ send_vermsg(n) \/ AcceptVersion(n) \/ RefuseVersion(n) \/ ReceiveAck(n)
             \/ QuietActs(n) \/ Broadcast(n) \/ SleepOver(n)
             \/ \E s \in Streams : Deliver(n, s)
      PROVE BoxType'
  <2>1. UNCHANGED <<inbox, busy, chan>>
    BY <1>2, HandshakeFrame DEF Broadcast, SleepOver, Deliver, pingVars
  <2> QED BY <1>1, <2>1
<1>3. <<>> \in Seq(Pings) /\ <<>> \in Seq(Ages) /\ Len(<<>>) = 0
    BY SMT
<1>4. ASSUME NEW n \in Nodes, End(n) PROVE BoxType'
    BY <1>3, <1>4, SMT DEF BoxType, End
<1>5. ASSUME NEW n \in Nodes, NEW s \in Streams, DeliverPing(n, s) PROVE BoxType'
  <2>1. pipe[n][s] \in Seq(Messages) /\ pipe[n][s] # <<>> /\ Head(pipe[n][s]).cmd \in {"ping", "pong"}
    BY <1>5 DEF DeliverPing, NextIs, PipeType
  <2>2. Head(pipe[n][s]) \in Pings
    BY <2>1, Taken, MessageTypes
  <2>3. inbox[n] \in Seq(Pings) /\ Len(inbox[n]) < RecvCap
    BY <1>5 DEF DeliverPing, BoxType
  <2>4. /\ Append(inbox[n], Head(pipe[n][s])) \in Seq(Pings)
        /\ Len(Append(inbox[n], Head(pipe[n][s]))) <= RecvCap
    BY <2>2, <2>3, Added, SMT
  <2>5. inbox' = [inbox EXCEPT ![n] = Append(@, Head(pipe[n][s]))] /\ UNCHANGED <<busy, chan>>
    BY <1>5 DEF DeliverPing
  <2> QED BY <2>4, <2>5 DEF BoxType
<1>6. ASSUME NEW n \in Nodes, RecvPing(n) PROVE BoxType'
  <2>1. inbox[n] \in Seq(Pings) /\ inbox[n] # <<>> /\ Len(inbox[n]) <= RecvCap
    BY <1>6 DEF RecvPing, BoxType
  <2>2. Tail(inbox[n]) \in Seq(Pings) /\ Len(Tail(inbox[n])) <= RecvCap /\ Head(inbox[n]) \in Pings
    BY <2>1, Taken, SMT
  <2>3. <<Head(inbox[n])>> \in Seq(Pings) /\ Len(<<Head(inbox[n])>>) = 1
    BY <2>2, SMT
  <2>4. /\ inbox' = [inbox EXCEPT ![n] = Tail(@)] /\ busy' = [busy EXCEPT ![n] = <<Head(inbox[n])>>]
        /\ chan' = chan
    BY <1>6 DEF RecvPing
  <2> QED BY <2>2, <2>3, <2>4, SMT DEF BoxType
<1>7. ASSUME NEW n \in Nodes, SendPong(n) PROVE BoxType'
    BY <1>3, <1>7, SMT DEF SendPong, BoxType
<1>8. ASSUME NEW n \in Nodes, PassPong(n) PROVE BoxType'
  <2>1. Head(busy[n]) \in Pings
    BY <1>8, Taken DEF PassPong, BoxType
  <2>2. <<Head(busy[n]).age>> \in Seq(Ages) /\ Len(<<Head(busy[n]).age>>) = 1
    BY <2>1, MessageTypes, SMT
  <2>3. /\ busy' = [busy EXCEPT ![n] = <<>>] /\ chan' = [chan EXCEPT ![n] = <<Head(busy[n]).age>>]
        /\ inbox' = inbox
    BY <1>8 DEF PassPong
  <2> QED BY <1>3, <2>2, <2>3, SMT DEF BoxType
<1>9. ASSUME NEW n \in Nodes, SendPing(n) PROVE BoxType'
    BY <1>9, SendPingEffect, TwoNodes, StreamTypes
<1>10. ASSUME NEW n \in Nodes, Succeeds(n) PROVE BoxType'
    BY <1>3, <1>10, SMT DEF Succeeds, BoxType
<1>11. ASSUME NEW n \in Nodes, Fails(n) PROVE BoxType'
  <2>1. \/ End(n)
        \/ UNCHANGED <<inbox, busy>> /\ (chan' = chan \/ chan' = [chan EXCEPT ![n] = <<>>])
    BY <1>11 DEF Fails, Failure
  <2>2. CASE UNCHANGED <<inbox, busy>> /\ chan' = [chan EXCEPT ![n] = <<>>]
    BY <1>3, <2>2, SMT DEF BoxType
  <2> QED BY <1>1, <1>4, <2>1, <2>2
<1>12. CASE UNCHANGED vars
    BY <1>1, <1>12 DEF vars, pingVars
<1> QED BY <1>2, <1>4, <1>5, <1>6, <1>7, <1>8, <1>9, <1>10, <1>11, <1>12, Cases, EndEffect

----------------------------------------------------------------------------
(* What the steps do to the messages of a kind                             *)

\* Of the messages of this kind, q has no more than p.
NoMore(p, q, c) ==
    /\ Has(q, c) => Has(p, c)
    /\ One(p, c) => One(q, c)
    /\ Fresh(p, c) => Fresh(q, c)

\* A message that is put on its way is of its own kind only.
LEMMA PutKinds ==
    ASSUME PipeType, NEW n \in Nodes, NEW s \in Streams, NEW msg \in Messages, Put(n, s, msg),
           NEW c, c # msg.cmd
    PROVE  \A m \in Nodes, t \in Streams : NoMore(pipe[m][t], pipe'[m][t], c)
<1>0. /\ pipe'[Other(n)][s] = Append(pipe[Other(n)][s], msg)
      /\ \A m \in Nodes, t \in Streams : m # Other(n) \/ t # s => pipe'[m][t] = pipe[m][t]
    BY PutEffect
<1> SUFFICES ASSUME NEW m \in Nodes, NEW t \in Streams PROVE NoMore(pipe[m][t], pipe'[m][t], c)
    OBVIOUS
<1>1. CASE m = Other(n) /\ t = s
  <2>1. pipe'[m][t] = Append(pipe[m][t], msg) /\ pipe[m][t] \in Seq(Messages)
    BY <1>0, <1>1 DEF PipeType
  <2> QED BY <2>1, AddedHas, SMT DEF NoMore
<1>2. CASE m # Other(n) \/ t # s
  <2>1. pipe'[m][t] = pipe[m][t]
    BY <1>0, <1>2
  <2> QED BY <2>1 DEF NoMore
<1> QED BY <1>1, <1>2

\* What is left of other kinds when a message is taken.
LEMMA TakenOthers ==
    ASSUME NEW S, NEW q \in Seq(S), q # <<>>, NEW c, c # Head(q).cmd
    PROVE  NoMore(q, Tail(q), c)
BY TakenHas DEF NoMore

\* And one that is taken.
LEMMA TakeKinds ==
    ASSUME PipeType, NEW n \in Nodes, NEW s \in Streams, pipe[n][s] # <<>>,
           pipe' = [pipe EXCEPT ![n][s] = Tail(@)], NEW c
    PROVE  \A m \in Nodes, t \in Streams :
            /\ Has(pipe'[m][t], c) => Has(pipe[m][t], c)
            /\ c # Head(pipe[n][s]).cmd => NoMore(pipe[m][t], pipe'[m][t], c)
<1> SUFFICES ASSUME NEW m \in Nodes, NEW t \in Streams
             PROVE  /\ Has(pipe'[m][t], c) => Has(pipe[m][t], c)
                    /\ c # Head(pipe[n][s]).cmd => NoMore(pipe[m][t], pipe'[m][t], c)
    OBVIOUS
<1>1. CASE m = n /\ t = s
  <2>1. pipe'[m][t] = Tail(pipe[m][t]) /\ pipe[m][t] \in Seq(Messages)
    BY <1>1, TakeEffect, SMT DEF PipeType
  <2> DEFINE q == pipe[m][t]
  <2>2. q \in Seq(Messages) /\ q # <<>> /\ pipe'[m][t] = Tail(q) /\ Head(pipe[n][s]) = Head(q)
    BY <1>1, <2>1
  <2> HIDE DEF q
  <2>3. Has(Tail(q), c) => Has(q, c)
    BY <2>2, TakenHas
  <2>4. c # Head(q).cmd => NoMore(q, Tail(q), c)
    BY <2>2, TakenOthers
  <2> QED BY <2>2, <2>3, <2>4 DEF q
<1>2. CASE m # n \/ t # s
    BY <1>2, TakeEffect, SMT DEF NoMore
<1> QED BY <1>1, <1>2

\* The answer to a VerMsg.
LEMMA AnswerKinds ==
    ASSUME PipeType, NEW n \in Nodes, NEW cmd \in {"ack", "nack"}, NextIs(n, "pipe", {"version"}),
           Answer(n, cmd), NEW c, c # "version"
    PROVE  \A m \in Nodes, t \in Streams :
            /\ c # cmd => NoMore(pipe[m][t], pipe'[m][t], c)
            /\ m = n => NoMore(pipe[m][t], pipe'[m][t], c)
<1> SUFFICES ASSUME NEW m \in Nodes, NEW t \in Streams, c # cmd \/ m = n
             PROVE  NoMore(pipe[m][t], pipe'[m][t], c)
    OBVIOUS
<1>1. pipe[n]["pipe"] # <<>> /\ Head(pipe[n]["pipe"]).cmd = "version"
    BY DEF NextIs
<1>2. m = n \/ m = Other(n)
    BY TwoNodes
<1>3. pipe[m]["pipe"] \in Seq(Messages)
    BY StreamTypes DEF PipeType
<1>4. CASE t # "pipe"
    BY <1>1, <1>4, AnswerEffect DEF NoMore
<1>5. CASE t = "pipe" /\ m = n
  <2>1. pipe'[m][t] = Tail(pipe[m][t])
    BY <1>1, <1>5, AnswerEffect
  <2> QED BY <1>1, <1>3, <1>5, <2>1, TakenOthers
<1>6. CASE t = "pipe" /\ m # n
  <2> DEFINE x == [cmd |-> cmd]
  <2>1. x \in Messages /\ x.cmd # c
    BY <1>6, MessageTypes
  <2>2. pipe'[m][t] = Append(pipe[m][t], x)
    BY <1>1, <1>2, <1>6, AnswerEffect
  <2> HIDE DEF x
  <2> QED BY <1>3, <1>6, <2>1, <2>2, AddedHas, SMT DEF NoMore
<1> QED BY <1>4, <1>5, <1>6

\* The handshake sends no message of a protocol, and takes none.
LEMMA HandshakeKinds ==
    ASSUME PipeType, NEW n \in Nodes,
           \/ send_vermsg(n) \/ AcceptVersion(n) \/ RefuseVersion(n) \/ ReceiveAck(n)
           \/ QuietActs(n),
           NEW c \in {"ping", "pong", "chat"}
    PROVE  PipeType' /\ \A m \in Nodes, t \in Streams : NoMore(pipe[m][t], pipe'[m][t], c)
<1>1. CASE send_vermsg(n)
  <2> DEFINE x == [cmd |-> "version"]
  <2>1. x \in Messages /\ x.cmd # c /\ Put(n, "pipe", x)
    BY <1>1, MessageTypes DEF send_vermsg
  <2> HIDE DEF x
  <2> QED BY <2>1, PutEffect, PutKinds, StreamTypes
<1>2. CASE AcceptVersion(n)
    BY <1>2, AnswerEffect, AnswerKinds DEF AcceptVersion, NextIs
<1>3. CASE RefuseVersion(n)
    BY <1>3, AnswerEffect, AnswerKinds DEF RefuseVersion, NextIs
<1>4. CASE ReceiveAck(n)
    BY <1>4, TakeEffect, TakeKinds, StreamTypes DEF ReceiveAck, NextIs
<1>5. CASE QuietActs(n)
    BY <1>5, HandshakeFrame DEF NoMore, PipeType
<1> QED BY <1>1, <1>2, <1>3, <1>4, <1>5

\* Chat touches no ping, no pong and no VerAck.
LEMMA ChatKinds ==
    ASSUME PipeType, NEW n \in Nodes,
           Broadcast(n) \/ \E s \in Streams : Deliver(n, s),
           NEW c \in {"ping", "pong", "ack"}
    PROVE  PipeType' /\ \A m \in Nodes, t \in Streams : NoMore(pipe[m][t], pipe'[m][t], c)
<1>1. CASE Broadcast(n)
  <2> DEFINE x == [cmd |-> "chat"]
  <2>1. x \in Messages /\ x.cmd # c /\ Put(n, StreamOf(Chat), x)
    BY <1>1, MessageTypes DEF Broadcast
  <2> HIDE DEF x
  <2> QED BY <2>1, PutEffect, PutKinds, StreamTypes
<1>2. ASSUME NEW s \in Streams, Deliver(n, s)
      PROVE PipeType' /\ \A m \in Nodes, t \in Streams : NoMore(pipe[m][t], pipe'[m][t], c)
    BY <1>2, TakeEffect, TakeKinds DEF Deliver, NextIs
<1> QED BY <1>1, <1>2

\* The pong that answers a ping.
LEMMA PongSent ==
    ASSUME BoxType, NEW n \in Nodes, SendPong(n)
    PROVE  \E x \in Messages : /\ x.cmd = "pong" /\ x.age = Head(busy[n]).age
                               /\ Put(n, StreamOf(Ping), x)
<1>1. Head(busy[n]) \in Pings
    BY Taken DEF SendPong, BoxType
<1> DEFINE x == [Head(busy[n]) EXCEPT !.cmd = "pong"]
<1>2. x \in Pings /\ x.cmd = "pong" /\ x.age = Head(busy[n]).age
    BY <1>1 DEF Pings
<1>3. x \in Messages
    BY <1>2, MessageTypes
<1>4. Put(n, StreamOf(Ping), x)
    BY DEF SendPong
<1> HIDE DEF x
<1> QED BY <1>2, <1>3, <1>4

\* The ping protocol touches no message of another kind, and keeps to its stream.
LEMMA PingKinds ==
    ASSUME PipeType, BoxType, NEW n \in Nodes,
           SendPong(n) \/ SendPing(n) \/ \E s \in Streams : DeliverPing(n, s)
    PROVE  /\ PipeType'
           /\ \A c \in {"ack", "chat"}, m \in Nodes, t \in Streams :
                Has(pipe'[m][t], c) => Has(pipe[m][t], c)
           /\ \A c \in {"ping", "pong"}, m \in Nodes, t \in Streams \ {StreamOf(Ping)} :
                Has(pipe'[m][t], c) => Has(pipe[m][t], c)
<1>1. CASE SendPong(n)
  <2>1. PICK x \in Messages : x.cmd = "pong" /\ Put(n, StreamOf(Ping), x)
    BY <1>1, PongSent
  <2>2. \A c \in {"ack", "chat"} : c # x.cmd
    BY <2>1
  <2>3. \A c \in {"ack", "chat"}, m \in Nodes, t \in Streams :
                Has(pipe'[m][t], c) => Has(pipe[m][t], c)
    BY <2>1, <2>2, PutKinds, StreamTypes DEF NoMore
  <2> QED BY <2>1, <2>3, PutEffect, StreamTypes, SMT
<1>2. CASE SendPing(n)
  <2> DEFINE s == StreamOf(Ping)
             o == Other(n)
             x == [cmd |-> "ping", age |-> "fresh"]
  <2>1. x \in Messages /\ x.cmd = "ping"
    BY MessageTypes DEF Ages
  <2>2. s \in Streams /\ o \in Nodes /\ \A m \in Nodes : m = n \/ m = o
    BY TwoNodes, StreamTypes
  <2>3. /\ PipeType'
        /\ pipe'[o][s] = Append(Aged(pipe[o][s], "ping"), x)
        /\ pipe'[n][s] = Aged(pipe[n][s], "pong")
        /\ \A m \in Nodes, t \in Streams : t # s => pipe'[m][t] = pipe[m][t]
    <3>1. o = Other(n) /\ s = StreamOf(Ping)
      OBVIOUS
    <3> HIDE DEF s, o
    <3> QED BY <1>2, <2>2, <3>1, SendPingEffect, SMT
  <2>4. pipe[o][s] \in Seq(Messages) /\ pipe[n][s] \in Seq(Messages)
    BY <2>2 DEF PipeType
  <2> HIDE DEF s, o, x
  <2>5. /\ Aged(pipe[o][s], "ping") \in Seq(Messages)
        /\ \A c : Has(Aged(pipe[o][s], "ping"), c) <=> Has(pipe[o][s], c)
        /\ \A c : Has(Aged(pipe[n][s], "pong"), c) <=> Has(pipe[n][s], c)
    BY <2>4, AgedHas
  <2>6. ASSUME NEW c \in {"ack", "chat"}, NEW m \in Nodes, Has(pipe'[m][s], c)
        PROVE Has(pipe[m][s], c)
    <3>1. CASE m = n
      BY <2>3, <2>5, <2>6, <3>1
    <3>2. CASE m = o
      <4> DEFINE a == Aged(pipe[o][s], "ping")
      <4>1. a \in Seq(Messages) /\ pipe'[o][s] = Append(a, x) /\ (Has(a, c) <=> Has(pipe[o][s], c))
        BY <2>3, <2>5
      <4> HIDE DEF a
      <4>2. Has(Append(a, x), c) <=> Has(a, c) \/ x.cmd = c
        BY <2>1, <4>1, AddedHas
      <4>3. x.cmd # c
        BY <2>1
      <4> QED BY <2>6, <3>2, <4>1, <4>2, <4>3
    <3> QED BY <2>2, <3>1, <3>2
  <2> QED BY <2>3, <2>6 DEF s
<1>3. ASSUME NEW s \in Streams, DeliverPing(n, s)
      PROVE  /\ PipeType'
             /\ \A c : \A m \in Nodes, t \in Streams : Has(pipe'[m][t], c) => Has(pipe[m][t], c)
  <2>1. pipe[n][s] # <<>> /\ pipe' = [pipe EXCEPT ![n][s] = Tail(@)]
    BY <1>3 DEF DeliverPing, NextIs
  <2>2. PipeType'
    BY <2>1, TakeEffect
  <2>3. ASSUME NEW c PROVE \A m \in Nodes, t \in Streams : Has(pipe'[m][t], c) => Has(pipe[m][t], c)
    BY <2>1, TakeKinds
  <2> QED BY <2>2, <2>3
<1> QED BY <1>1, <1>2, <1>3

\* The messages on their way stay messages.
LEMMA PipeKept ==
    ASSUME PipeType, BoxType, [Next]_vars PROVE PipeType'
<1>1. ASSUME UNCHANGED pipe PROVE PipeType'
    BY <1>1 DEF PipeType
<1>2. ASSUME NEW n \in Nodes,
             \/ EndActs(n) \/ RecvPing(n) \/ PassPong(n) \/ SleepOver(n) \/ Fails(n) \/ Succeeds(n)
      PROVE UNCHANGED pipe
    BY <1>2, EndEffect DEF End, RecvPing, PassPong, SleepOver, Fails, Failure, Succeeds
<1>3. CASE UNCHANGED vars
    BY <1>1, <1>3 DEF vars
<1> QED BY <1>1, <1>2, <1>3, HandshakeKinds, ChatKinds, PingKinds, Cases

----------------------------------------------------------------------------
(* Agreement                                                               *)

\* The two ends compute the same set.
LEMMA SameIntersection ==
    ASSUME NEW n \in Nodes
    PROVE  /\ protocols_intersection(Other(n)) = protocols_intersection(n)
           /\ protocols_intersection(n) \subseteq Protos /\ Ping \in protocols_intersection(n)
BY TwoNodes DEF protocols_intersection, mutual_match, Protos

\* What a node computed stays, and so do its streams.
LEMMA AgreementStays ==
    ASSUME ConfigType, PlaceType, [Next]_vars, NEW n \in Nodes
    PROVE  /\ Accepted(n) => Accepted(n)'
           /\ streams[n] \subseteq streams'[n]
           /\ Other(n)' = Other(n)
<1>1. \/ shared' = shared /\ streams' = streams
      \/ \E m \in Nodes :
            \/ send_vermsg(m) \/ AcceptVersion(m) \/ RefuseVersion(m) \/ ReceiveAck(m)
            \/ QuietActs(m)
  <2>1. ASSUME NEW m \in Nodes,
               \/ EndActs(m) \/ RecvPing(m) \/ PassPong(m) \/ SleepOver(m) \/ Fails(m) \/ Succeeds(m)
               \/ Broadcast(m) \/ SendPong(m) \/ SendPing(m)
               \/ \E s \in Streams : Deliver(m, s) \/ DeliverPing(m, s)
        PROVE  shared' = shared /\ streams' = streams
    BY <2>1, EndEffect DEF End, RecvPing, PassPong, SleepOver, Fails, Failure, Succeeds, Broadcast,
       SendPong, SendPing, Deliver, DeliverPing
  <2>2. CASE UNCHANGED vars
    BY <2>2 DEF vars
  <2> QED BY <2>1, <2>2, Cases
<1>2. \/ shared'[n] = shared[n] \/ shared'[n] = protocols_intersection(n)
    BY <1>1, HandshakeEffect, SMT DEF PlaceType
<1>3. streams[n] \subseteq streams'[n]
    BY <1>1, HandshakeEffect, SMT DEF PlaceType
<1>4. Other(n)' = Other(n)
    BY DEF Other
<1> QED BY <1>2, <1>3, <1>4, ConfigKept DEF Accepted

\* VerAck(true) comes from a node that accepted, and the messages of a
\* protocol keep to its stream.
LEMMA WireKept ==
    ASSUME ConfigType, PlaceType, PipeType, BoxType, WireInv, [Next]_vars PROVE WireInv'
<1> SUFFICES ASSUME NEW m \in Nodes
             PROVE  /\ Has(pipe'[m]["pipe"], "ack") => Accepted(Other(m))'
                    /\ wire = "mux" /\ Has(pipe'[m][Chat], "chat") => Chat \in streams'[Other(m)]
                    /\ \A t \in Streams \ {StreamOf(Ping)} :
                        ~Has(pipe'[m][t], "ping") /\ ~Has(pipe'[m][t], "pong")
  <2>1. wire' = wire /\ StreamOf(Ping)' = StreamOf(Ping) /\ Streams' = Streams
    BY ConfigKept DEF config, Protos, Streams
  <2>2. \A m \in Nodes : Other(m)' = Other(m)
    BY DEF Other
  <2> QED BY <2>1, <2>2 DEF WireInv
<1>1. Other(m) \in Nodes /\ "pipe" \in Streams /\ Chat \in Streams
    BY TwoNodes, StreamTypes
<1>2. /\ Has(pipe[m]["pipe"], "ack") => Accepted(Other(m))'
      /\ wire = "mux" /\ Has(pipe[m][Chat], "chat") => Chat \in streams'[Other(m)]
      /\ \A t \in Streams \ {StreamOf(Ping)} : ~Has(pipe[m][t], "ping") /\ ~Has(pipe[m][t], "pong")
  <2>1. /\ Accepted(Other(m)) => Accepted(Other(m))'
        /\ streams[Other(m)] \subseteq streams'[Other(m)]
    BY <1>1, AgreementStays
  <2> QED BY <2>1 DEF WireInv
<1>3. \/ Has(pipe'[m]["pipe"], "ack") => Has(pipe[m]["pipe"], "ack")
      \/ AcceptVersion(Other(m))
  <2>1. ASSUME NEW n \in Nodes, send_vermsg(n)
        PROVE  Has(pipe'[m]["pipe"], "ack") => Has(pipe[m]["pipe"], "ack")
    <3> DEFINE x == [cmd |-> "version"]
    <3>1. x \in Messages /\ x.cmd # "ack" /\ Put(n, "pipe", x)
      BY <2>1, MessageTypes DEF send_vermsg
    <3> HIDE DEF x
    <3> QED BY <1>1, <3>1, PutKinds DEF NoMore
  <2>2. ASSUME NEW n \in Nodes, RefuseVersion(n)
        PROVE  Has(pipe'[m]["pipe"], "ack") => Has(pipe[m]["pipe"], "ack")
    BY <1>1, <2>2, AnswerKinds DEF RefuseVersion, NoMore
  <2>3. ASSUME NEW n \in Nodes, AcceptVersion(n), n # Other(m)
        PROVE  Has(pipe'[m]["pipe"], "ack") => Has(pipe[m]["pipe"], "ack")
    <3>1. m = n
      BY <2>3, TwoNodes
    <3> QED BY <1>1, <2>3, <3>1, AnswerKinds DEF AcceptVersion, NoMore
  <2>4. ASSUME NEW n \in Nodes, ReceiveAck(n)
        PROVE  Has(pipe'[m]["pipe"], "ack") => Has(pipe[m]["pipe"], "ack")
    BY <1>1, <2>4, TakeKinds DEF ReceiveAck, NextIs
  <2>5. ASSUME UNCHANGED pipe PROVE Has(pipe'[m]["pipe"], "ack") => Has(pipe[m]["pipe"], "ack")
    BY <2>5
  <2>6. ASSUME NEW n \in Nodes,
               \/ QuietActs(n) \/ EndActs(n) \/ RecvPing(n) \/ PassPong(n) \/ SleepOver(n)
               \/ Fails(n) \/ Succeeds(n)
        PROVE  UNCHANGED pipe
    BY <2>6, EndEffect, HandshakeFrame DEF End, RecvPing, PassPong, SleepOver, Fails, Failure, Succeeds
  <2>7. ASSUME NEW n \in Nodes, Broadcast(n) \/ \E s \in Streams : Deliver(n, s)
        PROVE  Has(pipe'[m]["pipe"], "ack") => Has(pipe[m]["pipe"], "ack")
    BY <1>1, <2>7, ChatKinds DEF NoMore
  <2>8. ASSUME NEW n \in Nodes, SendPong(n) \/ SendPing(n) \/ \E s \in Streams : DeliverPing(n, s)
        PROVE  Has(pipe'[m]["pipe"], "ack") => Has(pipe[m]["pipe"], "ack")
    BY <1>1, <2>8, PingKinds
  <2>9. CASE UNCHANGED vars
    BY <2>5, <2>9 DEF vars
  <2> QED BY <2>1, <2>2, <2>3, <2>4, <2>5, <2>6, <2>7, <2>8, <2>9, Cases
<1>4. AcceptVersion(Other(m)) => Accepted(Other(m))'
    BY <1>1, ConfigKept DEF AcceptVersion, Accepted, PlaceType
<1>5. \/ Has(pipe'[m][Chat], "chat") => Has(pipe[m][Chat], "chat")
      \/ wire = "mux" => Chat \in streams'[Other(m)]
  <2>1. ASSUME NEW n \in Nodes, Broadcast(n), n = Other(m)
        PROVE  wire = "mux" => Chat \in streams'[Other(m)]
    BY <2>1 DEF Broadcast
  <2>2. ASSUME NEW n \in Nodes, Broadcast(n), n # Other(m)
        PROVE  Has(pipe'[m][Chat], "chat") => Has(pipe[m][Chat], "chat")
    <3> DEFINE x == [cmd |-> "chat"]
    <3>1. x \in Messages /\ Put(n, StreamOf(Chat), x) /\ m # Other(n)
      BY <2>2, MessageTypes, TwoNodes DEF Broadcast
    <3> HIDE DEF x
    <3> QED BY <1>1, <3>1, PutEffect, StreamTypes, SMT
  <2>3. ASSUME NEW n \in Nodes, NEW s \in Streams, Deliver(n, s)
        PROVE  Has(pipe'[m][Chat], "chat") => Has(pipe[m][Chat], "chat")
    BY <1>1, <2>3, TakeKinds DEF Deliver, NextIs
  <2>4. ASSUME NEW n \in Nodes, SendPong(n) \/ SendPing(n) \/ \E s \in Streams : DeliverPing(n, s)
        PROVE  Has(pipe'[m][Chat], "chat") => Has(pipe[m][Chat], "chat")
    BY <1>1, <2>4, PingKinds
  <2>5. ASSUME NEW n \in Nodes,
               \/ send_vermsg(n) \/ AcceptVersion(n) \/ RefuseVersion(n) \/ ReceiveAck(n)
               \/ QuietActs(n)
        PROVE  Has(pipe'[m][Chat], "chat") => Has(pipe[m][Chat], "chat")
    BY <1>1, <2>5, HandshakeKinds DEF NoMore
  <2>6. ASSUME NEW n \in Nodes,
               EndActs(n) \/ RecvPing(n) \/ PassPong(n) \/ SleepOver(n) \/ Fails(n) \/ Succeeds(n)
        PROVE  Has(pipe'[m][Chat], "chat") => Has(pipe[m][Chat], "chat")
    BY <2>6, EndEffect DEF End, RecvPing, PassPong, SleepOver, Fails, Failure, Succeeds
  <2>7. CASE UNCHANGED vars
    BY <2>7 DEF vars
  <2> QED BY <2>1, <2>2, <2>3, <2>4, <2>5, <2>6, <2>7, Cases
<1>6. \A t \in Streams \ {StreamOf(Ping)}, c \in {"ping", "pong"} :
        Has(pipe'[m][t], c) => Has(pipe[m][t], c)
  <2>1. ASSUME NEW n \in Nodes, SendPong(n) \/ SendPing(n) \/ \E s \in Streams : DeliverPing(n, s)
        PROVE  <1>6!:
    BY <2>1, PingKinds
  <2>2. ASSUME NEW n \in Nodes,
               \/ send_vermsg(n) \/ AcceptVersion(n) \/ RefuseVersion(n) \/ ReceiveAck(n)
               \/ QuietActs(n)
        PROVE  <1>6!:
    BY <2>2, HandshakeKinds DEF NoMore
  <2>3. ASSUME NEW n \in Nodes, Broadcast(n) \/ \E s \in Streams : Deliver(n, s)
        PROVE  <1>6!:
    BY <2>3, ChatKinds DEF NoMore
  <2>4. ASSUME NEW n \in Nodes,
               EndActs(n) \/ RecvPing(n) \/ PassPong(n) \/ SleepOver(n) \/ Fails(n) \/ Succeeds(n)
        PROVE  <1>6!:
    BY <2>4, EndEffect DEF End, RecvPing, PassPong, SleepOver, Fails, Failure, Succeeds
  <2>5. CASE UNCHANGED vars
    BY <2>5 DEF vars
  <2> QED BY <2>1, <2>2, <2>3, <2>4, <2>5, Cases
<1> QED BY <1>2, <1>3, <1>4, <1>5, <1>6

\* A node gets past the VerAck only when both accepted.
LEMMA AgreedKept ==
    ASSUME ConfigType, PlaceType, PipeType, WireInv, AgreedInv, [Next]_vars PROVE AgreedInv'
<1> SUFFICES ASSUME NEW m \in Nodes
             PROVE  /\ shared'[m] \subseteq protocols_intersection(m)
                    /\ streams'[m] \subseteq shared'[m]
                    /\ at'[m] \in {"ack", "setup", "peer", "ended"} => Accepted(m)'
                    /\ at'[m] \in {"setup", "peer", "ended"} => Accepted(Other(m))'
  <2>1. \A m \in Nodes : Other(m)' = Other(m)
    BY DEF Other
  <2> QED BY <2>1, ConfigKept DEF AgreedInv
<1>1. /\ Other(m) \in Nodes
      /\ Accepted(m) => Accepted(m)'
      /\ Accepted(Other(m)) => Accepted(Other(m))'
    BY TwoNodes, AgreementStays
<1>2. /\ shared[m] \subseteq protocols_intersection(m)
      /\ streams[m] \subseteq shared[m]
      /\ at[m] \in {"ack", "setup", "peer", "ended"} => Accepted(m)'
      /\ at[m] \in {"setup", "peer", "ended"} => Accepted(Other(m))'
    BY <1>1 DEF AgreedInv
<1>3. CASE UNCHANGED <<shared, streams>> /\ at'[m] = at[m]
    BY <1>2, <1>3
<1>4. ASSUME NEW n \in Nodes,
             \/ send_vermsg(n) \/ AcceptVersion(n) \/ RefuseVersion(n) \/ ReceiveAck(n)
             \/ QuietActs(n)
      PROVE  /\ n # m => at'[m] = at[m] /\ shared'[m] = shared[m] /\ streams'[m] = streams[m]
             /\ shared'[m] \subseteq protocols_intersection(m)
             /\ streams'[m] \subseteq shared'[m]
  <2>1. n # m => at'[m] = at[m] /\ shared'[m] = shared[m] /\ streams'[m] = streams[m]
    BY <1>4, HandshakeEffect, SMT DEF PlaceType
  <2>2. \/ shared'[m] = shared[m] /\ (\/ streams'[m] = streams[m]
                                      \/ \E p \in shared[m] : streams'[m] = streams[m] \cup {p})
        \/ shared'[m] = protocols_intersection(m) /\ streams'[m] = streams[m]
    BY <1>4, <2>1, SMT DEF send_vermsg, AcceptVersion, RefuseVersion, ReceiveAck, QuietActs, OpenStream,
                      AcceptStream, SetupDone, HandshakeFails, PlaceType
  <2> QED BY <1>2, <2>1, <2>2
<1>5. ASSUME send_vermsg(m) \/ RefuseVersion(m) \/ QuietActs(m)
      PROVE  at'[m] \in {"version", "failed"} \/ at'[m] = at[m] \/ (at[m] = "setup" /\ at'[m] = "peer")
    BY <1>5 DEF send_vermsg, RefuseVersion, QuietActs, OpenStream, AcceptStream, SetupDone,
                HandshakeFails, PlaceType, Go
<1>6. ASSUME AcceptVersion(m) PROVE at'[m] = "ack" /\ Accepted(m)'
    BY <1>6, ConfigKept DEF AcceptVersion, Accepted, PlaceType, Go
<1>7. ASSUME ReceiveAck(m)
      PROVE  at[m] = "ack" /\ (at'[m] = "failed" \/ Accepted(Other(m)))
  <2>1. /\ pipe[m]["pipe"] # <<>> /\ Head(pipe[m]["pipe"]).cmd \in {"ack", "nack"}
        /\ pipe[m]["pipe"] \in Seq(Messages)
    BY <1>7, StreamTypes DEF ReceiveAck, NextIs, PipeType
  <2>2. CASE Head(pipe[m]["pipe"]).cmd = "nack"
    BY <1>7, <2>2 DEF ReceiveAck, Go, PlaceType
  <2>3. CASE Head(pipe[m]["pipe"]).cmd = "ack"
    <3>1. Has(pipe[m]["pipe"], "ack")
      BY <2>1, <2>3, TakenHas
    <3> QED BY <1>7, <3>1 DEF WireInv, ReceiveAck
  <2> QED BY <2>1, <2>2, <2>3
<1>8. ASSUME NEW n \in Nodes, EndActs(n) \/ Fails(n)
      PROVE  UNCHANGED <<shared, streams>> /\ (at'[m] = at[m] \/ (at[m] = "peer" /\ at'[m] = "ended"))
    BY <1>8, EndEffect DEF End, Fails, Failure, Go, PlaceType
<1>9. ASSUME NEW n \in Nodes,
             \/ RecvPing(n) \/ PassPong(n) \/ SleepOver(n) \/ Succeeds(n) \/ Broadcast(n)
             \/ SendPong(n) \/ SendPing(n) \/ \E s \in Streams : Deliver(n, s) \/ DeliverPing(n, s)
      PROVE  UNCHANGED <<at, shared, streams>>
    BY <1>9 DEF RecvPing, PassPong, SleepOver, Succeeds, Broadcast, SendPong, SendPing, Deliver,
                DeliverPing
<1>10. CASE UNCHANGED vars
    BY <1>3, <1>10 DEF vars
<1>11. ASSUME NEW n \in Nodes,
              \/ send_vermsg(n) \/ AcceptVersion(n) \/ RefuseVersion(n) \/ ReceiveAck(n)
              \/ QuietActs(n)
       PROVE  /\ at'[m] \in {"ack", "setup", "peer", "ended"} => Accepted(m)'
              /\ at'[m] \in {"setup", "peer", "ended"} => Accepted(Other(m))'
  <2>1. CASE n # m
    BY <1>2, <1>4, <1>11, <2>1
  <2>2. CASE n = m
    BY <1>1, <1>2, <1>5, <1>6, <1>7, <1>11, <2>2
  <2> QED BY <2>1, <2>2
<1> QED BY <1>2, <1>3, <1>4, <1>8, <1>9, <1>10, <1>11, Cases

----------------------------------------------------------------------------
(* The theorems                                                            *)

SessionInv ==
    /\ ConfigType /\ PlaceType /\ NumberType /\ LateType /\ PipeType /\ BoxType
    /\ WireInv /\ AgreedInv

\* Before the handshake.
LEMMA SessionInit == Init => SessionInv
<1> SUFFICES ASSUME Init PROVE SessionInv
    OBVIOUS
<1> USE Limits
<1>1. ConfigType
    BY DEF Init, ConfigType, attach_protocol
<1>2. PlaceType
    BY DEF Init, PlaceType, Handshaking
<1>3. NumberType
    BY SMT DEF Init, NumberType
<1>4. <<>> \in Seq(Messages) /\ <<>> \in Seq(Pings) /\ <<>> \in Seq(Ages) /\ Len(<<>>) = 0
    BY SMT
<1>5. PipeType
    BY <1>4 DEF Init, PipeType
<1>6. BoxType
    BY <1>4, SMT DEF Init, BoxType
<1>7. \A c : ~Has(<<>>, c)
    BY SMT DEF Has
<1>8. \A n \in Nodes, t \in Streams : pipe[n][t] = <<>>
    BY DEF Init
<1>9. WireInv
    BY <1>7, <1>8, StreamTypes DEF WireInv
<1>10. AgreedInv
    BY DEF Init, AgreedInv
<1>11. LateType
    BY DEF Init, LateType
<1> QED BY <1>1, <1>2, <1>3, <1>5, <1>6, <1>9, <1>10, <1>11 DEF SessionInv

\* Every step of either node.
LEMMA SessionStep == SessionInv /\ [Next]_vars => SessionInv'
BY ConfigKept, PlaceKept, NumberKept, LateTypeKept, PipeKept, BoxKept, WireKept, AgreedKept
   DEF SessionInv

\* What it is for.
LEMMA SessionImplies == SessionInv => AgreementInv
<1> SUFFICES ASSUME SessionInv PROVE AgreementInv
    OBVIOUS
<1>1. TypeOK
    BY SMT DEF SessionInv, TypeOK, ConfigType, PlaceType, NumberType, PipeType, BoxType, LateType
<1>2. ASSUME NEW n \in Nodes, at[n] = "peer"
      PROVE  shared[n] = shared[Other(n)] /\ (required # {} => Chat \in shared[n])
  <2>1. /\ Accepted(n) /\ Accepted(Other(n))
        /\ required \subseteq Nodes /\ \A m \in Nodes : m = n \/ m = Other(n)
    BY <1>2, TwoNodes DEF SessionInv, AgreedInv, ConfigType
  <2> QED BY <2>1, SameIntersection, TwoNodes, SMT DEF Accepted, Accepts
<1>3. ASSUME NEW n \in Nodes, at[n] = "setup" PROVE streams[Dialer] \subseteq shared[n]
  <2>1. Accepted(n) /\ Accepted(Other(n)) /\ Dialer \in Nodes
    BY <1>3, SessionAssumption DEF SessionInv, AgreedInv
  <2>2. shared[n] = shared[Other(n)]
    BY <2>1, SameIntersection DEF Accepted
  <2>3. streams[Dialer] \subseteq shared[Dialer] /\ (Dialer = n \/ Dialer = Other(n))
    BY <2>1, TwoNodes DEF SessionInv, AgreedInv
  <2> QED BY <2>2, <2>3
<1>4. ASSUME wire = "mux", NEW n \in Nodes, at[n] = "peer", NextIs(n, Chat, {"chat"})
      PROVE  Chat \in shared[n]
  <2>1. pipe[n][Chat] \in Seq(Messages) /\ pipe[n][Chat] # <<>> /\ Head(pipe[n][Chat]).cmd = "chat"
    BY <1>4, StreamTypes DEF SessionInv, PipeType, NextIs
  <2>2. Has(pipe[n][Chat], "chat")
    BY <2>1, TakenHas
  <2>3. Chat \in streams[Other(n)] /\ Other(n) \in Nodes
    BY <1>4, <2>2, TwoNodes DEF SessionInv, WireInv
  <2>4. Chat \in shared[Other(n)]
    BY <2>3 DEF SessionInv, AgreedInv
  <2> QED BY <1>2, <1>4, <2>4
<1>5. SameProtocols
    BY <1>2, <1>3 DEF SameProtocols
<1>6. NoMuxViolation
    BY <1>4 DEF NoMuxViolation
<1> QED BY <1>1, <1>5, <1>6 DEF AgreementInv

\* It holds throughout.
LEMMA Always == Spec => []SessionInv
<1>1. Init => SessionInv
    BY SessionInit
<1>2. SessionInv /\ [Next]_vars => SessionInv'
    BY SessionStep
<1> QED BY <1>1, <1>2, PTL DEF Spec

\* Two nodes that get through the handshake speak the same protocols, with
\* everything that either requires among them, and over QUIC neither sends what
\* the other's reader treats as a violation: for any versions and requirements.
THEOREM AgreementTheorem == Spec => []AgreementInv
<1>1. SessionInv => AgreementInv
    BY SessionImplies
<1> QED BY <1>1, Always, PTL

=============================================================================
