---------------------------- MODULE PingProofs ------------------------------
(***************************************************************************)
(* Proofs about PingProtocol on a connection between two karyon nodes:     *)
(* ping_loop blames no remote that answers in time.                        *)
(***************************************************************************)
EXTENDS SessionProofs

----------------------------------------------------------------------------
(* The inductive invariant                                                 *)

\* Most steps need no arithmetic and are for Zenon; a leaf that does says SMT.
USE Zenon

\* Where the last ping of n, or its pong, is.
PingOnWire(n) == Has(pipe[Other(n)][StreamOf(Ping)], "ping")
PingQueued(n) == Has(inbox[Other(n)], "ping")
PingTaken(n) == Has(busy[Other(n)], "ping")
PongOnWire(n) == Has(pipe[n][StreamOf(Ping)], "pong")
PongQueued(n) == Has(inbox[n], "pong")
PongTaken(n) == Has(busy[n], "pong")
PongPassed(n) == chan[n] # <<>>

\* It is in one place, and that in no more than one copy.
Alone(n) ==
    /\ One(pipe[Other(n)][StreamOf(Ping)], "ping") /\ One(inbox[Other(n)], "ping")
    /\ One(pipe[n][StreamOf(Ping)], "pong") /\ One(inbox[n], "pong")
    /\ PingOnWire(n) => ~PingQueued(n)
    /\ PingOnWire(n) \/ PingQueued(n) => ~PingTaken(n)
    /\ PingOnWire(n) \/ PingQueued(n) \/ PingTaken(n) => ~PongOnWire(n)
    /\ PingOnWire(n) \/ PingQueued(n) \/ PingTaken(n) \/ PongOnWire(n) => ~PongQueued(n)
    /\ PingOnWire(n) \/ PingQueued(n) \/ PingTaken(n) \/ PongOnWire(n) \/ PongQueued(n) => ~PongTaken(n)
    /\ PingOnWire(n) \/ PingQueued(n) \/ PingTaken(n) \/ PongOnWire(n) \/ PongQueued(n)
        \/ PongTaken(n) => ~PongPassed(n)

\* There is none.
Quiet(n) ==
    /\ ~PingOnWire(n) /\ ~PingQueued(n) /\ ~PingTaken(n)
    /\ ~PongOnWire(n) /\ ~PongQueued(n) /\ ~PongTaken(n) /\ ~PongPassed(n)

\* And it belongs to the last ping.
AllFresh(n) ==
    /\ Fresh(pipe[Other(n)][StreamOf(Ping)], "ping") /\ Fresh(inbox[Other(n)], "ping")
    /\ Fresh(busy[Other(n)], "ping")
    /\ Fresh(pipe[n][StreamOf(Ping)], "pong") /\ Fresh(inbox[n], "pong") /\ Fresh(busy[n], "pong")
    /\ \A i \in 1 .. Len(chan[n]) : chan[n][i] = "fresh"

\* As long as no pong was late, a node that does not wait for one has no ping
\* under way, and one that waits has one at most, its last.
PongInv ==
    \A n \in Nodes : ~late[n] =>
        /\ Alone(n) /\ AllFresh(n)
        /\ at[n] # "ended" /\ loop[n] # "wait" => Quiet(n)

----------------------------------------------------------------------------
(* Pings and pongs                                                         *)

\* PongInv, for one node.
PongOf(n) ==
    ~late[n] =>
        /\ Alone(n) /\ AllFresh(n)
        /\ at[n] # "ended" /\ loop[n] # "wait" => Quiet(n)

\* No message at all, and a single one.
LEMMA FewHas ==
    ASSUME NEW c
    PROVE  /\ ~Has(<<>>, c) /\ One(<<>>, c) /\ Fresh(<<>>, c)
           /\ \A x : /\ Has(<<x>>, c) <=> x.cmd = c
                     /\ One(<<x>>, c)
                     /\ (x.cmd = c => x.age = "fresh") => Fresh(<<x>>, c)
<1>1. ~Has(<<>>, c) /\ One(<<>>, c) /\ Fresh(<<>>, c)
    BY SMT DEF Has, One, Fresh
<1>2. ASSUME NEW x
      PROVE  /\ Has(<<x>>, c) <=> x.cmd = c
             /\ One(<<x>>, c)
             /\ (x.cmd = c => x.age = "fresh") => Fresh(<<x>>, c)
  <2>1. Len(<<x>>) = 1 /\ <<x>>[1] = x /\ 1 .. 1 = {1}
    BY SMT
  <2> QED BY <2>1 DEF Has, One, Fresh
<1> QED BY <1>1, <1>2

\* What recv_loop holds is its first message.
LEMMA BusyHas ==
    ASSUME BoxType, NEW n \in Nodes, busy[n] # <<>>, NEW c
    PROVE  /\ Has(busy[n], c) <=> Head(busy[n]).cmd = c
           /\ Fresh(busy[n], c) /\ Head(busy[n]).cmd = c => Head(busy[n]).age = "fresh"
<1>1. busy[n] \in Seq(Pings)
    BY DEF BoxType
<1>2. Len(busy[n]) \in Nat /\ Len(busy[n]) > 0 /\ Head(busy[n]) = busy[n][1]
    BY <1>1, Taken
<1>3. Len(busy[n]) = 1
  <2>1. Len(busy[n]) <= 1
    BY DEF BoxType
  <2>2. ASSUME NEW k \in Nat, k > 0, k <= 1 PROVE k = 1
    BY <2>2, SMT
  <2> QED BY <1>2, <2>1, <2>2
<1>4. 1 .. 1 = {1}
    BY SMT
<1> QED BY <1>2, <1>3, <1>4 DEF Has, Fresh

\* Messages that are not there belong to any ping.
LEMMA NoneFresh ==
    ASSUME NEW q, NEW c, ~Has(q, c) PROVE One(q, c) /\ Fresh(q, c)
BY DEF Has, One, Fresh

\* A step that moves no ping of n, and no pong to it, does not disturb it, even
\* if it loses some.
LEMMA PongSame ==
    ASSUME NEW n \in Nodes, NEW o, o = Other(n), NEW s, s = StreamOf(Ping), StreamOf(Ping)' = s,
           PongOf(n),
           late'[n] = late[n], chan'[n] = chan[n] \/ chan'[n] = <<>>,
           at'[n] # "ended" /\ loop'[n] # "wait" => at[n] # "ended" /\ loop[n] # "wait",
           NoMore(pipe[o][s], pipe'[o][s], "ping"), NoMore(pipe[n][s], pipe'[n][s], "pong"),
           NoMore(inbox[o], inbox'[o], "ping"), NoMore(inbox[n], inbox'[n], "pong"),
           NoMore(busy[o], busy'[o], "ping"), NoMore(busy[n], busy'[n], "pong")
    PROVE  PongOf(n)'
<1>1. Other(n)' = o
    BY DEF Other
<1>2. /\ PingOnWire(n)' => PingOnWire(n)
      /\ PingQueued(n)' => PingQueued(n)
      /\ PingTaken(n)' => PingTaken(n)
      /\ PongOnWire(n)' => PongOnWire(n)
      /\ PongQueued(n)' => PongQueued(n)
      /\ PongTaken(n)' => PongTaken(n)
      /\ PongPassed(n)' => PongPassed(n)
    BY <1>1 DEF NoMore, PingOnWire, PingQueued, PingTaken, PongOnWire, PongQueued, PongTaken,
                PongPassed
<1>3. Alone(n) => Alone(n)'
    BY <1>1, <1>2 DEF NoMore, Alone
<1>4. AllFresh(n) => AllFresh(n)'
  <2>1. (\A i \in 1 .. Len(chan[n]) : chan[n][i] = "fresh")
            => \A i \in 1 .. Len(chan'[n]) : chan'[n][i] = "fresh"
    BY SMT
  <2> QED BY <1>1, <2>1 DEF NoMore, AllFresh
<1>5. Quiet(n) => Quiet(n)'
    BY <1>2 DEF Quiet
<1> QED BY <1>3, <1>4, <1>5 DEF PongOf

\* The handshake, Chat and the end of ping_loop's sleep.
LEMMA PongUndisturbed ==
    ASSUME PlaceType, PipeType, \A m \in Nodes : PongOf(m), StreamOf(Ping)' = StreamOf(Ping),
           NEW n \in Nodes,
           \/ send_vermsg(n) \/ AcceptVersion(n) \/ RefuseVersion(n) \/ ReceiveAck(n)
           \/ QuietActs(n) \/ Broadcast(n) \/ SleepOver(n)
           \/ \E s \in Streams : Deliver(n, s)
    PROVE  \A m \in Nodes : PongOf(m)'
<1> SUFFICES ASSUME NEW m \in Nodes PROVE PongOf(m)'
    OBVIOUS
<1>1. UNCHANGED <<inbox, busy, chan, late>>
    BY HandshakeFrame DEF Broadcast, SleepOver, Deliver, pingVars
<1>2. at'[m] # "ended" /\ loop'[m] # "wait" => at[m] # "ended" /\ loop[m] # "wait"
  <2>1. CASE \/ send_vermsg(n) \/ AcceptVersion(n) \/ RefuseVersion(n) \/ ReceiveAck(n)
             \/ QuietActs(n)
    <3>1. loop' = loop /\ at[n] \in Handshaking
      BY <2>1, HandshakeFrame
    <3>2. m # n => at'[m] = at[m]
      BY <2>1, HandshakeEffect, SMT DEF PlaceType
    <3> QED BY <3>1, <3>2 DEF Handshaking
  <2>2. CASE Broadcast(n) \/ \E s \in Streams : Deliver(n, s)
    BY <2>2 DEF Broadcast, Deliver, pingVars
  <2>3. CASE SleepOver(n)
    BY <2>3 DEF SleepOver, PlaceType
  <2> QED BY <2>1, <2>2, <2>3
<1>3. ASSUME NEW c \in {"ping", "pong"}, NEW k \in Nodes, NEW t \in Streams
      PROVE  NoMore(pipe[k][t], pipe'[k][t], c)
  <2>1. CASE SleepOver(n)
    BY <2>1 DEF SleepOver, NoMore
  <2> QED BY <2>1, HandshakeKinds, ChatKinds
<1>4. Other(m) \in Nodes /\ StreamOf(Ping) \in Streams
    BY TwoNodes, StreamTypes
<1>5. \A k, c : NoMore(inbox[k], inbox'[k], c) /\ NoMore(busy[k], busy'[k], c)
    BY <1>1 DEF NoMore
<1>6. late'[m] = late[m] /\ chan'[m] = chan[m] /\ PongOf(m)
    BY <1>1
<1> QED BY <1>2, <1>3, <1>4, <1>5, <1>6, PongSame

\* The reader hands a ping or a pong to the ping protocol.
LEMMA PongDelivered ==
    ASSUME PipeType, BoxType, WireInv, \A m \in Nodes : PongOf(m), StreamOf(Ping)' = StreamOf(Ping),
           NEW n \in Nodes, NEW t \in Streams, DeliverPing(n, t)
    PROVE  \A m \in Nodes : PongOf(m)'
<1> DEFINE s == StreamOf(Ping)
           o == Other(n)
           h == Head(pipe[n][t])
<1>1. pipe[n][t] # <<>> /\ pipe[n][t] \in Seq(Messages) /\ h.cmd \in {"ping", "pong"}
    BY DEF DeliverPing, NextIs, PipeType
<1>2. t = s /\ s \in Streams
  <2>1. Has(pipe[n][t], h.cmd)
    BY <1>1, TakenHas
  <2> QED BY <1>1, <2>1, StreamTypes DEF WireInv
<1>3. /\ o \in Nodes /\ o # n /\ Other(o) = n /\ \A m \in Nodes : m = n \/ m = o
      /\ Other(n)' = o /\ Other(o)' = n
    BY TwoNodes DEF Other
<1>4. /\ pipe'[n][s] = Tail(pipe[n][s]) /\ pipe'[o][s] = pipe[o][s]
  <2>1. pipe' = [pipe EXCEPT ![n][t] = Tail(@)]
    BY DEF DeliverPing
  <2>2. /\ pipe'[n][t] = Tail(pipe[n][t])
        /\ \A m \in Nodes, u \in Streams : m # n \/ u # t => pipe'[m][u] = pipe[m][u]
    BY <1>1, <2>1, TakeEffect
  <2> QED BY <1>2, <1>3, <2>2
<1>5. /\ inbox'[n] = Append(inbox[n], h) /\ inbox'[o] = inbox[o] /\ inbox[n] \in Seq(Pings)
      /\ UNCHANGED <<busy, chan, at, loop, late>>
    BY <1>3 DEF DeliverPing, BoxType
<1>6. h \in Pings
    BY <1>1, Taken, MessageTypes
<1>7. \A c : c # h.cmd => /\ NoMore(pipe[n][s], pipe'[n][s], c)
                          /\ NoMore(inbox[n], inbox'[n], c)
  <2> SUFFICES ASSUME NEW c, c # h.cmd
               PROVE  NoMore(pipe[n][s], pipe'[n][s], c) /\ NoMore(inbox[n], inbox'[n], c)
    OBVIOUS
  <2>1. NoMore(pipe[n][s], pipe'[n][s], c)
    BY <1>1, <1>2, <1>4, TakenOthers
  <2> HIDE DEF h
  <2>2. NoMore(inbox[n], inbox'[n], c)
    BY <1>5, <1>6, AddedHas, SMT DEF NoMore
  <2> QED BY <2>1, <2>2
<1>8. /\ Has(pipe[n][s], h.cmd)
      /\ One(pipe[n][s], h.cmd) => ~Has(pipe'[n][s], h.cmd) /\ One(pipe'[n][s], h.cmd)
      /\ Fresh(pipe[n][s], h.cmd) => Fresh(pipe'[n][s], h.cmd) /\ h.age = "fresh"
  <2> DEFINE q == pipe[n][s]
  <2>1. q \in Seq(Messages) /\ q # <<>> /\ h = Head(q) /\ pipe'[n][s] = Tail(q)
    BY <1>1, <1>2, <1>4
  <2> HIDE DEF q, h
  <2>2. /\ Has(q, h.cmd)
        /\ One(q, h.cmd) => ~Has(Tail(q), h.cmd) /\ One(Tail(q), h.cmd)
        /\ Fresh(q, h.cmd) => Fresh(Tail(q), h.cmd) /\ h.age = "fresh"
    BY <2>1, TakenHas
  <2> QED BY <2>1, <2>2 DEF q
<1> HIDE DEF h
<1>9. /\ Has(inbox'[n], h.cmd)
      /\ One(inbox[n], h.cmd) /\ ~Has(inbox[n], h.cmd) => One(inbox'[n], h.cmd)
      /\ Fresh(inbox[n], h.cmd) /\ h.age = "fresh" => Fresh(inbox'[n], h.cmd)
    BY <1>5, <1>6, AddedHas, SMT
<1> HIDE DEF s, o
<1>10. \A q, c : NoMore(q, q, c)
    BY DEF NoMore
<1>11. CASE h.cmd = "ping"
  <2>1. PongOf(n)'
    <3>1. /\ NoMore(pipe[o][s], pipe'[o][s], "ping") /\ NoMore(pipe[n][s], pipe'[n][s], "pong")
          /\ NoMore(inbox[o], inbox'[o], "ping") /\ NoMore(inbox[n], inbox'[n], "pong")
          /\ NoMore(busy[o], busy'[o], "ping") /\ NoMore(busy[n], busy'[n], "pong")
      BY <1>4, <1>5, <1>7, <1>10, <1>11
    <3> QED BY <1>5, <3>1, PongSame DEF s, o
  <2>2. ASSUME ~late'[o] PROVE Alone(o)' /\ AllFresh(o)' /\ ~(at'[o] # "ended" /\ loop'[o] # "wait")
    <3>1. Alone(o) /\ AllFresh(o) /\ PingOnWire(o)
          /\ (at[o] # "ended" /\ loop[o] # "wait" => Quiet(o))
      BY <1>3, <1>5, <1>8, <1>11, <2>2 DEF PongOf, PingOnWire, s
    <3>2. /\ ~PingQueued(o) /\ ~PingTaken(o) /\ ~PongOnWire(o) /\ ~PongQueued(o) /\ ~PongTaken(o)
          /\ ~PongPassed(o)
      BY <3>1 DEF Alone
    <3>3. /\ ~PingOnWire(o)' /\ One(pipe'[n][s], "ping") /\ One(inbox'[n], "ping")
          /\ One(pipe'[o][s], "pong") /\ One(inbox'[o], "pong")
      BY <1>3, <1>4, <1>5, <1>8, <1>9, <1>11, <3>1, <3>2 DEF Alone, PingOnWire, PingQueued, s
    <3>4. ~PingTaken(o)' /\ ~PongOnWire(o)' /\ ~PongQueued(o)' /\ ~PongTaken(o)' /\ ~PongPassed(o)'
      BY <1>3, <1>4, <1>5, <3>2 DEF PingTaken, PongOnWire, PongQueued, PongTaken, PongPassed, s
    <3>5. Alone(o)'
      BY <1>3, <3>3, <3>4 DEF Alone, s
    <3>6. AllFresh(o)'
      BY <1>3, <1>4, <1>5, <1>8, <1>9, <1>11, <3>1 DEF AllFresh, s
    <3> QED BY <1>5, <3>1, <3>5, <3>6 DEF Quiet
  <2>3. PongOf(o)'
    BY <2>2 DEF PongOf
  <2> QED BY <1>3, <2>1, <2>3
<1>12. CASE h.cmd = "pong"
  <2>1. PongOf(o)'
    <3>1. /\ NoMore(pipe[n][s], pipe'[n][s], "ping") /\ NoMore(pipe[o][s], pipe'[o][s], "pong")
          /\ NoMore(inbox[n], inbox'[n], "ping") /\ NoMore(inbox[o], inbox'[o], "pong")
          /\ NoMore(busy[n], busy'[n], "ping") /\ NoMore(busy[o], busy'[o], "pong")
      BY <1>4, <1>5, <1>7, <1>10, <1>12
    <3> QED BY <1>3, <1>5, <3>1, PongSame DEF s
  <2>2. ASSUME ~late'[n] PROVE Alone(n)' /\ AllFresh(n)' /\ ~(at'[n] # "ended" /\ loop'[n] # "wait")
    <3>1. Alone(n) /\ AllFresh(n) /\ PongOnWire(n)
          /\ (at[n] # "ended" /\ loop[n] # "wait" => Quiet(n))
      BY <1>3, <1>5, <1>8, <1>12, <2>2 DEF PongOf, PongOnWire, s
    <3>2. /\ ~PingOnWire(n) /\ ~PingQueued(n) /\ ~PingTaken(n) /\ ~PongQueued(n) /\ ~PongTaken(n)
          /\ ~PongPassed(n)
      BY <3>1 DEF Alone
    <3>3. /\ ~PongOnWire(n)' /\ One(pipe'[o][s], "ping") /\ One(inbox'[o], "ping")
          /\ One(pipe'[n][s], "pong") /\ One(inbox'[n], "pong")
      BY <1>3, <1>4, <1>5, <1>8, <1>9, <1>12, <3>1, <3>2 DEF Alone, PongOnWire, PongQueued, s, o
    <3>4. ~PingOnWire(n)' /\ ~PingQueued(n)' /\ ~PingTaken(n)' /\ ~PongTaken(n)' /\ ~PongPassed(n)'
      BY <1>3, <1>4, <1>5, <3>2 DEF PingOnWire, PingQueued, PingTaken, PongTaken, PongPassed, s, o
    <3>5. Alone(n)'
      BY <1>3, <3>3, <3>4 DEF Alone, s
    <3>6. AllFresh(n)'
      BY <1>3, <1>4, <1>5, <1>8, <1>9, <1>12, <3>1 DEF AllFresh, s, o
    <3> QED BY <1>5, <3>1, <3>5, <3>6 DEF Quiet
  <2>3. PongOf(n)'
    BY <2>2 DEF PongOf
  <2> QED BY <1>3, <2>1, <2>3
<1> QED BY <1>1, <1>11, <1>12 DEF h

\* recv_loop takes a ping or a pong from its queue.
LEMMA PongReceived ==
    ASSUME BoxType, \A m \in Nodes : PongOf(m), StreamOf(Ping)' = StreamOf(Ping),
           NEW n \in Nodes, RecvPing(n)
    PROVE  \A m \in Nodes : PongOf(m)'
<1> DEFINE o == Other(n)
           h == Head(inbox[n])
<1>1. inbox[n] # <<>> /\ inbox[n] \in Seq(Pings) /\ h \in Pings /\ h.cmd \in {"ping", "pong"}
    BY Taken, MessageTypes DEF RecvPing, BoxType
<1>2. /\ o \in Nodes /\ o # n /\ Other(o) = n /\ \A m \in Nodes : m = n \/ m = o
      /\ Other(n)' = o /\ Other(o)' = n
    BY TwoNodes DEF Other
<1>3. /\ inbox'[n] = Tail(inbox[n]) /\ inbox'[o] = inbox[o]
      /\ busy[n] = <<>> /\ busy'[n] = <<h>> /\ busy'[o] = busy[o]
      /\ UNCHANGED <<pipe, chan, at, loop, late>>
    BY <1>2 DEF RecvPing, BoxType
<1>4. \A c : c # h.cmd => NoMore(inbox[n], inbox'[n], c) /\ NoMore(busy[n], busy'[n], c)
  <2> SUFFICES ASSUME NEW c, c # h.cmd
               PROVE  NoMore(inbox[n], inbox'[n], c) /\ NoMore(busy[n], busy'[n], c)
    OBVIOUS
  <2>1. NoMore(inbox[n], inbox'[n], c)
    BY <1>1, <1>3, TakenHas DEF NoMore
  <2> HIDE DEF h
  <2>2. NoMore(busy[n], busy'[n], c)
    BY <1>3, FewHas, SMT DEF NoMore
  <2> QED BY <2>1, <2>2
<1>5. /\ Has(inbox[n], h.cmd)
      /\ One(inbox[n], h.cmd) => ~Has(inbox'[n], h.cmd) /\ One(inbox'[n], h.cmd)
      /\ Fresh(inbox[n], h.cmd) => Fresh(inbox'[n], h.cmd) /\ h.age = "fresh"
    BY <1>1, <1>3, TakenHas
<1> HIDE DEF h
<1>6. ASSUME h.age = "fresh" PROVE Fresh(busy'[n], h.cmd)
  <2>1. ASSUME NEW c PROVE Fresh(<<h>>, c)
    BY <1>6, FewHas
  <2> QED BY <1>3, <2>1
<1> HIDE DEF o
<1>7. \A q, c : NoMore(q, q, c)
    BY DEF NoMore
<1>8. StreamOf(Ping)' = StreamOf(Ping)
    OBVIOUS
<1>9. CASE h.cmd = "ping"
  <2>1. PongOf(n)'
    <3>1. /\ \A c : NoMore(pipe[o][StreamOf(Ping)], pipe'[o][StreamOf(Ping)], c)
          /\ \A c : NoMore(pipe[n][StreamOf(Ping)], pipe'[n][StreamOf(Ping)], c)
          /\ NoMore(inbox[o], inbox'[o], "ping") /\ NoMore(inbox[n], inbox'[n], "pong")
          /\ NoMore(busy[o], busy'[o], "ping") /\ NoMore(busy[n], busy'[n], "pong")
      BY <1>3, <1>4, <1>7, <1>9
    <3> QED BY <1>3, <3>1, PongSame DEF o
  <2>2. ASSUME ~late'[o] PROVE Alone(o)' /\ AllFresh(o)' /\ ~(at'[o] # "ended" /\ loop'[o] # "wait")
    <3>1. Alone(o) /\ AllFresh(o) /\ PingQueued(o)
          /\ (at[o] # "ended" /\ loop[o] # "wait" => Quiet(o))
      BY <1>2, <1>3, <1>5, <1>9, <2>2 DEF PongOf, PingQueued
    <3>2. /\ ~PingOnWire(o) /\ ~PongOnWire(o) /\ ~PongQueued(o) /\ ~PongTaken(o) /\ ~PongPassed(o)
      BY <3>1 DEF Alone
    <3>3. /\ ~PingQueued(o)' /\ One(inbox'[n], "ping")
          /\ One(pipe'[n][StreamOf(Ping)], "ping") /\ One(pipe'[o][StreamOf(Ping)], "pong")
          /\ One(inbox'[o], "pong")
      BY <1>2, <1>3, <1>5, <1>9, <3>1 DEF Alone, PingQueued
    <3>4. ~PingOnWire(o)' /\ ~PongOnWire(o)' /\ ~PongQueued(o)' /\ ~PongTaken(o)' /\ ~PongPassed(o)'
      BY <1>2, <1>3, <1>8, <3>2 DEF PingOnWire, PongOnWire, PongQueued, PongTaken, PongPassed
    <3>5. Alone(o)'
      BY <1>2, <1>8, <3>3, <3>4 DEF Alone
    <3>6. AllFresh(o)'
      BY <1>2, <1>3, <1>5, <1>6, <1>8, <1>9, <3>1 DEF AllFresh
    <3> QED BY <1>3, <3>1, <3>5, <3>6 DEF Quiet
  <2>3. PongOf(o)'
    BY <2>2 DEF PongOf
  <2> QED BY <1>2, <2>1, <2>3
<1>10. CASE h.cmd = "pong"
  <2>1. PongOf(o)'
    <3>1. /\ \A c : NoMore(pipe[o][StreamOf(Ping)], pipe'[o][StreamOf(Ping)], c)
          /\ \A c : NoMore(pipe[n][StreamOf(Ping)], pipe'[n][StreamOf(Ping)], c)
          /\ NoMore(inbox[n], inbox'[n], "ping") /\ NoMore(inbox[o], inbox'[o], "pong")
          /\ NoMore(busy[n], busy'[n], "ping") /\ NoMore(busy[o], busy'[o], "pong")
      BY <1>3, <1>4, <1>7, <1>10
    <3> QED BY <1>2, <1>3, <3>1, PongSame
  <2>2. ASSUME ~late'[n] PROVE Alone(n)' /\ AllFresh(n)' /\ ~(at'[n] # "ended" /\ loop'[n] # "wait")
    <3>1. Alone(n) /\ AllFresh(n) /\ PongQueued(n)
          /\ (at[n] # "ended" /\ loop[n] # "wait" => Quiet(n))
      BY <1>2, <1>3, <1>5, <1>10, <2>2 DEF PongOf, PongQueued
    <3>2. /\ ~PingOnWire(n) /\ ~PingQueued(n) /\ ~PingTaken(n) /\ ~PongOnWire(n) /\ ~PongPassed(n)
      BY <3>1 DEF Alone
    <3>3. /\ ~PongQueued(n)' /\ One(inbox'[n], "pong")
          /\ One(pipe'[o][StreamOf(Ping)], "ping") /\ One(pipe'[n][StreamOf(Ping)], "pong")
          /\ One(inbox'[o], "ping")
      BY <1>2, <1>3, <1>5, <1>10, <3>1 DEF Alone, PongQueued, o
    <3>4. ~PingOnWire(n)' /\ ~PingQueued(n)' /\ ~PingTaken(n)' /\ ~PongOnWire(n)' /\ ~PongPassed(n)'
      BY <1>2, <1>3, <1>8, <3>2 DEF PingOnWire, PingQueued, PingTaken, PongOnWire, PongPassed, o
    <3>5. Alone(n)'
      BY <1>2, <1>8, <3>3, <3>4 DEF Alone
    <3>6. AllFresh(n)'
      BY <1>2, <1>3, <1>5, <1>6, <1>8, <1>10, <3>1 DEF AllFresh, o
    <3> QED BY <1>3, <3>1, <3>5, <3>6 DEF Quiet
  <2>3. PongOf(n)'
    BY <2>2 DEF PongOf
  <2> QED BY <1>2, <2>1, <2>3
<1> QED BY <1>1, <1>9, <1>10 DEF h

\* It answers a ping.
LEMMA PongAnswered ==
    ASSUME PipeType, BoxType, \A m \in Nodes : PongOf(m), StreamOf(Ping)' = StreamOf(Ping),
           NEW n \in Nodes, SendPong(n)
    PROVE  \A m \in Nodes : PongOf(m)'
<1> DEFINE s == StreamOf(Ping)
           o == Other(n)
<1>1. PICK x \in Messages : x.cmd = "pong" /\ x.age = Head(busy[n]).age /\ Put(n, s, x)
    BY PongSent
<1>2. /\ o \in Nodes /\ o # n /\ Other(o) = n /\ \A m \in Nodes : m = n \/ m = o
      /\ Other(n)' = o /\ Other(o)' = n /\ s \in Streams
    BY TwoNodes, StreamTypes DEF Other
<1>3. pipe'[o][s] = Append(pipe[o][s], x) /\ pipe'[n][s] = pipe[n][s] /\ pipe[o][s] \in Seq(Messages)
    BY <1>1, <1>2, PutEffect DEF PipeType
<1>4. /\ busy[n] # <<>> /\ Head(busy[n]).cmd = "ping" /\ busy'[n] = <<>> /\ busy'[o] = busy[o]
      /\ UNCHANGED <<inbox, chan, at, loop, late>>
    BY <1>2 DEF SendPong, BoxType
<1>5. /\ Has(busy[n], "ping") /\ ~Has(busy[n], "pong")
      /\ Fresh(busy[n], "ping") => x.age = "fresh"
    BY <1>1, <1>4, BusyHas
<1>6. \A c : ~Has(busy'[n], c) /\ One(busy'[n], c) /\ Fresh(busy'[n], c)
    BY <1>4, FewHas, SMT
<1> HIDE DEF s, o
<1>7. /\ NoMore(pipe[o][s], pipe'[o][s], "ping")
      /\ Has(pipe'[o][s], "pong")
      /\ ~Has(pipe[o][s], "pong") => One(pipe'[o][s], "pong")
      /\ Fresh(pipe[o][s], "pong") /\ x.age = "fresh" => Fresh(pipe'[o][s], "pong")
  <2>1. NoMore(pipe[o][s], pipe'[o][s], "ping")
    BY <1>1, <1>3, AddedHas, SMT DEF NoMore
  <2>2. ~Has(pipe[o][s], "pong") => One(pipe[o][s], "pong")
    BY NoneFresh
  <2> QED BY <1>1, <1>3, <2>1, <2>2, AddedHas, SMT
<1>8. \A q, c : NoMore(q, q, c)
    BY DEF NoMore
<1>9. PongOf(n)'
  <2>1. NoMore(busy[n], busy'[n], "pong")
    BY <1>5, <1>6 DEF NoMore
  <2>2. /\ NoMore(pipe[o][s], pipe'[o][s], "ping") /\ NoMore(pipe[n][s], pipe'[n][s], "pong")
        /\ NoMore(inbox[o], inbox'[o], "ping") /\ NoMore(inbox[n], inbox'[n], "pong")
        /\ NoMore(busy[o], busy'[o], "ping")
    BY <1>3, <1>4, <1>7, <1>8
  <2> QED BY <1>4, <2>1, <2>2, PongSame DEF s, o
<1>10. ASSUME ~late'[o] PROVE Alone(o)' /\ AllFresh(o)' /\ ~(at'[o] # "ended" /\ loop'[o] # "wait")
  <2>1. Alone(o) /\ AllFresh(o) /\ PingTaken(o) /\ (at[o] # "ended" /\ loop[o] # "wait" => Quiet(o))
    BY <1>2, <1>4, <1>5, <1>10 DEF PongOf, PingTaken
  <2>2. /\ ~PingOnWire(o) /\ ~PingQueued(o) /\ ~PongOnWire(o) /\ ~PongQueued(o) /\ ~PongTaken(o)
        /\ ~PongPassed(o)
    BY <2>1 DEF Alone
  <2>3. /\ One(pipe'[n][s], "ping") /\ One(inbox'[n], "ping") /\ One(inbox'[o], "pong")
        /\ One(pipe'[o][s], "pong")
    BY <1>2, <1>3, <1>4, <1>7, <2>1, <2>2 DEF Alone, PongOnWire, s
  <2>4. ~PingOnWire(o)' /\ ~PingQueued(o)' /\ ~PingTaken(o)' /\ ~PongQueued(o)' /\ ~PongTaken(o)'
        /\ ~PongPassed(o)'
    BY <1>2, <1>3, <1>4, <1>6, <2>2 DEF PingOnWire, PingQueued, PingTaken, PongQueued, PongTaken,
                                        PongPassed, s
  <2>5. Alone(o)'
    BY <1>2, <2>3, <2>4 DEF Alone, s
  <2>6. AllFresh(o)'
    BY <1>2, <1>3, <1>4, <1>5, <1>6, <1>7, <2>1 DEF AllFresh, s
  <2> QED BY <1>4, <2>1, <2>5, <2>6 DEF Quiet
<1>11. PongOf(o)'
    BY <1>10 DEF PongOf
<1> QED BY <1>2, <1>9, <1>11

\* It passes a pong to ping_loop.
LEMMA PongHandedOn ==
    ASSUME BoxType, \A m \in Nodes : PongOf(m), StreamOf(Ping)' = StreamOf(Ping),
           NEW n \in Nodes, PassPong(n)
    PROVE  \A m \in Nodes : PongOf(m)'
<1> DEFINE s == StreamOf(Ping)
           o == Other(n)
           a == Head(busy[n]).age
<1>1. /\ o \in Nodes /\ o # n /\ Other(o) = n /\ \A m \in Nodes : m = n \/ m = o
      /\ Other(n)' = o /\ Other(o)' = n
    BY TwoNodes DEF Other
<1>2. /\ busy[n] # <<>> /\ Head(busy[n]).cmd = "pong" /\ chan[n] = <<>>
      /\ busy'[n] = <<>> /\ busy'[o] = busy[o] /\ chan'[n] = <<a>> /\ chan'[o] = chan[o]
      /\ UNCHANGED <<pipe, inbox, at, loop, late>>
    BY <1>1 DEF PassPong, BoxType
<1>3. Has(busy[n], "pong") /\ (Fresh(busy[n], "pong") => a = "fresh")
    BY <1>2, BusyHas
<1>4. \A c : ~Has(busy'[n], c) /\ One(busy'[n], c) /\ Fresh(busy'[n], c)
    BY <1>2, FewHas
<1> HIDE DEF s, o, a
<1>5. a = "fresh" => \A i \in 1 .. Len(chan'[n]) : chan'[n][i] = "fresh"
    BY <1>2, SMT
<1>6. PongOf(o)'
  <2>1. \A q, c : NoMore(q, q, c)
    BY DEF NoMore
  <2>2. \A c : NoMore(busy[n], busy'[n], c)
    BY <1>4 DEF NoMore
  <2>3. /\ NoMore(pipe[n][s], pipe'[n][s], "ping") /\ NoMore(pipe[o][s], pipe'[o][s], "pong")
        /\ NoMore(inbox[n], inbox'[n], "ping") /\ NoMore(inbox[o], inbox'[o], "pong")
        /\ NoMore(busy[n], busy'[n], "ping") /\ NoMore(busy[o], busy'[o], "pong")
    BY <1>2, <2>1, <2>2
  <2> QED BY <1>1, <1>2, <2>3, PongSame DEF s
<1>7. ASSUME ~late'[n] PROVE Alone(n)' /\ AllFresh(n)' /\ ~(at'[n] # "ended" /\ loop'[n] # "wait")
  <2>1. Alone(n) /\ AllFresh(n) /\ PongTaken(n) /\ (at[n] # "ended" /\ loop[n] # "wait" => Quiet(n))
    BY <1>2, <1>3, <1>7 DEF PongOf, PongTaken
  <2>2. /\ ~PingOnWire(n) /\ ~PingQueued(n) /\ ~PingTaken(n) /\ ~PongOnWire(n) /\ ~PongQueued(n)
    BY <2>1 DEF Alone
  <2>3. /\ One(pipe'[o][s], "ping") /\ One(inbox'[o], "ping") /\ One(inbox'[n], "pong")
        /\ One(pipe'[n][s], "pong")
    BY <1>2, <2>1 DEF Alone, s, o
  <2>4. ~PingOnWire(n)' /\ ~PingQueued(n)' /\ ~PingTaken(n)' /\ ~PongOnWire(n)' /\ ~PongQueued(n)'
        /\ ~PongTaken(n)'
    BY <1>1, <1>2, <1>4, <2>2 DEF PingOnWire, PingQueued, PingTaken, PongOnWire, PongQueued,
                                  PongTaken, s, o
  <2>5. Alone(n)'
    BY <1>1, <2>3, <2>4 DEF Alone, s
  <2>6. AllFresh(n)'
    BY <1>1, <1>2, <1>3, <1>4, <1>5, <2>1 DEF AllFresh, s, o
  <2> QED BY <1>2, <2>1, <2>5, <2>6 DEF Quiet
<1>8. PongOf(n)'
    BY <1>7 DEF PongOf
<1> QED BY <1>1, <1>6, <1>8

\* ping_loop sends a ping: none of its earlier ones was under way.
LEMMA PongAsked ==
    ASSUME PlaceType, PipeType, BoxType, \A m \in Nodes : PongOf(m),
           StreamOf(Ping)' = StreamOf(Ping), NEW n \in Nodes, SendPing(n)
    PROVE  \A m \in Nodes : PongOf(m)'
<1> DEFINE s == StreamOf(Ping)
           o == Other(n)
           x == [cmd |-> "ping", age |-> "fresh"]
<1>1. /\ o \in Nodes /\ o # n /\ Other(o) = n /\ \A m \in Nodes : m = n \/ m = o
      /\ Other(n)' = o /\ Other(o)' = n /\ s \in Streams
    BY TwoNodes, StreamTypes DEF Other
<1>2. x \in Messages /\ x.cmd = "ping" /\ x.age = "fresh"
    BY MessageTypes DEF Ages
<1>3. /\ pipe'[o][s] = Append(Aged(pipe[o][s], "ping"), x)
      /\ pipe'[n][s] = Aged(pipe[n][s], "pong")
      /\ inbox'[o] = Aged(inbox[o], "ping") /\ inbox'[n] = Aged(inbox[n], "pong")
      /\ busy'[o] = Aged(busy[o], "ping") /\ busy'[n] = Aged(busy[n], "pong")
      /\ chan'[o] = chan[o]
  <2>1. o = Other(n) /\ s = StreamOf(Ping)
    OBVIOUS
  <2> HIDE DEF s, o
  <2> QED BY <1>1, <2>1, SendPingEffect, SMT
<1>4. /\ chan'[n] = [i \in DOMAIN chan[n] |-> "stale"]
      /\ loop[n] = "send" /\ loop'[n] = "wait" /\ loop'[o] = loop[o] /\ UNCHANGED <<at, late>>
    BY <1>1 DEF SendPing, BoxType, PlaceType
<1>5. /\ pipe[o][s] \in Seq(Messages) /\ pipe[n][s] \in Seq(Messages)
      /\ inbox[o] \in Seq(Pings) /\ inbox[n] \in Seq(Pings)
      /\ busy[o] \in Seq(Pings) /\ busy[n] \in Seq(Pings)
    BY <1>1 DEF PipeType, BoxType
<1> HIDE DEF s, o, x
<1>6. ASSUME NEW S \in {Messages, Pings}, NEW q \in Seq(S), NEW d \in {"ping", "pong"},
             NEW c \in {"ping", "pong"}
      PROVE  /\ Aged(q, d) \in Seq(S)
             /\ c # d => NoMore(q, Aged(q, d), c)
             /\ ~Has(q, c) => /\ ~Has(Aged(q, d), c) /\ One(Aged(q, d), c) /\ Fresh(Aged(q, d), c)
  <2>1. /\ Aged(q, d) \in Seq(S)
        /\ Has(Aged(q, d), c) <=> Has(q, c)
        /\ One(q, c) => One(Aged(q, d), c)
        /\ c # d /\ Fresh(q, c) => Fresh(Aged(q, d), c)
    BY AgedHas
  <2> QED BY <2>1, NoneFresh DEF NoMore
<1>7. PongOf(o)'
  <2>1. NoMore(pipe[n][s], pipe'[n][s], "ping")
    BY <1>3, <1>5, <1>6
  <2>2. NoMore(pipe[o][s], pipe'[o][s], "pong")
    <3> DEFINE p == Aged(pipe[o][s], "ping")
    <3>1. p \in Seq(Messages) /\ NoMore(pipe[o][s], p, "pong")
      BY <1>5, <1>6
    <3>2. pipe'[o][s] = Append(p, x)
      BY <1>3
    <3> HIDE DEF p
    <3>3. NoMore(p, Append(p, x), "pong")
      BY <1>2, <3>1, AddedHas DEF NoMore
    <3> QED BY <3>1, <3>2, <3>3 DEF NoMore
  <2>3. /\ NoMore(inbox[n], inbox'[n], "ping") /\ NoMore(inbox[o], inbox'[o], "pong")
        /\ NoMore(busy[n], busy'[n], "ping") /\ NoMore(busy[o], busy'[o], "pong")
    BY <1>3, <1>5, <1>6
  <2> QED BY <1>1, <1>3, <1>4, <2>1, <2>2, <2>3, PongSame DEF s
<1>8. ASSUME ~late'[n] PROVE Alone(n)' /\ AllFresh(n)'
  <2>1. Quiet(n)
    BY <1>4, <1>8 DEF PongOf, PlaceType
  <2>2. /\ ~Has(pipe[o][s], "ping") /\ ~Has(inbox[o], "ping") /\ ~Has(busy[o], "ping")
        /\ ~Has(pipe[n][s], "pong") /\ ~Has(inbox[n], "pong") /\ ~Has(busy[n], "pong")
        /\ chan[n] = <<>>
    BY <2>1 DEF Quiet, PingOnWire, PingQueued, PingTaken, PongOnWire, PongQueued, PongTaken,
                PongPassed, s, o
  <2>3. /\ ~Has(inbox'[o], "ping") /\ One(inbox'[o], "ping") /\ Fresh(inbox'[o], "ping")
        /\ ~Has(busy'[o], "ping") /\ Fresh(busy'[o], "ping")
    BY <1>3, <1>5, <1>6, <2>2
  <2>4. /\ ~Has(pipe'[n][s], "pong") /\ One(pipe'[n][s], "pong") /\ Fresh(pipe'[n][s], "pong")
        /\ ~Has(inbox'[n], "pong") /\ One(inbox'[n], "pong") /\ Fresh(inbox'[n], "pong")
        /\ ~Has(busy'[n], "pong") /\ Fresh(busy'[n], "pong")
    BY <1>3, <1>5, <1>6, <2>2
  <2>5. One(pipe'[o][s], "ping") /\ Fresh(pipe'[o][s], "ping")
    <3> DEFINE p == Aged(pipe[o][s], "ping")
    <3>1. p \in Seq(Messages) /\ ~Has(p, "ping") /\ One(p, "ping") /\ Fresh(p, "ping")
      BY <1>5, <1>6, <2>2
    <3>2. pipe'[o][s] = Append(p, x)
      BY <1>3
    <3> HIDE DEF p
    <3> QED BY <1>2, <3>1, <3>2, AddedHas, SMT
  <2>6. chan'[n] = <<>>
    BY <1>4, <2>2, SMT
  <2>7. Alone(n)'
    BY <1>1, <2>3, <2>4, <2>5, <2>6 DEF Alone, PingOnWire, PingQueued, PingTaken, PongOnWire,
                                        PongQueued, PongTaken, PongPassed, s
  <2>8. AllFresh(n)'
    BY <1>1, <2>3, <2>4, <2>5, <2>6, SMT DEF AllFresh, s
  <2> QED BY <2>7, <2>8
<1>9. PongOf(n)'
    BY <1>4, <1>8 DEF PongOf
<1> QED BY <1>1, <1>7, <1>9

\* A peer ends: what its protocols hold is lost.
LEMMA PongEnded ==
    ASSUME PlaceType, BoxType, \A m \in Nodes : PongOf(m), StreamOf(Ping)' = StreamOf(Ping),
           NEW n \in Nodes, End(n), NEW m \in Nodes, late'[m] = late[m]
    PROVE  PongOf(m)'
<1>1. /\ inbox'[n] = <<>> /\ busy'[n] = <<>> /\ chan'[n] = <<>> /\ pipe' = pipe
      /\ \A k \in Nodes : k # n => /\ inbox'[k] = inbox[k] /\ busy'[k] = busy[k]
                                   /\ chan'[k] = chan[k] /\ at'[k] = at[k] /\ loop'[k] = loop[k]
      /\ at'[n] = "ended"
    BY DEF End, Go, PlaceType, BoxType
<1>2. \A q, c : NoMore(q, q, c) /\ NoMore(q, <<>>, c)
  <2>1. \A c : ~Has(<<>>, c) /\ One(<<>>, c) /\ Fresh(<<>>, c)
    BY FewHas
  <2> QED BY <2>1 DEF NoMore
<1>3. \A c : \A k \in Nodes : NoMore(inbox[k], inbox'[k], c) /\ NoMore(busy[k], busy'[k], c)
    BY <1>1, <1>2
<1>4. Other(m) \in Nodes
    BY TwoNodes
<1>5. /\ chan'[m] = chan[m] \/ chan'[m] = <<>>
      /\ at'[m] # "ended" /\ loop'[m] # "wait" => at[m] # "ended" /\ loop[m] # "wait"
    BY <1>1
<1> QED BY <1>1, <1>2, <1>3, <1>4, <1>5, PongSame, SMT

\* The channel holds one pong: if that is not the last one, it is an old one.
LEMMA OneAge ==
    ASSUME NEW q \in Seq(Ages), Len(q) <= 1, q # <<>>, q # <<"fresh">> PROVE q = <<"stale">>
<1>1. Len(q) \in Nat /\ Len(q) > 0 /\ q[1] \in Ages
    BY Taken
<1>2. Len(q) = 1
  <2>1. ASSUME NEW k \in Nat, k > 0, k <= 1 PROVE k = 1
    BY <2>1, SMT
  <2> QED BY <1>1, <2>1
<1>3. q = <<q[1]>>
    BY <1>2, SMT
<1> QED BY <1>1, <1>3 DEF Ages

\* A pong that is a failure was late, or an earlier one was.
LEMMA FailedLate ==
    ASSUME BoxType, LateType, PongInv, NEW n \in Nodes, Fails(n)
    PROVE  late'[n] /\ (late' = late \/ late' = [late EXCEPT ![n] = TRUE])
<1>1. CASE late' = [late EXCEPT ![n] = TRUE]
    BY <1>1 DEF LateType
<1>2. CASE late' = late /\ chan[n] # <<>> /\ chan[n] # <<"fresh">>
  <2>1. chan[n] \in Seq(Ages) /\ Len(chan[n]) <= 1
    BY DEF BoxType
  <2>2. chan[n] = <<"stale">>
    BY <1>2, <2>1, OneAge
  <2>3. ~AllFresh(n)
    BY <2>2, SMT DEF AllFresh
  <2> QED BY <1>2, <2>3 DEF PongInv
<1> QED BY <1>1, <1>2 DEF Fails

\* A node that has heard of no late pong waits for one ping at most.
LEMMA PongKept ==
    ASSUME ConfigType, PlaceType, PipeType, BoxType, WireInv, LateType, PongInv, [Next]_vars
    PROVE  PongInv'
<1>1. StreamOf(Ping)' = StreamOf(Ping) /\ \A m \in Nodes : PongOf(m)
    BY ConfigKept DEF PongInv, PongOf, Protos
<1> SUFFICES \A m \in Nodes : PongOf(m)'
    BY DEF PongInv, PongOf
<1>2. ASSUME NEW n \in Nodes, EndActs(n) PROVE \A m \in Nodes : PongOf(m)'
    BY <1>1, <1>2, EndEffect, PongEnded
<1>3. \A c : \A q : NoMore(q, q, c)
    BY DEF NoMore
<1>4. ASSUME UNCHANGED <<pipe, inbox, busy>>, NEW m \in Nodes,
             at'[m] = at[m], loop'[m] = loop[m], chan'[m] = chan[m], late'[m] = late[m]
      PROVE  PongOf(m)'
  <2>1. /\ \A c : NoMore(pipe[Other(m)][StreamOf(Ping)], pipe'[Other(m)][StreamOf(Ping)], c)
        /\ \A c : NoMore(pipe[m][StreamOf(Ping)], pipe'[m][StreamOf(Ping)], c)
        /\ \A c : NoMore(inbox[Other(m)], inbox'[Other(m)], c) /\ NoMore(inbox[m], inbox'[m], c)
        /\ \A c : NoMore(busy[Other(m)], busy'[Other(m)], c) /\ NoMore(busy[m], busy'[m], c)
    BY <1>3, <1>4
  <2> QED BY <1>1, <1>4, <2>1, PongSame
<1>5. ASSUME NEW n \in Nodes, Fails(n) PROVE \A m \in Nodes : PongOf(m)'
  <2>1. late'[n]
    BY <1>5, FailedLate
  <2>2. \A m \in Nodes : m # n => late'[m] = late[m]
    BY <1>5 DEF Fails, LateType
  <2>3. PongOf(n)'
    BY <2>1 DEF PongOf
  <2>4. ASSUME NEW m \in Nodes, m # n PROVE PongOf(m)'
    <3>1. CASE End(n)
      BY <1>1, <2>2, <2>4, <3>1, PongEnded
    <3>2. CASE ~End(n)
      <4>1. /\ UNCHANGED <<pipe, inbox, busy, at>> /\ loop' = [loop EXCEPT ![n] = "sleep"]
            /\ chan' = chan \/ chan' = [chan EXCEPT ![n] = <<>>]
        BY <1>5, <3>2 DEF Fails, Failure
      <4>2. loop'[m] = loop[m] /\ chan'[m] = chan[m]
        BY <2>4, <4>1 DEF PlaceType, BoxType
      <4> QED BY <1>4, <2>2, <2>4, <4>1, <4>2
    <3> QED BY <3>1, <3>2
  <2> QED BY <2>3, <2>4
<1>6. ASSUME NEW n \in Nodes, Succeeds(n) PROVE \A m \in Nodes : PongOf(m)'
  <2>1. /\ UNCHANGED <<pipe, inbox, busy, at, late>> /\ chan[n] # <<>> /\ chan'[n] = <<>>
        /\ \A m \in Nodes : m # n => loop'[m] = loop[m] /\ chan'[m] = chan[m]
    BY <1>6 DEF Succeeds, PlaceType, BoxType
  <2>2. ASSUME ~late'[n] PROVE Alone(n)' /\ AllFresh(n)' /\ Quiet(n)'
    <3>1. Alone(n) /\ AllFresh(n) /\ PongPassed(n) /\ Other(n)' = Other(n)
      BY <1>1, <2>1, <2>2 DEF PongOf, PongPassed, Other
    <3>2. /\ ~PingOnWire(n) /\ ~PingQueued(n) /\ ~PingTaken(n)
          /\ ~PongOnWire(n) /\ ~PongQueued(n) /\ ~PongTaken(n)
      BY <3>1 DEF Alone
    <3>3. Quiet(n)'
      BY <1>1, <2>1, <3>1, <3>2 DEF Quiet, PingOnWire, PingQueued, PingTaken, PongOnWire, PongQueued,
                                    PongTaken, PongPassed
    <3>4. Alone(n)'
      BY <1>1, <2>1, <3>1, <3>3 DEF Alone, Quiet
    <3>5. \A i \in 1 .. Len(chan'[n]) : chan'[n][i] = "fresh"
      BY <2>1, SMT
    <3>6. AllFresh(n)'
      BY <1>1, <2>1, <3>1, <3>5 DEF AllFresh
    <3> QED BY <3>3, <3>4, <3>6
  <2>3. PongOf(n)'
    BY <2>2 DEF PongOf
  <2> QED BY <1>4, <2>1, <2>3
<1>7. CASE UNCHANGED vars
    BY <1>4, <1>7 DEF vars, pingVars
<1> QED BY <1>1, <1>2, <1>5, <1>6, <1>7, PongUndisturbed, PongDelivered, PongReceived, PongAnswered,
           PongHandedOn, PongAsked, Cases

\* A failure is counted only where a pong was late.
LEMMA LateKept ==
    ASSUME NumberType, BoxType, LateType, PongInv, OnlyLatePongsCount, [Next]_vars
    PROVE  OnlyLatePongsCount'
<1>1. ASSUME UNCHANGED <<retry, late>> PROVE OnlyLatePongsCount'
    BY <1>1 DEF OnlyLatePongsCount
<1>2. ASSUME NEW n \in Nodes,
             \/ send_vermsg(n) \/ AcceptVersion(n) \/ RefuseVersion(n) \/ ReceiveAck(n)
             \/ QuietActs(n) \/ EndActs(n) \/ Broadcast(n) \/ RecvPing(n) \/ SendPong(n)
             \/ PassPong(n) \/ SleepOver(n) \/ SendPing(n)
             \/ \E s \in Streams : Deliver(n, s) \/ DeliverPing(n, s)
      PROVE UNCHANGED <<retry, late>>
    BY <1>2, HandshakeFrame, EndEffect DEF Broadcast, RecvPing, SendPong, PassPong, SleepOver, SendPing,
       Deliver, DeliverPing, pingVars
<1>3. ASSUME NEW n \in Nodes, Succeeds(n) PROVE OnlyLatePongsCount'
  <2>1. retry' = [retry EXCEPT ![n] = 0] /\ late' = late /\ ~(0 > 0)
    BY <1>3, SMT DEF Succeeds
  <2> QED BY <2>1 DEF OnlyLatePongsCount, NumberType
<1>4. ASSUME NEW n \in Nodes, Fails(n) PROVE OnlyLatePongsCount'
  <2>1. late'[n] /\ (late' = late \/ late' = [late EXCEPT ![n] = TRUE])
    BY <1>4, FailedLate
  <2>2. \A m \in Nodes : late[m] => late'[m]
    BY <2>1 DEF LateType
  <2>3. \A m \in Nodes : m # n => retry'[m] = retry[m]
    BY <1>4 DEF Fails, Failure, NumberType
  <2> QED BY <2>1, <2>2, <2>3 DEF OnlyLatePongsCount
<1>5. CASE UNCHANGED vars
    BY <1>1, <1>5 DEF vars, pingVars
<1> QED BY <1>1, <1>2, <1>3, <1>4, <1>5, Cases

----------------------------------------------------------------------------
(* The theorem                                                             *)

\* Before the handshake.
LEMMA PongInit == Init => PongInv /\ OnlyLatePongsCount
<1> SUFFICES ASSUME Init PROVE PongInv /\ OnlyLatePongsCount
    OBVIOUS
<1>1. \A c : ~Has(<<>>, c) /\ One(<<>>, c) /\ Fresh(<<>>, c)
    BY FewHas
<1>2. \A n \in Nodes : /\ Other(n) \in Nodes
                       /\ \A t \in Streams : pipe[n][t] = <<>>
                       /\ inbox[n] = <<>> /\ busy[n] = <<>> /\ chan[n] = <<>>
    BY TwoNodes DEF Init
<1>3. ASSUME NEW n \in Nodes PROVE Quiet(n) /\ Alone(n) /\ AllFresh(n)
  <2>1. Quiet(n)
    BY <1>1, <1>2, StreamTypes DEF Quiet, PingOnWire, PingQueued, PingTaken, PongOnWire, PongQueued,
                                   PongTaken, PongPassed
  <2>2. Alone(n)
    BY <1>1, <1>2, <2>1, StreamTypes DEF Quiet, Alone
  <2>3. AllFresh(n)
    BY <1>1, <1>2, StreamTypes, SMT DEF AllFresh
  <2> QED BY <2>1, <2>2, <2>3
<1>4. PongInv
    BY <1>3 DEF PongInv
<1>5. OnlyLatePongsCount
    BY SMT DEF Init, OnlyLatePongsCount
<1> QED BY <1>4, <1>5

\* PingProtocol counts no failure unless a pong was late: however the two
\* loops, the channel between them and the wire interleave, a node whose pings
\* are always answered in time never finds the pong of an earlier one.
THEOREM LatePongTheorem == Spec => []OnlyLatePongsCount
<1>1. Init => PongInv /\ OnlyLatePongsCount
    BY PongInit
<1>2. SessionInv /\ PongInv /\ OnlyLatePongsCount /\ [Next]_vars
        => PongInv' /\ OnlyLatePongsCount'
    BY PongKept, LateKept DEF SessionInv
<1> QED BY <1>1, <1>2, Always, PTL DEF Spec

=============================================================================
