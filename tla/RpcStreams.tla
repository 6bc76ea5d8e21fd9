----------------------------- MODULE RpcStreams -----------------------------
(***************************************************************************)
(* JSON-RPC with a stream per request, client and server: over QUIC and    *)
(* over HTTP, where HTTP/3 subscribes like QUIC and HTTP/1.1 and HTTP/2    *)
(* only call.  A call is known by its stream.  A stream that subscribed    *)
(* stays open: the server sends notifications on it, the client at most    *)
(* its unsubscription.                                                     *)
(*                                                                         *)
(* The notifications of a subscription that decode are numbered modulo     *)
(* Numbers, so that a publisher never comes to its end.  A half of a       *)
(* stream that is dropped ends what it sends ("fin") and stops what it     *)
(* receives.                                                               *)
(***************************************************************************)
EXTENDS Backoff, Sequences, SequencesExt, FiniteSets

CONSTANTS
    Calls,
    Workloads,    \* records of the fields below
    SubCap,       \* subscription_buffer_size
    ChanCap,      \* CHANNEL_SUBSCRIPTION_BUFFER_SIZE
    StreamCap,    \* notifications that the flow control of a stream lets out
    Numbers,
    None

ASSUME RpcStreamsAssumption ==
    /\ Workloads \subseteq [backend : {"quic", "h3", "h2", "h1"}, deadline : BOOLEAN,
                             streams : Nat \ {0},
                             kind : [Calls -> {"call", "subscribe", "none"}],
                             faults : SUBSET {"client", "server", "network", "decoder"}]
    /\ {SubCap, ChanCap, StreamCap, Numbers} \subseteq Nat \ {0}
    /\ None \notin 0 .. Numbers

VARIABLES
    workload,           \* backend: the backend that the client's configuration picks;
                        \* deadline: config.timeout is set;
                        \* streams: max_bi_streams, how many may be open at a time;
                        \* kind: "call", "subscribe" or "none" for each of the calls;
                        \* faults: what interferes, of "client", "server", "network"
                        \* and "decoder", one that does not match the server's encoder
    conn,               \* the connection that the calls share
    acceptor,           \* the server's accept loop
    backoff,            \* its Backoff
    serving,            \* the task that accepts the streams of the connection
    call,               \* where each call is
    unsub,              \* the caller of unsubscribe
    unsubChans,         \* the keys of unsub_chans
    box,                \* the channel to the subscription's task
    task,               \* the client's task of each subscription
    entries,            \* the keys of Subscriptions.subs
    ended,              \* subscriptions whose channel is closed
    inbox,              \* the buffer of each subscription
    got,                \* history: the last notification that its owner got
    stopped,            \* Client::stop was called
    clientDoomed,       \* tasks that it has yet to cancel
    toServer, toClient, \* each stream, to and from the server
    gone,               \* the client opened the stream, dropped its half, and the
                        \* server knows
    broken,             \* the stream is lost
    sv,                 \* the server's task of each stream
    out,                \* the notification that it is writing
    chan,               \* its channel of notifications
    channelSubs,        \* subscriptions that are in their Channel
    pub,                \* who notifies for each subscription
    next,               \* the number of the next notification
    shutdown,           \* Server::shutdown was called
    doomed              \* tasks that it has yet to cancel

connVars == <<workload, conn, serving>>
acceptVars == <<acceptor, backoff>>
entryVars == <<unsubChans, box, task, entries, ended, inbox, got>>
stopVars == <<stopped, clientDoomed, shutdown, doomed>>
wireVars == <<toServer, toClient, gone, broken>>
serviceVars == <<sv, out, chan, channelSubs, pub, next>>
clientVars == <<call, unsub, entryVars>>
vars == <<connVars, acceptVars, clientVars, stopVars, wireVars, serviceVars>>

Number == 0 .. Numbers - 1
Undecodable == Numbers   \* a notification that the client's decoder refuses
Notification == Number \cup {Undecodable}
Message == ({"ok", "error", "status", "fin"} \X {None}) \cup ({"notification"} \X Notification)
Over == {"done", "refused", "failed", "dropped"}

backend == workload.backend
Subscribers == {c \in Calls : workload.kind[c] = "subscribe"}

TypeOK ==
    /\ workload \in Workloads
    /\ conn \in {"none", "pending", "handshake", "up", "failed", "lost"}
    /\ acceptor \in {"accept", "sleep", "over"} /\ backoff \in Backoffs
    /\ serving \in BOOLEAN
    /\ call \in [Calls -> {"idle", "open", "send", "wait", "insert"} \cup Over]
    /\ unsub \in [Calls -> {"no", "send", "close", "done", "dropped"}]
    /\ unsubChans \subseteq Subscribers
    /\ box \in [Calls -> {"empty", "request", "closed"}]
    /\ task \in [Calls -> {"none", "loop", "over"}]
    /\ entries \subseteq Subscribers /\ ended \subseteq Subscribers
    /\ \A c \in Calls :
        /\ inbox[c] \in Seq(Number) /\ Len(inbox[c]) <= SubCap
        /\ chan[c] \in Seq(Notification) /\ Len(chan[c]) <= ChanCap
        /\ toServer[c] \in Seq({"request", "unsubscribe", "fin"})
        /\ toClient[c] \in Seq(Message)
    /\ got \in [Calls -> Number \cup {None}]
    /\ stopped \in BOOLEAN /\ clientDoomed \subseteq Subscribers
    /\ gone \in [Calls -> {"unopened", "no", "dropped", "known"}]
    /\ broken \in [Calls -> BOOLEAN]
    /\ sv \in [Calls -> {"none", "read", "run", "method", "reply", "loop", "write",
                         "unsubscribe", "answer", "over"}]
    /\ out \in [Calls -> Notification \cup {None}]
    /\ channelSubs \subseteq Subscribers
    /\ pub \in [Calls -> {"none", "check", "push", "over"}]
    /\ next \in [Calls -> Number]
    /\ shutdown \in BOOLEAN /\ doomed \subseteq Calls \cup {"accept", "conn"}

\* The server's accept loop runs.
Init ==
    /\ workload \in Workloads
    /\ conn = "none" /\ serving = FALSE
    /\ acceptor = "accept" /\ backoff = New
    /\ call = [c \in Calls |-> "idle"] /\ unsub = [c \in Calls |-> "no"]
    /\ unsubChans = {} /\ box = [c \in Calls |-> "empty"]
    /\ task = [c \in Calls |-> "none"]
    /\ entries = {} /\ ended = {}
    /\ inbox = [c \in Calls |-> <<>>] /\ got = [c \in Calls |-> None]
    /\ stopped = FALSE /\ clientDoomed = {}
    /\ toServer = [c \in Calls |-> <<>>] /\ toClient = [c \in Calls |-> <<>>]
    /\ gone = [c \in Calls |-> "unopened"] /\ broken = [c \in Calls |-> FALSE]
    /\ sv = [c \in Calls |-> "none"] /\ out = [c \in Calls |-> None]
    /\ chan = [c \in Calls |-> <<>>] /\ channelSubs = {}
    /\ pub = [c \in Calls |-> "none"] /\ next = [c \in Calls |-> 0]
    /\ shutdown = FALSE /\ doomed = {}

Http == backend # "quic"
CanSubscribe == backend \in {"quic", "h3"}

\* Client::stop cancels the driver of an HTTP connection, after which nobody
\* can count on its streams.
Driven == backend = "quic" \/ ~stopped

Go(c, from, to) == call[c] \in from /\ call' = [call EXCEPT ![c] = to]

\* The client drops both halves of a stream; nobody reads what comes.
DropStream(c, sent) ==
    /\ toServer' = [toServer EXCEPT ![c] = IF broken[c] \/ (@ # <<>> /\ Last(@) = "fin") THEN @
                               ELSE @ \o sent \o <<"fin">>]
    /\ toClient' = [toClient EXCEPT ![c] = <<>>]
    /\ gone' = [gone EXCEPT ![c] = "dropped"]
    /\ UNCHANGED broken

----------------------------------------------------------------------------
(* The client is built                                                      *)

dial == conn' = "pending"

\* build_backend: HTTP/1.1 connects per call, the others dial now.
Build ==
    /\ conn = "none"
    /\ IF backend = "h1" THEN conn' = "up" ELSE dial
    /\ UNCHANGED <<workload, serving, acceptVars, clientVars, stopVars,
                   wireVars, serviceVars>>

\* The dial or the handshake fails: there is no client.
BuildFails ==
    /\ conn \in {"pending", "handshake"}
    /\ conn' = "failed"
    /\ UNCHANGED <<workload, serving, acceptVars, clientVars, stopVars,
                   wireVars, serviceVars>>

----------------------------------------------------------------------------
(* call and subscribe                                                       *)

\* Over HTTP/1.1 and HTTP/2 nobody can subscribe.  Nothing sets disconnect.
Begin(c) ==
    /\ workload.kind[c] # "none"
    /\ conn \in {"up", "lost"}
    /\ Go(c, {"idle"}, IF c \in Subscribers /\ ~CanSubscribe THEN "failed" ELSE "open")
    /\ UNCHANGED <<connVars, acceptVars, unsub, entryVars, stopVars, wireVars,
                   serviceVars>>

\* A stream counts until both sides are done with it.
InUse(c) == gone[c] # "unopened" /\ (gone[c] = "no" \/ sv[c] # "over")
Credit == backend = "h1" \/ Cardinality({c \in Calls : InUse(c)}) < workload.streams

\* open_stream waits until the server allows one more.
OpenStream(c) ==
    /\ conn = "up" /\ Credit
    /\ Go(c, {"open"}, "send")
    /\ gone' = [gone EXCEPT ![c] = "no"]
    /\ UNCHANGED <<connVars, acceptVars, unsub, entryVars, stopVars, toServer, toClient,
                   broken, serviceVars>>

OpenFails(c) ==
    /\ conn = "lost"
    /\ Go(c, {"open"}, "failed")
    /\ UNCHANGED <<connVars, acceptVars, unsub, entryVars, stopVars, wireVars,
                   serviceVars>>

\* An HTTP call ends the body before it reads the response.
PostRequest(c) == toServer' = [toServer EXCEPT ![c] = <<"request", "fin">>]
StartRequest(c) == toServer' = [toServer EXCEPT ![c] = <<"request">>]

SendRequest(c) ==
    /\ ~broken[c]
    /\ Go(c, {"send"}, "wait")
    /\ IF Http /\ c \notin Subscribers THEN PostRequest(c) ELSE StartRequest(c)
    /\ UNCHANGED <<connVars, acceptVars, unsub, entryVars, stopVars, toClient, gone,
                   broken, serviceVars>>

\* A response, an HTTP error, or the end of the stream before a response.
Outcome(type) ==
    CASE type = "ok" -> "done"
      [] type = "error" -> "refused"
      [] OTHER -> "failed"

\* The type of the next message from the server.
Arrived(c, type) == toClient[c] # <<>> /\ Head(toClient[c])[1] \in type

ReadAnswer(c) ==
    /\ Arrived(c, {"error", "status", "fin"} \cup (IF c \in Subscribers THEN {} ELSE {"ok"}))
    /\ Go(c, {"wait"}, Outcome(Head(toClient[c])[1]))
    /\ DropStream(c, <<>>)
    /\ UNCHANGED <<connVars, acceptVars, unsub, entryVars, stopVars, serviceVars>>

\* subscribe enters the channel for its unsubscription before it waits for
\* the lock of the subscriptions.
ReadSubscribed(c) ==
    /\ c \in Subscribers
    /\ Arrived(c, {"ok"})
    /\ Go(c, {"wait"}, "insert")
    /\ toClient' = [toClient EXCEPT ![c] = Tail(@)]
    /\ unsubChans' = unsubChans \cup {c}
    /\ UNCHANGED <<connVars, acceptVars, unsub, box, task, entries, ended, inbox, got,
                   stopVars, toServer, gone, broken, serviceVars>>

\* Subscriptions::subscribe; the task is spawned, after a stop too.
Insert(c) ==
    /\ Go(c, {"insert"}, "done")
    /\ entries' = entries \cup {c}
    /\ task' = [task EXCEPT ![c] = "loop"]
    /\ UNCHANGED <<connVars, acceptVars, unsub, unsubChans, box, ended, inbox, got,
                   stopVars, wireVars, serviceVars>>

StreamFails(c) ==
    /\ broken[c]
    /\ Go(c, {"send", "wait"}, "failed")
    /\ DropStream(c, <<>>)
    /\ UNCHANGED <<connVars, acceptVars, unsub, entryVars, stopVars, serviceVars>>

\* There may be none yet.
LeaveStream(c) ==
    IF call[c] = "open" THEN UNCHANGED wireVars ELSE DropStream(c, <<>>)

\* Only http_call has a timeout.
Timed(c) == workload.deadline /\ Http /\ c \notin Subscribers

Timeout(c) ==
    /\ Timed(c)
    /\ Go(c, {"open", "send", "wait"}, "failed")
    /\ LeaveStream(c)
    /\ UNCHANGED <<connVars, acceptVars, unsub, entryVars, stopVars, serviceVars>>

\* The caller drops the call at one of its awaits.
DropCall(c) ==
    /\ Go(c, {"open", "send", "wait", "insert"}, "dropped")
    /\ LeaveStream(c)
    /\ UNCHANGED <<connVars, acceptVars, unsub, entryVars, stopVars, serviceVars>>

----------------------------------------------------------------------------
(* Subscription::recv and unsubscribe                                       *)

SubRecv(c) ==
    /\ call[c] = "done"
    /\ inbox[c] # <<>>
    /\ got' = [got EXCEPT ![c] = Head(inbox[c])]
    /\ inbox' = [inbox EXCEPT ![c] = Tail(@)]
    /\ UNCHANGED <<connVars, acceptVars, call, unsub, unsubChans, box, task, entries,
                   ended, stopVars, wireVars, serviceVars>>

GoUnsub(c, from, to) == unsub[c] \in from /\ unsub' = [unsub EXCEPT ![c] = to]

TakeUnsubChan(c) ==
    /\ c \in Subscribers /\ call[c] = "done"
    /\ GoUnsub(c, {"no"}, IF c \in unsubChans THEN "send" ELSE "close")
    /\ unsubChans' = unsubChans \ {c}
    /\ UNCHANGED <<connVars, acceptVars, call, box, task, entries, ended, inbox, got,
                   stopVars, wireVars, serviceVars>>

\* There is room; it fails if the task is over.
SendUnsub(c) ==
    /\ GoUnsub(c, {"send"}, "close")
    /\ box' = [box EXCEPT ![c] = "request"]
    /\ UNCHANGED <<connVars, acceptVars, call, unsubChans, task, entries, ended, inbox,
                   got, stopVars, wireVars, serviceVars>>

\* The subscription leaves the map and stays open.
ForgetSub(c) ==
    /\ GoUnsub(c, {"close"}, "done")
    /\ entries' = entries \ {c}
    /\ UNCHANGED <<connVars, acceptVars, call, unsubChans, box, task, ended, inbox,
                   got, stopVars, wireVars, serviceVars>>

\* Subscriptions::unsubscribe
CloseSub(c) ==
    /\ GoUnsub(c, {"close"}, "done")
    /\ ended' = ended \cup ({c} \cap entries)
    /\ entries' = entries \ {c}
    /\ UNCHANGED <<connVars, acceptVars, call, unsubChans, box, task, inbox, got,
                   stopVars, wireVars, serviceVars>>

\* The sender that it took from the map goes with it.
DropUnsub(c) ==
    /\ GoUnsub(c, {"send", "close"}, "dropped")
    /\ box' = [box EXCEPT ![c] = IF unsub[c] = "send" THEN "closed" ELSE @]
    /\ UNCHANGED <<connVars, acceptVars, call, unsubChans, task, entries, ended, inbox,
                   got, stopVars, wireVars, serviceVars>>

----------------------------------------------------------------------------
(* subscription_stream_task, subscription_task                              *)

TaskEnds(c, sent) ==
    /\ task[c] = "loop"
    /\ task' = [task EXCEPT ![c] = "over"]
    /\ DropStream(c, sent)
    /\ UNCHANGED <<connVars, acceptVars, call, unsub, unsubChans, box, entries, ended,
                   inbox, got, serviceVars>>

\* The next message is a notification, and whether it decodes.
Notified(c, what) ==
    task[c] = "loop" /\ Arrived(c, {"notification"}) /\ Head(toClient[c])[2] \in what

\* decode_notification fails: the task goes on with the next.
SkipNotification(c) ==
    /\ Notified(c, {Undecodable})
    /\ toClient' = [toClient EXCEPT ![c] = Tail(@)]
    /\ UNCHANGED <<connVars, acceptVars, clientVars, stopVars, toServer, gone, broken,
                   serviceVars>>

\* A notification dropped when the buffer is full.
NotifyLossy(c) ==
    /\ Notified(c, Number)
    /\ c \notin ended
    /\ inbox' = IF Len(inbox[c]) < SubCap THEN [inbox EXCEPT ![c] = Append(@, Head(toClient[c])[2])]
              ELSE inbox
    /\ toClient' = [toClient EXCEPT ![c] = Tail(@)]
    /\ UNCHANGED <<connVars, acceptVars, call, unsub, unsubChans, box, task, entries,
                   ended, got, stopVars, toServer, gone, broken, serviceVars>>

Notify(c) ==
    /\ Notified(c, Number)
    /\ c \notin ended /\ Len(inbox[c]) < SubCap
    /\ inbox' = [inbox EXCEPT ![c] = Append(@, Head(toClient[c])[2])]
    /\ toClient' = [toClient EXCEPT ![c] = Tail(@)]
    /\ UNCHANGED <<connVars, acceptVars, call, unsub, unsubChans, box, task, entries,
                   ended, got, stopVars, toServer, gone, broken, serviceVars>>

\* A full buffer, or an owner that unsubscribed, ends the task.
NotifyFails(c) ==
    /\ Notified(c, Number)
    /\ c \in ended \/ Len(inbox[c]) = SubCap
    /\ TaskEnds(c, <<>>)
    /\ UNCHANGED stopVars

StreamEnds(c) ==
    /\ broken[c] \/ Arrived(c, {"fin"})
    /\ TaskEnds(c, <<>>)
    /\ UNCHANGED stopVars

\* The request of unsubscribe, unless its sender was dropped.  A message of
\* the server that is there first is taken first, but select may have looked
\* for it before it came.
ForwardUnsub(c) ==
    /\ box[c] # "empty"
    /\ TaskEnds(c, IF box[c] = "request" THEN <<"unsubscribe">> ELSE <<>>)
    /\ UNCHANGED stopVars

----------------------------------------------------------------------------
(* Client::stop                                                             *)

\* The tasks of the moment, and the driver of an HTTP connection.
Stop ==
    /\ conn \in {"up", "lost"} /\ ~stopped
    /\ stopped' = TRUE
    /\ clientDoomed' = {c \in Subscribers : task[c] = "loop"}
    /\ UNCHANGED <<connVars, acceptVars, clientVars, shutdown, doomed, wireVars,
                   serviceVars>>

StopTask(c) ==
    /\ c \in clientDoomed
    /\ clientDoomed' = clientDoomed \ {c}
    /\ IF task[c] = "loop" THEN TaskEnds(c, <<>>)
       ELSE UNCHANGED <<connVars, acceptVars, clientVars, wireVars, serviceVars>>
    /\ UNCHANGED <<stopped, shutdown, doomed>>

----------------------------------------------------------------------------
(* The connection                                                           *)

Lost ==
    /\ conn' = "lost"
    /\ broken' = [c \in Calls |-> TRUE]

\* The network, or the other side's process, is gone.
ConnLost ==
    /\ conn = "up" /\ backend # "h1"
    /\ Lost
    /\ UNCHANGED <<workload, serving, acceptVars, clientVars, stopVars, toServer,
                   toClient, gone, serviceVars>>

\* The same for the connection of one call.
CallConnLost(c) ==
    /\ backend = "h1"
    /\ call[c] \in {"send", "wait"} /\ ~broken[c]
    /\ broken' = [broken EXCEPT ![c] = TRUE]
    /\ UNCHANGED <<connVars, acceptVars, clientVars, stopVars, toServer, toClient, gone,
                   serviceVars>>

\* The server learns that the client does not read any more.
StopSending(c) ==
    /\ gone[c] = "dropped" /\ ~broken[c]
    /\ gone' = [gone EXCEPT ![c] = "known"]
    /\ UNCHANGED <<connVars, acceptVars, clientVars, stopVars, toServer, toClient, broken,
                   serviceVars>>

\* Nobody at the server holds the connection any more.
CloseConn ==
    /\ conn = "up" /\ backend # "h1" /\ ~serving
    /\ \A c \in Calls : sv[c] \in {"none", "over"}
    /\ Lost
    /\ UNCHANGED <<workload, serving, acceptVars, clientVars, stopVars, toServer,
                   toClient, gone, serviceVars>>

----------------------------------------------------------------------------
(* The server accepts                                                       *)

accept_incoming == conn = "pending" /\ conn' = "handshake"

\* The handshake goes to a task of its own.
AcceptConn ==
    /\ acceptor = "accept"
    /\ accept_incoming
    /\ backoff' = Reset(backoff)
    /\ UNCHANGED <<workload, serving, acceptor, clientVars, stopVars,
                   wireVars, serviceVars>>

\* Somebody may yet be accepted.
Accepting == conn \in {"none", "pending"} \/ backend = "h1"

AcceptFails ==
    /\ acceptor = "accept" /\ Accepting
    /\ acceptor' = "sleep"
    /\ backoff' = Sleep(backoff)
    /\ UNCHANGED <<connVars, clientVars, stopVars, wireVars, serviceVars>>

\* Over HTTP/3 a connection that comes over TCP ends the sleep, too.
SleepOver ==
    /\ acceptor = "sleep"
    /\ acceptor' = "accept"
    /\ UNCHANGED <<connVars, backoff, clientVars, stopVars, wireVars, serviceVars>>

handshake == conn = "handshake" /\ conn' = "up"

\* The server goes on with a task that accepts streams.
HandshakeDone ==
    /\ handshake
    /\ serving' = TRUE
    /\ UNCHANGED <<workload, acceptVars, clientVars, stopVars, wireVars,
                   serviceVars>>

\* The next stream is handled in a task of its own.
serve_conn(c) ==
    /\ sv[c] = "none" /\ toServer[c] # <<>>
    /\ sv' = [sv EXCEPT ![c] = "read"]

\* A stream is handled before the next is accepted.
AcceptStreamInline(c) ==
    /\ serving
    /\ \A d \in Calls : sv[d] \in {"none", "over"}
    /\ serve_conn(c)
    /\ UNCHANGED <<connVars, acceptVars, clientVars, stopVars, wireVars, out, chan,
                   channelSubs, pub, next>>

\* quic_accept_streams_task, serve_conn; a connection of HTTP/1.1 comes from
\* the accept loop.
AcceptStream(c) ==
    /\ IF backend = "h1" THEN acceptor = "accept" ELSE serving
    /\ serve_conn(c)
    /\ backoff' = IF backend = "h1" THEN Reset(backoff) ELSE backoff
    /\ UNCHANGED <<connVars, acceptor, clientVars, stopVars, wireVars, out, chan,
                   channelSubs, pub, next>>

----------------------------------------------------------------------------
(* The server handles a stream                                              *)

\* The task returns: it drops the stream, the channel and its receiver.
StreamOver(c, answer) ==
    /\ sv' = [sv EXCEPT ![c] = "over"]
    /\ out' = [out EXCEPT ![c] = None]
    /\ chan' = [chan EXCEPT ![c] = <<>>]
    /\ toClient' = [toClient EXCEPT ![c] = IF gone[c] = "no" /\ ~broken[c]
                                   THEN @ \o answer \o <<<<"fin", None>>>> ELSE @]
    /\ toServer' = [toServer EXCEPT ![c] = <<"fin">>]
    /\ UNCHANGED <<connVars, acceptVars, clientVars, gone, broken, channelSubs, pub,
                   next>>

ServerGo(c, from, to) ==
    /\ sv[c] = from /\ sv' = [sv EXCEPT ![c] = to]
    /\ UNCHANGED <<connVars, acceptVars, clientVars, stopVars>>

Received(c, what) == toServer[c] # <<>> /\ Head(toServer[c]) = what

ReadRequest(c) ==
    /\ Received(c, "request")
    /\ ServerGo(c, "read", IF c \in Subscribers THEN "method" ELSE "run")
    /\ toServer' = [toServer EXCEPT ![c] = Tail(@)]
    /\ UNCHANGED <<toClient, gone, broken, out, chan, channelSubs, pub, next>>

\* What is no request is answered with an error; what is too large with an
\* HTTP error, or over QUIC not at all.
RefuseRequest(c) ==
    /\ sv[c] = "read" /\ Received(c, "request")
    /\ \E answer \in {<<<<"error", None>>>>, IF Http THEN <<<<"status", None>>>> ELSE <<>>} :
        StreamOver(c, answer)
    /\ UNCHANGED stopVars

\* handle_request without a channel.
Respond(c) ==
    /\ sv[c] = "run"
    /\ \E answer \in {"ok", "error"} : StreamOver(c, <<<<answer, None>>>>)
    /\ UNCHANGED stopVars

\* The method that subscribes: new_subscription; it starts a publisher.
NewSubscription(c) ==
    /\ sv[c] = "method" /\ pub[c] = "none"
    /\ channelSubs' = channelSubs \cup {c}
    /\ pub' = [pub EXCEPT ![c] = "check"]
    /\ UNCHANGED <<connVars, acceptVars, clientVars, stopVars, wireVars, sv, out,
                   chan, next>>

MethodReturns(c) ==
    /\ pub[c] # "none"
    /\ ServerGo(c, "method", "reply")
    /\ UNCHANGED <<wireVars, out, chan, channelSubs, pub, next>>

MethodFails(c) ==
    /\ sv[c] = "method" /\ pub[c] = "none"
    /\ StreamOver(c, <<<<"error", None>>>>)
    /\ UNCHANGED stopVars

\* A message that the task writes.
Write(c, m) ==
    /\ ~broken[c] /\ gone[c] # "known"
    /\ Len(toClient[c]) < StreamCap
    /\ toClient' = IF gone[c] = "no" THEN [toClient EXCEPT ![c] = Append(@, m)] ELSE toClient
    /\ UNCHANGED <<toServer, gone, broken>>

SendReply(c) ==
    /\ ServerGo(c, "reply", "loop")
    /\ Write(c, <<"ok", None>>)
    /\ UNCHANGED <<out, chan, channelSubs, pub, next>>

TakeNotification(c) ==
    /\ chan[c] # <<>>
    /\ ServerGo(c, "loop", "write")
    /\ out' = [out EXCEPT ![c] = Head(chan[c])]
    /\ chan' = [chan EXCEPT ![c] = Tail(@)]
    /\ UNCHANGED <<wireVars, channelSubs, pub, next>>

SendNotification(c) ==
    /\ ServerGo(c, "write", "loop")
    /\ Write(c, <<"notification", out[c]>>)
    /\ out' = [out EXCEPT ![c] = None]
    /\ UNCHANGED <<chan, channelSubs, pub, next>>

WriteFails(c) ==
    /\ sv[c] \in {"reply", "write", "answer"}
    /\ broken[c] \/ gone[c] = "known"
    /\ StreamOver(c, <<>>)
    /\ UNCHANGED stopVars

ReadUnsubscribe(c) ==
    /\ Received(c, "unsubscribe")
    /\ ServerGo(c, "loop", "unsubscribe")
    /\ toServer' = [toServer EXCEPT ![c] = Tail(@)]
    /\ UNCHANGED <<toClient, gone, broken, out, chan, channelSubs, pub, next>>

\* handle_request with the channel: the method calls remove_subscription.
RemoveSubscription(c) ==
    /\ ServerGo(c, "unsubscribe", "answer")
    /\ channelSubs' = channelSubs \ {c}
    /\ UNCHANGED <<wireVars, out, chan, pub, next>>

Answer(c) ==
    /\ sv[c] = "answer"
    /\ StreamOver(c, <<<<"ok", None>>>>)
    /\ UNCHANGED stopVars

\* The client's half ended, or the stream is lost.
ReadEnds(c) ==
    /\ sv[c] \in {"read", "loop"}
    /\ broken[c] \/ Received(c, "fin")
    /\ StreamOver(c, <<>>)
    /\ UNCHANGED stopVars

----------------------------------------------------------------------------
(* Subscription::notify of the server, called again and again               *)

\* The task holds the Channel and the receiver.
ChannelAlive(c) == sv[c] \in {"method", "reply", "loop", "write", "unsubscribe", "answer"}

StillSubscribed(c) ==
    /\ pub[c] = "check"
    /\ pub' = [pub EXCEPT ![c] = IF ChannelAlive(c) /\ c \in channelSubs
                                 THEN "push" ELSE "over"]
    /\ UNCHANGED <<connVars, acceptVars, clientVars, stopVars, wireVars, sv, out,
                   chan, channelSubs, next>>

Push(c) ==
    /\ pub[c] = "push"
    /\ ChannelAlive(c) /\ Len(chan[c]) < ChanCap
    /\ \/ /\ chan' = [chan EXCEPT ![c] = Append(@, next[c])]
          /\ next' = [next EXCEPT ![c] = (@ + 1) % Numbers]
       \/ /\ "decoder" \in workload.faults
          /\ chan' = [chan EXCEPT ![c] = Append(@, Undecodable)]
          /\ UNCHANGED next
    /\ pub' = [pub EXCEPT ![c] = "check"]
    /\ UNCHANGED <<connVars, acceptVars, clientVars, stopVars, wireVars, sv, out,
                   channelSubs>>

PushFails(c) ==
    /\ pub[c] = "push"
    /\ ~ChannelAlive(c)
    /\ pub' = [pub EXCEPT ![c] = "over"]
    /\ UNCHANGED <<connVars, acceptVars, clientVars, stopVars, wireVars, sv, out,
                   chan, channelSubs, next>>

----------------------------------------------------------------------------
(* Server::shutdown                                                         *)

\* The tasks of the moment; those that accept may spawn more until they are
\* cancelled.
Shutdown ==
    /\ ~shutdown
    /\ shutdown' = TRUE
    /\ doomed' = {t \in {"accept"} : Accepting}
                 \cup {t \in {"conn"} : conn = "handshake" \/ serving}
                 \cup {c \in Calls : sv[c] \notin {"none", "over"}}
    /\ acceptor' = IF Accepting THEN acceptor ELSE "over"
    /\ UNCHANGED <<connVars, backoff, clientVars, stopped, clientDoomed, wireVars,
                   serviceVars>>

Cancelling(t) ==
    /\ t \in doomed
    /\ doomed' = doomed \ {t}
    /\ UNCHANGED <<stopped, clientDoomed, shutdown>>

CancelAccept ==
    /\ Cancelling("accept")
    /\ acceptor' = "over"
    /\ UNCHANGED <<connVars, backoff, clientVars, wireVars, serviceVars>>

CancelConn ==
    /\ Cancelling("conn")
    /\ serving' = FALSE
    /\ conn' = IF conn = "handshake" THEN "failed" ELSE conn
    /\ UNCHANGED <<workload, acceptVars, clientVars, wireVars, serviceVars>>

CancelStream(c) ==
    /\ Cancelling(c)
    /\ IF sv[c] # "over" THEN StreamOver(c, <<>>)
       ELSE UNCHANGED <<connVars, acceptVars, clientVars, wireVars, serviceVars>>

----------------------------------------------------------------------------

CallStep(c) ==
    \/ OpenStream(c) \/ OpenFails(c)
    \/ SendRequest(c) \/ ReadAnswer(c) \/ ReadSubscribed(c) \/ StreamFails(c) \/ Insert(c)
UnsubStep(c) == SendUnsub(c) \/ CloseSub(c)
TaskStep(c) ==
    \/ Notify(c) \/ NotifyFails(c) \/ SkipNotification(c)
    \/ StreamEnds(c) \/ ForwardUnsub(c)
AcceptStep == AcceptConn \/ SleepOver \/ HandshakeDone
StreamStep(c) ==
    \/ AcceptStream(c)
    \/ ReadRequest(c) \/ RefuseRequest(c) \/ Respond(c)
    \/ NewSubscription(c) \/ MethodReturns(c) \/ MethodFails(c) \/ SendReply(c)
    \/ TakeNotification(c) \/ SendNotification(c) \/ WriteFails(c)
    \/ ReadUnsubscribe(c) \/ RemoveSubscription(c) \/ Answer(c) \/ ReadEnds(c)
PublisherStep(c) == StillSubscribed(c) \/ Push(c) \/ PushFails(c)
ShutdownStep == CancelAccept \/ CancelConn \/ \E c \in Calls : CancelStream(c)

\* What a workload may leave out.
ClientFault ==
    \/ BuildFails \/ Stop
    \/ \E c \in Calls : DropCall(c) \/ TakeUnsubChan(c) \/ DropUnsub(c)
ServerFault == AcceptFails \/ Shutdown
NetworkFault == ConnLost \/ \E c \in Calls : CallConnLost(c)

Next ==
    \/ "client" \in workload.faults /\ ClientFault
    \/ "server" \in workload.faults /\ ServerFault
    \/ "network" \in workload.faults /\ NetworkFault
    \/ Build \/ AcceptStep \/ ShutdownStep \/ CloseConn
    \/ \E c \in Calls :
        \/ Begin(c) \/ CallStep(c) \/ Timeout(c)
        \/ SubRecv(c) \/ UnsubStep(c)
        \/ TaskStep(c) \/ StopTask(c) \/ StopSending(c)
        \/ StreamStep(c) \/ PublisherStep(c)

Spec == Init /\ [][Next]_vars

\* Tasks are polled and timers run out, handlers return, publishers go on,
\* a connection that is not lost tells what was dropped, and a listener that
\* is asked again and again does not fail forever.
Fairness ==
    /\ WF_vars(AcceptStep) /\ WF_vars(ShutdownStep) /\ WF_vars(CloseConn)
    /\ \A c \in Calls :
        /\ WF_vars(Driven /\ CallStep(c)) /\ WF_vars(Timeout(c)) /\ WF_vars(UnsubStep(c))
        /\ WF_vars(Driven /\ TaskStep(c)) /\ WF_vars(StopTask(c))
        /\ WF_vars(StopSending(c)) /\ WF_vars(StreamStep(c)) /\ SF_vars(AcceptStream(c))
        /\ WF_vars(PublisherStep(c))

FairSpec == Spec /\ Fairness

----------------------------------------------------------------------------

Flag(x) == IF x = None THEN <<>> ELSE <<x>>

Numbered(messages) ==
    LET ns == SelectSeq(messages, LAMBDA m : m[1] = "notification")
    IN  [i \in DOMAIN ns |-> ns[i][2]]

\* What the owner has seen last, with what waits for it at the client and, as
\* long as the client reads, on the stream and at the server.
Pipeline(c) ==
    Flag(got[c]) \o inbox[c] \o
    (IF gone[c] # "no" THEN <<>>
     ELSE Numbered(toClient[c]) \o Flag(out[c]) \o chan[c])

\* A subscription's owner gets the notifications that decode in the order of
\* their Subscription::notify, from the first and without a gap, through the
\* channel, the stream and the buffer: a task that cannot hand one over ends
\* the subscription.  Those that do not decode are skipped.
InOrder ==
    /\ TypeOK
    /\ \A c \in Subscribers :
        LET seen == SelectSeq(Pipeline(c), LAMBDA n : n \in Number)
        IN  /\ \A i \in 1 .. Len(seen) - 1 : seen[i + 1] = (seen[i] + 1) % Numbers
            /\ got[c] = None /\ seen # <<>> => Head(seen) = 0

\* What Backoff::sleep multiplies stays below twice its maximum, far from the
\* 64 bits where it would panic, however often accept fails.
ProductFits == ~backoff.stop => Product(backoff) < 2 * MaxDelay

\* The client has left the subscription: it failed, its future was dropped,
\* its task ended with a full buffer, a lost stream or stop, or unsubscribe
\* returned.
Left(c) ==
    \/ call[c] \in {"refused", "failed", "dropped"}
    \/ task[c] = "over"
    \/ unsub[c] = "done" /\ Driven

\* The server then ends the stream's task and, with it, whoever notifies,
\* even if notifications never cease and the unsubscription is not read.  A
\* task that is told to unsubscribe prefers the stream, though, and skips what
\* does not decode: it goes on as long as nothing else comes.
Released ==
    \A c \in Calls :
        c \in Subscribers /\ Left(c)
            ~> \/ sv[c] \in {"none", "over"} /\ pub[c] \in {"none", "over"}
               \/ []<>Notified(c, {Undecodable})

\* Subscriptions hold all the streams that the connection may have open.
Crowded(c) ==
    /\ call[c] = "open" /\ ~Credit
    /\ \A d \in Calls : InUse(d) => d \in Subscribers

\* A call that was begun ends: with a timeout in any case, without one unless
\* the server is shut down, the client stopped, or subscriptions hold all the
\* streams for ever.  No failed accept, and no stream beside it, holds it up.
CallEnds ==
    \A c \in Calls :
        call[c] \in {"open", "send", "wait", "insert"}
            ~> \/ call[c] \in Over
               \/ ~Timed(c) /\ (shutdown \/ ~Driven)
               \/ ~Timed(c) /\ []Crowded(c)

=============================================================================
