----------------------------- MODULE RpcServer -----------------------------
(***************************************************************************)
(* One message connection of the JSON-RPC server: the accept loop, the     *)
(* task that upgrades the stream, the reader task, which spawns a task per *)
(* request, the writer task, which sends responses and notifications, the  *)
(* publishers that notify through a Subscription, and Server::shutdown.    *)
(*                                                                         *)
(* A request is a member of Requests, and so is the subscription that it   *)
(* makes.  AsyncQueue and CondWait are taken as their modules prove and    *)
(* check them; TaskGroup::cancel stops the tasks it drained one by one.    *)
(***************************************************************************)
EXTENDS Naturals, Sequences, FiniteSets

CONSTANTS
    Requests,
    Subscribers,    \* those to a method that subscribes
    MaxConcurrent,  \* MAX_CONCURRENT_REQUESTS
    QueueCap,       \* RESPONSE_QUEUE_SIZE
    ChanCap,        \* CHANNEL_SUBSCRIPTION_BUFFER_SIZE
    Upgrade,        \* the endpoint is tls, ws or wss: a handshake comes first
    None

ASSUME RpcServerAssumption ==
    /\ IsFiniteSet(Requests) /\ Subscribers \subseteq Requests
    /\ {MaxConcurrent, QueueCap, ChanCap} \subseteq Nat \ {0}
    /\ Upgrade \in BOOLEAN
    /\ None \notin Requests

VARIABLES
    conn,        \* accept_loop until it accepts the stream, then its handling
    reader,      \* stream_reader_task and its callback
    permits,     \* free permits of its semaphore
    req,         \* request_task of each request
    queue,       \* the queue of responses
    chan,        \* the channel of notifications
    closed,      \* the channel is closed
    subs,        \* Channel.subs
    writer,      \* stream_writer_task and its callback
    writing,     \* the message that it is writing
    done,        \* writer_done
    pub,         \* who notifies for each subscription
    doomed,      \* tasks that Server::shutdown has yet to cancel
    stopping,    \* the one it is waiting for
    shutdown,
    responses    \* history: how many responses to each request were written

serverVars == <<conn, doomed, stopping, shutdown>>
vars == <<serverVars, reader, permits, req, queue, chan, closed, subs, writer,
          writing, done, pub, responses>>

Message == {"response", "notification"} \X Requests
Tasks == {"accept", "conn", "reader", "writer"} \cup Requests
Active == {r \in Requests : req[r] \in {"run", "push"}}

TypeOK ==
    /\ conn \in {"accept", "backoff", "handshake", "over"}
    /\ reader \in {"none", "acquire", "read", "ended", "over"}
    /\ permits \in 0 .. MaxConcurrent
    /\ req \in [Requests -> {"none", "run", "push", "over"}]
    /\ queue \in Seq(Requests) /\ Len(queue) <= QueueCap
    /\ chan \in Seq(Requests) /\ Len(chan) <= ChanCap
    /\ closed \in BOOLEAN
    /\ subs \subseteq Requests
    /\ writer \in {"none", "poll queue", "poll chan", "write", "ended",
                  "notify done", "over"}
    /\ writing \in Message \cup {None}
    /\ done \in BOOLEAN
    /\ pub \in [Requests -> {"none", "check", "send", "stopped"}]
    /\ doomed \subseteq Tasks
    /\ stopping \in Tasks \cup {None}
    /\ shutdown \in {"no", "running", "returned"}
    /\ responses \in [Requests -> Nat]

\* create_backend has bound the listener, start has spawned the accept loop.
Init ==
    /\ conn = "accept" /\ reader = "none"
    /\ permits = MaxConcurrent
    /\ req = [r \in Requests |-> "none"]
    /\ queue = <<>> /\ chan = <<>> /\ closed = FALSE /\ subs = {}
    /\ writer = "none" /\ writing = None /\ done = FALSE
    /\ pub = [r \in Requests |-> "none"]
    /\ doomed = {} /\ stopping = None /\ shutdown = "no"
    /\ responses = [r \in Requests |-> 0]

\* Channel::close
Close == closed' = TRUE

----------------------------------------------------------------------------
(* accept_loop, of which one round counts: what it accepts later are other  *)
(* connections                                                              *)

connVars == <<permits, req, queue, chan, closed, subs, writing, done, pub,
              doomed, stopping, shutdown, responses>>

Accept ==
    /\ conn = "accept"
    /\ conn' = "handshake"
    /\ UNCHANGED <<reader, writer, connVars>>

AcceptFails ==
    /\ conn = "accept"
    /\ conn' = "backoff"
    /\ UNCHANGED <<reader, writer, connVars>>

BackoffOver ==
    /\ conn = "backoff"
    /\ conn' = "accept"
    /\ UNCHANGED <<reader, writer, connVars>>

\* The acceptor's handle returns.
Handled ==
    /\ conn = "handshake"
    /\ conn' = "over"

\* The handshake, if there is one, fails or takes handshake_timeout.
HandshakeFails ==
    /\ Handled /\ Upgrade
    /\ UNCHANGED <<reader, writer, connVars>>

\* handle_message_conn: the reader and the writer are tasks of the server.
HandleMessageConn ==
    /\ Handled
    /\ writer' = "poll queue"
    /\ reader' = "acquire"
    /\ UNCHANGED connVars

----------------------------------------------------------------------------
(* stream_reader_task                                                       *)

Acquire ==
    /\ reader = "acquire"
    /\ permits > 0
    /\ permits' = permits - 1
    /\ reader' = "read"
    /\ UNCHANGED <<req, queue, chan, closed, subs, writer, writing, done,
                   pub, serverVars, responses>>

\* The permit dropped when the request's task is spawned.
ReadRequestFreesPermit(r) ==
    /\ reader = "read"
    /\ req[r] = "none"
    /\ req' = [req EXCEPT ![r] = "run"]
    /\ permits' = permits + 1
    /\ reader' = "acquire"
    /\ UNCHANGED <<queue, chan, closed, subs, writer, writing, done, pub,
                   serverVars, responses>>

\* A request takes the permit along.
ReadRequest(r) ==
    /\ reader = "read"
    /\ req[r] = "none"
    /\ req' = [req EXCEPT ![r] = "run"]
    /\ reader' = "acquire"
    /\ UNCHANGED <<permits, queue, chan, closed, subs, writer, writing, done,
                   pub, serverVars, responses>>

ReaderReturns ==
    /\ reader' = "ended"
    /\ permits' = permits + 1
    /\ UNCHANGED <<req, queue, chan, closed, subs, writer, writing, done,
                   pub, serverVars, responses>>

\* The connection is closed or broken, or read_timeout runs out.
ReadFails == reader = "read" /\ ReaderReturns

WriterIsDone == reader = "read" /\ done /\ ReaderReturns

\* The reader's end leaves the channel open.
ReaderForgetsChannel ==
    /\ reader = "ended"
    /\ reader' = "over"
    /\ UNCHANGED <<permits, req, queue, chan, closed, subs, writer, writing,
                   done, pub, serverVars, responses>>

ReaderCallback ==
    /\ reader = "ended"
    /\ reader' = "over"
    /\ Close
    /\ UNCHANGED <<permits, req, queue, chan, subs, writer, writing, done,
                   pub, serverVars, responses>>

----------------------------------------------------------------------------
(* request_task: the handlers are user code, which may use the Channel      *)

\* new_subscription; the handler starts a publisher.
NewSubscription(r) ==
    /\ r \in Subscribers
    /\ req[r] = "run"
    /\ pub[r] = "none"
    /\ subs' = subs \cup {r}
    /\ pub' = [pub EXCEPT ![r] = "check"]
    /\ UNCHANGED <<reader, permits, req, queue, chan, closed, writer, writing,
                   done, serverVars, responses>>

RemoveSubscription(r, s) ==
    /\ req[r] = "run"
    /\ s \in subs
    /\ subs' = subs \ {s}
    /\ UNCHANGED <<reader, permits, req, queue, chan, closed, writer, writing,
                   done, pub, serverVars, responses>>

\* handle_request returns a response, be it an error.
HandlerReturns(r) ==
    /\ req[r] = "run"
    /\ req' = [req EXCEPT ![r] = "push"]
    /\ UNCHANGED <<reader, permits, queue, chan, closed, subs, writer, writing,
                   done, pub, serverVars, responses>>

\* The end of the task drops its permit.
Leave(r) ==
    /\ req' = [req EXCEPT ![r] = "over"]
    /\ permits' = permits + 1

PushResponse(r) ==
    /\ req[r] = "push"
    /\ Len(queue) < QueueCap
    /\ queue' = Append(queue, r)
    /\ Leave(r)
    /\ UNCHANGED <<reader, chan, closed, subs, writer, writing, done, pub,
                   serverVars, responses>>

DropResponse(r) ==
    /\ req[r] = "push"
    /\ done
    /\ Leave(r)
    /\ UNCHANGED <<reader, queue, chan, closed, subs, writer, writing, done,
                   pub, serverVars, responses>>

----------------------------------------------------------------------------
(* stream_writer_task: select polls the queue, then the channel             *)

\* The response stays in the queue.
TakeResponseAgain ==
    /\ writer = "poll queue"
    /\ queue # <<>>
    /\ writing' = <<"response", Head(queue)>>
    /\ writer' = "write"
    /\ UNCHANGED <<reader, permits, req, queue, chan, closed, subs, done,
                   pub, serverVars, responses>>

TakeResponse ==
    /\ writer = "poll queue"
    /\ queue # <<>>
    /\ writing' = <<"response", Head(queue)>>
    /\ queue' = Tail(queue)
    /\ writer' = "write"
    /\ UNCHANGED <<reader, permits, req, chan, closed, subs, done, pub,
                   serverVars, responses>>

NoResponse ==
    /\ writer = "poll queue"
    /\ queue = <<>>
    /\ writer' = "poll chan"
    /\ UNCHANGED <<reader, permits, req, queue, chan, closed, subs, writing,
                   done, pub, serverVars, responses>>

\* Notifications go first.
TakeNotificationFirst ==
    /\ writer \in {"poll queue", "poll chan"}
    /\ chan # <<>>
    /\ writing' = <<"notification", Head(chan)>>
    /\ chan' = Tail(chan)
    /\ writer' = "write"
    /\ UNCHANGED <<reader, permits, req, queue, closed, subs, done, pub,
                   serverVars, responses>>

TakeNotification ==
    /\ writer = "poll chan"
    /\ chan # <<>>
    /\ writing' = <<"notification", Head(chan)>>
    /\ chan' = Tail(chan)
    /\ writer' = "write"
    /\ UNCHANGED <<reader, permits, req, queue, closed, subs, done, pub,
                   serverVars, responses>>

\* Nothing there: the task is woken when there is.
NoNotification ==
    /\ writer = "poll chan"
    /\ chan = <<>> /\ ~closed
    /\ queue # <<>>
    /\ writer' = "poll queue"
    /\ UNCHANGED <<reader, permits, req, queue, chan, closed, subs, writing,
                   done, pub, serverVars, responses>>

\* The end of the task drops the receiver of notifications.
WriterReturns ==
    /\ writer' = "ended"
    /\ writing' = None
    /\ chan' = <<>>
    /\ Close
    /\ UNCHANGED <<reader, permits, req, queue, subs, done, pub, serverVars,
                   responses>>

ChannelIsClosed ==
    /\ writer = "poll chan"
    /\ chan = <<>> /\ closed
    /\ WriterReturns

Written ==
    /\ writer = "write"
    /\ responses' = IF writing[1] = "response"
                    THEN [responses EXCEPT ![writing[2]] = @ + 1] ELSE responses
    /\ writing' = None
    /\ writer' = "poll queue"
    /\ UNCHANGED <<reader, permits, req, queue, chan, closed, subs, done,
                   pub, serverVars>>

WriteFails == writer = "write" /\ WriterReturns

WriterCallback ==
    /\ writer = "ended"
    /\ writer' = "notify done"
    /\ Close
    /\ UNCHANGED <<reader, permits, req, queue, chan, subs, writing, done,
                   pub, serverVars, responses>>

\* The reader and the requests are not told.
WriterDoneSilently ==
    /\ writer = "notify done"
    /\ writer' = "over"
    /\ UNCHANGED <<reader, permits, req, queue, chan, closed, subs, writing,
                   done, pub, serverVars, responses>>

WriterDone ==
    /\ writer = "notify done"
    /\ writer' = "over"
    /\ done' = TRUE
    /\ UNCHANGED <<reader, permits, req, queue, chan, closed, subs, writing,
                   pub, serverVars, responses>>

----------------------------------------------------------------------------
(* Subscription::notify, called again and again                             *)

\* Somebody holds the Channel of which a Subscription has a weak reference.
ChannelAlive == reader # "over" \/ writer # "over" \/ Active # {}

StillSubscribed(s) ==
    /\ pub[s] = "check"
    /\ pub' = [pub EXCEPT ![s] = IF ChannelAlive /\ s \in subs THEN "send" ELSE "stopped"]
    /\ UNCHANGED <<reader, permits, req, queue, chan, closed, subs, writer,
                   writing, done, serverVars, responses>>

SendNotification(s) ==
    /\ pub[s] = "send"
    /\ ~closed
    /\ Len(chan) < ChanCap
    /\ chan' = Append(chan, s)
    /\ pub' = [pub EXCEPT ![s] = "check"]
    /\ UNCHANGED <<reader, permits, req, queue, closed, subs, writer, writing,
                   done, serverVars, responses>>

SendFails(s) ==
    /\ pub[s] = "send"
    /\ closed
    /\ pub' = [pub EXCEPT ![s] = "stopped"]
    /\ UNCHANGED <<reader, permits, req, queue, chan, closed, subs, writer,
                   writing, done, serverVars, responses>>

----------------------------------------------------------------------------
(* Server::shutdown                                                         *)

Running(t) ==
    CASE t = "accept" -> conn \in {"accept", "backoff"}
      [] t = "conn" -> conn = "handshake"
      [] t = "reader" -> reader \notin {"none", "over"}
      [] t = "writer" -> writer \notin {"none", "over"}
      [] t \in Requests -> t \in Active

\* The tasks of the moment; the accept loop, the handshake and the reader may
\* spawn more until they are cancelled.
Shutdown ==
    /\ shutdown = "no"
    /\ shutdown' = "running"
    /\ doomed' = {t \in Tasks : Running(t)}
    /\ UNCHANGED <<conn, reader, permits, req, queue, chan, closed, subs,
                   writer, writing, done, pub, stopping, responses>>

\* TaskHandler::cancel, in the order of a HashMap.
CancelTask(t) ==
    /\ shutdown = "running"
    /\ stopping = None
    /\ t \in doomed
    /\ stopping' = t
    /\ doomed' = doomed \ {t}
    /\ UNCHANGED <<conn, reader, permits, req, queue, chan, closed, subs,
                   writer, writing, done, pub, shutdown, responses>>

\* The task's future is dropped; its callback comes next.
StopConn ==
    /\ stopping \in {"accept", "conn"}
    /\ Running(stopping)
    /\ conn' = "over"
    /\ UNCHANGED <<reader, writer, connVars>>

StopReader ==
    /\ stopping = "reader"
    /\ reader \in {"acquire", "read"}
    /\ permits' = IF reader = "read" THEN permits + 1 ELSE permits
    /\ reader' = "ended"
    /\ UNCHANGED <<req, queue, chan, closed, subs, writer, writing, done,
                   pub, serverVars, responses>>

StopWriter ==
    /\ stopping = "writer"
    /\ writer \in {"poll queue", "poll chan", "write"}
    /\ WriterReturns

StopRequest(r) ==
    /\ stopping = r
    /\ r \in Active
    /\ Leave(r)
    /\ UNCHANGED <<reader, queue, chan, closed, subs, writer, writing, done,
                   pub, serverVars, responses>>

Cancelled ==
    /\ stopping # None
    /\ ~Running(stopping)
    /\ stopping' = None
    /\ UNCHANGED <<conn, reader, permits, req, queue, chan, closed, subs,
                   writer, writing, done, pub, doomed, shutdown, responses>>

ShutdownReturns ==
    /\ shutdown = "running"
    /\ stopping = None /\ doomed = {}
    /\ shutdown' = "returned"
    /\ UNCHANGED <<conn, reader, permits, req, queue, chan, closed, subs,
                   writer, writing, done, pub, doomed, stopping, responses>>

----------------------------------------------------------------------------

ConnStep == HandshakeFails \/ HandleMessageConn
ReaderStep == Acquire \/ WriterIsDone \/ ReaderCallback
WriterStep ==
    \/ TakeResponse \/ NoResponse \/ TakeNotification \/ NoNotification
    \/ ChannelIsClosed \/ Written \/ WriteFails \/ WriterCallback \/ WriterDone
RequestStep(r) == HandlerReturns(r) \/ PushResponse(r) \/ DropResponse(r)
PublisherStep(s) == StillSubscribed(s) \/ SendNotification(s) \/ SendFails(s)
ShutdownStep ==
    \/ \E t \in Tasks : CancelTask(t)
    \/ StopConn \/ StopReader \/ StopWriter \/ (\E r \in Requests : StopRequest(r))
    \/ Cancelled \/ ShutdownReturns

Next ==
    \/ Accept \/ AcceptFails \/ BackoffOver \/ ConnStep
    \/ ReaderStep \/ ReadFails \/ WriterStep \/ Shutdown \/ ShutdownStep
    \/ \E r \in Requests :
        \/ ReadRequest(r) \/ RequestStep(r) \/ NewSubscription(r)
        \/ \E s \in Requests : RemoveSubscription(r, s)
        \/ PublisherStep(r)

Spec == Init /\ [][Next]_vars

\* Our tasks are polled, handlers return, publishers go on, and a write ends:
\* the client reads, or the connection breaks.
FairSpec ==
    /\ Spec
    /\ WF_vars(ConnStep) /\ WF_vars(ReaderStep) /\ WF_vars(WriterStep) /\ WF_vars(ShutdownStep)
    /\ \A r \in Requests : WF_vars(RequestStep(r)) /\ WF_vars(PublisherStep(r))

----------------------------------------------------------------------------

\* No permit is lost or made up: those that are free, with the reader's and
\* the requests', are MAX_CONCURRENT_REQUESTS, whoever ends first.
PermitsAccountedFor ==
    /\ TypeOK
    /\ permits + (IF reader = "read" THEN 1 ELSE 0) + Cardinality(Active) = MaxConcurrent

ConnectionOver == reader = "over" /\ writer = "over" /\ Active = {}

\* When the reader or the writer has ended, the other and the requests end,
\* instead of waiting for ever on a full queue, for a permit or for a
\* notification (writer_done and the channel's close).
EndsTogether == reader = "over" \/ writer = "over" ~> ConnectionOver

\* A request that was read is answered unless the writer ends first: neither
\* the queue's limit nor the permits, nor notifications, hold it up for ever.
RequestsAnswered ==
    \A r \in Requests :
        r \in Active ~> responses[r] > 0 \/ writer \in {"ended", "notify done", "over"}

\* Shutdown returns, whatever is spawned meanwhile, and a connection that it
\* found ends with all its requests.  (One that the accept loop or a handshake
\* still brings in is in nobody's list and lives on.)
ShutdownCompletes ==
    /\ shutdown = "running" ~> shutdown = "returned"
    /\ "reader" \in doomed ~> ConnectionOver

Peer == INSTANCE RpcPeer WITH
    executed <- {r \in Requests : req[r] # "none"}

\* The connection shows what the client's model relies on (module RpcClient).
IsPeer == Peer!Spec

=============================================================================
