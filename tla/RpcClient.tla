----------------------------- MODULE RpcClient -----------------------------
(***************************************************************************)
(* The JSON-RPC client over one connection (TCP, TLS, WebSocket, Unix):    *)
(* calls, subscribe and unsubscribe share the dispatcher of responses, the *)
(* outbound channel and the background task that reads and writes.         *)
(*                                                                         *)
(* A call is known by its request id.  Ids are random numbers of 32 bits,  *)
(* taken to be distinct.  A subscription is known by the id of the call    *)
(* that made it, its notifications by their number among those that        *)
(* decode.                                                                 *)
(***************************************************************************)
EXTENDS Naturals, Sequences, FiniteSets

CONSTANTS
    Calls,
    OutCap,      \* OUTBOUND_BUFFER_SIZE
    SubCap,      \* subscription_buffer_size
    MaxNotify,   \* bound on the notifications of a subscription
    WireCap,     \* bound on the messages on their way to the client
    None

ASSUME RpcClientAssumption ==
    /\ OutCap \in Nat \ {0} /\ SubCap \in Nat \ {0} /\ MaxNotify \in Nat
    /\ WireCap \in Nat \ {0}
    /\ None \notin Calls

VARIABLES
    timeouts,    \* config.timeout is set
    kind,        \* what each call is for: "call", "sub", or the call of the
                 \*   subscription that it unsubscribes
    pc,          \* where each call is
    pending,     \* the ids in MessageDispatcher.chans
    reply,       \* the response channel of each call
    sendq,       \* send_chan
    io,          \* background_loop and the callback of its end
    writing,     \* the request that it is writing, or None
    disconnect,
    subs,        \* the ids in Subscriptions.subs
    closed,      \* subscriptions whose channel is closed
    buf,         \* the buffer of each subscription
    last,        \* history: the last notification that its owner received, or 0
    up, down,    \* the connection, to and from the server
    executed,    \* how often the server has read each request
    responded,   \* those that it has answered
    notified     \* how many notifications it sent per subscription

callVars == <<pc, kind>>
subVars == <<subs, closed, buf, last>>
ioVars == <<io, writing, disconnect>>
serverVars == <<executed, responded, notified>>
vars == <<timeouts, callVars, pending, reply, sendq, ioVars, subVars, up, down,
          serverVars>>

\* The caller has the response (an error response is "refused"), an error of
\* the client, or is gone.
Over == {"done", "refused", "failed", "disconnected", "dropped"}

Message == [type : {"ok", "error"}, id : Calls]
           \cup [type : {"notification"}, id : Calls, n : 1 .. MaxNotify]
           \cup [type : {"undecodable"}]

TypeOK ==
    /\ timeouts \in BOOLEAN
    /\ kind \in [Calls -> {"call", "sub"} \cup Calls]
    /\ pc \in [Calls -> {"idle", "register", "send", "wait", "unregister",
                         "insert", "remove"} \cup Over]
    /\ pending \subseteq Calls
    /\ reply \in [Calls -> {"none", "ok", "error", "closed"}]
    /\ sendq \in Seq(Calls) /\ Len(sendq) <= OutCap
    /\ io \in {"connect", "failed", "loop", "ended", "clear subs", "clear chans", "over"}
    /\ writing \in Calls \cup {None}
    /\ disconnect \in BOOLEAN
    /\ subs \subseteq Calls /\ closed \subseteq Calls
    /\ \A s \in Calls : /\ buf[s] \in Seq(1 .. MaxNotify) /\ Len(buf[s]) <= SubCap
                        /\ last[s] \in 0 .. MaxNotify
    /\ up \in Seq(Calls) /\ down \in Seq(Message)
    /\ executed \in [Calls -> Nat]
    /\ responded \subseteq {c \in Calls : executed[c] # 0}
    /\ notified \in [Calls -> 0 .. MaxNotify]

Init ==
    /\ timeouts \in BOOLEAN
    /\ kind = [c \in Calls |-> "call"]
    /\ pc = [c \in Calls |-> "idle"]
    /\ pending = {}
    /\ reply = [c \in Calls |-> "none"]
    /\ sendq = <<>>
    /\ io = "connect" /\ writing = None /\ disconnect = FALSE
    /\ subs = {} /\ closed = {}
    /\ buf = [c \in Calls |-> <<>>] /\ last = [c \in Calls |-> 0]
    /\ up = <<>> /\ down = <<>>
    /\ executed = [c \in Calls |-> 0] /\ responded = {}
    /\ notified = [c \in Calls |-> 0]

Go(c, from, to) == pc[c] = from /\ pc' = [pc EXCEPT ![c] = to]

----------------------------------------------------------------------------
(* Client::init                                                             *)

\* The connection with its TLS or WebSocket handshake is there; the
\* background task starts before anybody has the client.
Connect ==
    /\ io = "connect"
    /\ io' = "loop"
    /\ UNCHANGED <<timeouts, callVars, pending, reply, sendq, writing, disconnect,
                   subVars, up, down, serverVars>>

\* There is no client.
ConnectFails ==
    /\ io = "connect"
    /\ io' = "failed"
    /\ UNCHANGED <<timeouts, callVars, pending, reply, sendq, writing, disconnect,
                   subVars, up, down, serverVars>>

----------------------------------------------------------------------------
(* send_request                                                             *)

\* call, subscribe, or unsubscribe of a subscription that was returned.
Begin(c, k) ==
    /\ io \notin {"connect", "failed"}
    /\ k \in Calls => kind[k] = "sub" /\ pc[k] = "done"
    /\ Go(c, "idle", IF disconnect THEN "disconnected" ELSE "register")
    /\ kind' = [kind EXCEPT ![c] = k]
    /\ UNCHANGED <<timeouts, pending, reply, sendq, ioVars, subVars, up, down,
                   serverVars>>

\* The connection may have ended since the test of disconnect.
Register(c) ==
    /\ Go(c, "register", "send")
    /\ pending' = pending \cup {c}
    /\ UNCHANGED <<timeouts, kind, reply, sendq, ioVars, subVars, up, down,
                   serverVars>>

\* It waits for room, even if nobody empties the channel any more.
Send(c) ==
    /\ Go(c, "send", "wait")
    /\ Len(sendq) < OutCap
    /\ sendq' = Append(sendq, c)
    /\ UNCHANGED <<timeouts, kind, pending, reply, ioVars, subVars, up, down,
                   serverVars>>

\* Where the response takes a call: subscribe has yet to insert, and
\* unsubscribe to remove, whatever the response.
AfterReply(c) ==
    IF kind[c] \in Calls THEN "remove"
    ELSE IF reply[c] # "ok" THEN "refused"
    ELSE IF kind[c] = "sub" THEN "insert"
    ELSE "done"

Recv(c) ==
    /\ reply[c] \in {"ok", "error"}
    /\ Go(c, "wait", AfterReply(c))
    /\ UNCHANGED <<timeouts, kind, pending, reply, sendq, ioVars, subVars, up,
                   down, serverVars>>

RecvClosed(c) ==
    /\ reply[c] = "closed"
    /\ Go(c, "wait", "unregister")
    /\ UNCHANGED <<timeouts, kind, pending, reply, sendq, ioVars, subVars, up,
                   down, serverVars>>

\* timeout prefers its timer to a response that is there.
Timeout(c) ==
    /\ timeouts
    /\ Go(c, "wait", "unregister")
    /\ UNCHANGED <<timeouts, kind, pending, reply, sendq, ioVars, subVars, up,
                   down, serverVars>>

Unregister(c) ==
    /\ Go(c, "unregister", "failed")
    /\ pending' = pending \ {c}
    /\ UNCHANGED <<timeouts, kind, reply, sendq, ioVars, subVars, up, down,
                   serverVars>>

\* subscribe: Subscriptions::subscribe
Insert(c) ==
    /\ Go(c, "insert", "done")
    /\ subs' = subs \cup {c}
    /\ UNCHANGED <<timeouts, kind, pending, reply, sendq, ioVars, closed, buf,
                   last, up, down, serverVars>>

\* unsubscribe: Subscriptions::unsubscribe
RemoveSub(c) ==
    /\ Go(c, "remove", IF reply[c] = "ok" THEN "done" ELSE "refused")
    /\ closed' = closed \cup ({kind[c]} \cap subs)
    /\ subs' = subs \ {kind[c]}
    /\ UNCHANGED <<timeouts, kind, pending, reply, sendq, ioVars, buf, last, up,
                   down, serverVars>>

\* The caller drops the call at one of its awaits.
DropCall(c) ==
    /\ pc[c] \notin Over \cup {"idle"}
    /\ pc' = [pc EXCEPT ![c] = "dropped"]
    /\ UNCHANGED <<timeouts, kind, pending, reply, sendq, ioVars, subVars, up,
                   down, serverVars>>

\* Subscription::recv
SubRecv(s) ==
    /\ pc[s] = "done" /\ kind[s] = "sub"
    /\ buf[s] # <<>>
    /\ last' = [last EXCEPT ![s] = Head(buf[s])]
    /\ buf' = [buf EXCEPT ![s] = Tail(@)]
    /\ UNCHANGED <<timeouts, callVars, pending, reply, sendq, ioVars, subs,
                   closed, up, down, serverVars>>

----------------------------------------------------------------------------
(* run_io_loop                                                              *)

\* The request stays in the channel.
TakeOutboundKeeps ==
    /\ io = "loop" /\ writing = None
    /\ sendq # <<>>
    /\ writing' = Head(sendq)
    /\ UNCHANGED <<timeouts, callVars, pending, reply, sendq, io, disconnect,
                   subVars, up, down, serverVars>>

TakeOutbound ==
    /\ io = "loop" /\ writing = None
    /\ sendq # <<>>
    /\ writing' = Head(sendq)
    /\ sendq' = Tail(sendq)
    /\ UNCHANGED <<timeouts, callVars, pending, reply, io, disconnect, subVars,
                   up, down, serverVars>>

Written ==
    /\ io = "loop" /\ writing # None
    /\ up' = Append(up, writing)
    /\ writing' = None
    /\ UNCHANGED <<timeouts, callVars, pending, reply, sendq, io, disconnect,
                   subVars, down, serverVars>>

\* The loop returns.  What it was writing may be lost, what comes is not read.
IoEnds ==
    /\ io' = "ended"
    /\ writing' = None
    /\ down' = <<>>

\* A read or a write fails, or stop cancels the task at one of its awaits.
IoFails ==
    /\ io = "loop"
    /\ IoEnds
    /\ UNCHANGED <<timeouts, callVars, pending, reply, sendq, disconnect,
                   subVars, up, serverVars>>

Reads(type) ==
    /\ io = "loop" /\ writing = None
    /\ down # <<>>
    /\ Head(down).type \in type
    /\ down' = Tail(down)

\* A response that nobody has registered for is dropped.
Dispatch ==
    /\ Reads({"ok", "error"})
    /\ LET c == Head(down).id
       IN  IF c \in pending
           THEN /\ pending' = pending \ {c}
                /\ reply' = [reply EXCEPT ![c] = Head(down).type]
           ELSE UNCHANGED <<pending, reply>>
    /\ UNCHANGED <<timeouts, callVars, sendq, ioVars, subVars, up, serverVars>>

\* A notification dropped when the buffer is full.
NotifyLossy ==
    /\ Reads({"notification"})
    /\ LET s == Head(down).id
       IN  buf' = IF s \in subs /\ Len(buf[s]) < SubCap
                  THEN [buf EXCEPT ![s] = Append(@, Head(down).n)] ELSE buf
    /\ UNCHANGED <<timeouts, callVars, pending, reply, sendq, ioVars, subs,
                   closed, last, up, serverVars>>

\* A notification for an unknown subscription does not matter.
Notify ==
    /\ Reads({"notification"})
    /\ LET s == Head(down).id
       IN  /\ s \in subs => Len(buf[s]) < SubCap
           /\ buf' = IF s \in subs THEN [buf EXCEPT ![s] = Append(@, Head(down).n)]
                     ELSE buf
    /\ UNCHANGED <<timeouts, callVars, pending, reply, sendq, ioVars, subs,
                   closed, last, up, serverVars>>

\* The decoder's error is logged, and the loop goes on.
SkipNotification ==
    /\ Reads({"undecodable"})
    /\ UNCHANGED <<timeouts, callVars, pending, reply, sendq, ioVars, subVars,
                   up, serverVars>>

\* A full buffer ends the loop.
BufferFull ==
    /\ io = "loop" /\ writing = None
    /\ down # <<>>
    /\ LET s == Head(down).id
       IN  Head(down).type = "notification" /\ s \in subs /\ Len(buf[s]) = SubCap
    /\ IoEnds
    /\ UNCHANGED <<timeouts, callVars, pending, reply, sendq, disconnect,
                   subVars, up, serverVars>>

\* The callback of start_io_loop
SetDisconnect ==
    /\ io = "ended"
    /\ io' = "clear subs"
    /\ disconnect' = TRUE
    /\ UNCHANGED <<timeouts, callVars, pending, reply, sendq, writing, subVars,
                   up, down, serverVars>>

\* The map cleared, its subscriptions left open.
ForgetSubs ==
    /\ io = "clear subs"
    /\ io' = "clear chans"
    /\ subs' = {}
    /\ UNCHANGED <<timeouts, callVars, pending, reply, sendq, writing,
                   disconnect, closed, buf, last, up, down, serverVars>>

ClearSubs ==
    /\ io = "clear subs"
    /\ io' = "clear chans"
    /\ closed' = closed \cup subs
    /\ subs' = {}
    /\ UNCHANGED <<timeouts, callVars, pending, reply, sendq, writing,
                   disconnect, buf, last, up, down, serverVars>>

\* Nobody tells the callers that wait.
KeepChans ==
    /\ io = "clear chans"
    /\ io' = "over"
    /\ UNCHANGED <<timeouts, callVars, pending, reply, sendq, writing,
                   disconnect, subVars, up, down, serverVars>>

ClearChans ==
    /\ io = "clear chans"
    /\ io' = "over"
    /\ reply' = [c \in Calls |-> IF c \in pending THEN "closed" ELSE reply[c]]
    /\ pending' = {}
    /\ UNCHANGED <<timeouts, callVars, sendq, writing, disconnect, subVars, up,
                   down, serverVars>>

----------------------------------------------------------------------------
(* The server (module RpcServer), as the connection shows it                *)

Execute ==
    /\ up # <<>>
    /\ executed' = [executed EXCEPT ![Head(up)] = @ + 1]
    /\ up' = Tail(up)
    /\ UNCHANGED <<timeouts, callVars, pending, reply, sendq, ioVars, subVars,
                   down, responded, notified>>

\* In any order.  Nothing reads what it sends after the loop's end.
Respond(c, type) ==
    /\ io = "loop" /\ Len(down) < WireCap
    /\ executed[c] # 0 /\ c \notin responded
    /\ responded' = responded \cup {c}
    /\ down' = Append(down, [type |-> type, id |-> c])
    /\ UNCHANGED <<timeouts, callVars, pending, reply, sendq, ioVars, subVars,
                   up, executed, notified>>

\* Before its response, and after an unsubscribe, too.
SendNotification(s) ==
    /\ io = "loop" /\ Len(down) < WireCap
    /\ executed[s] # 0 /\ kind[s] = "sub"
    /\ notified[s] < MaxNotify
    /\ notified' = [notified EXCEPT ![s] = @ + 1]
    /\ down' = Append(down, [type |-> "notification", id |-> s,
                             n |-> notified'[s]])
    /\ UNCHANGED <<timeouts, callVars, pending, reply, sendq, ioVars, subVars,
                   up, executed, responded>>

\* One that the client's decoder does not take: it has no number.
SendUndecodable(s) ==
    /\ io = "loop" /\ Len(down) < WireCap
    /\ executed[s] # 0 /\ kind[s] = "sub"
    /\ down' = Append(down, [type |-> "undecodable"])
    /\ UNCHANGED <<timeouts, callVars, pending, reply, sendq, ioVars, subVars,
                   up, serverVars>>

----------------------------------------------------------------------------

CallStep(c) ==
    \/ Register(c) \/ Send(c) \/ Recv(c) \/ RecvClosed(c) \/ Timeout(c)
    \/ Unregister(c) \/ Insert(c) \/ RemoveSub(c)

CallbackStep == SetDisconnect \/ ClearSubs \/ ClearChans

Next ==
    \/ \E c \in Calls :
        \/ \E k \in {"call", "sub"} \cup Calls : Begin(c, k)
        \/ CallStep(c) \/ DropCall(c) \/ SubRecv(c)
        \/ \E type \in {"ok", "error"} : Respond(c, type)
        \/ SendNotification(c) \/ SendUndecodable(c)
    \/ Connect \/ ConnectFails
    \/ TakeOutbound \/ Written \/ IoFails \/ Dispatch \/ Notify
    \/ SkipNotification \/ BufferFull
    \/ CallbackStep
    \/ Execute

Spec == Init /\ [][Next]_vars

\* Callers poll their calls, timers run out, and the task group's callback
\* runs.  Neither the server nor the connection owe anything.
Fairness == WF_vars(CallbackStep) /\ \A c \in Calls : WF_vars(CallStep(c))

FairSpec == Spec /\ Fairness

----------------------------------------------------------------------------

\* The dispatcher has no entry of a call that is over, but for one that its
\* caller dropped: send_request unregisters on every error, and dispatch and
\* clear remove what they serve.
NoStaleEntry ==
    \A c \in pending : pc[c] \in {"send", "wait", "unregister", "dropped"}

\* A subscription's owner gets the notifications that decode in order and
\* without a gap after the first, with responses, notifications that do not
\* decode, other calls, unsubscribe and the end of the connection in between:
\* Subscription::notify ends the connection before it drops one.
NoGap ==
    \A s \in Calls :
        LET seen == IF last[s] = 0 THEN buf[s] ELSE <<last[s]>> \o buf[s]
        IN  \A i \in 1 .. Len(seen) - 1 : seen[i + 1] = seen[i] + 1

\* What the background task keeps for calls and subscriptions is in order.
DispatchInv == TypeOK /\ NoStaleEntry /\ NoGap

\* A call that waits for its response ends: by its timeout, if there is one,
\* and anyway if it was registered when the connection ended.
WaitEnds ==
    \A c \in Calls :
        (/\ pc[c] = "wait"
         /\ \/ timeouts
            \/ c \in pending /\ io \in {"ended", "clear subs", "clear chans"})
            ~> pc[c] # "wait"

\* A subscription that the client holds when the connection ends is closed,
\* so that its owner's recv ends.
SubsClosed ==
    \A s \in Calls : (s \in subs /\ io \in {"ended", "clear subs"}) ~> s \in closed

Service == INSTANCE RpcCalls WITH
    asked <- {c \in Calls : pc[c] \notin {"idle", "disconnected"}},
    answered <- {c \in Calls : pc[c] \in {"done", "refused"}},
    failed <- {c \in Calls : pc[c] \in {"failed", "dropped"}}

\* Every caller gets the answer to its own request or an error, no request is
\* executed twice (executed counts), and none that failed with
\* ClientDisconnected is executed (send_request, run_io_loop, dispatch).
IsService == Service!Spec

=============================================================================
