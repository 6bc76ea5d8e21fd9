-------------------------- MODULE RpcClientProofs ---------------------------
(***************************************************************************)
(* Proofs about the JSON-RPC client, for any set of calls, any capacities  *)
(* and any number of notifications: what its dispatcher and subscriptions  *)
(* keep is right, and it implements RpcCalls.                              *)
(***************************************************************************)
EXTENDS RpcClient, TLAPS

\* Most steps need no arithmetic and are for Zenon; a leaf that does says SMT.
USE Zenon

----------------------------------------------------------------------------
(* The inductive invariant, by what it is about                             *)

FlagType == timeouts \in BOOLEAN /\ disconnect \in BOOLEAN

CallType ==
    /\ kind \in [Calls -> {"call", "sub"} \cup Calls]
    /\ pc \in [Calls -> {"idle", "register", "send", "wait", "unregister",
                         "insert", "remove"} \cup Over]
    /\ pending \subseteq Calls
    /\ reply \in [Calls -> {"none", "ok", "error", "closed"}]
    /\ io \in {"connect", "failed", "loop", "ended", "clear subs", "clear chans", "over"}
    /\ subs \subseteq Calls /\ closed \subseteq Calls

\* The requests that the server has executed.
Executed == {c \in Calls : executed[c] # 0}

LinkType ==
    /\ sendq \in Seq(Calls) /\ Len(sendq) <= OutCap
    /\ writing \in Calls \cup {None}
    /\ up \in Seq(Calls)
    /\ executed \in [Calls -> Nat] /\ responded \subseteq Executed

NoteType ==
    /\ down \in Seq(Message)
    /\ notified \in [Calls -> 0 .. MaxNotify]
    /\ buf \in [Calls -> Seq(1 .. MaxNotify)]
    /\ last \in [Calls -> 0 .. MaxNotify]
    /\ \A s \in Calls : Len(buf[s]) <= SubCap

\* The dispatcher: a call is in it from its registration to its response, its
\* error or the end of the connection, and a caller that is told of a response
\* is told of one that the server sent.
EntryInv ==
    /\ NoStaleEntry
    /\ \A c \in Calls :
        /\ reply[c] # "none" => c \notin pending /\ pc[c] \notin {"idle", "register"}
        /\ reply[c] \in {"ok", "error"} => c \in Executed
        /\ pc[c] \in {"insert", "remove", "done", "refused"} => c \in Executed

\* A response on its way is that of a request that the server answered.
ResponseInv ==
    \A i \in 1 .. Len(down) : down[i].type \in {"ok", "error"} => down[i].id \in responded

In(q, c) == \E i \in 1 .. Len(q) : q[i] = c
Distinct(q) == \A i, j \in 1 .. Len(q) : q[i] = q[j] => i = j

Sent(c) == pc[c] \notin {"idle", "register", "send", "disconnected"}

\* A request that was sent is in one place at most: in the outbound channel,
\* with the writer, on its way, or executed.
OnceInv ==
    /\ Distinct(sendq) /\ Distinct(up)
    /\ \A c \in Calls :
        /\ In(sendq, c) => Sent(c) /\ writing # c /\ ~In(up, c) /\ c \notin Executed
        /\ writing = c => Sent(c) /\ ~In(up, c) /\ c \notin Executed
        /\ In(up, c) => Sent(c) /\ c \notin Executed
        /\ c \in Executed => Sent(c)

\* The i-th message to the client is a notification of s.
IsNote(i, s) == down[i].type = "notification" /\ down[i].id = s

\* The notification m of s comes after the i-th message.
ComesAfter(s, i, m) == \E j \in i + 1 .. Len(down) : IsNote(j, s) /\ down[j].n = m

\* The notifications on their way are in order, without a gap, up to the last.
WireInv ==
    \A s \in Calls : \A i \in 1 .. Len(down) : IsNote(i, s) =>
        /\ down[i].n <= notified[s]
        /\ \A j \in i + 1 .. Len(down) : IsNote(j, s) => down[i].n < down[j].n
        /\ \A m \in down[i].n + 1 .. notified[s] : ComesAfter(s, i, m)

\* The last notification that a subscription got.
Latest(s) == IF buf[s] = <<>> THEN last[s] ELSE buf[s][Len(buf[s])]

\* What a subscription has is in order and without a gap.
InOrder(s) ==
    /\ \A i \in 1 .. Len(buf[s]) - 1 : buf[s][i + 1] = buf[s][i] + 1
    /\ buf[s] # <<>> /\ last[s] # 0 => buf[s][1] = last[s] + 1
    /\ Latest(s) <= notified[s]

\* As long as it is subscribed, it goes on where the connection does.
GoesOn(s) ==
    s \in subs /\ io = "loop" /\ Latest(s) # 0 =>
        /\ \A j \in 1 .. Len(down) : IsNote(j, s) => Latest(s) < down[j].n
        /\ \A m \in Latest(s) + 1 .. notified[s] : ComesAfter(s, 0, m)

\* Nobody has a subscription that subscribe has not returned.
OwnerInv ==
    \A s \in Calls :
        /\ pc[s] # "done" => s \notin subs /\ buf[s] = <<>> /\ last[s] = 0
        /\ io = "connect" => pc[s] = "idle"

BufInv == \A s \in Calls : InOrder(s) /\ GoesOn(s)

----------------------------------------------------------------------------
(* Sequences and steps                                                      *)

\* The capacities are numbers.
LEMMA Limits == OutCap \in Nat /\ SubCap \in Nat /\ SubCap > 0 /\ MaxNotify \in Nat
BY RpcClientAssumption, SMT

\* What the first of a sequence and the rest are.
LEMMA TakeFirst ==
    ASSUME NEW S, NEW q \in Seq(S), q # <<>>
    PROVE  /\ Len(q) \in Nat /\ Len(q) > 0
           /\ Head(q) \in S /\ Head(q) = q[1]
           /\ Tail(q) \in Seq(S) /\ Len(Tail(q)) = Len(q) - 1
           /\ \A i \in 1 .. Len(Tail(q)) : Tail(q)[i] = q[i + 1]
BY SMT

\* The items of a sequence.
LEMMA Items ==
    ASSUME NEW S, NEW q \in Seq(S)
    PROVE  /\ Len(q) \in Nat /\ (q # <<>> => Len(q) > 0)
           /\ \A i \in 1 .. Len(q) : q[i] \in S
BY SMT

\* What a sequence is with one more at its end.
LEMMA AddLast ==
    ASSUME NEW S, NEW q \in Seq(S), NEW x \in S
    PROVE  /\ Len(q) \in Nat
           /\ Append(q, x) \in Seq(S) /\ Len(Append(q, x)) = Len(q) + 1
           /\ \A i \in 1 .. Len(q) : Append(q, x)[i] = q[i]
           /\ Append(q, x)[Len(q) + 1] = x
BY SMT

\* The steps of a call, which are those of send_request, subscribe and unsubscribe.
CallActs(c) ==
    \/ \E k \in {"call", "sub"} \cup Calls : Begin(c, k)
    \/ CallStep(c) \/ DropCall(c)

\* The steps of the background task that neither read nor change what is there
\* for the callers.
LinkActs == Connect \/ ConnectFails \/ TakeOutbound \/ Written \/ SetDisconnect

\* The ends of run_io_loop.
EndActs == IoFails \/ BufferFull

\* The steps of Next, by what they change.
LEMMA Cases ==
    ASSUME [Next]_vars
    PROVE  \/ \E c \in Calls : CallActs(c) \/ SubRecv(c) \/ SendNotification(c)
           \/ \E c \in Calls : SendUndecodable(c)
           \/ \E c \in Calls, type \in {"ok", "error"} : Respond(c, type)
           \/ LinkActs \/ EndActs \/ Dispatch \/ Notify \/ SkipNotification
           \/ ClearSubs \/ ClearChans \/ Execute \/ UNCHANGED vars
BY DEF Next, CallActs, LinkActs, EndActs, CallbackStep

\* The caller's side touches neither the connection nor the background task.
LEMMA CallFrame ==
    ASSUME NEW c \in Calls, CallActs(c)
    PROVE  UNCHANGED <<timeouts, ioVars, buf, last, up, down, serverVars>>
BY DEF CallActs, CallStep, Begin, Register, Send, Recv, RecvClosed, Timeout, Unregister,
       Insert, RemoveSub, DropCall, subVars

\* The background task's steps that are not for a caller leave the callers be.
LEMMA LinkFrame ==
    /\ LinkActs => UNCHANGED <<timeouts, callVars, pending, reply, subVars, down, serverVars>>
    /\ EndActs => /\ UNCHANGED <<timeouts, callVars, pending, reply, sendq, disconnect,
                                 subVars, up, serverVars>>
                  /\ io = "loop" /\ io' = "ended" /\ writing' = None /\ down' = <<>>
BY DEF LinkActs, EndActs, Connect, ConnectFails, TakeOutbound, Written, SetDisconnect,
       IoFails, BufferFull, IoEnds

\* A notification that does not decode comes and goes on the connection alone.
LEMMA UndecodableFrame ==
    ASSUME SkipNotification \/ \E c \in Calls : SendUndecodable(c)
    PROVE  /\ UNCHANGED <<timeouts, callVars, pending, reply, sendq, ioVars, subVars, up,
                          serverVars>>
           /\ UNCHANGED <<pc, kind, io, writing, disconnect, subs, closed, buf, last,
                          executed, responded, notified>>
BY DEF SkipNotification, SendUndecodable, callVars, ioVars, subVars, serverVars

----------------------------------------------------------------------------
(* Types                                                                    *)

\* The two flags stay flags.
LEMMA FlagKept ==
    ASSUME FlagType, [Next]_vars PROVE FlagType'
<1>1. timeouts' = timeouts
    BY CallFrame, LinkFrame, UndecodableFrame, Cases
       DEF SubRecv, SendNotification, Respond, Dispatch, Notify, ClearSubs, ClearChans, Execute, vars
<1>2. disconnect' = disconnect \/ disconnect' = TRUE
    BY CallFrame, LinkFrame, UndecodableFrame, Cases
       DEF SubRecv, SendNotification, Respond, Dispatch, Notify, ClearSubs, ClearChans, Execute,
           vars, ioVars, LinkActs, Connect, ConnectFails, TakeOutbound, Written, SetDisconnect
<1> QED BY <1>1, <1>2 DEF FlagType

\* Where the response takes a call.
LEMMA ReplyPlaces ==
    ASSUME NEW c \in Calls
    PROVE  AfterReply(c) \in {"remove", "insert", "done", "refused"}
BY DEF AfterReply

\* A response that is read is of a call, and is one.
LEMMA ReadResponse ==
    ASSUME NoteType, Reads({"ok", "error"})
    PROVE  Head(down) \in Message /\ Head(down).id \in Calls /\ Head(down).type \in {"ok", "error"}
<1>1. Head(down) \in Message
    BY TakeFirst DEF NoteType, Reads
<1>2. Head(down).type \in {"ok", "error"}
    BY DEF Reads
<1> QED BY <1>1, <1>2 DEF Message

\* Calls, their replies and the subscriptions keep their types.
LEMMA CallTypeKept ==
    ASSUME CallType, NoteType, [Next]_vars PROVE CallType'
<1>1. ASSUME NEW c \in Calls, NEW k \in {"call", "sub"} \cup Calls, Begin(c, k) PROVE CallType'
    BY <1>1 DEF CallType, Begin, Go, Over, ioVars, subVars
<1>2. ASSUME NEW c \in Calls, Register(c) \/ Send(c) \/ RecvClosed(c) \/ Timeout(c) \/ Unregister(c)
      PROVE CallType'
    BY <1>2 DEF CallType, Register, Send, RecvClosed, Timeout, Unregister, Go, Over, ioVars, subVars
<1>3. ASSUME NEW c \in Calls, Recv(c) PROVE CallType'
    BY <1>3, ReplyPlaces DEF CallType, Recv, Go, Over, ioVars, subVars
<1>4. ASSUME NEW c \in Calls, Insert(c) PROVE CallType'
    BY <1>4 DEF CallType, Insert, Go, Over, ioVars
<1>5. ASSUME NEW c \in Calls, RemoveSub(c) PROVE CallType'
    BY <1>5 DEF CallType, RemoveSub, Go, Over, ioVars
<1>6. ASSUME NEW c \in Calls, DropCall(c) PROVE CallType'
    BY <1>6 DEF CallType, DropCall, Over, ioVars, subVars
<1>7. ASSUME \/ \E c \in Calls : SubRecv(c) \/ SendNotification(c)
             \/ \E c \in Calls, type \in {"ok", "error"} : Respond(c, type)
             \/ Notify \/ Execute \/ UNCHANGED vars
      PROVE CallType'
    BY <1>7 DEF CallType, SubRecv, SendNotification, Respond, Notify, Execute, vars,
                callVars, ioVars, subVars
<1>8. ASSUME LinkActs \/ EndActs PROVE CallType'
  <2>1. io' \in {"connect", "failed", "loop", "ended", "clear subs"}
    BY <1>8, LinkFrame DEF LinkActs, Connect, ConnectFails, TakeOutbound, Written, SetDisconnect
  <2> QED BY <1>8, <2>1, LinkFrame DEF CallType, callVars, subVars
<1>9. ASSUME Dispatch PROVE CallType'
  <2>1. Head(down).id \in Calls /\ Head(down).type \in {"ok", "error"}
    BY <1>9, ReadResponse DEF Dispatch
  <2> QED BY <1>9, <2>1 DEF CallType, Dispatch, callVars, ioVars, subVars
<1>10. ASSUME ClearSubs \/ ClearChans PROVE CallType'
    BY <1>10 DEF CallType, ClearSubs, ClearChans, callVars, subVars
<1>11. ASSUME SkipNotification \/ \E c \in Calls : SendUndecodable(c) PROVE CallType'
    BY <1>11, UndecodableFrame DEF CallType
<1> QED BY <1>1, <1>2, <1>3, <1>4, <1>5, <1>6, <1>7, <1>8, <1>9, <1>10, <1>11, Cases
    DEF CallActs, CallStep

----------------------------------------------------------------------------
(* The dispatcher                                                           *)

\* Nothing but where c is changes for the callers.
Moves(c, to) ==
    pc' = [pc EXCEPT ![c] = to] /\ UNCHANGED <<pending, reply, executed>> /\ Executed' = Executed

\* The server counts the request that it reads.
LEMMA Counted ==
    ASSUME LinkType, Execute
    PROVE  /\ up # <<>> /\ Head(up) \in Calls
           /\ executed' = [executed EXCEPT ![Head(up)] = @ + 1]
           /\ executed' \in [Calls -> Nat]
           /\ Executed' = Executed \cup {Head(up)} /\ Executed \subseteq Executed'
<1>1. /\ up # <<>> /\ executed \in [Calls -> Nat]
      /\ executed' = [executed EXCEPT ![Head(up)] = @ + 1]
    BY DEF Execute, LinkType
<1>2. PICK h \in Calls : h = Head(up)
    BY <1>1, TakeFirst DEF LinkType
<1>3. /\ executed' \in [Calls -> Nat] /\ executed'[h] # 0
      /\ \A c \in Calls \ {h} : executed'[c] = executed[c]
    BY <1>1, <1>2, SMT
<1>4. Executed' = Executed \cup {h}
    BY <1>3 DEF Executed
<1> QED BY <1>1, <1>2, <1>3, <1>4

\* send_request, dispatch and clear keep the dispatcher's entries right.
LEMMA EntryKept ==
    ASSUME CallType, LinkType, NoteType, EntryInv, ResponseInv, [Next]_vars PROVE EntryInv'
<1>1. ASSUME NEW c \in Calls, NEW k \in {"call", "sub"} \cup Calls, Begin(c, k) PROVE EntryInv'
  <2>1. pc[c] = "idle" /\ (Moves(c, "register") \/ Moves(c, "disconnected"))
    BY <1>1 DEF Begin, Go, Moves, serverVars, Executed
  <2> QED BY <2>1 DEF CallType, EntryInv, NoStaleEntry, Moves
<1>2. ASSUME NEW c \in Calls, Register(c) \/ Unregister(c) PROVE EntryInv'
  <2>1. CASE Register(c)
    <3>1. /\ pc[c] = "register" /\ pc' = [pc EXCEPT ![c] = "send"]
          /\ pending' = pending \cup {c} /\ reply' = reply /\ Executed' = Executed
      BY <2>1 DEF Register, Go, serverVars, Executed
    <3>2. reply[c] = "none" /\ pc'[c] = "send" /\ \A d \in Calls \ {c} : pc'[d] = pc[d]
      BY <3>1 DEF CallType, EntryInv
    <3> QED BY <3>1, <3>2 DEF CallType, EntryInv, NoStaleEntry
  <2>2. CASE Unregister(c)
    <3>1. /\ pc[c] = "unregister" /\ pc' = [pc EXCEPT ![c] = "failed"]
          /\ pending' = pending \ {c} /\ reply' = reply /\ Executed' = Executed
      BY <2>2 DEF Unregister, Go, serverVars, Executed
    <3>2. pc'[c] = "failed" /\ \A d \in Calls \ {c} : pc'[d] = pc[d]
      BY <3>1 DEF CallType
    <3> QED BY <3>1, <3>2 DEF CallType, EntryInv, NoStaleEntry
  <2> QED BY <1>2, <2>1, <2>2
<1>3. ASSUME NEW c \in Calls, Send(c) \/ RecvClosed(c) \/ Timeout(c) PROVE EntryInv'
  <2>1. \/ pc[c] = "send" /\ Moves(c, "wait")
        \/ pc[c] = "wait" /\ Moves(c, "unregister")
    BY <1>3 DEF Send, RecvClosed, Timeout, Go, Moves, serverVars, Executed
  <2> QED BY <2>1 DEF CallType, EntryInv, NoStaleEntry, Moves
<1>4. ASSUME NEW c \in Calls, Recv(c) PROVE EntryInv'
  <2>1. /\ reply[c] \in {"ok", "error"} /\ pc[c] = "wait"
        /\ \E to \in {"remove", "insert", "done", "refused"} : Moves(c, to)
    BY <1>4, ReplyPlaces DEF Recv, Go, Moves, serverVars, Executed
  <2> QED BY <2>1 DEF CallType, EntryInv, NoStaleEntry, Moves
<1>5. ASSUME NEW c \in Calls, Insert(c) \/ RemoveSub(c) PROVE EntryInv'
  <2>1. pc[c] \in {"insert", "remove"} /\ (Moves(c, "done") \/ Moves(c, "refused"))
    BY <1>5 DEF Insert, RemoveSub, Go, Moves, serverVars, Executed
  <2> QED BY <2>1 DEF CallType, EntryInv, NoStaleEntry, Moves
<1>6. ASSUME NEW c \in Calls, DropCall(c) PROVE EntryInv'
  <2>1. pc[c] # "idle" /\ Moves(c, "dropped")
    BY <1>6 DEF DropCall, Moves, serverVars, Executed
  <2> QED BY <2>1 DEF CallType, EntryInv, NoStaleEntry, Moves
<1>7. ASSUME UNCHANGED <<pc, pending, reply>>, Executed \subseteq Executed' PROVE EntryInv'
    BY <1>7 DEF EntryInv, NoStaleEntry
<1>8. ASSUME \/ \E c \in Calls : SubRecv(c) \/ SendNotification(c) \/ SendUndecodable(c)
             \/ \E c \in Calls, type \in {"ok", "error"} : Respond(c, type)
             \/ LinkActs \/ EndActs \/ Notify \/ SkipNotification \/ ClearSubs
             \/ UNCHANGED vars
      PROVE EntryInv'
  <2>1. UNCHANGED <<pc, pending, reply, executed>>
    BY <1>8, LinkFrame, UndecodableFrame
       DEF SubRecv, SendNotification, Respond, Notify, ClearSubs, vars, callVars, serverVars
  <2> QED BY <1>7, <2>1 DEF Executed
<1>11. ASSUME Execute PROVE EntryInv'
    BY <1>7, <1>11, Counted DEF Execute, callVars
<1>9. ASSUME Dispatch PROVE EntryInv'
  <2>1. pc' = pc /\ Executed' = Executed
    BY <1>9 DEF Dispatch, callVars, serverVars, Executed
  <2>2. Head(down).id \in Executed
    <3>1. Head(down) = down[1] /\ 1 \in 1 .. Len(down)
      BY <1>9, TakeFirst, SMT DEF Dispatch, Reads, NoteType
    <3> QED BY <1>9, <3>1, ReadResponse DEF Dispatch, ResponseInv, LinkType
  <2>3. PICK c \in Calls, t \in {"ok", "error"} :
            /\ c \in Executed
            /\ \/ UNCHANGED <<pending, reply>>
               \/ /\ c \in pending /\ pending' = pending \ {c}
                  /\ reply' = [reply EXCEPT ![c] = t]
    BY <1>9, <2>2, ReadResponse DEF Dispatch
  <2> QED BY <2>1, <2>3 DEF CallType, EntryInv, NoStaleEntry
<1>10. ASSUME ClearChans PROVE EntryInv'
  <2>1. Executed' = Executed
    BY <1>10 DEF ClearChans, serverVars, Executed
  <2> QED BY <1>10, <2>1 DEF CallType, EntryInv, NoStaleEntry, ClearChans, callVars
<1> QED BY <1>1, <1>2, <1>3, <1>4, <1>5, <1>6, <1>8, <1>9, <1>10, <1>11, Cases
    DEF CallActs, CallStep

\* A response is on its way only once the server has sent it.
LEMMA ResponseKept ==
    ASSUME LinkType, NoteType, ResponseInv, [Next]_vars PROVE ResponseInv'
<1>1. ASSUME down' = down \/ down' = <<>>, responded' = responded PROVE ResponseInv'
    BY <1>1, SMT DEF ResponseInv
<1>2. ASSUME NEW c \in Calls, CallActs(c) PROVE ResponseInv'
    BY <1>1, <1>2, CallFrame DEF serverVars
<1>3. ASSUME LinkActs \/ EndActs \/ ClearSubs \/ ClearChans \/ Execute \/ UNCHANGED vars
             \/ \E c \in Calls : SubRecv(c)
      PROVE ResponseInv'
    BY <1>1, <1>3, LinkFrame DEF ClearSubs, ClearChans, Execute, SubRecv, vars, serverVars
<1>4. ASSUME NEW c \in Calls, NEW type \in {"ok", "error"}, Respond(c, type) PROVE ResponseInv'
  <2> DEFINE m == [type |-> type, id |-> c]
  <2>1. m \in Message /\ m.id = c
    BY DEF Message
  <2>2. down' = Append(down, m) /\ responded' = responded \cup {c}
    BY <1>4 DEF Respond
  <2>3. /\ Len(down) \in Nat /\ Len(down') = Len(down) + 1
        /\ \A i \in 1 .. Len(down) : down'[i] = down[i]
        /\ down'[Len(down) + 1] = m
    BY <2>1, <2>2, AddLast, SMT DEF NoteType
  <2> HIDE DEF m
  <2> QED BY <2>1, <2>2, <2>3, SMT DEF ResponseInv
<1>5. ASSUME NEW c \in Calls, SendNotification(c) PROVE ResponseInv'
  <2> DEFINE m == [type |-> "notification", id |-> c, n |-> notified'[c]]
  <2>1. m \in Message /\ m.type = "notification"
    BY <1>5, Limits, SMT DEF Message, SendNotification, NoteType
  <2>2. down' = Append(down, m) /\ responded' = responded
    BY <1>5 DEF SendNotification
  <2>3. /\ Len(down) \in Nat /\ Len(down') = Len(down) + 1
        /\ \A i \in 1 .. Len(down) : down'[i] = down[i]
        /\ down'[Len(down) + 1] = m
    BY <2>1, <2>2, AddLast, SMT DEF NoteType
  <2> HIDE DEF m
  <2> QED BY <2>1, <2>2, <2>3, SMT DEF ResponseInv
<1>6. ASSUME Dispatch \/ Notify \/ SkipNotification PROVE ResponseInv'
  <2>1. down # <<>> /\ down' = Tail(down) /\ responded' = responded
    BY <1>6 DEF Dispatch, Notify, SkipNotification, Reads, serverVars
  <2>2. /\ Len(down) \in Nat /\ Len(down') = Len(down) - 1
        /\ \A i \in 1 .. Len(down') : down'[i] = down[i + 1]
    BY <2>1, TakeFirst DEF NoteType
  <2> QED BY <2>1, <2>2, SMT DEF ResponseInv
<1>7. ASSUME NEW c \in Calls, SendUndecodable(c) PROVE ResponseInv'
  <2> DEFINE m == [type |-> "undecodable"]
  <2>1. m \in Message /\ m.type = "undecodable"
    BY DEF Message
  <2>2. down' = Append(down, m) /\ responded' = responded
    BY <1>7 DEF SendUndecodable, serverVars
  <2>3. /\ Len(down) \in Nat /\ Len(down') = Len(down) + 1
        /\ \A i \in 1 .. Len(down) : down'[i] = down[i]
        /\ down'[Len(down) + 1] = m
    BY <2>1, <2>2, AddLast, SMT DEF NoteType
  <2> HIDE DEF m
  <2> QED BY <2>1, <2>2, <2>3, SMT DEF ResponseInv
<1> QED BY <1>2, <1>3, <1>4, <1>5, <1>6, <1>7, Cases

----------------------------------------------------------------------------
(* A request is in one place                                                *)

\* Appending c to a queue adds c, at a place of its own.
LEMMA Pushed ==
    ASSUME NEW q \in Seq(Calls), NEW c \in Calls
    PROVE  /\ \A d \in Calls : In(Append(q, c), d) <=> In(q, d) \/ d = c
           /\ Distinct(q) /\ ~In(q, c) => Distinct(Append(q, c))
<1> DEFINE p == Append(q, c)
<1>1. /\ Len(q) \in Nat /\ Len(p) = Len(q) + 1
      /\ \A i \in 1 .. Len(q) : p[i] = q[i]
      /\ p[Len(q) + 1] = c
    BY AddLast, SMT
<1> HIDE DEF p
<1>2. ASSUME NEW d \in Calls PROVE In(p, d) <=> In(q, d) \/ d = c
    BY <1>1, SMT DEF In
<1>3. ASSUME ~In(q, c), Distinct(q),
             NEW i \in 1 .. Len(p), NEW j \in 1 .. Len(p), p[i] = p[j]
      PROVE  i = j
    BY <1>1, <1>3, SMT DEF In, Distinct
<1> QED BY <1>2, <1>3 DEF Distinct, p

\* Taking the first out of a queue leaves no other copy of it.
LEMMA Taken ==
    ASSUME NEW q \in Seq(Calls), q # <<>>, Distinct(q)
    PROVE  /\ Head(q) \in Calls /\ In(q, Head(q)) /\ ~In(Tail(q), Head(q))
           /\ \A d \in Calls : In(Tail(q), d) => In(q, d)
           /\ Distinct(Tail(q)) /\ Tail(q) \in Seq(Calls) /\ Len(Tail(q)) <= Len(q)
<1> DEFINE p == Tail(q)
           h == Head(q)
<1>1. /\ Len(q) \in Nat /\ Len(q) > 0 /\ Len(p) = Len(q) - 1 /\ p \in Seq(Calls)
      /\ h = q[1] /\ h \in Calls
      /\ \A i \in 1 .. Len(p) : p[i] = q[i + 1]
    BY TakeFirst
<1> HIDE DEF p, h
<1>2. 1 \in 1 .. Len(q) /\ \A i \in 1 .. Len(p) : i + 1 \in 1 .. Len(q) /\ i + 1 # 1
    BY <1>1, SMT
<1>3. In(q, h) /\ ~In(p, h)
    BY <1>1, <1>2 DEF In, Distinct
<1>4. ASSUME NEW d \in Calls, In(p, d) PROVE In(q, d)
    BY <1>1, <1>2, <1>4 DEF In
<1>5. ASSUME NEW i \in 1 .. Len(p), NEW j \in 1 .. Len(p), p[i] = p[j] PROVE i + 1 = j + 1
    BY <1>1, <1>2, <1>5 DEF Distinct
<1>6. Distinct(p)
    BY <1>5, SMT DEF Distinct
<1> QED BY <1>1, <1>3, <1>4, <1>6, SMT DEF p, h

\* The types of the queues, and that a request is in one place, are kept by
\* send_chan, by run_io_loop, which takes a request out before it writes it,
\* and by a connection that loses what it loses for good.
LEMMA OnceKept ==
    ASSUME CallType, LinkType, OnceInv, [Next]_vars
    PROVE  LinkType' /\ OnceInv'
<1> USE Limits
<1>1. ASSUME UNCHANGED <<sendq, up, executed>>, writing' = writing \/ writing' = None,
             \A c \in Calls : Sent(c) => Sent(c)',
             responded' \subseteq Executed
      PROVE  LinkType' /\ OnceInv'
  <2>0. Executed' = Executed
    BY <1>1 DEF Executed
  <2>1. LinkType'
    BY <1>1, <2>0 DEF LinkType
  <2>2. \A c \in Calls : writing' = c => writing = c
    BY <1>1, RpcClientAssumption
  <2> QED BY <1>1, <2>0, <2>1, <2>2 DEF OnceInv
<1>2. ASSUME NEW c \in Calls, CallActs(c), ~Send(c) PROVE LinkType' /\ OnceInv'
  <2>1. UNCHANGED <<sendq, up, executed, writing, responded>>
    BY <1>2, CallFrame DEF CallActs, CallStep, Begin, Register, Recv, RecvClosed, Timeout,
       Unregister, Insert, RemoveSub, DropCall, ioVars, serverVars
  <2>2. \A d \in Calls : Sent(d) => Sent(d)'
    <3>1. ASSUME NEW k \in {"call", "sub"} \cup Calls, Begin(c, k)
          PROVE \A d \in Calls : Sent(d) => Sent(d)'
      BY <3>1 DEF Begin, Go, Sent, CallType
    <3>2. ASSUME Register(c) PROVE \A d \in Calls : Sent(d) => Sent(d)'
      BY <3>2 DEF Register, Go, Sent, CallType
    <3>3. ASSUME RecvClosed(c) \/ Timeout(c) \/ Unregister(c) \/ Insert(c) \/ DropCall(c)
          PROVE \A d \in Calls : Sent(d) => Sent(d)'
      BY <3>3 DEF RecvClosed, Timeout, Unregister, Insert, DropCall, Go, Sent, CallType
    <3>4. ASSUME Recv(c) PROVE \A d \in Calls : Sent(d) => Sent(d)'
      BY <3>4, ReplyPlaces DEF Recv, Go, Sent, CallType
    <3>5. ASSUME RemoveSub(c) PROVE \A d \in Calls : Sent(d) => Sent(d)'
      BY <3>5 DEF RemoveSub, Go, Sent, CallType
    <3> QED BY <1>2, <3>1, <3>2, <3>3, <3>4, <3>5 DEF CallActs, CallStep
  <2> QED BY <1>1, <2>1, <2>2 DEF LinkType
<1>3. ASSUME NEW c \in Calls, Send(c) PROVE LinkType' /\ OnceInv'
  <2>1. /\ pc[c] = "send" /\ pc' = [pc EXCEPT ![c] = "wait"]
        /\ Len(sendq) < OutCap /\ sendq' = Append(sendq, c)
        /\ UNCHANGED <<up, executed, writing, responded>> /\ Executed' = Executed
    BY <1>3 DEF Send, Go, ioVars, serverVars, Executed
  <2>2. LinkType'
    BY <2>1, AddLast, SMT DEF LinkType
  <2>3. ~In(sendq, c) /\ writing # c /\ ~In(up, c) /\ c \notin Executed
    BY <2>1 DEF OnceInv, Sent
  <2>4. Distinct(sendq') /\ \A d \in Calls : In(sendq', d) <=> In(sendq, d) \/ d = c
    BY <2>1, <2>3, Pushed DEF LinkType, OnceInv
  <2>5. Sent(c)' /\ \A d \in Calls : Sent(d) => Sent(d)'
    BY <2>1 DEF Sent, CallType
  <2> QED BY <2>1, <2>2, <2>3, <2>4, <2>5 DEF OnceInv
<1>4. ASSUME TakeOutbound PROVE LinkType' /\ OnceInv'
  <2>1. /\ writing = None /\ sendq # <<>> /\ writing' = Head(sendq) /\ sendq' = Tail(sendq)
        /\ UNCHANGED <<pc, up, executed, responded>> /\ Executed' = Executed
    BY <1>4 DEF TakeOutbound, callVars, serverVars, Executed
  <2>2. PICK h \in Calls : h = Head(sendq) /\ In(sendq, h) /\ ~In(Tail(sendq), h)
    BY <2>1, Taken DEF LinkType, OnceInv
  <2>3. /\ \A d \in Calls : In(sendq', d) => In(sendq, d)
        /\ Distinct(sendq') /\ sendq' \in Seq(Calls) /\ Len(sendq') <= Len(sendq)
    BY <2>1, Taken DEF LinkType, OnceInv
  <2>4. LinkType'
    <3>1. Len(sendq) \in Nat /\ Len(sendq') \in Nat
      BY <2>3, SMT DEF LinkType
    <3>2. Len(sendq') <= OutCap
      BY <2>3, <3>1, SMT DEF LinkType
    <3> QED BY <2>1, <2>2, <2>3, <3>2 DEF LinkType
  <2>5. \A d \in Calls : Sent(d)' <=> Sent(d)
    BY <2>1 DEF Sent
  <2> QED BY <2>1, <2>2, <2>3, <2>4, <2>5 DEF OnceInv
<1>5. ASSUME Written PROVE LinkType' /\ OnceInv'
  <2>1. /\ writing # None /\ up' = Append(up, writing) /\ writing' = None
        /\ UNCHANGED <<pc, sendq, executed, responded>> /\ Executed' = Executed
    BY <1>5 DEF Written, callVars, serverVars, Executed
  <2>2. PICK c \in Calls : c = writing
    BY <2>1 DEF LinkType
  <2>3. Sent(c) /\ ~In(sendq, c) /\ ~In(up, c) /\ c \notin Executed
    BY <2>2 DEF OnceInv
  <2>4. Distinct(up') /\ up' \in Seq(Calls) /\ \A d \in Calls : In(up', d) <=> In(up, d) \/ d = c
    BY <2>1, <2>2, <2>3, Pushed, AddLast DEF LinkType, OnceInv
  <2>5. LinkType' /\ (\A d \in Calls : writing' # d) /\ \A d \in Calls : Sent(d)' <=> Sent(d)
    BY <2>1, <2>4, RpcClientAssumption DEF LinkType, Sent
  <2> QED BY <2>1, <2>3, <2>4, <2>5 DEF OnceInv
<1>6. ASSUME Execute PROVE LinkType' /\ OnceInv'
  <2>1. /\ up # <<>> /\ Executed' = Executed \cup {Head(up)} /\ up' = Tail(up)
        /\ executed' \in [Calls -> Nat] /\ UNCHANGED <<pc, sendq, writing, responded>>
    BY <1>6, Counted DEF Execute, callVars, ioVars
  <2>2. PICK h \in Calls : h = Head(up) /\ In(up, h) /\ ~In(Tail(up), h)
    BY <2>1, Taken DEF LinkType, OnceInv
  <2>3. /\ \A d \in Calls : In(up', d) => In(up, d)
        /\ Distinct(up') /\ up' \in Seq(Calls)
    BY <2>1, Taken DEF LinkType, OnceInv
  <2>4. Executed' = Executed \cup {h} /\ ~In(up', h)
    BY <2>1, <2>2
  <2>5. LinkType' /\ \A d \in Calls : Sent(d)' <=> Sent(d)
    BY <2>1, <2>3, <2>4 DEF LinkType, Sent
  <2>6. Sent(h) /\ ~In(sendq, h) /\ writing # h
    BY <2>2 DEF OnceInv
  <2> QED BY <2>1, <2>2, <2>3, <2>4, <2>5, <2>6 DEF OnceInv
<1>7. ASSUME \/ \E c \in Calls : SubRecv(c) \/ SendNotification(c) \/ SendUndecodable(c)
             \/ Connect \/ ConnectFails \/ SetDisconnect \/ EndActs \/ Dispatch \/ Notify
             \/ SkipNotification \/ ClearSubs \/ ClearChans \/ UNCHANGED vars
      PROVE  LinkType' /\ OnceInv'
  <2>1. UNCHANGED <<sendq, up, executed, pc, responded>> /\ (writing' = writing \/ writing' = None)
    BY <1>7, LinkFrame, UndecodableFrame DEF SubRecv, SendNotification, Connect, ConnectFails, SetDisconnect,
       Dispatch, Notify, ClearSubs, ClearChans, vars, callVars, ioVars, serverVars
  <2>2. \A c \in Calls : Sent(c) => Sent(c)'
    BY <2>1 DEF Sent
  <2> QED BY <1>1, <2>1, <2>2 DEF LinkType
<1>8. ASSUME NEW c \in Calls, NEW type \in {"ok", "error"}, Respond(c, type)
      PROVE  LinkType' /\ OnceInv'
  <2>1. UNCHANGED <<sendq, up, executed, pc, writing>> /\ responded' \subseteq Executed
    BY <1>8 DEF Respond, callVars, ioVars, LinkType, Executed
  <2>2. \A d \in Calls : Sent(d) => Sent(d)'
    BY <2>1 DEF Sent
  <2> QED BY <1>1, <2>1, <2>2
<1> QED BY <1>2, <1>3, <1>4, <1>5, <1>6, <1>7, <1>8, Cases DEF LinkActs

----------------------------------------------------------------------------
(* Notifications                                                            *)

\* A notification that is read is of a subscription and has a number.
LEMMA ReadNote ==
    ASSUME NoteType, Reads({"notification"})
    PROVE  /\ Head(down) = down[1] /\ 1 \in 1 .. Len(down)
           /\ Head(down).type = "notification"
           /\ Head(down).id \in Calls /\ Head(down).n \in 1 .. MaxNotify
<1>1. Head(down) \in Message /\ Head(down) = down[1] /\ 1 \in 1 .. Len(down)
    BY TakeFirst, SMT DEF NoteType, Reads
<1>2. Head(down).type = "notification"
    BY DEF Reads
<1> QED BY <1>1, <1>2 DEF Message

\* The message of a response or of the next notification is one.
LEMMA IsMessage ==
    ASSUME NoteType, NEW c \in Calls
    PROVE  /\ \A t \in {"ok", "error"} : [type |-> t, id |-> c] \in Message
           /\ [type |-> "undecodable"] \in Message
           /\ notified[c] < MaxNotify =>
                [type |-> "notification", id |-> c, n |-> notified[c] + 1] \in Message
<1>1. notified[c] \in Nat
    BY Limits, SMT DEF NoteType
<1>2. notified[c] < MaxNotify => notified[c] + 1 \in 1 .. MaxNotify
    BY <1>1, Limits, SMT
<1> QED BY <1>2 DEF Message

\* The next notification is numbered one more than the last.
LEMMA NextNote ==
    ASSUME NoteType, NEW c \in Calls, SendNotification(c)
    PROVE  /\ notified' = [notified EXCEPT ![c] = @ + 1]
           /\ notified[c] < MaxNotify /\ notified[c] \in Nat
           /\ down' = Append(down, [type |-> "notification", id |-> c, n |-> notified[c] + 1])
<1>1. notified' = [notified EXCEPT ![c] = @ + 1] /\ notified[c] < MaxNotify
    BY DEF SendNotification
<1>2. notified'[c] = notified[c] + 1 /\ notified[c] \in Nat
    BY <1>1, Limits, SMT DEF NoteType
<1>3. down' = Append(down, [type |-> "notification", id |-> c, n |-> notified'[c]])
    BY DEF SendNotification
<1> QED BY <1>1, <1>2, <1>3

\* What the server sends beside notifications that decode changes nothing else
\* for the subscriptions.
LEMMA OtherSent ==
    ASSUME NoteType, NEW c \in Calls,
           SendUndecodable(c) \/ \E type \in {"ok", "error"} : Respond(c, type)
    PROVE  /\ UNCHANGED <<buf, last, notified, subs, io>>
           /\ \E x \in Message : x.type # "notification" /\ down' = Append(down, x)
<1>1. CASE SendUndecodable(c)
  <2>1. down' = Append(down, [type |-> "undecodable"])
    BY <1>1 DEF SendUndecodable
  <2> QED BY <1>1, <2>1, UndecodableFrame, IsMessage
<1>2. ASSUME NEW type \in {"ok", "error"}, Respond(c, type)
      PROVE  /\ UNCHANGED <<buf, last, notified, subs, io>>
             /\ \E x \in Message : x.type # "notification" /\ down' = Append(down, x)
  <2>1. down' = Append(down, [type |-> type, id |-> c])
    BY <1>2 DEF Respond
  <2>2. UNCHANGED <<buf, last, notified, subs, io>>
    BY <1>2 DEF Respond, subVars, ioVars
  <2> QED BY <2>1, <2>2, IsMessage
<1> QED BY <1>1, <1>2

\* So does what the background task reads beside them.
LEMMA OtherRead ==
    ASSUME NoteType, Dispatch \/ SkipNotification
    PROVE  /\ UNCHANGED <<buf, last, notified, subs, io>>
           /\ down # <<>> /\ down' = Tail(down)
           /\ \A s \in Calls : ~IsNote(1, s)
<1>1. UNCHANGED <<buf, last, notified, subs, io>>
    BY UndecodableFrame DEF Dispatch, serverVars, subVars, ioVars
<1>2. down # <<>> /\ down' = Tail(down) /\ Head(down).type # "notification"
    BY DEF Dispatch, SkipNotification, Reads
<1>3. Head(down) = down[1]
    BY <1>2, TakeFirst DEF NoteType
<1> QED BY <1>1, <1>2, <1>3 DEF IsNote

\* Messages, numbers and buffers keep their types, and notify exceeds no
\* buffer.
LEMMA NoteTypeKept ==
    ASSUME CallType, NoteType, [Next]_vars PROVE NoteType'
<1> USE Limits
<1>1. ASSUME down' = down \/ down' = <<>>, UNCHANGED <<notified, buf, last>> PROVE NoteType'
  <2>1. down' \in Seq(Message)
    <3>1. <<>> \in Seq(Message)
      BY SMT
    <3>2. down \in Seq(Message)
      BY DEF NoteType
    <3>3. CASE down' = down
      BY <3>2, <3>3
    <3> QED BY <1>1, <3>1, <3>3
  <2> QED BY <1>1, <2>1 DEF NoteType
<1>2. ASSUME \/ \E c \in Calls : CallActs(c)
             \/ LinkActs \/ EndActs \/ ClearSubs \/ ClearChans \/ Execute \/ UNCHANGED vars
      PROVE NoteType'
    BY <1>1, <1>2, CallFrame, LinkFrame DEF ClearSubs, ClearChans, Execute, vars, serverVars, subVars
<1>3. ASSUME NEW c \in Calls,
             SendUndecodable(c) \/ \E type \in {"ok", "error"} : Respond(c, type)
      PROVE NoteType'
  <2>1. PICK x \in Message : down' = Append(down, x)
    BY <1>3, OtherSent
  <2>2. down' \in Seq(Message)
    BY <2>1, AddLast DEF NoteType
  <2> QED BY <1>3, <2>2, OtherSent DEF NoteType
<1>4. ASSUME NEW c \in Calls, SendNotification(c) PROVE NoteType'
  <2>1. UNCHANGED <<buf, last>>
    BY <1>4 DEF SendNotification, subVars
  <2>2. down' \in Seq(Message)
    <3> DEFINE x == [type |-> "notification", id |-> c, n |-> notified[c] + 1]
    <3>1. x \in Message /\ down' = Append(down, x) /\ down \in Seq(Message)
      BY <1>4, NextNote, IsMessage DEF NoteType
    <3> HIDE DEF x
    <3> QED BY <3>1, SMT
  <2>3. notified' \in [Calls -> 0 .. MaxNotify]
    <3>1. /\ notified' = [notified EXCEPT ![c] = @ + 1]
          /\ notified[c] < MaxNotify /\ notified[c] \in Nat
      BY <1>4, NextNote
    <3>2. notified[c] + 1 \in 0 .. MaxNotify
      BY <3>1, SMT
    <3> QED BY <3>1, <3>2 DEF NoteType
  <2> QED BY <2>1, <2>2, <2>3 DEF NoteType
<1>5. ASSUME Dispatch \/ SkipNotification PROVE NoteType'
  <2>1. UNCHANGED <<notified, buf, last>> /\ down # <<>> /\ down' = Tail(down)
    BY <1>5, OtherRead
  <2> QED BY <2>1, TakeFirst DEF NoteType
<1>6. ASSUME Notify PROVE NoteType'
  <2>1. UNCHANGED <<notified, last>> /\ down # <<>> /\ down' = Tail(down)
    BY <1>6 DEF Notify, Reads, serverVars
  <2>2. down' \in Seq(Message)
    BY <2>1, TakeFirst DEF NoteType
  <2>3. PICK s \in Calls, n \in 1 .. MaxNotify :
            /\ s \in subs => Len(buf[s]) < SubCap
            /\ buf' = IF s \in subs THEN [buf EXCEPT ![s] = Append(@, n)] ELSE buf
    BY <1>6, ReadNote DEF Notify
  <2>4. CASE s \in subs
    <3>1. /\ Append(buf[s], n) \in Seq(1 .. MaxNotify)
          /\ Len(Append(buf[s], n)) = Len(buf[s]) + 1 /\ Len(buf[s]) \in Nat
      BY AddLast, SMT DEF NoteType
    <3>2. Len(Append(buf[s], n)) <= SubCap
      BY <2>3, <2>4, <3>1, SMT
    <3>3. buf' = [buf EXCEPT ![s] = Append(buf[s], n)]
      BY <2>3, <2>4 DEF NoteType
    <3> QED BY <2>1, <2>2, <3>1, <3>2, <3>3 DEF NoteType
  <2>5. CASE s \notin subs
    BY <2>1, <2>2, <2>3, <2>5 DEF NoteType
  <2> QED BY <2>4, <2>5
<1>7. ASSUME NEW s \in Calls, SubRecv(s) PROVE NoteType'
  <2>1. /\ UNCHANGED <<notified, down>> /\ buf[s] # <<>>
        /\ last' = [last EXCEPT ![s] = Head(buf[s])]
        /\ buf' = [buf EXCEPT ![s] = Tail(buf[s])]
    BY <1>7 DEF SubRecv, serverVars, NoteType
  <2>2. /\ Head(buf[s]) \in 1 .. MaxNotify /\ Tail(buf[s]) \in Seq(1 .. MaxNotify)
        /\ Len(Tail(buf[s])) = Len(buf[s]) - 1 /\ Len(buf[s]) \in Nat
    BY <2>1, TakeFirst DEF NoteType
  <2>3. Len(Tail(buf[s])) <= SubCap
    BY <2>2, SMT DEF NoteType
  <2> QED BY <2>1, <2>2, <2>3, SMT DEF NoteType
<1> QED BY <1>2, <1>3, <1>4, <1>5, <1>6, <1>7, Cases

\* Once the first message is read the others come one place earlier.
LEMMA Shifted ==
    ASSUME NoteType, down # <<>>, down' = Tail(down)
    PROVE  /\ Len(down) \in Nat /\ Len(down') = Len(down) - 1
           /\ \A i \in 1 .. Len(down') : i + 1 \in 1 .. Len(down) /\ down'[i] = down[i + 1]
           /\ \A s \in Calls, i \in Nat, m \in Nat : ComesAfter(s, i + 1, m) => ComesAfter(s, i, m)'
<1>1. /\ Len(down) \in Nat /\ Len(down) > 0 /\ Len(down') = Len(down) - 1
      /\ \A i \in 1 .. Len(down') : down'[i] = down[i + 1]
    BY TakeFirst DEF NoteType
<1>2. \A i \in 1 .. Len(down') : i + 1 \in 1 .. Len(down)
    BY <1>1, SMT
<1>3. ASSUME NEW s \in Calls, NEW i \in Nat, NEW m \in Nat, ComesAfter(s, i + 1, m)
      PROVE  ComesAfter(s, i, m)'
  <2>1. PICK j \in i + 2 .. Len(down) : IsNote(j, s) /\ down[j].n = m
    BY <1>3, SMT DEF ComesAfter
  <2>2. j - 1 \in i + 1 .. Len(down') /\ j - 1 \in 1 .. Len(down') /\ (j - 1) + 1 = j
    BY <1>1, <2>1, SMT
  <2>3. down'[j - 1] = down[j]
    BY <1>1, <2>2
  <2> QED BY <2>1, <2>2, <2>3 DEF ComesAfter, IsNote
<1> QED BY <1>1, <1>2, <1>3

\* The numbers of a notification on its way.
LEMMA NoteNumber ==
    ASSUME NoteType, NEW i \in 1 .. Len(down), NEW s \in Calls, IsNote(i, s)
    PROVE  down[i].n \in Nat /\ down[i].n > 0
<1>1. down[i] \in Message
    BY SMT DEF NoteType
<1> QED BY <1>1, Limits, SMT DEF Message, IsNote

\* The server numbers its notifications and the connection keeps their order.
LEMMA WireKept ==
    ASSUME NoteType, WireInv, [Next]_vars PROVE WireInv'
<1>1. ASSUME down' = down \/ down' = <<>>, notified' = notified PROVE WireInv'
    BY <1>1, SMT DEF WireInv, IsNote, ComesAfter
<1>2. ASSUME \/ \E c \in Calls : CallActs(c) \/ SubRecv(c)
             \/ LinkActs \/ EndActs \/ ClearSubs \/ ClearChans \/ Execute \/ UNCHANGED vars
      PROVE WireInv'
    BY <1>1, <1>2, CallFrame, LinkFrame DEF SubRecv, ClearSubs, ClearChans, Execute, vars, serverVars
<1>3. ASSUME Dispatch \/ SkipNotification \/ Notify PROVE WireInv'
  <2>1. notified' = notified /\ down # <<>> /\ down' = Tail(down)
    BY <1>3, OtherRead DEF Notify, Reads, serverVars
  <2>2. ASSUME NEW s \in Calls, NEW i \in 1 .. Len(down'), IsNote(i, s)'
        PROVE  /\ down'[i].n <= notified[s]
               /\ \A j \in i + 1 .. Len(down') : IsNote(j, s)' => down'[i].n < down'[j].n
               /\ \A m \in down'[i].n + 1 .. notified[s] : ComesAfter(s, i, m)'
    <3>1. /\ i + 1 \in 1 .. Len(down) /\ down'[i] = down[i + 1] /\ IsNote(i + 1, s)
          /\ Len(down') = Len(down) - 1 /\ Len(down) \in Nat
      BY <2>1, <2>2, Shifted DEF IsNote
    <3>2. down'[i].n \in Nat
      BY <3>1, NoteNumber
    <3>3. \A j \in i + 1 .. Len(down') : /\ j + 1 \in i + 2 .. Len(down)
                                         /\ down'[j] = down[j + 1]
      BY <2>1, <3>1, Shifted, SMT
    <3>4. \A j \in i + 1 .. Len(down') : IsNote(j, s)' => down'[i].n < down'[j].n
      <4>1. (i + 1) + 1 = i + 2
        BY SMT
      <4>2. \A k \in i + 2 .. Len(down) : IsNote(k, s) => down[i + 1].n < down[k].n
        BY <3>1, <4>1 DEF WireInv
      <4> QED BY <3>1, <3>3, <4>2 DEF IsNote
    <3>5. ASSUME NEW m \in down'[i].n + 1 .. notified[s] PROVE ComesAfter(s, i, m)'
      <4>1. ComesAfter(s, i + 1, m) /\ m \in Nat /\ i \in Nat
        BY <3>1, <3>2, SMT DEF WireInv
      <4> QED BY <2>1, <4>1, Shifted
    <3> QED BY <3>1, <3>4, <3>5 DEF WireInv
  <2> QED BY <2>1, <2>2 DEF WireInv
<1>4. ASSUME NEW c \in Calls,
             SendUndecodable(c) \/ \E type \in {"ok", "error"} : Respond(c, type)
      PROVE WireInv'
  <2>1. PICK x \in Message :
            notified' = notified /\ down' = Append(down, x) /\ x.type # "notification"
    BY <1>4, OtherSent
  <2>2. /\ Len(down) \in Nat /\ Len(down') = Len(down) + 1
        /\ \A i \in 1 .. Len(down) : down'[i] = down[i]
        /\ down'[Len(down) + 1] = x
    BY <2>1, AddLast, SMT DEF NoteType
  <2>3. \A s \in Calls, i \in 1 .. Len(down') : IsNote(i, s)' => i \in 1 .. Len(down) /\ IsNote(i, s)
    BY <2>1, <2>2, SMT DEF IsNote
  <2>4. \A s \in Calls, i \in Nat, m \in Nat : ComesAfter(s, i, m) => ComesAfter(s, i, m)'
    BY <2>2, SMT DEF ComesAfter, IsNote
  <2>5. ASSUME NEW s \in Calls, NEW i \in 1 .. Len(down'), IsNote(i, s)'
        PROVE  /\ down'[i].n <= notified[s]
               /\ \A j \in i + 1 .. Len(down') : IsNote(j, s)' => down'[i].n < down'[j].n
               /\ \A m \in down'[i].n + 1 .. notified[s] : ComesAfter(s, i, m)'
    <3>1. i \in 1 .. Len(down) /\ IsNote(i, s) /\ down'[i] = down[i]
      BY <2>2, <2>3, <2>5
    <3>2. down[i].n \in Nat
      BY <3>1, NoteNumber
    <3>3. ASSUME NEW j \in i + 1 .. Len(down'), IsNote(j, s)' PROVE down'[i].n < down'[j].n
      <4>1. j \in 1 .. Len(down')
        BY <2>2, SMT
      <4>2. j \in i + 1 .. Len(down) /\ IsNote(j, s) /\ down'[j] = down[j]
        BY <2>2, <2>3, <3>3, <4>1, SMT
      <4> QED BY <3>1, <4>2 DEF WireInv
    <3>4. ASSUME NEW m \in down'[i].n + 1 .. notified[s] PROVE ComesAfter(s, i, m)'
      <4>1. ComesAfter(s, i, m) /\ m \in Nat /\ i \in Nat
        BY <3>1, <3>2, SMT DEF WireInv
      <4> QED BY <2>4, <4>1
    <3> QED BY <3>1, <3>3, <3>4 DEF WireInv
  <2> QED BY <2>1, <2>5 DEF WireInv
<1>5. ASSUME NEW c \in Calls, SendNotification(c) PROVE WireInv'
  <2> DEFINE x == [type |-> "notification", id |-> c, n |-> notified[c] + 1]
  <2>1. /\ notified' = [notified EXCEPT ![c] = @ + 1]
        /\ down' = Append(down, x) /\ x \in Message
        /\ x.type = "notification" /\ x.id = c /\ x.n = notified[c] + 1
    BY <1>5, NextNote, IsMessage
  <2> HIDE DEF x
  <2>2. /\ Len(down) \in Nat /\ Len(down') = Len(down) + 1
        /\ \A i \in 1 .. Len(down) : down'[i] = down[i]
        /\ down'[Len(down) + 1] = x
    BY <2>1, AddLast, SMT DEF NoteType
  <2>3. \A s \in Calls, i \in Nat, m \in Nat : ComesAfter(s, i, m) => ComesAfter(s, i, m)'
    BY <2>2, SMT DEF ComesAfter, IsNote
  <2>4. \A i \in 0 .. Len(down), m \in Nat : m = notified[c] + 1 => ComesAfter(c, i, m)'
    <3>1. \A i \in 0 .. Len(down) : Len(down) + 1 \in i + 1 .. Len(down')
      BY <2>2, SMT
    <3> QED BY <2>1, <2>2, <3>1 DEF ComesAfter, IsNote
  <2>5. \A s \in Calls : notified[s] \in Nat /\ notified'[s] = IF s = c THEN notified[s] + 1 ELSE notified[s]
    BY <2>1, Limits, SMT DEF NoteType
  <2>6. ASSUME NEW s \in Calls, NEW i \in 1 .. Len(down'), IsNote(i, s)'
        PROVE  /\ down'[i].n <= notified'[s]
               /\ \A j \in i + 1 .. Len(down') : IsNote(j, s)' => down'[i].n < down'[j].n
               /\ \A m \in down'[i].n + 1 .. notified'[s] : ComesAfter(s, i, m)'
    <3>1. CASE i = Len(down) + 1
      <4>1. down'[i] = x /\ s = c /\ i + 1 > Len(down') /\ Len(down') \in Nat
        BY <2>1, <2>2, <2>6, <3>1, SMT DEF IsNote
      <4>2. down'[i].n = notified'[s] /\ notified'[s] \in Nat
        BY <2>1, <2>5, <4>1, SMT
      <4> QED BY <4>1, <4>2, SMT
    <3>2. CASE i # Len(down) + 1
      <4>1. i \in 1 .. Len(down) /\ down'[i] = down[i] /\ IsNote(i, s)
        BY <2>2, <2>6, <3>2, SMT DEF IsNote
      <4>2. down[i].n \in Nat /\ down[i].n <= notified[s]
        BY <4>1, NoteNumber DEF WireInv
      <4>3. ASSUME NEW j \in i + 1 .. Len(down'), IsNote(j, s)' PROVE down'[i].n < down'[j].n
        <5>1. CASE j = Len(down) + 1
          <6>1. down'[j] = x /\ s = c
            BY <2>1, <2>2, <4>3, <5>1 DEF IsNote
          <6> QED BY <2>1, <2>5, <4>1, <4>2, <6>1, SMT
        <5>2. CASE j # Len(down) + 1
          <6>1. j \in i + 1 .. Len(down) /\ j \in 1 .. Len(down)
            BY <2>2, <4>1, <5>2, SMT
          <6>2. down'[j] = down[j] /\ IsNote(j, s)
            BY <2>2, <4>3, <6>1 DEF IsNote
          <6> QED BY <4>1, <6>1, <6>2 DEF WireInv
        <5> QED BY <5>1, <5>2
      <4>4. ASSUME NEW m \in down'[i].n + 1 .. notified'[s] PROVE ComesAfter(s, i, m)'
        <5>1. m \in Nat /\ i \in Nat
          BY <4>1, <4>2, SMT
        <5>2. CASE m <= notified[s]
          <6>1. m \in down[i].n + 1 .. notified[s]
            BY <2>5, <4>1, <4>2, <5>1, <5>2, SMT
          <6>2. ComesAfter(s, i, m)
            BY <4>1, <6>1 DEF WireInv
          <6> QED BY <2>3, <5>1, <6>2
        <5>3. CASE ~(m <= notified[s])
          <6>1. s = c /\ m = notified[c] + 1 /\ i \in 0 .. Len(down)
            BY <2>2, <2>5, <4>1, <5>1, <5>3, SMT
          <6> QED BY <2>4, <5>1, <6>1
        <5> QED BY <5>2, <5>3
      <4> QED BY <2>5, <4>1, <4>2, <4>3, <4>4, SMT
    <3> QED BY <3>1, <3>2
  <2> QED BY <2>6 DEF WireInv
<1> QED BY <1>2, <1>3, <1>4, <1>5, Cases

----------------------------------------------------------------------------
(* Subscriptions                                                            *)

\* What the steps of a call do to calls that are over and to subscriptions.
LEMMA CallEffect ==
    ASSUME CallType, NEW c \in Calls, CallActs(c)
    PROVE  /\ \A s \in Calls : pc[s] = "done" => pc'[s] = "done"
           /\ \A s \in subs' : s \in subs \/ (pc[s] = "insert" /\ pc'[s] = "done")
           /\ io = "connect" => pc[c] # "idle"
<1>1. ASSUME NEW k \in {"call", "sub"} \cup Calls, Begin(c, k)
      PROVE  /\ \A s \in Calls : pc[s] = "done" => pc'[s] = "done"
             /\ subs' = subs /\ io # "connect"
    BY <1>1 DEF Begin, Go, CallType, subVars
<1>2. ASSUME Register(c) \/ Send(c) \/ RecvClosed(c) \/ Timeout(c) \/ Unregister(c)
      PROVE  /\ \A s \in Calls : pc[s] = "done" => pc'[s] = "done"
             /\ subs' = subs /\ pc[c] # "idle"
    BY <1>2 DEF Register, Send, RecvClosed, Timeout, Unregister, Go, CallType, subVars
<1>3. ASSUME Recv(c) \/ DropCall(c)
      PROVE  /\ \A s \in Calls : pc[s] = "done" => pc'[s] = "done"
             /\ subs' = subs /\ pc[c] # "idle"
    BY <1>3 DEF Recv, DropCall, Go, Over, CallType, subVars
<1>4. ASSUME Insert(c)
      PROVE  /\ \A s \in Calls : pc[s] = "done" => pc'[s] = "done"
             /\ subs' = subs \cup {c} /\ pc[c] = "insert" /\ pc'[c] = "done"
    BY <1>4 DEF Insert, Go, CallType
<1>5. ASSUME RemoveSub(c)
      PROVE  /\ \A s \in Calls : pc[s] = "done" => pc'[s] = "done"
             /\ subs' \subseteq subs /\ pc[c] # "idle"
    BY <1>5 DEF RemoveSub, Go, CallType
<1> QED BY <1>1, <1>2, <1>3, <1>4, <1>5 DEF CallActs, CallStep

\* A subscription is there only for one that subscribe returned.
LEMMA OwnerKept ==
    ASSUME CallType, NoteType, OwnerInv, [Next]_vars PROVE OwnerInv'
<1>1. ASSUME NEW c \in Calls, CallActs(c) PROVE OwnerInv'
  <2>1. UNCHANGED <<io, buf, last>>
    BY <1>1, CallFrame DEF ioVars
  <2>2. io # "connect"
    BY <1>1, CallEffect DEF OwnerInv
  <2> QED BY <1>1, <2>1, <2>2, CallEffect DEF OwnerInv
<1>2. ASSUME UNCHANGED <<pc, buf, last>>, subs' \subseteq subs, io' = "connect" => io = "connect"
      PROVE OwnerInv'
    BY <1>2 DEF OwnerInv
<1>3. ASSUME \/ \E c \in Calls : SendNotification(c) \/ SendUndecodable(c)
             \/ \E c \in Calls, type \in {"ok", "error"} : Respond(c, type)
             \/ EndActs \/ Dispatch \/ SkipNotification \/ ClearSubs \/ ClearChans \/ Execute \/ UNCHANGED vars
      PROVE OwnerInv'
  <2>1. UNCHANGED <<pc, buf, last>> /\ subs' \subseteq subs
    BY <1>3, LinkFrame, UndecodableFrame DEF SendNotification, Respond, Dispatch, ClearSubs, ClearChans, Execute, vars,
       callVars, subVars
  <2>2. io' = "connect" => io = "connect"
    BY <1>3, LinkFrame, UndecodableFrame DEF SendNotification, Respond, Dispatch, ClearSubs, ClearChans, Execute, vars,
       ioVars
  <2> QED BY <1>2, <2>1, <2>2
<1>4. ASSUME LinkActs PROVE OwnerInv'
  <2>1. UNCHANGED <<pc, buf, last, subs>>
    BY <1>4, LinkFrame DEF callVars, subVars
  <2>2. io' = "connect" => io = "connect"
    BY <1>4 DEF LinkActs, Connect, ConnectFails, TakeOutbound, Written, SetDisconnect
  <2> QED BY <1>2, <2>1, <2>2
<1>5. ASSUME NEW s \in Calls, SubRecv(s) PROVE OwnerInv'
  <2>1. /\ pc[s] = "done" /\ UNCHANGED <<pc, subs, io>>
        /\ \A r \in Calls \ {s} : buf'[r] = buf[r] /\ last'[r] = last[r]
    BY <1>5 DEF SubRecv, callVars, ioVars, NoteType
  <2> QED BY <2>1 DEF OwnerInv
<1>6. ASSUME Notify PROVE OwnerInv'
  <2>1. UNCHANGED <<pc, subs, io, last>>
    BY <1>6 DEF Notify, callVars, ioVars
  <2>2. \A r \in Calls : r \notin subs => buf'[r] = buf[r]
    BY <1>6 DEF Notify, NoteType
  <2> QED BY <2>1, <2>2 DEF OwnerInv
<1> QED BY <1>1, <1>3, <1>4, <1>5, <1>6, Cases

\* The last notification of a subscription has a number, and 0 says none.
LEMMA LatestType ==
    ASSUME NoteType, NEW s \in Calls
    PROVE  /\ Latest(s) \in Nat /\ last[s] \in Nat /\ notified[s] \in Nat
           /\ buf[s] \in Seq(1 .. MaxNotify) /\ Len(buf[s]) \in Nat
           /\ buf[s] # <<>> => Len(buf[s]) > 0 /\ Latest(s) = buf[s][Len(buf[s])] /\ Latest(s) # 0
           /\ buf[s] = <<>> => Latest(s) = last[s]
           /\ \A i \in 1 .. Len(buf[s]) : buf[s][i] \in Nat /\ buf[s][i] # 0
<1>1. /\ buf[s] \in Seq(1 .. MaxNotify) /\ last[s] \in 0 .. MaxNotify /\ notified[s] \in 0 .. MaxNotify
    BY DEF NoteType
<1>2. /\ Len(buf[s]) \in Nat /\ (buf[s] # <<>> => Len(buf[s]) > 0)
      /\ \A i \in 1 .. Len(buf[s]) : buf[s][i] \in 1 .. MaxNotify
    BY <1>1, Items
<1>3. \A i \in 1 .. Len(buf[s]) : buf[s][i] \in Nat /\ buf[s][i] # 0
    BY <1>2, Limits, SMT
<1>4. buf[s] # <<>> => Len(buf[s]) \in 1 .. Len(buf[s])
    BY <1>2, SMT
<1> QED BY <1>1, <1>2, <1>3, <1>4, Limits, SMT DEF Latest

\* A message that is not of s leaves s where it was.
LEMMA ReadByOther ==
    ASSUME NoteType, NEW s \in Calls, GoesOn(s), down # <<>>, down' = Tail(down),
           ~IsNote(1, s), UNCHANGED <<subs, io, notified>>, Latest(s)' = Latest(s)
    PROVE  GoesOn(s)'
<1>1. /\ Len(down) \in Nat /\ Len(down') = Len(down) - 1
      /\ \A i \in 1 .. Len(down') : i + 1 \in 1 .. Len(down) /\ down'[i] = down[i + 1]
    BY Shifted
<1>2. ASSUME s \in subs, io = "loop", Latest(s) # 0
      PROVE  /\ \A j \in 1 .. Len(down') : IsNote(j, s)' => Latest(s) < down'[j].n
             /\ \A m \in Latest(s) + 1 .. notified[s] : ComesAfter(s, 0, m)'
  <2>1. /\ \A j \in 1 .. Len(down) : IsNote(j, s) => Latest(s) < down[j].n
        /\ \A m \in Latest(s) + 1 .. notified[s] : ComesAfter(s, 0, m)
    BY <1>2 DEF GoesOn
  <2>2. \A j \in 1 .. Len(down') : IsNote(j, s)' => Latest(s) < down'[j].n
    BY <1>1, <2>1 DEF IsNote
  <2>3. ASSUME NEW m \in Latest(s) + 1 .. notified[s] PROVE ComesAfter(s, 0, m)'
    <3>1. m \in Nat
      BY LatestType, SMT
    <3>2. ComesAfter(s, 0 + 1, m)
      <4>1. PICK j \in 0 + 1 .. Len(down) : IsNote(j, s) /\ down[j].n = m
        BY <2>1 DEF ComesAfter
      <4>2. j \in (0 + 1) + 1 .. Len(down)
        BY <1>1, <4>1, SMT
      <4> QED BY <4>1, <4>2 DEF ComesAfter
    <3> QED BY <3>1, <3>2, Shifted
  <2> QED BY <2>2, <2>3
<1> QED BY <1>2 DEF GoesOn

\* With more on its way the rest stays where it is.
LEMMA MoreComes ==
    ASSUME NoteType, NEW x \in Message, down' = Append(down, x)
    PROVE  /\ Len(down) \in Nat /\ Len(down') = Len(down) + 1
           /\ \A i \in 1 .. Len(down) : down'[i] = down[i]
           /\ down'[Len(down) + 1] = x
           /\ \A s \in Calls, i \in Nat, m \in Nat : ComesAfter(s, i, m) => ComesAfter(s, i, m)'
<1>1. /\ Len(down) \in Nat /\ Len(down') = Len(down) + 1
      /\ \A i \in 1 .. Len(down) : down'[i] = down[i]
      /\ down'[Len(down) + 1] = x
    BY AddLast, SMT DEF NoteType
<1>2. \A s \in Calls, i \in Nat, m \in Nat : ComesAfter(s, i, m) => ComesAfter(s, i, m)'
    BY <1>1, SMT DEF ComesAfter, IsNote
<1> QED BY <1>1, <1>2

\* A notification that the buffer takes is the next after the last one.
LEMMA TakenInOrder ==
    ASSUME NoteType, WireInv, BufInv, Reads({"notification"}), NEW s \in subs, s \in Calls,
           IsNote(1, s), Latest(s) # 0
    PROVE  down[1].n = Latest(s) + 1
<1> DEFINE n == down[1].n
<1>1. 1 \in 1 .. Len(down) /\ n \in Nat /\ io = "loop" /\ Len(down) \in Nat
    BY ReadNote, NoteNumber, SMT DEF Reads, NoteType
<1>2. n <= notified[s] /\ notified[s] \in Nat /\ Latest(s) \in Nat
    BY <1>1, LatestType DEF WireInv
<1>3. Latest(s) < n
    BY <1>1 DEF BufInv, GoesOn
<1>4. ASSUME Latest(s) + 1 < n PROVE FALSE
  <2>1. Latest(s) + 1 \in Latest(s) + 1 .. notified[s]
    <3> HIDE DEF n
    <3> QED BY <1>1, <1>2, <1>4, SMT
  <2>2. ComesAfter(s, 0, Latest(s) + 1)
    BY <1>1, <2>1 DEF BufInv, GoesOn
  <2>3. PICK j \in 0 + 1 .. Len(down) : IsNote(j, s) /\ down[j].n = Latest(s) + 1
    BY <2>2 DEF ComesAfter
  <2>4. CASE j = 1
    BY <1>2, <1>4, <2>3, <2>4, SMT
  <2>5. CASE j # 1
    <3>1. j \in 1 + 1 .. Len(down)
      BY <2>5, SMT
    <3>2. n < down[j].n
      BY <1>1, <2>3, <3>1 DEF WireInv
    <3> QED BY <1>1, <1>2, <1>4, <2>3, <3>2, SMT
  <2> QED BY <2>4, <2>5
<1> QED BY <1>1, <1>2, <1>3, <1>4, SMT

\* notify appends the next notification, and Subscription::recv takes the
\* first: what a subscription has stays in order and without a gap.
LEMMA BufKept ==
    ASSUME CallType, NoteType, OwnerInv, WireInv, BufInv, [Next]_vars PROVE BufInv'
<1>1. ASSUME UNCHANGED <<buf, last, notified, down>>,
             \A s \in Calls : s \in subs' /\ io' = "loop" =>
                                 (s \in subs /\ io = "loop") \/ Latest(s) = 0
      PROVE BufInv'
  <2>1. ASSUME NEW s \in Calls PROVE InOrder(s)' /\ GoesOn(s)'
    <3>1. InOrder(s) /\ GoesOn(s)
      BY DEF BufInv
    <3>2. Latest(s)' = Latest(s)
      BY <1>1 DEF Latest
    <3>3. InOrder(s)'
      BY <1>1, <3>1, <3>2 DEF InOrder
    <3>4. GoesOn(s)'
      BY <1>1, <3>1, <3>2 DEF GoesOn, IsNote, ComesAfter
    <3> QED BY <3>3, <3>4
  <2> QED BY <2>1 DEF BufInv
<1>2. ASSUME NEW c \in Calls, CallActs(c) PROVE BufInv'
  <2>1. UNCHANGED <<buf, last, notified, down, io>>
    BY <1>2, CallFrame DEF serverVars, ioVars
  <2>2. \A s \in Calls : s \in subs' => s \in subs \/ Latest(s) = 0
    BY <1>2, CallEffect DEF OwnerInv, Latest
  <2> QED BY <1>1, <2>1, <2>2
<1>3. ASSUME LinkActs \/ ClearSubs \/ ClearChans \/ Execute \/ UNCHANGED vars PROVE BufInv'
  <2>1. UNCHANGED <<buf, last, notified, down>> /\ subs' \subseteq subs
    BY <1>3, LinkFrame DEF ClearSubs, ClearChans, Execute, vars, serverVars, subVars
  <2>2. io' = "loop" => io = "loop" \/ io = "connect"
    BY <1>3 DEF LinkActs, Connect, ConnectFails, TakeOutbound, Written, SetDisconnect,
                ClearSubs, ClearChans, Execute, vars, ioVars
  <2>3. io = "connect" => \A s \in Calls : s \notin subs
    BY DEF OwnerInv
  <2> QED BY <1>1, <2>1, <2>2, <2>3
<1>4. ASSUME EndActs PROVE BufInv'
  <2>1. UNCHANGED <<buf, last, notified>> /\ io' # "loop"
    BY <1>4, LinkFrame DEF subVars, serverVars
  <2>2. \A s \in Calls : GoesOn(s)'
    BY <2>1 DEF GoesOn
  <2>3. \A s \in Calls : InOrder(s)'
    BY <2>1 DEF BufInv, InOrder, Latest
  <2> QED BY <2>2, <2>3 DEF BufInv
<1>5. ASSUME NEW c \in Calls,
             SendUndecodable(c) \/ \E type \in {"ok", "error"} : Respond(c, type)
      PROVE BufInv'
  <2>1. PICK x \in Message :
            /\ UNCHANGED <<buf, last, notified, subs, io>> /\ down' = Append(down, x)
            /\ x.type # "notification"
    BY <1>5, OtherSent
  <2>2. ASSUME NEW s \in Calls PROVE InOrder(s)' /\ GoesOn(s)'
    <3>1. InOrder(s) /\ GoesOn(s) /\ Latest(s)' = Latest(s)
      BY <2>1 DEF BufInv, Latest
    <3>2. InOrder(s)'
      BY <2>1, <3>1 DEF InOrder
    <3>3. \A j \in 1 .. Len(down') : IsNote(j, s)' => j \in 1 .. Len(down) /\ IsNote(j, s) /\ down'[j] = down[j]
      BY <2>1, MoreComes, SMT DEF IsNote
    <3>4. \A m \in Latest(s) + 1 .. notified[s] : m \in Nat /\ 0 \in Nat
      BY LatestType, SMT
    <3>5. \A m \in Latest(s) + 1 .. notified[s] : ComesAfter(s, 0, m) => ComesAfter(s, 0, m)'
      BY <2>1, <3>4, MoreComes
    <3>6. GoesOn(s)'
      BY <2>1, <3>1, <3>3, <3>5 DEF GoesOn
    <3> QED BY <3>2, <3>6
  <2> QED BY <2>2 DEF BufInv
<1>6. ASSUME NEW c \in Calls, SendNotification(c) PROVE BufInv'
  <2> DEFINE x == [type |-> "notification", id |-> c, n |-> notified[c] + 1]
  <2>1. /\ UNCHANGED <<buf, last, subs, io>>
        /\ notified' = [notified EXCEPT ![c] = @ + 1]
        /\ down' = Append(down, x) /\ x \in Message
        /\ x.type = "notification" /\ x.id = c /\ x.n = notified[c] + 1
    BY <1>6, NextNote, IsMessage DEF SendNotification, subVars, ioVars
  <2> HIDE DEF x
  <2>2. ASSUME NEW s \in Calls PROVE InOrder(s)' /\ GoesOn(s)'
    <3>1. InOrder(s) /\ GoesOn(s) /\ Latest(s)' = Latest(s)
      BY <2>1 DEF BufInv, Latest
    <3>2. /\ Latest(s) \in Nat /\ notified[s] \in Nat /\ Latest(s) <= notified[s]
          /\ notified'[s] = IF s = c THEN notified[s] + 1 ELSE notified[s]
      BY <2>1, <3>1, LatestType DEF InOrder, NoteType
    <3>3. InOrder(s)'
      BY <2>1, <3>1, <3>2, SMT DEF InOrder
    <3>4. /\ Len(down) \in Nat /\ Len(down') = Len(down) + 1
          /\ \A i \in 1 .. Len(down) : down'[i] = down[i]
          /\ down'[Len(down) + 1] = x
      BY <2>1, MoreComes
    <3>5. ASSUME s \in subs, io = "loop", Latest(s) # 0
          PROVE  /\ \A j \in 1 .. Len(down') : IsNote(j, s)' => Latest(s) < down'[j].n
                 /\ \A m \in Latest(s) + 1 .. notified'[s] : ComesAfter(s, 0, m)'
      <4>1. /\ \A j \in 1 .. Len(down) : IsNote(j, s) => Latest(s) < down[j].n
            /\ \A m \in Latest(s) + 1 .. notified[s] : ComesAfter(s, 0, m)
        BY <3>1, <3>5 DEF GoesOn
      <4>2. ASSUME NEW j \in 1 .. Len(down'), IsNote(j, s)' PROVE Latest(s) < down'[j].n
        <5>1. CASE j = Len(down) + 1
          <6>1. down'[j] = x /\ s = c
            BY <2>1, <3>4, <4>2, <5>1 DEF IsNote
          <6> QED BY <2>1, <3>2, <6>1, SMT
        <5>2. CASE j # Len(down) + 1
          <6>1. j \in 1 .. Len(down)
            BY <3>4, <5>2, SMT
          <6> QED BY <3>4, <4>1, <4>2, <6>1 DEF IsNote
        <5> QED BY <5>1, <5>2
      <4>3. ASSUME NEW m \in Latest(s) + 1 .. notified'[s] PROVE ComesAfter(s, 0, m)'
        <5>1. m \in Nat /\ 0 \in Nat
          BY <3>2, SMT
        <5>2. CASE m <= notified[s]
          <6>1. m \in Latest(s) + 1 .. notified[s]
            BY <3>2, <5>1, <5>2, SMT
          <6> QED BY <2>1, <4>1, <5>1, <6>1, MoreComes
        <5>3. CASE ~(m <= notified[s])
          <6>1. s = c /\ m = notified[c] + 1
            BY <3>2, <5>1, <5>3, SMT
          <6>2. Len(down) + 1 \in 0 + 1 .. Len(down')
            BY <3>4, SMT
          <6>3. down'[Len(down) + 1].type = "notification" /\ down'[Len(down) + 1].id = s
                /\ down'[Len(down) + 1].n = m
            BY <2>1, <3>4, <6>1
          <6> QED BY <6>2, <6>3 DEF ComesAfter, IsNote
        <5> QED BY <5>2, <5>3
      <4> QED BY <4>2, <4>3
    <3>6. GoesOn(s)'
      BY <2>1, <3>1, <3>5 DEF GoesOn
    <3> QED BY <3>3, <3>6
  <2> QED BY <2>2 DEF BufInv
<1>7. ASSUME Dispatch \/ SkipNotification PROVE BufInv'
  <2>1. UNCHANGED <<buf, last, notified, subs, io>> /\ down # <<>> /\ down' = Tail(down)
    BY <1>7, OtherRead
  <2>2. \A s \in Calls : ~IsNote(1, s)
    BY <1>7, OtherRead
  <2>3. ASSUME NEW s \in Calls PROVE InOrder(s)' /\ GoesOn(s)'
    <3>1. InOrder(s) /\ GoesOn(s) /\ Latest(s)' = Latest(s)
      BY <2>1 DEF BufInv, Latest
    <3>2. InOrder(s)'
      BY <2>1, <3>1 DEF InOrder
    <3> QED BY <2>1, <2>2, <3>1, <3>2, ReadByOther
  <2> QED BY <2>3 DEF BufInv
<1>8. ASSUME Notify PROVE BufInv'
  <2>1. /\ UNCHANGED <<last, notified, subs, io>> /\ down # <<>> /\ down' = Tail(down)
        /\ Reads({"notification"}) /\ io = "loop"
    BY <1>8 DEF Notify, Reads, serverVars, ioVars
  <2>2. PICK r \in Calls, n \in 1 .. MaxNotify :
            /\ r = down[1].id /\ n = down[1].n /\ down[1].type = "notification"
            /\ 1 \in 1 .. Len(down)
            /\ buf' = IF r \in subs THEN [buf EXCEPT ![r] = Append(@, n)] ELSE buf
    BY <1>8, <2>1, ReadNote DEF Notify
  <2>3. ASSUME NEW s \in Calls, s # r \/ s \notin subs PROVE InOrder(s)' /\ GoesOn(s)'
    <3>1. buf'[s] = buf[s] /\ last'[s] = last[s]
      BY <2>1, <2>2, <2>3 DEF NoteType
    <3>2. InOrder(s) /\ GoesOn(s) /\ Latest(s)' = Latest(s)
      BY <3>1 DEF BufInv, Latest
    <3>3. InOrder(s)'
      BY <2>1, <3>1, <3>2 DEF InOrder
    <3>4. CASE s # r
      <4>1. ~IsNote(1, s)
        BY <2>2, <3>4 DEF IsNote
      <4> QED BY <2>1, <3>2, <3>3, <4>1, ReadByOther
    <3>5. CASE s \notin subs
      BY <2>1, <3>3, <3>5 DEF GoesOn
    <3> QED BY <2>3, <3>4, <3>5
  <2>4. ASSUME r \in subs PROVE InOrder(r)' /\ GoesOn(r)'
    <3>1. /\ buf'[r] = Append(buf[r], n) /\ last'[r] = last[r] /\ buf[r] \in Seq(1 .. MaxNotify)
          /\ InOrder(r) /\ GoesOn(r) /\ IsNote(1, r)
      BY <2>1, <2>2, <2>4 DEF NoteType, BufInv, IsNote
    <3>2. /\ Len(buf[r]) \in Nat /\ buf'[r] \in Seq(1 .. MaxNotify) /\ Len(buf'[r]) = Len(buf[r]) + 1
          /\ \A i \in 1 .. Len(buf[r]) : buf'[r][i] = buf[r][i]
          /\ buf'[r][Len(buf[r]) + 1] = n
      BY <3>1, AddLast, SMT
    <3>3. n \in Nat /\ n <= notified[r] /\ n # 0
      BY <2>2, <3>1, Limits, SMT DEF WireInv
    <3>4. Latest(r) # 0 => n = Latest(r) + 1
      BY <2>1, <2>2, <2>4, <3>1, TakenInOrder
    <3>5. buf'[r] # <<>> /\ Latest(r)' = n
      <4>1. Len(buf'[r]) > 0 /\ Len(<<>>) = 0
        BY <3>2, SMT
      <4> QED BY <3>2, <4>1, SMT DEF Latest
    <3>6. /\ buf[r] # <<>> => Len(buf[r]) > 0 /\ buf[r][Len(buf[r])] = Latest(r) /\ Latest(r) # 0
          /\ buf[r] = <<>> => Latest(r) = last[r] /\ Len(buf[r]) = 0
      BY LatestType
    <3>7. ASSUME NEW i \in 1 .. Len(buf'[r]) - 1 PROVE buf'[r][i + 1] = buf'[r][i] + 1
      <4>1. CASE i = Len(buf[r])
        <5>1. buf[r] # <<>>
          BY <3>6, <4>1, SMT
        <5> QED BY <3>2, <3>4, <3>6, <4>1, <5>1, SMT
      <4>2. CASE i # Len(buf[r])
        <5>1. i \in 1 .. Len(buf[r]) - 1 /\ i \in 1 .. Len(buf[r]) /\ i + 1 \in 1 .. Len(buf[r])
          BY <3>2, <4>2, SMT
        <5>2. buf[r][i + 1] = buf[r][i] + 1
          BY <3>1, <5>1 DEF InOrder
        <5> QED BY <3>2, <5>1, <5>2
      <4> QED BY <4>1, <4>2
    <3>8. ASSUME last[r] # 0 PROVE buf'[r][1] = last[r] + 1
      <4>1. CASE buf[r] = <<>>
        BY <3>2, <3>4, <3>6, <3>8, <4>1, SMT
      <4>2. CASE buf[r] # <<>>
        <5>1. 1 \in 1 .. Len(buf[r])
          BY <3>2, <3>6, <4>2, SMT
        <5> QED BY <3>1, <3>2, <3>8, <4>2, <5>1 DEF InOrder
      <4> QED BY <4>1, <4>2
    <3>9. InOrder(r)'
      BY <2>1, <3>1, <3>3, <3>5, <3>7, <3>8 DEF InOrder
    <3>10. /\ Len(down) \in Nat /\ Len(down') = Len(down) - 1
           /\ \A i \in 1 .. Len(down') : i + 1 \in 1 .. Len(down) /\ down'[i] = down[i + 1]
      BY <2>1, Shifted
    <3>11. ASSUME NEW j \in 1 .. Len(down'), IsNote(j, r)' PROVE n < down'[j].n
      <4>1. j + 1 \in 1 + 1 .. Len(down) /\ down'[j] = down[j + 1] /\ IsNote(j + 1, r)
        BY <3>10, <3>11, SMT DEF IsNote
      <4> QED BY <2>2, <3>1, <4>1 DEF WireInv
    <3>12. ASSUME NEW m \in n + 1 .. notified[r] PROVE ComesAfter(r, 0, m)'
      <4>1. m \in Nat /\ 0 \in Nat
        BY <3>3, LatestType, SMT
      <4>2. ComesAfter(r, 1, m)
        BY <2>2, <3>1 DEF WireInv
      <4>3. ComesAfter(r, 0 + 1, m)
        BY <4>2, SMT
      <4> QED BY <2>1, <4>1, <4>3, Shifted
    <3>13. GoesOn(r)'
      BY <2>1, <3>5, <3>11, <3>12 DEF GoesOn
    <3> QED BY <3>9, <3>13
  <2> QED BY <2>3, <2>4 DEF BufInv
<1>9. ASSUME NEW r \in Calls, SubRecv(r) PROVE BufInv'
  <2>1. /\ UNCHANGED <<notified, down, subs, io>> /\ buf[r] # <<>>
        /\ last' = [last EXCEPT ![r] = Head(buf[r])]
        /\ buf' = [buf EXCEPT ![r] = Tail(buf[r])]
    BY <1>9 DEF SubRecv, serverVars, ioVars, NoteType
  <2>2. /\ buf'[r] = Tail(buf[r]) /\ last'[r] = Head(buf[r]) /\ buf[r] \in Seq(1 .. MaxNotify)
        /\ \A s \in Calls \ {r} : buf'[s] = buf[s] /\ last'[s] = last[s]
    BY <2>1 DEF NoteType
  <2>3. /\ Len(buf[r]) \in Nat /\ Len(buf[r]) > 0 /\ last'[r] = buf[r][1]
        /\ buf'[r] \in Seq(1 .. MaxNotify) /\ Len(buf'[r]) = Len(buf[r]) - 1
        /\ \A i \in 1 .. Len(buf'[r]) : buf'[r][i] = buf[r][i + 1]
    <3>1. /\ Len(buf[r]) \in Nat /\ Len(buf[r]) > 0 /\ Head(buf[r]) = buf[r][1]
          /\ Tail(buf[r]) \in Seq(1 .. MaxNotify) /\ Len(Tail(buf[r])) = Len(buf[r]) - 1
          /\ \A i \in 1 .. Len(Tail(buf[r])) : Tail(buf[r])[i] = buf[r][i + 1]
      <4> DEFINE q == buf[r]
                 S == 1 .. MaxNotify
      <4>1. q \in Seq(S) /\ q # <<>>
        BY <2>1, <2>2
      <4> HIDE DEF q, S
      <4>2. /\ Len(q) \in Nat /\ Len(q) > 0 /\ Head(q) = q[1]
            /\ Tail(q) \in Seq(S) /\ Len(Tail(q)) = Len(q) - 1
            /\ \A i \in 1 .. Len(Tail(q)) : Tail(q)[i] = q[i + 1]
        BY <4>1, TakeFirst
      <4> QED BY <4>2 DEF q, S
    <3> QED BY <2>2, <3>1
  <2>4. /\ buf'[r] # <<>> => Len(buf'[r]) > 0
        /\ buf'[r] = <<>> => Len(buf'[r]) = 0
    <3>1. buf'[r] # <<>> => Len(buf'[r]) > 0
      BY <2>3, Items
    <3>2. Len(<<>>) = 0
      OBVIOUS
    <3> QED BY <3>1, <3>2
  <2>5. Latest(r)' = Latest(r)
    <3>1. Latest(r) = buf[r][Len(buf[r])]
      BY <2>1 DEF Latest
    <3>2. CASE buf'[r] = <<>>
      BY <2>3, <2>4, <3>1, <3>2, SMT DEF Latest
    <3>3. CASE buf'[r] # <<>>
      <4>1. Len(buf'[r]) \in 1 .. Len(buf'[r]) /\ Len(buf'[r]) + 1 = Len(buf[r])
        BY <2>3, <2>4, <3>3, SMT
      <4> QED BY <2>3, <3>1, <3>3, <4>1 DEF Latest
    <3> QED BY <3>2, <3>3
  <2>6. ASSUME NEW s \in Calls PROVE Latest(s)' = Latest(s)
    BY <2>2, <2>5 DEF Latest
  <2>7. ASSUME NEW s \in Calls PROVE GoesOn(s)'
    BY <2>1, <2>6, SMT DEF BufInv, GoesOn, IsNote, ComesAfter
  <2>8. ASSUME NEW s \in Calls \ {r} PROVE InOrder(s)'
    BY <2>1, <2>2, <2>6, SMT DEF BufInv, InOrder
  <2>9. InOrder(r)'
    <3>1. InOrder(r)
      BY DEF BufInv
    <3>2. ASSUME NEW i \in 1 .. Len(buf'[r]) - 1 PROVE buf'[r][i + 1] = buf'[r][i] + 1
      <4>1. i \in 1 .. Len(buf'[r]) /\ i + 1 \in 1 .. Len(buf'[r]) /\ i + 1 \in 1 .. Len(buf[r]) - 1
        BY <2>3, SMT
      <4> QED BY <2>3, <3>1, <4>1 DEF InOrder
    <3>3. ASSUME buf'[r] # <<>> PROVE buf'[r][1] = last'[r] + 1
      <4>1. 1 \in 1 .. Len(buf'[r]) /\ 1 \in 1 .. Len(buf[r]) - 1
        BY <2>3, <2>4, <3>3, SMT
      <4> QED BY <2>3, <3>1, <4>1 DEF InOrder
    <3> QED BY <2>1, <2>5, <3>1, <3>2, <3>3 DEF InOrder
  <2> QED BY <2>7, <2>8, <2>9 DEF BufInv
<1> QED BY <1>2, <1>3, <1>4, <1>5, <1>6, <1>7, <1>8, <1>9, Cases

----------------------------------------------------------------------------
(* The invariants                                                           *)

ClientInv ==
    /\ FlagType /\ CallType /\ LinkType /\ NoteType
    /\ EntryInv /\ ResponseInv /\ OnceInv
    /\ WireInv /\ OwnerInv /\ BufInv

\* A client that is about to connect satisfies it.
LEMMA ClientInit == Init => ClientInv
<1> SUFFICES ASSUME Init PROVE ClientInv
    OBVIOUS
<1> USE Limits
<1>1. FlagType
    BY DEF Init, FlagType
<1>2. CallType
    BY DEF Init, CallType, Over
<1>3. /\ Len(sendq) = 0 /\ Len(up) = 0 /\ Len(down) = 0
      /\ \A s \in Calls : buf[s] = <<>> /\ Len(buf[s]) = 0
    BY DEF Init
<1>4. LinkType
    BY <1>3, SMT DEF Init, LinkType, Executed
<1>5. NoteType
  <2>1. down \in Seq(Message)
    BY SMT DEF Init
  <2>2. notified \in [Calls -> 0 .. MaxNotify] /\ last \in [Calls -> 0 .. MaxNotify]
    BY SMT DEF Init
  <2>3. buf \in [Calls -> Seq(1 .. MaxNotify)]
    BY SMT DEF Init
  <2> QED BY <1>3, <2>1, <2>2, <2>3, SMT DEF NoteType
<1>6. EntryInv
    BY DEF Init, EntryInv, NoStaleEntry
<1>7. ResponseInv /\ WireInv
    BY <1>3, SMT DEF ResponseInv, WireInv
<1>8. Distinct(sendq) /\ Distinct(up) /\ \A c \in Calls : ~In(sendq, c) /\ ~In(up, c)
    BY <1>3, SMT DEF Distinct, In
<1>9. OnceInv
  <2>1. Executed = {}
    BY DEF Init, Executed
  <2> QED BY <1>8, <2>1, RpcClientAssumption DEF Init, OnceInv
<1>10. OwnerInv
    BY DEF Init, OwnerInv
<1>11. ASSUME NEW s \in Calls PROVE InOrder(s) /\ GoesOn(s)
  <2>1. buf[s] = <<>> /\ Len(buf[s]) = 0 /\ last[s] = 0 /\ notified[s] = 0 /\ s \notin subs
    BY <1>3 DEF Init
  <2>2. Latest(s) = 0
    BY <2>1 DEF Latest
  <2> QED BY <2>1, <2>2, SMT DEF InOrder, GoesOn
<1> QED BY <1>1, <1>2, <1>4, <1>5, <1>6, <1>7, <1>9, <1>10, <1>11 DEF ClientInv, BufInv

\* Every step of a caller, of the background task and of the server keeps it.
LEMMA ClientStep == ClientInv /\ [Next]_vars => ClientInv'
BY FlagKept, CallTypeKept, NoteTypeKept, EntryKept, ResponseKept, OnceKept, WireKept,
   OwnerKept, BufKept
   DEF ClientInv

\* What stands before a sequence.
LEMMA PutFirst ==
    ASSUME NEW S, NEW q \in Seq(S), NEW x \in S
    PROVE  /\ Len(q) \in Nat /\ Len(<<x>> \o q) = Len(q) + 1 /\ (<<x>> \o q)[1] = x
           /\ \A i \in 1 .. Len(q) : (<<x>> \o q)[i + 1] = q[i]
BY SMT

\* In order with what its owner has received, a buffer shows no gap.
LEMMA ShowsNoGap ==
    ASSUME NoteType, BufInv PROVE NoGap
<1> SUFFICES ASSUME NEW s \in Calls
             PROVE  LET seen == IF last[s] = 0 THEN buf[s] ELSE <<last[s]>> \o buf[s]
                    IN  \A i \in 1 .. Len(seen) - 1 : seen[i + 1] = seen[i] + 1
    BY DEF NoGap
<1>1. InOrder(s) /\ Len(buf[s]) \in Nat /\ last[s] \in Nat
    BY LatestType DEF BufInv
<1>2. CASE last[s] = 0
    BY <1>1, <1>2 DEF InOrder
<1>3. CASE last[s] # 0
  <2> DEFINE seen == <<last[s]>> \o buf[s]
  <2>1. buf[s] \in Seq(1 .. MaxNotify) /\ last[s] \in 1 .. MaxNotify
    <3>1. buf[s] \in Seq(1 .. MaxNotify) /\ last[s] \in 0 .. MaxNotify
      BY DEF NoteType
    <3> QED BY <1>3, <3>1, Limits, SMT
  <2>2. /\ Len(seen) = Len(buf[s]) + 1 /\ seen[1] = last[s]
        /\ \A i \in 1 .. Len(buf[s]) : seen[i + 1] = buf[s][i]
    BY <1>1, <2>1, PutFirst, SMT
  <2> HIDE DEF seen
  <2>3. ASSUME NEW i \in 1 .. Len(seen) - 1 PROVE seen[i + 1] = seen[i] + 1
    <3>1. i \in 1 .. Len(buf[s]) /\ seen[i + 1] = buf[s][i]
      BY <1>1, <2>2, SMT
    <3>2. CASE i = 1
      <4>1. buf[s] # <<>>
        <5>1. Len(<<>>) = 0
          OBVIOUS
        <5> QED BY <1>1, <3>1, <5>1, SMT
      <4> QED BY <1>1, <1>3, <2>2, <3>1, <3>2, <4>1 DEF InOrder
    <3>3. CASE i # 1
      <4>1. i - 1 \in 1 .. Len(buf[s]) /\ i - 1 \in 1 .. Len(buf[s]) - 1 /\ (i - 1) + 1 = i
        BY <1>1, <3>1, <3>3, SMT
      <4>2. buf[s][(i - 1) + 1] = buf[s][i - 1] + 1
        BY <1>1, <4>1 DEF InOrder
      <4>3. seen[(i - 1) + 1] = buf[s][i - 1]
        BY <2>2, <4>1
      <4> QED BY <3>1, <4>1, <4>2, <4>3
    <3> QED BY <3>2, <3>3
  <2> QED BY <1>3, <2>3 DEF seen
<1> QED BY <1>2, <1>3

\* It implies the invariant of the run.
LEMMA ClientImplies == ClientInv => DispatchInv
<1> SUFFICES ASSUME ClientInv PROVE DispatchInv
    OBVIOUS
<1>1. \A s \in Calls : /\ buf[s] \in Seq(1 .. MaxNotify) /\ Len(buf[s]) <= SubCap
                       /\ last[s] \in 0 .. MaxNotify
    BY DEF ClientInv, NoteType
<1>2. TypeOK
    BY <1>1 DEF ClientInv, FlagType, CallType, LinkType, NoteType, TypeOK, Executed
<1>3. NoStaleEntry
    BY DEF ClientInv, EntryInv
<1> QED BY <1>2, <1>3, ShowsNoGap DEF DispatchInv, ClientInv

\* The dispatcher keeps no entry of a call that is over unless its caller
\* dropped it, and a subscription's owner misses no notification that decodes
\* between two that it gets, for any number of calls and any sizes of the buffers
\* (dispatch, clear, Subscription::notify).
THEOREM DispatchTheorem == Spec => []DispatchInv
<1>1. Init => ClientInv
    BY ClientInit
<1>2. ClientInv /\ [Next]_vars => ClientInv'
    BY ClientStep
<1>3. ClientInv => DispatchInv
    BY ClientImplies
<1> QED BY <1>1, <1>2, <1>3, PTL DEF Spec

----------------------------------------------------------------------------
(* The client implements RpcCalls                                           *)

Asked == {c \in Calls : pc[c] \notin {"idle", "disconnected"}}
Answered == {c \in Calls : pc[c] \in {"done", "refused"}}
Failed == {c \in Calls : pc[c] \in {"failed", "dropped"}}

\* Every step of the client is one of the service, or none.
LEMMA ServiceStep == ClientInv /\ [Next]_vars => [Service!Next]_(Service!vars)
<1> SUFFICES ASSUME ClientInv, [Next]_vars
             PROVE  \/ Service!Next
                    \/ UNCHANGED executed /\ Asked' = Asked /\ Answered' = Answered /\ Failed' = Failed
    BY DEF Service!vars, Asked, Answered, Failed
<1> DEFINE Stutter == UNCHANGED executed /\ Asked' = Asked /\ Answered' = Answered /\ Failed' = Failed
<1>1. pc \in [Calls -> {"idle", "register", "send", "wait", "unregister",
                        "insert", "remove"} \cup Over]
    BY DEF ClientInv, CallType
<1>2. ASSUME NEW c \in Calls, NEW k \in {"call", "sub"} \cup Calls, Begin(c, k)
      PROVE  Service!Ask(c) \/ Stutter
  <2>1. pc[c] = "idle" /\ executed' = executed
    BY <1>2 DEF Begin, Go, serverVars
  <2>2. CASE pc' = [pc EXCEPT ![c] = "register"]
    <3>1. c \notin Asked /\ Asked' = Asked \cup {c} /\ Answered' = Answered /\ Failed' = Failed
      BY <1>1, <2>1, <2>2 DEF Asked, Answered, Failed
    <3> QED BY <2>1, <3>1 DEF Service!Ask, Asked, Answered, Failed
  <2>3. CASE pc' = [pc EXCEPT ![c] = "disconnected"]
    BY <1>1, <2>1, <2>3 DEF Asked, Answered, Failed
  <2> QED BY <1>2, <2>2, <2>3 DEF Begin, Go
<1>3. ASSUME NEW c \in Calls, Register(c) \/ Send(c) \/ RecvClosed(c) \/ Timeout(c) PROVE Stutter
  <2>1. /\ pc[c] \in {"register", "send", "wait"} /\ executed' = executed
        /\ \E to \in {"send", "wait", "unregister"} : pc' = [pc EXCEPT ![c] = to]
    BY <1>3 DEF Register, Send, RecvClosed, Timeout, Go, serverVars
  <2> QED BY <1>1, <2>1 DEF Asked, Answered, Failed
<1>4. ASSUME NEW c \in Calls, Recv(c) \/ Insert(c) \/ RemoveSub(c)
      PROVE  Service!Answer(c) \/ Stutter
  <2>1. /\ pc[c] \in {"wait", "insert", "remove"} /\ c \in Executed /\ executed' = executed
        /\ \E to \in {"insert", "remove", "done", "refused"} : pc' = [pc EXCEPT ![c] = to]
    BY <1>4, ReplyPlaces DEF Recv, Insert, RemoveSub, Go, serverVars, ClientInv, EntryInv
  <2>2. CASE \E to \in {"insert", "remove"} : pc' = [pc EXCEPT ![c] = to]
    BY <1>1, <2>1, <2>2 DEF Asked, Answered, Failed
  <2>3. CASE \E to \in {"done", "refused"} : pc' = [pc EXCEPT ![c] = to]
    <3>1. /\ c \in Asked /\ c \notin Answered /\ c \notin Failed
          /\ Asked' = Asked /\ Answered' = Answered \cup {c} /\ Failed' = Failed
      BY <1>1, <2>1, <2>3 DEF Asked, Answered, Failed
    <3>2. executed[c] # 0
      BY <2>1 DEF Executed
    <3> QED BY <2>1, <3>1, <3>2 DEF Service!Answer, Service!Open, Asked, Answered, Failed
  <2> QED BY <2>1, <2>2, <2>3
<1>5. ASSUME NEW c \in Calls, Unregister(c) \/ DropCall(c) PROVE Service!Fail(c)
  <2>1. /\ pc[c] \notin Over \cup {"idle"} /\ executed' = executed
        /\ \E to \in {"failed", "dropped"} : pc' = [pc EXCEPT ![c] = to]
    BY <1>5 DEF Unregister, DropCall, Go, serverVars, Over
  <2>2. /\ c \in Asked /\ c \notin Answered /\ c \notin Failed
        /\ Asked' = Asked /\ Answered' = Answered /\ Failed' = Failed \cup {c}
    BY <1>1, <2>1 DEF Asked, Answered, Failed, Over
  <2> QED BY <2>1, <2>2 DEF Service!Fail, Service!Open, Asked, Answered, Failed
<1>6. ASSUME Execute PROVE \E c \in Calls : Service!Execute(c)
  <2>1. up # <<>> /\ executed' = [executed EXCEPT ![Head(up)] = @ + 1] /\ pc' = pc
    BY <1>6 DEF Execute, callVars
  <2>2. PICK c \in Calls : c = Head(up) /\ In(up, c)
    BY <2>1, Taken DEF ClientInv, LinkType, OnceInv
  <2>3. c \in Asked /\ executed[c] = 0
    BY <2>2 DEF ClientInv, OnceInv, Sent, Asked, Executed
  <2>4. Asked' = Asked /\ Answered' = Answered /\ Failed' = Failed
    BY <2>1 DEF Asked, Answered, Failed
  <2> QED BY <2>1, <2>2, <2>3, <2>4 DEF Service!Execute, Asked, Answered, Failed
<1>7. ASSUME UNCHANGED <<pc, executed>> PROVE Stutter
    BY <1>7 DEF Asked, Answered, Failed
<1>8. ASSUME \/ \E c \in Calls : SubRecv(c) \/ SendNotification(c) \/ SendUndecodable(c)
             \/ \E c \in Calls, type \in {"ok", "error"} : Respond(c, type)
             \/ LinkActs \/ EndActs \/ Dispatch \/ Notify \/ SkipNotification
             \/ ClearSubs \/ ClearChans \/ UNCHANGED vars
      PROVE  UNCHANGED <<pc, executed>>
    BY <1>8, LinkFrame, UndecodableFrame DEF SubRecv, SendNotification, Respond, Dispatch, Notify, ClearSubs,
       ClearChans, vars, callVars, serverVars
<1> HIDE DEF Stutter
<1>9. ASSUME NEW c \in Calls, CallActs(c) PROVE Service!Next \/ Stutter
    BY <1>2, <1>3, <1>4, <1>5, <1>9 DEF CallActs, CallStep, Service!Next
<1>10. Service!Next \/ Stutter
    BY <1>6, <1>7, <1>8, <1>9, Cases DEF Service!Next
<1> QED BY <1>10 DEF Stutter

\* The client implements RpcCalls: whatever is lost, late or dropped, a caller
\* gets the answer to its own request, after its execution, or an error, and
\* no request is executed twice: the count of its executions, which Execute
\* raises for whatever arrives, never exceeds one (send_request, run_io_loop,
\* dispatch).
THEOREM ServiceTheorem == Spec => IsService
<1>1. Init => ClientInv
    BY ClientInit
<1>2. ClientInv /\ [Next]_vars => ClientInv'
    BY ClientStep
<1>3. Init => Service!Init
    BY DEF Init, Service!Init
<1> QED BY <1>1, <1>2, <1>3, ServiceStep, PTL DEF Spec, IsService, Service!Spec

=============================================================================
