-------------------------- MODULE RpcServerProofs ---------------------------
(***************************************************************************)
(* Proofs about one connection of the JSON-RPC server, for any finite set  *)
(* of requests, any limits and every order of reading, handling, writing,  *)
(* failures and shutdown.                                                  *)
(***************************************************************************)
EXTENDS RpcServer, FiniteSetTheorems, TLAPS

\* Most steps need no arithmetic and are for Zenon; a leaf that does says SMT.
USE Zenon

----------------------------------------------------------------------------
(* Permits                                                                 *)

\* TypeOK in four parts: the flags, the numbers (the upper bound of the
\* permits is what their sum gives), the queues, and where everybody is.
FlagType == closed \in BOOLEAN /\ done \in BOOLEAN

NumberType == permits \in Nat /\ responses \in [Requests -> Nat]

QueueType ==
    /\ queue \in Seq(Requests) /\ Len(queue) <= QueueCap
    /\ chan \in Seq(Requests) /\ Len(chan) <= ChanCap

PlaceType ==
    /\ conn \in {"accept", "backoff", "handshake", "over"}
    /\ reader \in {"none", "acquire", "read", "ended", "over"}
    /\ req \in [Requests -> {"none", "run", "push", "over"}]
    /\ subs \subseteq Requests
    /\ writer \in {"none", "poll queue", "poll chan", "write", "ended",
                  "notify done", "over"}
    /\ writing \in Message \cup {None}
    /\ writer = "write" => writing \in Message
    /\ conn # "over" => reader = "none"
    /\ pub \in [Requests -> {"none", "check", "send", "stopped"}]
    /\ doomed \subseteq Tasks
    /\ stopping \in Tasks \cup {None}
    /\ shutdown \in {"no", "running", "returned"}

StateType == NumberType /\ QueueType /\ PlaceType

\* The permits that are free, the reader's and the requests'.
PermitSum ==
    permits + (IF reader = "read" THEN 1 ELSE 0) + Cardinality(Active) = MaxConcurrent

\* The inductive invariant of the permits, with the type of everything.
PermitInv == StateType /\ PermitSum

\* The limits are positive numbers.
LEMMA Limits ==
  /\ MaxConcurrent \in Nat /\ QueueCap \in Nat /\ ChanCap \in Nat
  /\ MaxConcurrent > 0 /\ QueueCap > 0 /\ ChanCap > 0
BY RpcServerAssumption, SMT

\* What is left of a queue whose first element is taken.
LEMMA TakeFirst ==
  ASSUME NEW q \in Seq(Requests), q # <<>>
  PROVE  /\ Len(q) \in Nat /\ Len(q) > 0
         /\ Head(q) \in Requests /\ Head(q) = q[1]
         /\ Tail(q) \in Seq(Requests) /\ Len(Tail(q)) = Len(q) - 1
         /\ \A i \in 1 .. Len(Tail(q)) : Tail(q)[i] = q[i + 1]
BY SMT

\* Only the state of the requests says which are active.
LEMMA ActiveSame ==
  ASSUME req' = req PROVE Active' = Active
BY DEF Active

\* There are finitely many request tasks.
LEMMA ActiveFinite ==
  IsFiniteSet(Active) /\ Cardinality(Active) \in Nat
<1>1. Active \subseteq Requests
  BY DEF Active
<1>2. IsFiniteSet(Active)
  BY <1>1, FS_Subset, RpcServerAssumption
<1> QED BY <1>2, FS_CardinalityType

\* A request that is read becomes one more active task ...
LEMMA ActiveGrows ==
  ASSUME NEW r \in Requests, StateType, req[r] = "none",
         req' = [req EXCEPT ![r] = "run"]
  PROVE  Cardinality(Active') = Cardinality(Active) + 1
<1>1. Active' = Active \cup {r} /\ r \notin Active
  BY DEF Active, StateType, PlaceType
<1> QED BY <1>1, ActiveFinite, FS_AddElement

\* ... a request that goes from its handler to the queue stays one ...
LEMMA ActiveStays ==
  ASSUME NEW r \in Requests, StateType, HandlerReturns(r)
  PROVE  Active' = Active
BY DEF Active, StateType, PlaceType, HandlerReturns

\* ... and the end of its task is one less.
LEMMA ActiveShrinks ==
  ASSUME NEW r \in Active, StateType, Leave(r)
  PROVE  Cardinality(Active') = Cardinality(Active) - 1
<1>1. r \in Requests /\ Active' = Active \ {r}
  BY DEF Active, StateType, PlaceType, Leave
<1> QED BY <1>1, ActiveFinite, FS_RemoveElement

\* At first every permit is free.
LEMMA PermitInit == Init => PermitInv
<1> SUFFICES ASSUME Init PROVE PermitInv
  OBVIOUS
<1>1. StateType
  BY Limits, SMT DEF Init, StateType, NumberType, QueueType, PlaceType
<1>2. Active = {}
  BY DEF Init, Active
<1>3. Cardinality(Active) = 0
  BY <1>2, FS_EmptySet
<1> QED BY <1>1, <1>3, Limits, SMT DEF Init, PermitInv, PermitSum

\* The steps that change the queue of responses or the channel.
LEMMA QueueSteps ==
  ASSUME [Next]_vars
  PROVE  \/ \E r \in Requests : PushResponse(r) \/ SendNotification(r)
         \/ TakeResponse \/ TakeNotification
         \/ queue' = queue /\ chan' = <<>>
         \/ UNCHANGED <<queue, chan>>
<1> USE DEF serverVars
<1>1. CASE Accept \/ AcceptFails \/ BackoffOver \/ ConnStep
  BY <1>1 DEF Accept, AcceptFails, BackoffOver, ConnStep, HandshakeFails,
      HandleMessageConn, connVars
<1>2. CASE ReaderStep \/ ReadFails
  BY <1>2 DEF ReaderStep, Acquire, WriterIsDone, ReadFails, ReaderReturns, ReaderCallback
<1>3. CASE WriterStep
  BY <1>3 DEF WriterStep, NoResponse, NoNotification, ChannelIsClosed, Written,
      WriteFails, WriterReturns, WriterCallback, WriterDone
<1>4. CASE Shutdown \/ ShutdownStep
  BY <1>4 DEF Shutdown, ShutdownStep, CancelTask, StopConn, connVars, StopReader,
      StopWriter, WriterReturns, StopRequest, Cancelled, ShutdownReturns
<1>5. ASSUME NEW r \in Requests,
             \/ ReadRequest(r) \/ RequestStep(r) \/ NewSubscription(r)
             \/ (\E s \in Requests : RemoveSubscription(r, s)) \/ PublisherStep(r)
      PROVE  PushResponse(r) \/ SendNotification(r) \/ UNCHANGED <<queue, chan>>
  BY <1>5 DEF ReadRequest, RequestStep, HandlerReturns, DropResponse, NewSubscription,
      RemoveSubscription, PublisherStep, StillSubscribed, SendFails
<1>6. CASE UNCHANGED vars
  BY <1>6 DEF vars
<1> QED BY <1>1, <1>2, <1>3, <1>4, <1>5, <1>6 DEF Next

\* They keep both within their capacities.
LEMMA QueueStep == QueueType /\ [Next]_vars => QueueType'
<1> SUFFICES ASSUME QueueType, [Next]_vars PROVE QueueType'
  OBVIOUS
<1> USE Limits DEF QueueType
<1>1. ASSUME NEW r \in Requests, PushResponse(r) PROVE QueueType'
  BY <1>1, SMT DEF PushResponse
<1>2. ASSUME NEW r \in Requests, SendNotification(r) PROVE QueueType'
  BY <1>2, SMT DEF SendNotification
<1>3. CASE TakeResponse
  <2>1. queue # <<>> /\ queue' = Tail(queue) /\ chan' = chan
    BY <1>3 DEF TakeResponse
  <2>2. Tail(queue) \in Seq(Requests) /\ Len(queue) \in Nat /\ Len(Tail(queue)) = Len(queue) - 1
    BY <2>1, TakeFirst
  <2> QED BY <2>1, <2>2, SMT
<1>4. CASE TakeNotification
  <2>1. chan # <<>> /\ chan' = Tail(chan) /\ queue' = queue
    BY <1>4 DEF TakeNotification
  <2>2. Tail(chan) \in Seq(Requests) /\ Len(chan) \in Nat /\ Len(Tail(chan)) = Len(chan) - 1
    BY <2>1, TakeFirst
  <2> QED BY <2>1, <2>2, SMT
<1>5. CASE queue' = queue /\ chan' = <<>>
  BY <1>5, SMT
<1>6. CASE UNCHANGED <<queue, chan>>
  BY <1>6
<1> QED BY <1>1, <1>2, <1>3, <1>4, <1>5, <1>6, QueueSteps

\* The steps that take or give back a permit, or may do something with the
\* reader, and the one that counts a response.
LEMMA PermitSteps ==
  ASSUME [Next]_vars
  PROVE  \/ Acquire \/ WriterIsDone \/ ReadFails \/ StopReader
         \/ \E r \in Requests : \/ ReadRequest(r) \/ HandlerReturns(r)
                                \/ PushResponse(r) \/ DropResponse(r) \/ StopRequest(r)
         \/ HandleMessageConn \/ ReaderCallback
         \/ Written
         \/ UNCHANGED <<permits, req, reader, responses>>
<1> USE DEF serverVars
<1>1. CASE Accept \/ AcceptFails \/ BackoffOver \/ HandshakeFails
  BY <1>1 DEF Accept, AcceptFails, BackoffOver, HandshakeFails, connVars
<1>2. CASE WriterStep
  BY <1>2 DEF WriterStep, TakeResponse, NoResponse, TakeNotification, NoNotification,
      ChannelIsClosed, WriteFails, WriterReturns, WriterCallback, WriterDone
<1>3. CASE Shutdown \/ ShutdownStep
  BY <1>3 DEF Shutdown, ShutdownStep, CancelTask, StopConn, connVars, StopWriter,
      WriterReturns, Cancelled, ShutdownReturns
<1>4. ASSUME NEW r \in Requests,
             \/ NewSubscription(r)
             \/ (\E s \in Requests : RemoveSubscription(r, s)) \/ PublisherStep(r)
      PROVE UNCHANGED <<permits, req, reader, responses>>
  BY <1>4 DEF NewSubscription, RemoveSubscription, PublisherStep, StillSubscribed,
      SendNotification, SendFails
<1>5. CASE UNCHANGED vars
  BY <1>5 DEF vars
<1> QED BY <1>1, <1>2, <1>3, <1>4, <1>5 DEF Next, ConnStep, ReaderStep, RequestStep

\* Permits and responses are counted in natural numbers.
LEMMA NumberStep == StateType /\ [Next]_vars => NumberType'
<1> SUFFICES ASSUME StateType, [Next]_vars PROVE NumberType'
  OBVIOUS
<1> NumberType
  BY DEF StateType
<1> USE DEF NumberType
<1>1. CASE Acquire \/ WriterIsDone \/ ReadFails \/ StopReader
  BY <1>1, SMT DEF Acquire, WriterIsDone, ReadFails, ReaderReturns, StopReader
<1>2. ASSUME NEW r \in Requests, ReadRequest(r) \/ HandlerReturns(r) PROVE NumberType'
  BY <1>2 DEF ReadRequest, HandlerReturns
<1>3. ASSUME NEW r \in Requests, PushResponse(r) \/ DropResponse(r) \/ StopRequest(r)
      PROVE NumberType'
  BY <1>3, SMT DEF PushResponse, DropResponse, StopRequest, Leave
<1>4. CASE HandleMessageConn \/ ReaderCallback
  BY <1>4 DEF HandleMessageConn, connVars, ReaderCallback
<1>5. CASE Written
  <2>1. writing[2] \in Requests
    BY <1>5 DEF Written, StateType, PlaceType, Message
  <2>2. permits' = permits
    BY <1>5 DEF Written
  <2>3. responses' \in [Requests -> Nat]
    <3>1. PICK r \in Requests : r = writing[2]
      BY <2>1
    <3>2. responses' \in {[responses EXCEPT ![r] = @ + 1], responses}
      BY <1>5, <3>1 DEF Written
    <3> QED BY <3>2, SMT
  <2> QED BY <2>2, <2>3
<1>6. CASE UNCHANGED <<permits, req, reader, responses>>
  BY <1>6
<1> QED BY <1>1, <1>2, <1>3, <1>4, <1>5, <1>6, PermitSteps

\* Everybody stays in the places there are.
LEMMA PlaceStep == StateType /\ [Next]_vars => PlaceType'
<1> SUFFICES ASSUME StateType, [Next]_vars PROVE PlaceType'
  OBVIOUS
<1> PlaceType
  BY DEF StateType
<1> USE DEF PlaceType, serverVars
<1>1. CASE Accept \/ AcceptFails \/ BackoffOver \/ ConnStep
  BY <1>1 DEF Accept, AcceptFails, BackoffOver, ConnStep, HandshakeFails,
      HandleMessageConn, Handled, connVars
<1>2. CASE ReaderStep \/ ReadFails
  BY <1>2 DEF ReaderStep, Acquire, WriterIsDone, ReadFails, ReaderReturns, ReaderCallback
<1>3. CASE TakeResponse
  <2>1. writing' \in Message
    <3>1. queue \in Seq(Requests) /\ queue # <<>>
      BY <1>3 DEF TakeResponse, StateType, QueueType
    <3>2. Head(queue) \in Requests
      BY <3>1, TakeFirst
    <3> QED BY <1>3, <3>2 DEF TakeResponse, Message
  <2> QED BY <1>3, <2>1 DEF TakeResponse
<1>4. CASE TakeNotification
  <2>1. writing' \in Message
    <3>1. chan \in Seq(Requests) /\ chan # <<>>
      BY <1>4 DEF TakeNotification, StateType, QueueType
    <3>2. Head(chan) \in Requests
      BY <3>1, TakeFirst
    <3> QED BY <1>4, <3>2 DEF TakeNotification, Message
  <2> QED BY <1>4, <2>1 DEF TakeNotification
<1>5. CASE NoResponse \/ NoNotification \/ WriterCallback \/ WriterDone
  BY <1>5 DEF NoResponse, NoNotification, WriterCallback, WriterDone
<1>6. CASE ChannelIsClosed \/ WriteFails \/ Written \/ StopWriter
  BY <1>6 DEF ChannelIsClosed, WriteFails, WriterReturns, Written, StopWriter
<1>7. CASE Shutdown \/ Cancelled \/ ShutdownReturns
  BY <1>7 DEF Shutdown, Cancelled, ShutdownReturns
<1>8. ASSUME NEW t \in Tasks, CancelTask(t) PROVE PlaceType'
  BY <1>8 DEF CancelTask
<1>9. CASE StopConn \/ StopReader
  BY <1>9 DEF StopConn, StopReader, connVars, Running
<1>10. ASSUME NEW r \in Requests,
              \/ ReadRequest(r) \/ RequestStep(r) \/ StopRequest(r)
       PROVE  PlaceType'
  <2> HIDE DEF PlaceType
  <2>1. /\ \E to \in {"run", "push", "over"} : req' = [req EXCEPT ![r] = to]
        /\ reader' = reader \/ (reader = "read" /\ reader' = "acquire")
        /\ UNCHANGED <<subs, writer, writing, pub, conn, doomed, stopping, shutdown>>
    BY <1>10 DEF ReadRequest, RequestStep, HandlerReturns, PushResponse, DropResponse,
        StopRequest, Leave
  <2>2. req' \in [Requests -> {"none", "run", "push", "over"}]
    BY <2>1 DEF PlaceType
  <2> QED BY <2>1, <2>2 DEF PlaceType
<1>11. ASSUME NEW r \in Requests,
              NewSubscription(r) \/ \E s \in Requests : RemoveSubscription(r, s)
       PROVE  PlaceType'
  <2> HIDE DEF PlaceType
  <2>1. /\ pub' = pub \/ pub' = [pub EXCEPT ![r] = "check"]
        /\ subs' \subseteq subs \cup {r}
        /\ UNCHANGED <<reader, req, writer, writing, conn, doomed, stopping, shutdown>>
    BY <1>11 DEF NewSubscription, RemoveSubscription
  <2>2. pub' \in [Requests -> {"none", "check", "send", "stopped"}] /\ subs' \subseteq Requests
    BY <2>1 DEF PlaceType
  <2> QED BY <2>1, <2>2 DEF PlaceType
<1>12. ASSUME NEW s \in Requests, PublisherStep(s) PROVE PlaceType'
  <2> HIDE DEF PlaceType
  <2>1. /\ \E to \in {"check", "send", "stopped"} : pub' = [pub EXCEPT ![s] = to]
        /\ UNCHANGED <<reader, req, subs, writer, writing, conn, doomed, stopping, shutdown>>
    BY <1>12 DEF PublisherStep, StillSubscribed, SendNotification, SendFails
  <2>2. pub' \in [Requests -> {"none", "check", "send", "stopped"}]
    BY <2>1 DEF PlaceType
  <2> QED BY <2>1, <2>2 DEF PlaceType
<1>13. CASE UNCHANGED vars
  <2> HIDE DEF PlaceType
  <2>1. UNCHANGED <<reader, req, subs, writer, writing, pub, conn, doomed, stopping, shutdown>>
    BY <1>13 DEF vars
  <2> QED BY <2>1 DEF PlaceType
<1> QED BY <1>1, <1>2, <1>3, <1>4, <1>5, <1>6, <1>7, <1>8, <1>9, <1>10, <1>11, <1>12, <1>13
        DEF Next, WriterStep, ShutdownStep

\* Every step keeps the sum: a permit goes from the semaphore to the reader,
\* from the reader to a request, and back from either.
LEMMA PermitStep == PermitInv /\ [Next]_vars => PermitInv'
<1> SUFFICES ASSUME PermitInv, [Next]_vars PROVE PermitSum'
  BY NumberStep, QueueStep, PlaceStep DEF PermitInv, StateType
<1> StateType /\ PermitSum
  BY DEF PermitInv
<1> permits \in Nat
  BY DEF StateType, NumberType
<1> USE Limits, ActiveFinite DEF PermitSum
<1>1. CASE Acquire \/ WriterIsDone \/ ReadFails \/ StopReader
  BY <1>1, ActiveSame, SMT DEF Acquire, WriterIsDone, ReadFails, ReaderReturns, StopReader
<1>2. ASSUME NEW r \in Requests, ReadRequest(r) PROVE PermitSum'
  <2>1. Cardinality(Active') = Cardinality(Active) + 1
    BY <1>2, ActiveGrows DEF ReadRequest
  <2> QED BY <1>2, <2>1, SMT DEF ReadRequest
<1>3. ASSUME NEW r \in Requests, HandlerReturns(r) PROVE PermitSum'
  BY <1>3, ActiveStays DEF HandlerReturns
<1>4. ASSUME NEW r \in Requests, PushResponse(r) \/ DropResponse(r) \/ StopRequest(r)
      PROVE PermitSum'
  <2>1. r \in Active /\ Leave(r)
    BY <1>4 DEF PushResponse, DropResponse, StopRequest, Active
  <2>2. Cardinality(Active') = Cardinality(Active) - 1
    BY <2>1, ActiveShrinks
  <2> QED BY <1>4, <2>1, <2>2, SMT DEF PushResponse, DropResponse, StopRequest, Leave
<1>5. CASE HandleMessageConn \/ ReaderCallback
  <2>1. Active' = Active
    BY <1>5, ActiveSame DEF HandleMessageConn, connVars, ReaderCallback
  <2>2. reader # "read" /\ reader' # "read"
    BY <1>5 DEF HandleMessageConn, Handled, ReaderCallback, StateType, PlaceType
  <2> QED BY <1>5, <2>1, <2>2 DEF HandleMessageConn, connVars, ReaderCallback
<1>6. CASE Written \/ UNCHANGED <<permits, req, reader, responses>>
  BY <1>6, ActiveSame DEF Written
<1> QED BY <1>1, <1>2, <1>3, <1>4, <1>5, <1>6, PermitSteps

\* The flags are only ever set.
LEMMA FlagTypeStep == FlagType /\ [Next]_vars => FlagType'
<1> SUFFICES ASSUME FlagType, [Next]_vars PROVE FlagType'
  OBVIOUS
<1> USE DEF FlagType, serverVars, connVars, Close
<1>1. CASE Accept \/ AcceptFails \/ BackoffOver \/ ConnStep \/ ReaderStep \/ ReadFails
  BY <1>1 DEF Accept, AcceptFails, BackoffOver, ConnStep, HandshakeFails, HandleMessageConn,
      Handled, ReaderStep, Acquire, WriterIsDone, ReadFails, ReaderReturns, ReaderCallback
<1>2. CASE WriterStep
  BY <1>2 DEF WriterStep, TakeResponse, NoResponse, TakeNotification, NoNotification,
      ChannelIsClosed, Written, WriteFails, WriterReturns, WriterCallback, WriterDone
<1>3. CASE Shutdown \/ ShutdownStep
  BY <1>3 DEF Shutdown, ShutdownStep, CancelTask, StopConn, StopReader, StopWriter,
      WriterReturns, StopRequest, Cancelled, ShutdownReturns
<1>4. ASSUME NEW r \in Requests,
             \/ ReadRequest(r) \/ RequestStep(r) \/ NewSubscription(r)
             \/ (\E s \in Requests : RemoveSubscription(r, s)) \/ PublisherStep(r)
      PROVE FlagType'
  BY <1>4 DEF ReadRequest, RequestStep, HandlerReturns, PushResponse, DropResponse,
      NewSubscription, RemoveSubscription, PublisherStep, StillSubscribed,
      SendNotification, SendFails
<1>5. CASE UNCHANGED vars
  BY <1>5 DEF vars
<1> QED BY <1>1, <1>2, <1>3, <1>4, <1>5 DEF Next

\* No permit of the semaphore is lost or made up, so a connection never runs
\* more than MAX_CONCURRENT_REQUESTS handlers and never runs out of permits.
THEOREM PermitsTheorem == Spec => []PermitsAccountedFor
<1>1. ASSUME PermitInv, FlagType PROVE PermitsAccountedFor
  <2>1. permits \in 0 .. MaxConcurrent
    BY <1>1, Limits, ActiveFinite, SMT DEF PermitInv, PermitSum, StateType, NumberType
  <2>2. TypeOK
    BY <1>1, <2>1, Zenon DEF PermitInv, StateType, FlagType, NumberType, QueueType,
       PlaceType, TypeOK
  <2> QED BY <1>1, <2>2 DEF PermitInv, PermitSum, PermitsAccountedFor
<1>2. Init => FlagType
  BY DEF Init, FlagType
<1> QED BY <1>1, <1>2, PermitInit, PermitStep, FlagTypeStep, PTL DEF Spec

----------------------------------------------------------------------------
(* What the client sees                                                    *)

\* The response to r waits in the queue, or is what the writer writes.
Queued(r) == \E i \in 1 .. Len(queue) : queue[i] = r
InHand(r) == writer = "write" /\ writing = <<"response", r>>

Distinct == \A i, j \in 1 .. Len(queue) : queue[i] = queue[j] => i = j

\* A response is in one place: with its request's task until that pushes it,
\* once in the queue, in the writer's hand, or written.
OnceInv ==
    /\ Distinct
    /\ \A r \in Requests :
        /\ Queued(r) => req[r] = "over" /\ ~InHand(r) /\ responses[r] = 0
        /\ InHand(r) => req[r] = "over" /\ responses[r] = 0
        /\ req[r] # "over" => responses[r] = 0

\* The inductive invariant of the refinement.
PeerInv == StateType /\ OnceInv

\* The steps that move a request or a response.
LEMMA ResponseSteps ==
  ASSUME [Next]_vars
  PROVE  \/ \E r \in Requests : \/ ReadRequest(r) \/ HandlerReturns(r)
                                \/ PushResponse(r) \/ DropResponse(r) \/ StopRequest(r)
         \/ TakeResponse \/ TakeNotification \/ Written
         \/ UNCHANGED <<queue, req, responses>> /\ writer' # "write"
         \/ UNCHANGED <<queue, req, responses, writer, writing>>
<1> USE DEF serverVars
<1>1. CASE Accept \/ AcceptFails \/ BackoffOver \/ ConnStep
  BY <1>1 DEF Accept, AcceptFails, BackoffOver, ConnStep, HandshakeFails,
      HandleMessageConn, connVars
<1>2. CASE ReaderStep \/ ReadFails
  BY <1>2 DEF ReaderStep, Acquire, WriterIsDone, ReadFails, ReaderReturns, ReaderCallback
<1>3. CASE WriterStep
  BY <1>3 DEF WriterStep, NoResponse, NoNotification, ChannelIsClosed,
      WriteFails, WriterReturns, WriterCallback, WriterDone
<1>4. CASE Shutdown \/ ShutdownStep
  BY <1>4 DEF Shutdown, ShutdownStep, CancelTask, StopConn, connVars, StopReader,
      StopWriter, WriterReturns, Cancelled, ShutdownReturns
<1>5. ASSUME NEW r \in Requests,
             \/ NewSubscription(r)
             \/ (\E s \in Requests : RemoveSubscription(r, s)) \/ PublisherStep(r)
      PROVE  UNCHANGED <<queue, req, responses, writer, writing>>
  BY <1>5 DEF NewSubscription, RemoveSubscription, PublisherStep, StillSubscribed,
      SendNotification, SendFails
<1>6. CASE UNCHANGED vars
  BY <1>6 DEF vars
<1> QED BY <1>1, <1>2, <1>3, <1>4, <1>5, <1>6 DEF Next, RequestStep

\* Pushing r to the queue adds r to it, at a place of its own.
LEMMA PushQueue ==
  ASSUME NEW r \in Requests, queue \in Seq(Requests), queue' = Append(queue, r)
  PROVE  /\ \A s \in Requests : Queued(s)' <=> Queued(s) \/ s = r
         /\ Distinct /\ ~Queued(r) => Distinct'
<1>1. /\ Len(queue) \in Nat /\ Len(queue') = Len(queue) + 1
      /\ \A i \in 1 .. Len(queue) : queue'[i] = queue[i]
      /\ queue'[Len(queue) + 1] = r
  BY SMT
<1>2. ASSUME NEW s \in Requests PROVE Queued(s)' <=> Queued(s) \/ s = r
  BY <1>1, SMT DEF Queued
<1>3. ASSUME ~Queued(r), Distinct,
             NEW i \in 1 .. Len(queue'), NEW j \in 1 .. Len(queue'), queue'[i] = queue'[j]
      PROVE  i = j
  BY <1>1, <1>3, SMT DEF Queued, Distinct
<1> QED BY <1>2, <1>3 DEF Distinct

\* Taking the first response out of the queue leaves no other copy of it.
LEMMA TakeQueue ==
  ASSUME NEW r \in Requests, queue \in Seq(Requests), queue # <<>>, r = Head(queue),
         queue' = Tail(queue), Distinct
  PROVE  /\ Queued(r) /\ ~Queued(r)'
         /\ \A s \in Requests : Queued(s)' => Queued(s)
         /\ Distinct'
<1>1. /\ Len(queue) \in Nat /\ Len(queue) > 0 /\ Len(queue') = Len(queue) - 1
      /\ r = queue[1]
      /\ \A i \in 1 .. Len(queue') : queue'[i] = queue[i + 1]
  BY TakeFirst
<1>2. \A i \in 1 .. Len(queue') : i + 1 \in 1 .. Len(queue) /\ i + 1 # 1
  BY <1>1, SMT
<1>3. 1 \in 1 .. Len(queue)
  BY <1>1, SMT
<1>4. Queued(r)
  BY <1>1, <1>3 DEF Queued
<1>5. ~Queued(r)'
  BY <1>1, <1>2, <1>3 DEF Queued, Distinct
<1>6. ASSUME NEW s \in Requests, Queued(s)' PROVE Queued(s)
  BY <1>1, <1>2, <1>6 DEF Queued
<1>7. Distinct'
  <2>1. ASSUME NEW i \in 1 .. Len(queue'), NEW j \in 1 .. Len(queue'), queue'[i] = queue'[j]
        PROVE  i + 1 = j + 1
    BY <1>1, <1>2, <2>1 DEF Distinct
  <2> QED BY <2>1, SMT DEF Distinct
<1> QED BY <1>4, <1>5, <1>6, <1>7

\* Every step keeps a response in one place.
LEMMA OnceStep == PeerInv /\ [Next]_vars => OnceInv'
<1> SUFFICES ASSUME PeerInv, [Next]_vars PROVE OnceInv'
  OBVIOUS
<1>1. /\ req \in [Requests -> {"none", "run", "push", "over"}]
      /\ responses \in [Requests -> Nat]
      /\ queue \in Seq(Requests)
      /\ writer = "write" => writing \in Message
  BY DEF PeerInv, StateType, NumberType, QueueType, PlaceType
<1>2. OnceInv
  BY DEF PeerInv
<1>3. ASSUME queue' = queue
      PROVE  (Distinct' <=> Distinct) /\ \A r \in Requests : Queued(r)' <=> Queued(r)
  BY <1>3 DEF Distinct, Queued
<1>4. ASSUME NEW r \in Requests,
             ReadRequest(r) \/ HandlerReturns(r) \/ DropResponse(r) \/ StopRequest(r)
      PROVE  OnceInv'
  <2>1. UNCHANGED <<queue, responses, writer, writing>>
    BY <1>4 DEF ReadRequest, HandlerReturns, DropResponse, StopRequest
  <2>2. req[r] # "over" /\ \E l \in {"run", "push", "over"} : req' = [req EXCEPT ![r] = l]
    BY <1>4 DEF ReadRequest, HandlerReturns, DropResponse, StopRequest, Leave, Active
  <2> QED BY <1>1, <1>2, <1>3, <2>1, <2>2 DEF OnceInv, InHand
<1>5. ASSUME NEW r \in Requests, PushResponse(r) PROVE OnceInv'
  <2>1. /\ UNCHANGED <<responses, writer, writing>> /\ req[r] = "push"
        /\ req' = [req EXCEPT ![r] = "over"] /\ queue' = Append(queue, r)
    BY <1>5 DEF PushResponse, Leave
  <2>2. ~Queued(r) /\ ~InHand(r)
    BY <1>2, <2>1 DEF OnceInv
  <2>3. Distinct' /\ \A s \in Requests : Queued(s)' <=> Queued(s) \/ s = r
    BY <1>1, <1>2, <2>1, <2>2, PushQueue DEF OnceInv
  <2> QED BY <1>1, <1>2, <2>1, <2>2, <2>3 DEF OnceInv, InHand
<1>6. CASE TakeResponse
  <2>1. PICK r \in Requests : r = Head(queue)
    BY <1>1, <1>6, TakeFirst DEF TakeResponse
  <2>2. /\ UNCHANGED <<req, responses>> /\ queue # <<>> /\ queue' = Tail(queue)
        /\ writer = "poll queue" /\ writing' = <<"response", r>>
    BY <1>6, <2>1 DEF TakeResponse
  <2>3. /\ Distinct' /\ Queued(r) /\ ~Queued(r)'
        /\ \A s \in Requests : Queued(s)' => Queued(s)
    BY <1>1, <1>2, <2>1, <2>2, TakeQueue DEF OnceInv
  <2>4. \A s \in Requests : InHand(s)' => s = r
    BY <2>2 DEF InHand
  <2> QED BY <1>2, <2>2, <2>3, <2>4 DEF OnceInv
<1>7. CASE TakeNotification
  <2>1. UNCHANGED <<queue, req, responses>> /\ writing' = <<"notification", Head(chan)>>
    BY <1>7 DEF TakeNotification
  <2>2. \A s \in Requests : ~InHand(s)'
    BY <2>1 DEF InHand
  <2> QED BY <1>2, <1>3, <2>1, <2>2 DEF OnceInv
<1>8. CASE Written
  <2>1. UNCHANGED <<queue, req>> /\ writer = "write" /\ writer' # "write"
    BY <1>8 DEF Written
  <2>2. PICK k \in {"response", "notification"}, r \in Requests : writing = <<k, r>>
    BY <1>1, <2>1, SMT DEF Message
  <2>3. k = "response" => responses' = [responses EXCEPT ![r] = @ + 1]
    BY <1>8, <2>2 DEF Written
  <2>4. k # "response" => responses' = responses
    BY <1>8, <2>2 DEF Written
  <2>5. k = "response" => req[r] = "over" /\ ~Queued(r)
    BY <1>2, <2>1, <2>2 DEF OnceInv, InHand
  <2>6. \A s \in Requests : ~InHand(s)'
    BY <2>1 DEF InHand
  <2>7. \A s \in Requests : responses'[s] # responses[s] => s = r /\ k = "response"
    BY <1>1, <2>3, <2>4
  <2> QED BY <1>2, <1>3, <2>1, <2>5, <2>6, <2>7 DEF OnceInv
<1>9. CASE UNCHANGED <<queue, req, responses>> /\ writer' # "write"
  BY <1>2, <1>3, <1>9 DEF OnceInv, InHand
<1>10. CASE UNCHANGED <<queue, req, responses, writer, writing>>
  BY <1>2, <1>3, <1>10 DEF OnceInv, InHand
<1> QED BY <1>4, <1>5, <1>6, <1>7, <1>8, <1>9, <1>10, ResponseSteps

\* The requests that were read, as RpcPeer counts them.
Executed == {r \in Requests : req[r] # "none"}

\* Every step of the connection is a step of RpcPeer or changes nothing of
\* what it shows.
LEMMA PeerStep == PeerInv /\ [Next]_vars => [Peer!Next]_(Peer!vars)
<1> SUFFICES ASSUME PeerInv, [Next]_vars
             PROVE  \/ \E r \in Requests : Peer!Execute(r) \/ Peer!Respond(r)
                    \/ Executed' = Executed /\ responses' = responses
  BY DEF Peer!Next, Peer!vars, Executed
<1>1. /\ req \in [Requests -> {"none", "run", "push", "over"}]
      /\ responses \in [Requests -> Nat]
      /\ writer = "write" => writing \in Message
  BY DEF PeerInv, StateType, NumberType, PlaceType
<1>2. ASSUME NEW r \in Requests, ReadRequest(r) PROVE Peer!Execute(r)
  <2>1. req[r] = "none" /\ req' = [req EXCEPT ![r] = "run"] /\ responses' = responses
    BY <1>2 DEF ReadRequest
  <2>2. r \notin Executed /\ Executed' = Executed \cup {r}
    BY <1>1, <2>1 DEF Executed
  <2> QED BY <2>1, <2>2 DEF Peer!Execute, Executed
<1>3. ASSUME NEW r \in Requests,
             HandlerReturns(r) \/ PushResponse(r) \/ DropResponse(r) \/ StopRequest(r)
      PROVE  Executed' = Executed /\ responses' = responses
  <2>1. req[r] # "none" /\ \E l \in {"push", "over"} : req' = [req EXCEPT ![r] = l]
    BY <1>3 DEF HandlerReturns, PushResponse, DropResponse, StopRequest, Leave, Active
  <2>2. Executed' = Executed
    BY <1>1, <2>1 DEF Executed
  <2> QED BY <1>3, <2>2 DEF HandlerReturns, PushResponse, DropResponse, StopRequest
<1>4. CASE Written
  <2>1. UNCHANGED req /\ writer = "write"
    BY <1>4 DEF Written
  <2>2. PICK k \in {"response", "notification"}, r \in Requests : writing = <<k, r>>
    BY <1>1, <2>1, SMT DEF Message
  <2>3. Executed' = Executed
    BY <2>1 DEF Executed
  <2>4. CASE k = "response"
    <3>1. req[r] = "over" /\ responses[r] = 0
      BY <2>1, <2>2, <2>4 DEF PeerInv, OnceInv, InHand
    <3>2. responses' = [responses EXCEPT ![r] = @ + 1]
      BY <1>4, <2>2, <2>4 DEF Written
    <3>3. responses' = [responses EXCEPT ![r] = 1]
      BY <3>1, <3>2, <1>1, SMT
    <3>4. r \in Executed
      BY <3>1 DEF Executed
    <3> QED BY <2>3, <3>1, <3>3, <3>4 DEF Peer!Respond, Executed
  <2>5. CASE k # "response"
    BY <1>4, <2>2, <2>3, <2>5 DEF Written
  <2> QED BY <2>4, <2>5
<1>5. CASE TakeResponse \/ TakeNotification \/ UNCHANGED <<queue, req, responses>>
  BY <1>5 DEF TakeResponse, TakeNotification, Executed
<1> QED BY <1>2, <1>3, <1>4, <1>5, ResponseSteps

\* The connection implements RpcPeer: it answers no request twice and none
\* that it has not read, whatever fails and whenever it is shut down.
THEOREM PeerTheorem == Spec => IsPeer
<1>1. Init => PeerInv
  <2> SUFFICES ASSUME Init PROVE OnceInv
    BY PermitInit DEF PermitInv, PeerInv
  <2>1. Len(queue) = 0
    BY DEF Init
  <2>2. Distinct /\ \A r \in Requests : ~Queued(r)
    BY <2>1, SMT DEF Distinct, Queued
  <2> QED BY <2>2 DEF Init, OnceInv, InHand
<1>2. PeerInv /\ [Next]_vars => PeerInv'
  BY OnceStep, NumberStep, QueueStep, PlaceStep DEF PeerInv, StateType
<1>3. Init => Peer!Init
  BY DEF Init, Peer!Init
<1> QED BY <1>1, <1>2, <1>3, PeerStep, PTL DEF Spec, IsPeer, Peer!Spec

=============================================================================
