-------------------------- MODULE AsyncQueueProofs --------------------------
(***************************************************************************)
(* Proofs about AsyncQueue for any number of tasks and any capacity.       *)
(***************************************************************************)
EXTENDS AsyncQueue, FiniteSetTheorems, TLAPS

\* The mutex guard: exactly the holder is between lock and unlock.
LockInv == \A t \in Tasks : (lock = t) <=> (pc[t] \in {"held", "unlock"})

\* A task has a condition variable entry exactly while it awaits one, and the
\* entry is either waiting or signaled.
WakerInv ==
    /\ waiting \cap signaled = {}
    /\ \A t \in Tasks : (t \in waiting \cup signaled) <=> (pc[t] = "wait")

\* A running push has an item.
ItemInv == \A p \in Pushers : pc[p] # "idle" => calls[p] >= 1

\* The part of the invariant that speaks of one task at a time.
LocalInv == TypeOK /\ LockInv /\ WakerInv /\ ItemInv /\ CapacityRespected

\* The constants' assumptions, under one name.
ConstAssumptions ==
    /\ Capacity \in Nat \ {0}
    /\ Pushers \cap Receivers = {}
    /\ IsFiniteSet(Pushers)
    /\ IsFiniteSet(Receivers)
    /\ NoTask \notin Tasks
    /\ MaxPush \in Nat
    /\ CancelPoints \subseteq {"lock", "wait", "relock"}

\* The assumptions hold.
LEMMA Consts == ConstAssumptions
BY CapacityAssumption, TasksAssumption, BoundAssumption, CancelAssumption
   DEF ConstAssumptions

\* The initial state satisfies the local invariant: nothing is queued, held
\* or registered.
LEMMA LocalInit == Init => LocalInv
<1> SUFFICES ASSUME Init PROVE LocalInv
  OBVIOUS
<1>1. queue \in Seq(Items) /\ taken \in Seq(Items) /\ Len(queue) = 0
  BY DEF Init
<1>2. pc \in [Tasks -> PCs] /\ calls \in [Pushers -> 0 .. MaxPush]
  BY Consts DEF Init, PCs, ConstAssumptions
<1>3. TypeOK
  BY <1>1, <1>2 DEF Init, TypeOK, WakersInit
<1>4. LockInv /\ WakerInv /\ ItemInv
  BY Consts DEF Init, LockInv, WakerInv, ItemInv, WakersInit, ConstAssumptions, Tasks
<1>5. CapacityRespected
  BY <1>1, Consts DEF CapacityRespected, ConstAssumptions
<1> QED BY <1>3, <1>4, <1>5 DEF LocalInv

\* Signal moves at most one task of S from waiting to signaled.
LEMMA SignalMoves ==
  ASSUME NEW S, Signal(S)
  PROVE  /\ waiting' \cup signaled' = waiting \cup signaled
         /\ waiting' \subseteq waiting
         /\ signaled \subseteq signaled'
         /\ waiting \cap signaled = {} => waiting' \cap signaled' = {}
BY DEF Signal, wakers

\* DropWait removes the dropped task's entry and keeps every other.
LEMMA DropWaitRemoves ==
  ASSUME NEW S, NEW t, DropWait(t, S), waiting \cap signaled = {}
  PROVE  /\ waiting' \cup signaled' = (waiting \cup signaled) \ {t}
         /\ waiting' \subseteq waiting
         /\ waiting' \cap signaled' = {}
BY DEF DropWait

\* What each action does to a call's place, as a case split of Next.
LEMMA NextCases ==
  ASSUME Next
  PROVE  \/ \E p \in Pushers : CallPush(p)
         \/ \E p \in Pushers : PushFull(p)
         \/ \E p \in Pushers : PushItem(p)
         \/ \E r \in Receivers : CallRecv(r)
         \/ \E r \in Receivers : RecvEmpty(r)
         \/ \E r \in Receivers : RecvItem(r)
         \/ \E t \in Tasks : Acquire(t)
         \/ \E t \in Tasks : Wake(t)
         \/ \E t \in Tasks : Return(t)
         \/ \E t \in Tasks : Cancel(t)
BY DEF Next

\* Every action preserves the local invariant.
LEMMA LocalStep == LocalInv /\ [Next]_vars => LocalInv'
<1> SUFFICES ASSUME LocalInv, [Next]_vars PROVE LocalInv'
  OBVIOUS
<1> USE Consts DEF ConstAssumptions, LocalInv
<1> USE DEF Tasks, TypeOK, PCs, Goto
<1>1. ASSUME NEW p \in Pushers, CallPush(p) PROVE LocalInv'
  BY <1>1 DEF CallPush, LockInv, WakerInv, ItemInv, CapacityRespected
<1>2. ASSUME NEW p \in Pushers, PushFull(p) PROVE LocalInv'
  BY <1>2 DEF PushFull, BlockOn, Put, LockInv, WakerInv, ItemInv, CapacityRespected
<1>3. ASSUME NEW p \in Pushers, PushItem(p) PROVE LocalInv'
  <2>1. <<p, calls[p]>> \in Items
    BY <1>3 DEF PushItem, ItemInv, Items
  <2>2. queue' \in Seq(Items) /\ Len(queue') = Len(queue) + 1
    BY <1>3, <2>1 DEF PushItem
  <2>3. CapacityRespected'
    BY <1>3, <2>2 DEF PushItem, CapacityRespected
  <2>4. Signal(Receivers)
    BY <1>3 DEF PushItem
  <2>5. WakerInv' /\ waiting' \subseteq Tasks /\ signaled' \subseteq Tasks
    BY <1>3, <2>4, SignalMoves DEF PushItem, WakerInv
  <2>6. LockInv' /\ ItemInv' /\ pc' \in [Tasks -> PCs]
    BY <1>3 DEF PushItem, LockInv, ItemInv
  <2> QED BY <1>3, <2>2, <2>3, <2>5, <2>6 DEF PushItem
<1>4. ASSUME NEW r \in Receivers, CallRecv(r) PROVE LocalInv'
  BY <1>4 DEF CallRecv, LockInv, WakerInv, ItemInv, CapacityRespected
<1>5. ASSUME NEW r \in Receivers, RecvEmpty(r) PROVE LocalInv'
  BY <1>5 DEF RecvEmpty, BlockOn, Put, LockInv, WakerInv, ItemInv, CapacityRespected
<1>6. ASSUME NEW r \in Receivers, RecvItem(r) PROVE LocalInv'
  <2>1. queue' \in Seq(Items) /\ Len(queue') = Len(queue) - 1 /\ taken' \in Seq(Items)
    BY <1>6 DEF RecvItem
  <2>2. CapacityRespected'
    BY <2>1 DEF CapacityRespected
  <2>3. Signal(Pushers)
    BY <1>6 DEF RecvItem
  <2>4. WakerInv' /\ waiting' \subseteq Tasks /\ signaled' \subseteq Tasks
    BY <1>6, <2>3, SignalMoves DEF RecvItem, WakerInv
  <2>5. LockInv' /\ ItemInv' /\ pc' \in [Tasks -> PCs]
    BY <1>6 DEF RecvItem, LockInv, ItemInv
  <2> QED BY <1>6, <2>1, <2>2, <2>4, <2>5 DEF RecvItem
<1>7. ASSUME NEW t \in Tasks, Acquire(t) PROVE LocalInv'
  BY <1>7 DEF Acquire, LockInv, WakerInv, ItemInv, CapacityRespected
<1>8. ASSUME NEW t \in Tasks, Wake(t) PROVE LocalInv'
  BY <1>8 DEF Wake, Awake, LockInv, WakerInv, ItemInv, CapacityRespected
<1>9. ASSUME NEW t \in Tasks, Return(t) PROVE LocalInv'
  BY <1>9 DEF Return, LockInv, WakerInv, ItemInv, CapacityRespected
<1>10. ASSUME NEW t \in Tasks, Cancel(t) PROVE LocalInv'
  <2>1. WakerInv' /\ waiting' \subseteq Tasks /\ signaled' \subseteq Tasks
    <3>1. CASE pc[t] \in {"lock", "relock"} /\ UNCHANGED wakers
      BY <1>10, <3>1 DEF Cancel, WakerInv, wakers
    <3>2. CASE pc[t] = "wait" /\ DropWait(t, Peers(t))
      BY <1>10, <3>2, DropWaitRemoves DEF Cancel, WakerInv
    <3> QED BY <1>10, <3>1, <3>2 DEF Cancel
  <2>2. LockInv' /\ ItemInv' /\ CapacityRespected'
    BY <1>10 DEF Cancel, LockInv, ItemInv, CapacityRespected
  <2> QED BY <1>10, <2>1, <2>2 DEF Cancel
<1>11. CASE UNCHANGED vars
  BY <1>11 DEF vars, LockInv, WakerInv, ItemInv, CapacityRespected
<1> QED BY <1>1, <1>2, <1>3, <1>4, <1>5, <1>6, <1>7, <1>8, <1>9, <1>10, <1>11, NextCases

----------------------------------------------------------------------------
(* No wake-up is lost.                                                     *)

\* The two groups of waiters.
Side(S) == S = Pushers \/ S = Receivers

\* The tasks in flight are finitely many.
LEMMA InFlightFinite ==
  ASSUME NEW S, Side(S)
  PROVE  IsFiniteSet(InFlight(S)) /\ Cardinality(InFlight(S)) \in Nat
<1>1. InFlight(S) \subseteq S /\ IsFiniteSet(S)
  BY Consts DEF Side, InFlight, ConstAssumptions
<1> QED BY <1>1, FS_Subset, FS_CardinalityType

\* A larger finite set has at least as many elements.
LEMMA CardMono ==
  ASSUME NEW A, NEW B, IsFiniteSet(B), A \subseteq B
  PROVE  Cardinality(A) <= Cardinality(B)
BY FS_Subset

\* Adding one new element.
LEMMA CardAdd ==
  ASSUME NEW A, IsFiniteSet(A), NEW w, w \notin A
  PROVE  Cardinality(A \cup {w}) = Cardinality(A) + 1
BY FS_AddElement

\* Removing one element.
LEMMA CardDel ==
  ASSUME NEW A, IsFiniteSet(A), NEW w, w \in A
  PROVE  Cardinality(A \ {w}) = Cardinality(A) - 1
BY FS_RemoveElement

\* The dropped future hands its signal over, so the number of tasks in flight
\* does not fall while another of its group sleeps (Drop for CondVarAwait).
LEMMA HandOver ==
  ASSUME LocalInv, NEW t \in Tasks, Cancel(t), "relock" \notin CancelPoints,
         NEW S, Side(S), waiting' \cap S # {}
  PROVE  /\ waiting \cap S # {}
         /\ Cardinality(InFlight(S)) <= Cardinality(InFlight(S)')
<1> USE Consts DEF ConstAssumptions, LocalInv, TypeOK
<1>0. IsFiniteSet(InFlight(S)') /\ IsFiniteSet(InFlight(S))
  <2>1. InFlight(S)' \subseteq S /\ IsFiniteSet(S)
    BY DEF Side, InFlight
  <2> QED BY <2>1, FS_Subset, InFlightFinite
<1>1. CASE pc[t] = "lock" /\ UNCHANGED wakers
  <2>1. InFlight(S)' = InFlight(S)
    BY <1>1 DEF Cancel, Goto, InFlight, wakers, Side, Tasks
  <2> QED BY <1>0, <1>1, <2>1, CardMono DEF wakers
<1>2. CASE pc[t] = "wait" /\ t \in waiting /\ waiting' = waiting \ {t} /\ UNCHANGED signaled
  <2>1. InFlight(S)' = InFlight(S)
    BY <1>2 DEF Cancel, Goto, InFlight, Side, Tasks
  <2> QED BY <1>0, <1>2, <2>1, CardMono
<1>3. CASE /\ pc[t] = "wait" /\ t \in signaled /\ waiting \cap Peers(t) = {}
           /\ signaled' = signaled \ {t} /\ UNCHANGED waiting
  <2>1. S # Peers(t)
    BY <1>3
  <2>2. t \notin S
    BY <2>1 DEF Peers, Side, Tasks
  <2>3. InFlight(S)' = InFlight(S)
    BY <1>3, <2>2 DEF Cancel, Goto, InFlight, Side, Tasks
  <2> QED BY <1>0, <1>3, <2>3, CardMono
<1>4. ASSUME pc[t] = "wait", t \in signaled, NEW w \in waiting \cap Peers(t),
             waiting' = waiting \ {w}, signaled' = (signaled \ {t}) \cup {w}
      PROVE  /\ waiting \cap S # {}
             /\ Cardinality(InFlight(S)) <= Cardinality(InFlight(S)')
  <2>1. pc' = [pc EXCEPT ![t] = "idle"]
    BY DEF Cancel, Goto
  <2>2. CASE S = Peers(t)
    <3>1. t \in InFlight(S) /\ w \notin InFlight(S) /\ t # w
      BY <1>4, <2>2 DEF InFlight, WakerInv, Peers, Tasks
    <3>2. InFlight(S)' = (InFlight(S) \ {t}) \cup {w}
      BY <1>4, <2>1, <2>2, <3>1 DEF InFlight, WakerInv, Peers, Side, Tasks
    <3>3. IsFiniteSet(InFlight(S) \ {t})
      BY <1>0, FS_Subset
    <3>4. Cardinality(InFlight(S) \ {t}) = Cardinality(InFlight(S)) - 1
      BY <1>0, <3>1, CardDel
    <3>5. Cardinality(InFlight(S)') = Cardinality(InFlight(S) \ {t}) + 1
      BY <3>1, <3>2, <3>3, CardAdd
    <3> QED BY <1>4, <3>4, <3>5, InFlightFinite
  <2>3. CASE S # Peers(t)
    <3>1. t \notin S /\ w \notin S
      BY <2>3 DEF Peers, Side, Tasks
    <3>2. InFlight(S)' = InFlight(S)
      BY <1>4, <2>1, <3>1 DEF InFlight, Side, Tasks
    <3> QED BY <1>0, <1>4, <3>2, CardMono
  <2> QED BY <2>2, <2>3
<1>5. \/ pc[t] = "lock" /\ UNCHANGED wakers
      \/ pc[t] = "wait" /\ DropWait(t, Peers(t))
  BY DEF Cancel
<1> QED BY <1>1, <1>2, <1>3, <1>4, <1>5 DEF DropWait

\* A step that neither moves an item nor ends a wait of group S leaves every
\* task of S that was in flight in flight.
LEMMA NeutralSteps ==
  ASSUME LocalInv, NEW t \in Tasks, NEW S, Side(S),
         \/ t \in Pushers /\ CallPush(t)
         \/ t \in Receivers /\ CallRecv(t)
         \/ Acquire(t)
         \/ Wake(t)
         \/ Return(t)
         \/ pc[t] = "held" /\ t \notin S /\ BlockOn(t)
  PROVE  /\ waiting' \cap S = waiting \cap S
         /\ Cardinality(InFlight(S)) <= Cardinality(InFlight(S)')
<1> USE Consts DEF ConstAssumptions, LocalInv, TypeOK
<1>1. InFlight(S) \subseteq InFlight(S)' /\ waiting' \cap S = waiting \cap S
  BY DEF CallPush, CallRecv, Acquire, Wake, Awake, Return, BlockOn, Put,
         Goto, InFlight, WakerInv, Side, Tasks
<1>2. InFlight(S)' \subseteq S /\ IsFiniteSet(S)
  BY DEF Side, InFlight
<1> QED BY <1>1, <1>2, FS_Subset, CardMono

\* A task of the other group that moves an item signals one sleeper of S.
LEMMA SignalGives ==
  ASSUME LocalInv, NEW t \in Tasks, NEW S, Side(S), t \notin S,
         pc[t] = "held", Goto(t, "unlock"), Signal(S), waiting' \cap S # {}
  PROVE  /\ waiting \cap S # {}
         /\ Cardinality(InFlight(S)') = Cardinality(InFlight(S)) + 1
<1> USE Consts DEF ConstAssumptions, LocalInv, TypeOK
<1>1. waiting \cap S # {}
  BY SignalMoves
<1>2. PICK w \in waiting \cap S :
         waiting' = waiting \ {w} /\ signaled' = signaled \cup {w}
  BY <1>1 DEF Signal
<1>3. w \notin InFlight(S)
  BY DEF InFlight, WakerInv, Side, Tasks
<1>4. InFlight(S)' = InFlight(S) \cup {w}
  BY <1>2 DEF InFlight, Goto, Side, Tasks
<1> QED BY <1>1, <1>3, <1>4, InFlightFinite, CardAdd

\* A task of S that moves an item and signals the other group leaves flight.
LEMMA TakerLands ==
  ASSUME LocalInv, NEW S, Side(S), NEW T, Side(T), S # T, NEW t \in S,
         pc[t] = "held", Goto(t, "unlock"), Signal(T)
  PROVE  /\ waiting' \cap S = waiting \cap S
         /\ Cardinality(InFlight(S)') = Cardinality(InFlight(S)) - 1
<1> USE Consts DEF ConstAssumptions, LocalInv, TypeOK
<1>1. S \cap T = {}
  BY DEF Side
<1>2. waiting' \cap S = waiting \cap S /\ signaled' \cap S = signaled \cap S
  BY <1>1 DEF Signal, wakers
<1>3. t \in InFlight(S) /\ t \notin signaled
  BY DEF InFlight, WakerInv, Side, Tasks
<1>4. InFlight(S)' = InFlight(S) \ {t}
  BY <1>2, <1>3 DEF InFlight, Goto, Side, Tasks
<1> QED BY <1>2, <1>3, <1>4, InFlightFinite, CardDel

\* No step loses a receiver's wake-up, provided no caller drops a recv that is
\* taking the mutex again after its wait.
LEMMA ReceiverStep ==
  ASSUME "relock" \notin CancelPoints, LocalInv, NoStrandedReceiver, [Next]_vars
  PROVE  NoStrandedReceiver'
<1> USE Consts DEF ConstAssumptions
<1>0. SUFFICES ASSUME waiting' \cap Receivers # {}
               PROVE  Len(queue') <= Cardinality(InFlight(Receivers)')
  BY DEF NoStrandedReceiver
<1> DEFINE F == InFlight(Receivers)
<1>s. Side(Receivers) /\ Side(Pushers)
  BY DEF Side
<1>b. Len(queue) \in Nat /\ Cardinality(F) \in Nat /\ Cardinality(F') \in Nat
  <2>1. F' \subseteq Receivers
    BY DEF InFlight
  <2> QED BY <2>1, <1>s, InFlightFinite, FS_Subset, FS_CardinalityType
          DEF LocalInv, TypeOK
<1>1. ASSUME NEW t \in Tasks,
             \/ t \in Pushers /\ CallPush(t)
             \/ t \in Receivers /\ CallRecv(t)
             \/ Acquire(t) \/ Wake(t) \/ Return(t)
             \/ t \in Pushers /\ PushFull(t)
      PROVE  Len(queue') <= Cardinality(F')
  <2>1. /\ waiting' \cap Receivers = waiting \cap Receivers
        /\ Cardinality(F) <= Cardinality(F')
    BY <1>1, <1>s, NeutralSteps DEF PushFull
  <2>2. queue' = queue
    BY <1>1 DEF CallPush, CallRecv, Acquire, Wake, Return, PushFull, BlockOn
  <2> QED BY <1>0, <1>b, <2>1, <2>2 DEF NoStrandedReceiver
<1>2. ASSUME NEW p \in Pushers, PushItem(p) PROVE Len(queue') <= Cardinality(F')
  <2>1. Len(queue') = Len(queue) + 1
    BY <1>2 DEF PushItem, LocalInv, TypeOK
  <2>2. p \in Tasks /\ p \notin Receivers
    BY DEF Tasks
  <2>3. waiting \cap Receivers # {} /\ Cardinality(F') = Cardinality(F) + 1
    BY <1>0, <1>2, <1>s, <2>2, SignalGives DEF PushItem
  <2> QED BY <1>b, <2>1, <2>3 DEF NoStrandedReceiver
<1>3. ASSUME NEW r \in Receivers, RecvEmpty(r) PROVE Len(queue') <= Cardinality(F')
  BY <1>3, <1>b DEF RecvEmpty, BlockOn
<1>4. ASSUME NEW r \in Receivers, RecvItem(r) PROVE Len(queue') <= Cardinality(F')
  <2>1. Len(queue') = Len(queue) - 1
    BY <1>4 DEF RecvItem, LocalInv, TypeOK
  <2>2. Pushers # Receivers
    BY <1>4
  <2>3. waiting' \cap Receivers = waiting \cap Receivers /\ Cardinality(F') = Cardinality(F) - 1
    BY <1>4, <1>s, <2>2, TakerLands DEF RecvItem
  <2> QED BY <1>0, <1>b, <2>1, <2>3 DEF NoStrandedReceiver
<1>5. ASSUME NEW t \in Tasks, Cancel(t) PROVE Len(queue') <= Cardinality(F')
  <2>1. waiting \cap Receivers # {} /\ Cardinality(F) <= Cardinality(F')
    BY <1>0, <1>5, <1>s, HandOver
  <2>2. queue' = queue
    BY <1>5 DEF Cancel
  <2> QED BY <1>b, <2>1, <2>2 DEF NoStrandedReceiver
<1>6. CASE UNCHANGED vars
  BY <1>0, <1>6 DEF vars, NoStrandedReceiver, InFlight
<1> QED BY <1>1, <1>2, <1>3, <1>4, <1>5, <1>6, NextCases DEF Tasks

\* No step loses a pusher's wake-up, provided no caller drops a push that is
\* taking the mutex again after its wait.
LEMMA PusherStep ==
  ASSUME "relock" \notin CancelPoints, LocalInv, NoStrandedPusher, [Next]_vars
  PROVE  NoStrandedPusher'
<1> USE Consts DEF ConstAssumptions
<1>0. SUFFICES ASSUME waiting' \cap Pushers # {}
               PROVE  Capacity - Len(queue') <= Cardinality(InFlight(Pushers)')
  BY DEF NoStrandedPusher
<1> DEFINE F == InFlight(Pushers)
<1>s. Side(Receivers) /\ Side(Pushers)
  BY DEF Side
<1>b. Len(queue) \in Nat /\ Cardinality(F) \in Nat /\ Cardinality(F') \in Nat
  <2>1. F' \subseteq Pushers
    BY DEF InFlight
  <2> QED BY <2>1, <1>s, InFlightFinite, FS_Subset, FS_CardinalityType
          DEF LocalInv, TypeOK
<1>1. ASSUME NEW t \in Tasks,
             \/ t \in Pushers /\ CallPush(t)
             \/ t \in Receivers /\ CallRecv(t)
             \/ Acquire(t) \/ Wake(t) \/ Return(t)
             \/ t \in Receivers /\ RecvEmpty(t)
      PROVE  Capacity - Len(queue') <= Cardinality(F')
  <2>1. /\ waiting' \cap Pushers = waiting \cap Pushers
        /\ Cardinality(F) <= Cardinality(F')
    BY <1>1, <1>s, NeutralSteps DEF RecvEmpty
  <2>2. queue' = queue
    BY <1>1 DEF CallPush, CallRecv, Acquire, Wake, Return, RecvEmpty, BlockOn
  <2> QED BY <1>0, <1>b, <2>1, <2>2 DEF NoStrandedPusher
<1>2. ASSUME NEW r \in Receivers, RecvItem(r) PROVE Capacity - Len(queue') <= Cardinality(F')
  <2>1. Len(queue') = Len(queue) - 1
    BY <1>2 DEF RecvItem, LocalInv, TypeOK
  <2>2. r \in Tasks /\ r \notin Pushers
    BY DEF Tasks
  <2>3. waiting \cap Pushers # {} /\ Cardinality(F') = Cardinality(F) + 1
    BY <1>0, <1>2, <1>s, <2>2, SignalGives DEF RecvItem
  <2> QED BY <1>b, <2>1, <2>3 DEF NoStrandedPusher
<1>3. ASSUME NEW p \in Pushers, PushFull(p) PROVE Capacity - Len(queue') <= Cardinality(F')
  BY <1>3, <1>b DEF PushFull, BlockOn
<1>4. ASSUME NEW p \in Pushers, PushItem(p) PROVE Capacity - Len(queue') <= Cardinality(F')
  <2>1. Len(queue') = Len(queue) + 1
    BY <1>4 DEF PushItem, LocalInv, TypeOK
  <2>2. Pushers # Receivers
    BY <1>4
  <2>3. waiting' \cap Pushers = waiting \cap Pushers /\ Cardinality(F') = Cardinality(F) - 1
    BY <1>4, <1>s, <2>2, TakerLands DEF PushItem
  <2> QED BY <1>0, <1>b, <2>1, <2>3 DEF NoStrandedPusher
<1>5. ASSUME NEW t \in Tasks, Cancel(t) PROVE Capacity - Len(queue') <= Cardinality(F')
  <2>1. waiting \cap Pushers # {} /\ Cardinality(F) <= Cardinality(F')
    BY <1>0, <1>5, <1>s, HandOver
  <2>2. queue' = queue
    BY <1>5 DEF Cancel
  <2> QED BY <1>b, <2>1, <2>2 DEF NoStrandedPusher
<1>6. CASE UNCHANGED vars
  BY <1>0, <1>6 DEF vars, NoStrandedPusher, InFlight
<1> QED BY <1>1, <1>2, <1>3, <1>4, <1>5, <1>6, NextCases DEF Tasks

----------------------------------------------------------------------------
(* The theorems.                                                           *)

\* Every variable keeps its type: in particular only items a push call was
\* given are ever queued or returned.
THEOREM TypeCorrect == Spec => []TypeOK
<1>1. LocalInv => TypeOK
  BY DEF LocalInv
<1> QED BY <1>1, LocalInit, LocalStep, PTL DEF Spec

\* push's loop never lets the queue grow past the capacity given to new.
THEOREM CapacityTheorem == Spec => []CapacityRespected
<1>1. LocalInv => CapacityRespected
  BY DEF LocalInv
<1> QED BY <1>1, LocalInit, LocalStep, PTL DEF Spec

\* As long as no caller drops a future that is taking the mutex again after
\* its wait, neither recv nor push loses a wake-up, whatever else is dropped.
THEOREM NoLostWakeup ==
  ASSUME "relock" \notin CancelPoints
  PROVE  Spec => []NobodyStranded
<1> DEFINE I == LocalInv /\ NoStrandedReceiver /\ NoStrandedPusher
<1>1. Init => I
  BY LocalInit DEF Init, WakersInit, NoStrandedReceiver, NoStrandedPusher
<1>2. I /\ [Next]_vars => I'
  BY LocalStep, ReceiverStep, PusherStep
<1>3. I => NobodyStranded
  BY DEF NobodyStranded
<1> QED BY <1>1, <1>2, <1>3, PTL DEF Spec

\* AsyncQueue is a bounded FIFO queue: each push and each recv takes effect at
\* the step that moves the item, every other step is invisible to callers.
THEOREM Refinement == Spec => ImplementsBoundedQueue
<1>1. Init => Abstract!Init
  BY DEF Init, Abstract!Init
<1>2. ASSUME LocalInv, [Next]_vars PROVE [Abstract!Next]_(Abstract!vars)
  <2>1. ASSUME NEW p \in Pushers, PushItem(p) PROVE Abstract!Push
    <3>1. <<p, calls[p]>> \in Items
      BY <1>2, <2>1 DEF LocalInv, TypeOK, ItemInv, PushItem, Items
    <3> QED BY <2>1, <3>1 DEF PushItem, Abstract!Push
  <2>2. ASSUME NEW r \in Receivers, RecvItem(r) PROVE Abstract!Recv
    BY <2>2 DEF RecvItem, Abstract!Recv
  <2>3. ASSUME NEW p \in Pushers, CallPush(p) \/ PushFull(p)
        PROVE  UNCHANGED Abstract!vars
    BY <2>3 DEF CallPush, PushFull, BlockOn, Abstract!vars
  <2>4. ASSUME NEW r \in Receivers, CallRecv(r) \/ RecvEmpty(r)
        PROVE  UNCHANGED Abstract!vars
    BY <2>4 DEF CallRecv, RecvEmpty, BlockOn, Abstract!vars
  <2>5. ASSUME NEW t \in Tasks, Acquire(t) \/ Wake(t) \/ Return(t) \/ Cancel(t)
        PROVE  UNCHANGED Abstract!vars
    BY <2>5 DEF Acquire, Wake, Return, Cancel, Abstract!vars
  <2>6. CASE UNCHANGED vars
    BY <2>6 DEF vars, Abstract!vars
  <2> QED BY <1>2, <2>1, <2>2, <2>3, <2>4, <2>5, <2>6, NextCases DEF Abstract!Next
<1> QED BY <1>1, <1>2, LocalInit, LocalStep, PTL
        DEF Spec, ImplementsBoundedQueue, Abstract!Spec

=============================================================================
