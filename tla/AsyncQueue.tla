----------------------------- MODULE AsyncQueue -----------------------------
(***************************************************************************)
(* karyon_core::async_util::AsyncQueue: a bounded FIFO queue shared by     *)
(* pushing and receiving tasks, built from one async mutex and two         *)
(* condition variables (not_full for pushers, not_empty for receivers).    *)
(*                                                                         *)
(* A task runs until its next await; another thread may run between any    *)
(* two steps below.  The caller may drop the push or recv future at the    *)
(* await points named in CancelPoints: this is what timeout() and select() *)
(* do with the future that loses.                                          *)
(***************************************************************************)
EXTENDS Naturals, Sequences, FiniteSets, CondVar

CONSTANTS
    Pushers,      \* tasks that call push
    Receivers,    \* tasks that call recv
    Capacity,     \* AsyncQueue::new's argument
    MaxPush,      \* bound: calls of push per task
    CancelPoints, \* awaits at which a caller may drop its future
    NoTask        \* the mutex has no holder

Tasks == Pushers \cup Receivers

ASSUME CapacityAssumption == Capacity \in Nat \ {0}

ASSUME TasksAssumption ==
    /\ Pushers \cap Receivers = {}
    /\ IsFiniteSet(Pushers)
    /\ IsFiniteSet(Receivers)
    /\ NoTask \notin Tasks

ASSUME BoundAssumption == MaxPush \in Nat

ASSUME CancelAssumption == CancelPoints \subseteq {"lock", "wait", "relock"}

VARIABLES
    queue,   \* the VecDeque behind the mutex
    lock,    \* the holder of the mutex guard, or NoTask
    pc,      \* where each task's push or recv call is
    calls,   \* calls made by each pusher; its current item is <<p, calls[p]>>
    taken    \* history: the items returned by recv, in order

vars == <<queue, lock, pc, calls, taken, waiting, signaled>>

Items == Pushers \X (1 .. MaxPush)

(***************************************************************************)
(* "lock": awaiting the first lock; "held": owns the guard and is about to *)
(* test the queue; "wait": awaiting CondVarAwait; "relock": CondVar::wait  *)
(* is awaiting the lock again; "unlock": the item has moved and the guard  *)
(* is still held.                                                          *)
(***************************************************************************)
PCs == {"idle", "lock", "held", "wait", "relock", "unlock"}

TypeOK ==
    /\ queue \in Seq(Items)
    /\ lock \in Tasks \cup {NoTask}
    /\ pc \in [Tasks -> PCs]
    /\ calls \in [Pushers -> 0 .. MaxPush]
    /\ taken \in Seq(Items)
    /\ waiting \subseteq Tasks
    /\ signaled \subseteq Tasks

Init ==
    /\ queue = <<>>
    /\ lock = NoTask
    /\ pc = [t \in Tasks |-> "idle"]
    /\ calls = [p \in Pushers |-> 0]
    /\ taken = <<>>
    /\ WakersInit

Goto(t, l) == pc' = [pc EXCEPT ![t] = l]

----------------------------------------------------------------------------
(* Steps shared by push and recv.                                          *)

\* The tasks that wait on the same condition variable as t.
Peers(t) == IF t \in Pushers THEN Pushers ELSE Receivers

CallPush(p) ==
    /\ pc[p] = "idle"
    /\ calls[p] < MaxPush
    /\ calls' = [calls EXCEPT ![p] = @ + 1]
    /\ Goto(p, "lock")
    /\ UNCHANGED <<queue, lock, taken, waiting, signaled>>

CallRecv(r) ==
    /\ pc[r] = "idle"
    /\ Goto(r, "lock")
    /\ UNCHANGED <<queue, lock, calls, taken, waiting, signaled>>

\* lock().await of push and recv, and the re-lock at the end of
\* CondVar::wait.
Acquire(t) ==
    /\ pc[t] \in {"lock", "relock"}
    /\ lock = NoTask
    /\ lock' = t
    /\ Goto(t, "held")
    /\ UNCHANGED <<queue, calls, taken, waiting, signaled>>

\* CondVarAwait's first poll: the waker is stored, then the guard released.
BlockOn(t) ==
    /\ Put(t)
    /\ lock' = NoTask
    /\ Goto(t, "wait")
    /\ UNCHANGED <<queue, calls, taken>>

\* CondVarAwait is polled after a signal and CondVar::wait goes on to lock.
Wake(t) ==
    /\ pc[t] = "wait"
    /\ Awake(t)
    /\ Goto(t, "relock")
    /\ UNCHANGED <<queue, lock, calls, taken>>

\* The guard goes out of scope and the call returns.
Return(t) ==
    /\ pc[t] = "unlock"
    /\ lock' = NoTask
    /\ Goto(t, "idle")
    /\ UNCHANGED <<queue, calls, taken, waiting, signaled>>

\* The caller drops the future.  A future that only awaits the mutex leaves
\* nothing behind; one that awaits the condition variable runs its Drop.
Cancel(t) ==
    /\ pc[t] \in CancelPoints
    /\ \/ /\ pc[t] \in {"lock", "relock"}
          /\ UNCHANGED wakers
       \/ /\ pc[t] = "wait"
          /\ DropWait(t, Peers(t))
    /\ Goto(t, "idle")
    /\ UNCHANGED <<queue, lock, calls, taken>>

----------------------------------------------------------------------------
(* push                                                                    *)

PushFull(p) ==
    /\ pc[p] = "held"
    /\ Len(queue) >= Capacity
    /\ BlockOn(p)

\* PushItem that forgets to signal not_empty.
PushItemSilent(p) ==
    /\ pc[p] = "held"
    /\ Len(queue) < Capacity
    /\ queue' = Append(queue, <<p, calls[p]>>)
    /\ Goto(p, "unlock")
    /\ UNCHANGED <<lock, calls, taken, waiting, signaled>>

PushItem(p) ==
    /\ pc[p] = "held"
    /\ Len(queue) < Capacity
    /\ queue' = Append(queue, <<p, calls[p]>>)
    /\ Signal(Receivers)
    /\ Goto(p, "unlock")
    /\ UNCHANGED <<lock, calls, taken>>

(* recv                                                                    *)

RecvEmpty(r) ==
    /\ pc[r] = "held"
    /\ queue = <<>>
    /\ BlockOn(r)

\* RecvItem that takes the newest item.
RecvNewest(r) ==
    /\ pc[r] = "held"
    /\ queue # <<>>
    /\ taken' = Append(taken, queue[Len(queue)])
    /\ queue' = SubSeq(queue, 1, Len(queue) - 1)
    /\ Signal(Pushers)
    /\ Goto(r, "unlock")
    /\ UNCHANGED <<lock, calls>>

RecvItem(r) ==
    /\ pc[r] = "held"
    /\ queue # <<>>
    /\ taken' = Append(taken, Head(queue))
    /\ queue' = Tail(queue)
    /\ Signal(Pushers)
    /\ Goto(r, "unlock")
    /\ UNCHANGED <<lock, calls>>

Next ==
    \/ \E p \in Pushers : CallPush(p) \/ PushFull(p) \/ PushItem(p)
    \/ \E r \in Receivers : CallRecv(r) \/ RecvEmpty(r) \/ RecvItem(r)
    \/ \E t \in Tasks : Acquire(t) \/ Wake(t) \/ Return(t) \/ Cancel(t)

Spec == Init /\ [][Next]_vars

(***************************************************************************)
(* The executor keeps polling a task that can run, and the async mutex     *)
(* grants the lock in arrival order, so a task that keeps asking gets it.  *)
(* Callers are under no obligation to call or to cancel.                   *)
(***************************************************************************)
Step(t) == Wake(t) \/ Return(t)

Fairness ==
    /\ \A p \in Pushers : WF_vars(PushFull(p)) /\ WF_vars(PushItem(p))
    /\ \A r \in Receivers : WF_vars(RecvEmpty(r)) /\ WF_vars(RecvItem(r))
    /\ \A t \in Tasks : WF_vars(Step(t)) /\ SF_vars(Acquire(t))

FairSpec == Spec /\ Fairness

----------------------------------------------------------------------------
(* Properties                                                              *)

\* The queue never holds more than Capacity items, however pushers that were
\* woken together race for the freed place (push re-tests in its loop).
CapacityRespected == Len(queue) <= Capacity

\* The tasks past a wake-up that have yet to test the queue again.
InFlight(S) == (signaled \cap S) \cup {t \in S : pc[t] \in {"relock", "held"}}

\* No wake-up is lost: while a receiver sleeps unsignaled, every queued item
\* has a receiver on its way to take it ("Awaits while the queue is empty").
NoStrandedReceiver ==
    waiting \cap Receivers # {} =>
        Len(queue) <= Cardinality(InFlight(Receivers))

\* While a pusher sleeps unsignaled, every free place has a pusher on its way
\* to fill it ("Awaits while the queue is full").
NoStrandedPusher ==
    waiting \cap Pushers # {} =>
        Capacity - Len(queue) <= Cardinality(InFlight(Pushers))

\* No wake-up is lost for either side.
NobodyStranded == NoStrandedReceiver /\ NoStrandedPusher

\* Every push and recv takes effect at one step as the bounded queue's.
Abstract == INSTANCE BoundedQueue WITH buf <- queue, out <- taken

\* AsyncQueue is a bounded FIFO queue: items come out once, in push order.
ImplementsBoundedQueue == Abstract!Spec

\* A recv that sleeps while items are queued is woken, or the items are
\* taken by others.
SleepersServed ==
    \A r \in Receivers :
        (pc[r] = "wait" /\ queue # <<>>) ~> (pc[r] # "wait" \/ queue = <<>>)

=============================================================================
