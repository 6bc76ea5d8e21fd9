------------------------------ MODULE CondWait ------------------------------
(***************************************************************************)
(* karyon_core::async_util::CondWait: a boolean flag behind an async       *)
(* mutex, with a condition variable for the tasks that wait until it is    *)
(* set.  TaskGroup uses one waiter and signal (stop_signal, cancel_flag);  *)
(* the JSON-RPC server uses several waiters and broadcast (writer_done).   *)
(***************************************************************************)
EXTENDS Naturals, FiniteSets, CondVar

CONSTANTS
    Waiters,    \* tasks that call wait
    Signalers,  \* tasks that call signal or broadcast, once each
    Resetters,  \* tasks that call reset, once each; no task is in two sets
    NoTask      \* the mutex has no holder

Tasks == Waiters \cup Signalers \cup Resetters

VARIABLES
    style,  \* "signal" or "broadcast": what this CondWait's signalers call
    users,  \* the waiters this CondWait has
    w,      \* the flag
    lock,   \* the holder of the flag's mutex, or NoTask
    pc      \* where each task's call is

usage == <<style, users>>
vars == <<usage, w, lock, pc, waiting, signaled>>

PCs == {"idle", "lock", "held", "wait", "relock", "notify", "done"}

TypeOK ==
    /\ style \in {"signal", "broadcast"}
    /\ users \subseteq Waiters
    /\ w \in BOOLEAN
    /\ lock \in Tasks \cup {NoTask}
    /\ pc \in [Tasks -> PCs]
    /\ waiting \cap signaled = {}

\* signal wakes one task, so several waiters take a broadcast.
Init ==
    /\ style \in {"signal", "broadcast"}
    /\ users \in SUBSET Waiters
    /\ style = "signal" => \A s, t \in users : s = t
    /\ w = FALSE
    /\ lock = NoTask
    /\ pc = [t \in Tasks |-> "idle"]
    /\ WakersInit

Goto(t, l) == pc' = [pc EXCEPT ![t] = l]

Call(t) ==
    /\ pc[t] = "idle"
    /\ t \in Waiters => t \in users
    /\ Goto(t, "lock")
    /\ UNCHANGED <<usage, w, lock, waiting, signaled>>

\* self.w.lock().await, and the re-lock at the end of CondVar::wait.
Acquire(t) ==
    /\ pc[t] \in {"lock", "relock"}
    /\ lock = NoTask
    /\ lock' = t
    /\ Goto(t, "held")
    /\ UNCHANGED <<usage, w, waiting, signaled>>

----------------------------------------------------------------------------
(* wait                                                                    *)

\* The flag is set: wait returns and the guard is dropped.
WaitReturns(t) ==
    /\ pc[t] = "held"
    /\ w
    /\ lock' = NoTask
    /\ Goto(t, "done")
    /\ UNCHANGED <<usage, w, waiting, signaled>>

\* The flag is not set: register, release the guard.
WaitBlocks(t) ==
    /\ pc[t] = "held"
    /\ ~w
    /\ Put(t)
    /\ lock' = NoTask
    /\ Goto(t, "wait")
    /\ UNCHANGED <<usage, w>>

WaitWakes(t) ==
    /\ pc[t] = "wait"
    /\ Awake(t)
    /\ Goto(t, "relock")
    /\ UNCHANGED <<usage, w, lock>>

\* select or timeout drops the wait future.
WaitDropped(t) ==
    /\ pc[t] \in {"lock", "wait", "relock"}
    /\ IF pc[t] = "wait" THEN DropWait(t, Waiters) ELSE UNCHANGED wakers
    /\ Goto(t, "done")
    /\ UNCHANGED <<usage, w, lock>>

----------------------------------------------------------------------------
(* signal, broadcast, reset                                                *)

\* *self.w.lock().await = true; the guard is a temporary of this statement.
SetFlag(t) ==
    /\ pc[t] = "held"
    /\ w' = TRUE
    /\ lock' = NoTask
    /\ Goto(t, "notify")
    /\ UNCHANGED <<usage, waiting, signaled>>

\* The condition variable's signal in broadcast's place.
NotifyOne(t) ==
    /\ pc[t] = "notify"
    /\ Signal(Waiters)
    /\ Goto(t, "done")
    /\ UNCHANGED <<usage, w, lock>>

Notify(t) ==
    /\ pc[t] = "notify"
    /\ IF style = "broadcast" THEN Broadcast(Waiters) ELSE Signal(Waiters)
    /\ Goto(t, "done")
    /\ UNCHANGED <<usage, w, lock>>

Reset(t) ==
    /\ pc[t] = "held"
    /\ w' = FALSE
    /\ lock' = NoTask
    /\ Goto(t, "done")
    /\ UNCHANGED <<usage, waiting, signaled>>

WaiterSteps(t) == WaitReturns(t) \/ WaitBlocks(t) \/ WaitWakes(t)
SignalerSteps(t) == SetFlag(t) \/ Notify(t)

Next ==
    \/ \E t \in Tasks : Call(t) \/ Acquire(t)
    \/ \E t \in Waiters : WaiterSteps(t) \/ WaitDropped(t)
    \/ \E t \in Signalers : SignalerSteps(t)
    \/ \E t \in Resetters : Reset(t)

Spec == Init /\ [][Next]_vars

Fairness ==
    /\ \A t \in Tasks : SF_vars(Acquire(t))
    /\ \A t \in Waiters : WF_vars(WaiterSteps(t))
    /\ \A t \in Signalers : WF_vars(SignalerSteps(t))
    /\ \A t \in Resetters : WF_vars(Reset(t))

FairSpec == Spec /\ Fairness

----------------------------------------------------------------------------
(* Properties                                                              *)

Notifying == \E t \in Signalers : pc[t] = "notify"

\* Once the flag is set and its setter has notified, no task sleeps on the
\* condition variable: the flag is tested under the lock that sets it.
NoSleeperWhenSet ==
    /\ TypeOK
    /\ w /\ ~Notifying => waiting \cap Waiters = {}

\* A wait that starts before or after the flag is set ends, unless a reset
\* takes the flag away.
WaitEnds ==
    \A t \in Waiters :
        (w /\ pc[t] \in {"lock", "wait"}) ~> (pc[t] = "done" \/ ~w)

=============================================================================
