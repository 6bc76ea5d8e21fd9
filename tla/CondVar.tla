------------------------------ MODULE CondVar ------------------------------
(***************************************************************************)
(* karyon_core::async_util::CondVar: the waker list of a condition         *)
(* variable used with an async mutex.                                      *)
(*                                                                         *)
(* Wakers.wakers maps a waiter id to an optional waker.  A waiter has at   *)
(* most one entry at a time and ids never repeat, so an entry is named by  *)
(* the task that owns it: the task is in "waiting" while its entry is      *)
(* Some(waker) and in "signaled" while it is None (the waker was taken but *)
(* the task has not been polled since).  Every operation runs under the    *)
(* CondVar's own synchronous lock and is one step.                         *)
(*                                                                         *)
(* Several condition variables share the two variables: each operator      *)
(* takes the set S of tasks that may wait on the condition variable it     *)
(* works on.                                                               *)
(***************************************************************************)

VARIABLES
    waiting,   \* tasks whose waker is stored
    signaled   \* tasks whose waker was taken by signal or broadcast

wakers == <<waiting, signaled>>

WakersInit ==
    /\ waiting = {}
    /\ signaled = {}

\* First poll of CondVarAwait: store the waker.
Put(t) ==
    /\ waiting' = waiting \cup {t}
    /\ UNCHANGED signaled

\* Wakers::wake(true).  The map is a HashMap, so which unsignaled waiter is
\* found first is arbitrary; with none the signal has no effect.
Signal(S) ==
    \/ /\ waiting \cap S = {}
       /\ UNCHANGED wakers
    \/ \E w \in waiting \cap S :
          /\ waiting' = waiting \ {w}
          /\ signaled' = signaled \cup {w}

\* Wakers::wake(false).
Broadcast(S) ==
    /\ waiting' = waiting \ S
    /\ signaled' = signaled \cup (waiting \cap S)

\* A later poll of CondVarAwait that finds its waker taken: the entry is
\* deleted and the future is ready.  Any other poll stays pending.
Awake(t) ==
    /\ t \in signaled
    /\ signaled' = signaled \ {t}
    /\ UNCHANGED waiting

\* DropWait without the hand-over: the signal dies with the dropped future.
DropWaitForgets(t, S) ==
    /\ waiting' = waiting \ {t}
    /\ signaled' = signaled \ {t}

\* Drop of a CondVarAwait that is still registered.  A signal it had already
\* received is passed on to another waiter.
DropWait(t, S) ==
    \/ /\ t \in waiting
       /\ waiting' = waiting \ {t}
       /\ UNCHANGED signaled
    \/ /\ t \in signaled
       /\ \/ /\ waiting \cap S = {}
             /\ signaled' = signaled \ {t}
             /\ UNCHANGED waiting
          \/ \E w \in waiting \cap S :
                /\ waiting' = waiting \ {w}
                /\ signaled' = (signaled \ {t}) \cup {w}

=============================================================================
