----------------------------- MODULE TaskGroup ------------------------------
(***************************************************************************)
(* karyon_core::async_util::TaskGroup: spawned tasks that can be cancelled *)
(* together, each running a callback once it completed or was cancelled.   *)
(*                                                                         *)
(* The map of handlers is guarded by a synchronous mutex.  Only spawn_then *)
(* holds it across another task's first steps, so it is the only operation *)
(* split in two; the others take and release it in one step.  stop_signal  *)
(* and cancel_flag are CondWaits: a flag that, once set, wakes its single  *)
(* waiter (module CondWait).                                               *)
(***************************************************************************)
EXTENDS Naturals, FiniteSets

CONSTANTS
    Ids,          \* task ids handed out by next_id; each is used once
    Cancellers,   \* concurrent calls of TaskGroup::cancel
    Panics,       \* tasks whose future or callback may panic
    NoId

ASSUME IdsAssumption == NoId \notin Ids /\ Panics \subseteq Ids

VARIABLES
    runtime,  \* "tokio": a dropped handler detaches; "smol": it cancels
    pc,       \* where each spawned task is
    tasks,    \* ids whose handler is in the group's map
    mutex,    \* the id spawn_then is inserting, NoId when the mutex is free
    stop,     \* tasks whose stop_signal is set
    flag,     \* tasks whose cancel_flag is set
    signals,  \* tasks for which PanicGuard spawned a signalling task
    todo,     \* the handlers each cancel call still owns
    cur,      \* the handler each cancel call is cancelling
    drained,  \* history: the handlers each cancel call took out
    cpc,      \* where each cancel call is
    letgo     \* history: tasks whose handler a caller dropped

vars == <<runtime, pc, tasks, mutex, stop, flag, signals, todo, cur, drained,
          cpc, letgo>>

(***************************************************************************)
(* "run": in select(stop_signal.wait(), fut); "callback": running the      *)
(* callback; "signal", "remove": the two statements after it; "unwind",    *)
(* "guard": PanicGuard::drop before and after it spawned the signal;       *)
(* "dropped": the executor dropped the task with its handler (smol).       *)
(***************************************************************************)
PCs == {"new", "run", "callback", "signal", "remove", "finished",
        "unwind", "guard", "dropped"}

Over == {"remove", "finished", "guard", "dropped"}

TypeOK ==
    /\ runtime \in {"tokio", "smol"}
    /\ pc \in [Ids -> PCs]
    /\ tasks \subseteq Ids
    /\ mutex \in Ids \cup {NoId}
    /\ stop \subseteq Ids
    /\ flag \subseteq Ids
    /\ signals \subseteq Ids
    /\ todo \in [Cancellers -> SUBSET Ids]
    /\ cur \in [Cancellers -> Ids \cup {NoId}]
    /\ drained \in [Cancellers -> SUBSET Ids]
    /\ cpc \in [Cancellers -> {"idle", "next", "wait", "returned", "abandoned"}]
    /\ letgo \subseteq Ids

Init ==
    /\ runtime \in {"tokio", "smol"}
    /\ pc = [id \in Ids |-> "new"]
    /\ tasks = {}
    /\ mutex = NoId
    /\ stop = {}
    /\ flag = {}
    /\ signals = {}
    /\ todo = [c \in Cancellers |-> {}]
    /\ cur = [c \in Cancellers |-> NoId]
    /\ drained = [c \in Cancellers |-> {}]
    /\ cpc = [c \in Cancellers |-> "idle"]
    /\ letgo = {}

Goto(id, l) == pc' = [pc EXCEPT ![id] = l]

group == <<runtime, tasks, mutex>>
cancels == <<todo, cur, drained, cpc, letgo>>

----------------------------------------------------------------------------
(* spawn_then                                                              *)

\* Take the mutex and hand the task to the executor, which may run it.
Spawn(id) ==
    /\ pc[id] = "new"
    /\ mutex = NoId
    /\ mutex' = id
    /\ Goto(id, "run")
    /\ UNCHANGED <<runtime, tasks, stop, flag, signals, cancels>>

\* tasks.insert(id, task), then release the mutex.
Insert(id) ==
    /\ mutex = id
    /\ mutex' = NoId
    /\ tasks' = tasks \cup {id}
    /\ UNCHANGED <<runtime, pc, stop, flag, signals, cancels>>

----------------------------------------------------------------------------
(* The spawned task                                                        *)

\* The future completes.  select polls the stop signal first, but the signal
\* may be set right after that poll.  (The TaskResult given to the callback is
\* not kept: the group itself never looks at it.)
Complete(id) ==
    /\ pc[id] = "run"
    /\ Goto(id, "callback")
    /\ UNCHANGED <<group, stop, flag, signals, cancels>>

\* select returns Left: the future is dropped and the result is Cancelled.
Stopped(id) ==
    /\ pc[id] = "run"
    /\ id \in stop
    /\ Goto(id, "callback")
    /\ UNCHANGED <<group, stop, flag, signals, cancels>>

CallbackEnds(id) ==
    /\ pc[id] = "callback"
    /\ Goto(id, "signal")
    /\ UNCHANGED <<group, stop, flag, signals, cancels>>

\* cancel_flag.signal().await
SetFlag(id) ==
    /\ pc[id] = "signal"
    /\ flag' = flag \cup {id}
    /\ Goto(id, "remove")
    /\ UNCHANGED <<group, stop, signals, cancels>>

\* remove_from_group without the lock: the map's entry may not be there yet.
RemoveSelfUnlocked(id) ==
    /\ pc[id] \in {"remove", "guard"}
    /\ tasks' = tasks \ {id}
    /\ Goto(id, "finished")
    /\ UNCHANGED <<runtime, mutex, stop, flag, signals, cancels>>

\* remove_from_group: a no-op if cancel already took the handler out.
RemoveSelf(id) ==
    /\ pc[id] \in {"remove", "guard"}
    /\ mutex = NoId
    /\ tasks' = tasks \ {id}
    /\ Goto(id, "finished")
    /\ UNCHANGED <<runtime, mutex, stop, flag, signals, cancels>>

\* The future or the callback panics and the task unwinds.
Panic(id) ==
    /\ id \in Panics
    /\ pc[id] \in {"run", "callback"}
    /\ Goto(id, "unwind")
    /\ UNCHANGED <<group, stop, flag, signals, cancels>>

\* A PanicGuard that only removes the task.
GuardRemovesOnly(id) ==
    /\ pc[id] = "unwind"
    /\ Goto(id, "guard")
    /\ UNCHANGED <<group, stop, flag, signals, cancels>>

\* PanicGuard::drop spawns a task that signals cancel_flag.
GuardSpawns(id) ==
    /\ pc[id] = "unwind"
    /\ signals' = signals \cup {id}
    /\ Goto(id, "guard")
    /\ UNCHANGED <<group, stop, flag, cancels>>

GuardSignals(id) ==
    /\ id \in signals
    /\ signals' = signals \ {id}
    /\ flag' = flag \cup {id}
    /\ UNCHANGED <<pc, group, stop, cancels>>

----------------------------------------------------------------------------
(* Handlers and cancel                                                     *)

\* The pc of every task after the handlers of D are dropped.
AfterDrop(D) ==
    [id \in Ids |->
        IF runtime = "smol" /\ id \in D /\ pc[id] \in {"run", "callback", "signal", "remove"}
        THEN "dropped"
        ELSE pc[id]]

\* TaskGroup::remove, by a caller that lets go of the handler.
Remove(id) ==
    /\ mutex = NoId
    /\ id \in tasks
    /\ tasks' = tasks \ {id}
    /\ pc' = AfterDrop({id})
    /\ letgo' = letgo \cup {id}
    /\ UNCHANGED <<runtime, mutex, stop, flag, signals, todo, cur, drained, cpc>>

\* cancel takes every handler out of the map.
Drain(c) ==
    /\ cpc[c] = "idle"
    /\ mutex = NoId
    /\ todo' = [todo EXCEPT ![c] = tasks]
    /\ drained' = [drained EXCEPT ![c] = tasks]
    /\ tasks' = {}
    /\ cpc' = [cpc EXCEPT ![c] = "next"]
    /\ UNCHANGED <<runtime, pc, mutex, stop, flag, signals, cur, letgo>>

\* TaskHandler::cancel that signals the task and does not wait for it.
StopOneNoWait(c) ==
    /\ cpc[c] = "next"
    /\ \E id \in todo[c] :
          /\ stop' = stop \cup {id}
          /\ todo' = [todo EXCEPT ![c] = @ \ {id}]
    /\ UNCHANGED <<pc, group, flag, signals, cur, drained, cpc, letgo>>

\* TaskHandler::cancel: signal the next handler's task to stop ...
StopOne(c) ==
    /\ cpc[c] = "next"
    /\ \E id \in todo[c] :
          /\ stop' = stop \cup {id}
          /\ cur' = [cur EXCEPT ![c] = id]
          /\ todo' = [todo EXCEPT ![c] = @ \ {id}]
    /\ cpc' = [cpc EXCEPT ![c] = "wait"]
    /\ UNCHANGED <<pc, group, flag, signals, drained, letgo>>

\* ... and wait for its callback to be over, then detach it.
FlagSeen(c) ==
    /\ cpc[c] = "wait"
    /\ cur[c] \in flag
    /\ cur' = [cur EXCEPT ![c] = NoId]
    /\ cpc' = [cpc EXCEPT ![c] = "next"]
    /\ UNCHANGED <<pc, group, stop, flag, signals, todo, drained, letgo>>

CancelReturns(c) ==
    /\ cpc[c] = "next"
    /\ todo[c] = {}
    /\ cpc' = [cpc EXCEPT ![c] = "returned"]
    /\ UNCHANGED <<pc, group, stop, flag, signals, todo, cur, drained, letgo>>

\* The caller drops the cancel future while it waits: the handlers it owns
\* are dropped with it.
CancelDropped(c) ==
    /\ cpc[c] = "wait"
    /\ pc' = AfterDrop(todo[c] \cup {cur[c]})
    /\ letgo' = letgo \cup todo[c] \cup {cur[c]}
    /\ todo' = [todo EXCEPT ![c] = {}]
    /\ cur' = [cur EXCEPT ![c] = NoId]
    /\ cpc' = [cpc EXCEPT ![c] = "abandoned"]
    /\ UNCHANGED <<group, stop, flag, signals, drained>>

TaskSteps(id) ==
    \/ Stopped(id) \/ CallbackEnds(id) \/ SetFlag(id) \/ RemoveSelf(id)
    \/ GuardSpawns(id)

CancelSteps(c) == StopOne(c) \/ FlagSeen(c) \/ CancelReturns(c)

Next ==
    \/ \E id \in Ids :
          \/ Spawn(id) \/ Insert(id) \/ Complete(id) \/ Panic(id)
          \/ TaskSteps(id) \/ GuardSignals(id) \/ Remove(id)
    \/ \E c \in Cancellers : Drain(c) \/ CancelSteps(c) \/ CancelDropped(c)

Spec == Init /\ [][Next]_vars

(***************************************************************************)
(* The executor polls every woken task.  A future need not complete, but a *)
(* stopped task is polled, and callbacks end.                              *)
(***************************************************************************)
Fairness ==
    /\ \A id \in Ids :
          /\ WF_vars(Insert(id))
          /\ WF_vars(TaskSteps(id))
          /\ WF_vars(GuardSignals(id))
    /\ \A c \in Cancellers : WF_vars(CancelSteps(c))

FairSpec == Spec /\ Fairness

----------------------------------------------------------------------------
(* Properties                                                              *)

\* A finished task leaves no handler in the map ("so the group does not grow
\* without bound"), although it may finish before spawn_then inserted it.
NoLeakedHandler ==
    \A id \in tasks : pc[id] \notin {"new", "finished", "dropped"}

\* When cancel returns, every task it took out of the group is past its
\* callback, so nothing of it runs any more.
CancelWaits ==
    \A c \in Cancellers : cpc[c] = "returned" =>
        \A id \in drained[c] : pc[id] \in Over

\* Who owns the handler of task id.
Owners(id) ==
    {c \in Cancellers : id \in todo[c] \/ cur[c] = id}

\* A handler has one owner at a time, the map or one cancel call; and a task
\* that runs can still be stopped: its handler is about to be inserted or has
\* its owner, unless a caller dropped it (on smol that stops the task).
OneOwner ==
    \A id \in Ids :
        /\ Cardinality(Owners(id)) <= 1
        /\ id \in tasks => Owners(id) = {}
        /\ pc[id] \in {"run", "callback"} =>
            \/ id \in tasks \/ mutex = id \/ Owners(id) # {}
            \/ runtime = "tokio" /\ id \in letgo

\* The group's map and the cancel calls account for every handler.
HandlerInv == TypeOK /\ NoLeakedHandler /\ OneOwner

\* A cancel call that is not dropped returns, even when a task or its callback
\* panics meanwhile and whatever handlers other callers let go of.
CancelTerminates ==
    \A c \in Cancellers :
        cpc[c] = "next" ~> cpc[c] \in {"returned", "abandoned"}

=============================================================================
