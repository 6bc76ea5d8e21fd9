------------------------- MODULE TaskControlProofs --------------------------
(***************************************************************************)
(* Proofs about TaskGroup, for any number of tasks and cancel calls and on *)
(* both executors, and about CondWait, for any number of callers.          *)
(***************************************************************************)
EXTENDS TaskControl, FiniteSetTheorems, TLAPS

----------------------------------------------------------------------------
(* TaskGroup                                                               *)

\* The cancel call c is responsible for the handler of task id.
Has(c, id) == id \in todo[c] \/ cur[c] = id

\* A task whose handler can be in the map: it was spawned and has not ended.
Present(id) == pc[id] \notin {"new", "finished", "dropped"}

\* The handler spawn_then is about to insert is in nobody's hands, and its
\* task has not left: to leave it needs the mutex that spawn_then holds.
InsertInv ==
    \A id \in Ids :
        /\ mutex = id => Present(id) /\ id \notin tasks /\ \A c \in Cancellers : ~Has(c, id)
        /\ pc[id] = "new" => id \notin tasks /\ \A c \in Cancellers : ~Has(c, id)

\* A handler is in one place.
PlaceInv ==
    \A id \in Ids : \A c \in Cancellers :
        Has(c, id) => /\ id \notin tasks
                      /\ \A d \in Cancellers : Has(d, id) => d = c
                      /\ ~(id \in todo[c] /\ cur[c] = id)

\* What each cancel call has in its hands, by where it is.
CallInv ==
    \A c \in Cancellers :
        /\ cpc[c] \in {"idle", "returned", "abandoned"} => todo[c] = {}
        /\ cpc[c] # "wait" => cur[c] = NoId
        /\ cpc[c] = "wait" => cur[c] \in Ids

\* cancel_flag is set when the callback is over, by the task or by the task
\* that its panic guard spawned.
FlagInv ==
    \A id \in Ids :
        /\ id \in flag => pc[id] \in Over
        /\ id \in signals => pc[id] \in {"guard", "finished"}

\* A task that runs can be stopped.
ReachInv ==
    \A id \in Ids :
        pc[id] \in {"run", "callback"} =>
            \/ id \in tasks \/ mutex = id \/ \E c \in Cancellers : Has(c, id)
            \/ runtime = "tokio" /\ id \in letgo

\* What a cancel call drained and has not in its hands any more is over.
DrainInv ==
    \A c \in Cancellers :
        cpc[c] \in {"next", "wait", "returned"} =>
            \A id \in drained[c] : Has(c, id) \/ pc[id] \in Over

\* The inductive invariant of the group.
GroupInv ==
    /\ TypeOK /\ NoLeakedHandler
    /\ InsertInv /\ PlaceInv /\ CallInv /\ FlagInv /\ ReachInv /\ DrainInv

\* Nothing is spawned at first.
LEMMA GroupInit == Init => GroupInv
<1> SUFFICES ASSUME Init PROVE GroupInv
  OBVIOUS
<1> USE IdsAssumption DEF Init
<1>1. TypeOK
  BY DEF TypeOK, PCs
<1>2. NoLeakedHandler /\ InsertInv /\ PlaceInv /\ CallInv
  BY DEF NoLeakedHandler, InsertInv, PlaceInv, CallInv, Has
<1>3. FlagInv /\ ReachInv /\ DrainInv
  BY DEF FlagInv, ReachInv, DrainInv
<1> QED BY <1>1, <1>2, <1>3 DEF GroupInv

\* The steps, as a case split of Next.
LEMMA GroupCases ==
  ASSUME Next
  PROVE  \/ \E id \in Ids : Spawn(id)
         \/ \E id \in Ids : Insert(id)
         \/ \E id \in Ids : Complete(id)
         \/ \E id \in Ids : Panic(id)
         \/ \E id \in Ids : Stopped(id)
         \/ \E id \in Ids : CallbackEnds(id)
         \/ \E id \in Ids : SetFlag(id)
         \/ \E id \in Ids : RemoveSelf(id)
         \/ \E id \in Ids : GuardSpawns(id)
         \/ \E id \in Ids : GuardSignals(id)
         \/ \E id \in Ids : Remove(id)
         \/ \E c \in Cancellers : Drain(c)
         \/ \E c \in Cancellers : StopOne(c)
         \/ \E c \in Cancellers : FlagSeen(c)
         \/ \E c \in Cancellers : CancelReturns(c)
         \/ \E c \in Cancellers : CancelDropped(c)
BY DEF Next, TaskSteps, CancelSteps

\* Every action preserves the group's invariant.
LEMMA GroupStep == GroupInv /\ [Next]_vars => GroupInv'
<1> SUFFICES ASSUME GroupInv, [Next]_vars PROVE GroupInv'
  OBVIOUS
<1> USE IdsAssumption DEF GroupInv, TypeOK, PCs, Over, Has, Present, Goto, group, cancels
<1>1. ASSUME NEW id \in Ids, Spawn(id) PROVE GroupInv'
  BY <1>1 DEF Spawn, NoLeakedHandler, InsertInv, PlaceInv, CallInv, FlagInv, ReachInv, DrainInv
<1>2. ASSUME NEW id \in Ids, Insert(id) PROVE GroupInv'
  BY <1>2 DEF Insert, NoLeakedHandler, InsertInv, PlaceInv, CallInv, FlagInv, ReachInv, DrainInv
<1>3. ASSUME NEW id \in Ids, Complete(id) PROVE GroupInv'
  BY <1>3 DEF Complete, NoLeakedHandler, InsertInv, PlaceInv, CallInv, FlagInv, ReachInv, DrainInv
<1>4. ASSUME NEW id \in Ids, Panic(id) PROVE GroupInv'
  BY <1>4 DEF Panic, NoLeakedHandler, InsertInv, PlaceInv, CallInv, FlagInv, ReachInv, DrainInv
<1>5. ASSUME NEW id \in Ids, Stopped(id) PROVE GroupInv'
  BY <1>5 DEF Stopped, NoLeakedHandler, InsertInv, PlaceInv, CallInv, FlagInv, ReachInv, DrainInv
<1>6. ASSUME NEW id \in Ids, CallbackEnds(id) PROVE GroupInv'
  BY <1>6 DEF CallbackEnds, NoLeakedHandler, InsertInv, PlaceInv, CallInv, FlagInv, ReachInv, DrainInv
<1>7. ASSUME NEW id \in Ids, SetFlag(id) PROVE GroupInv'
  BY <1>7 DEF SetFlag, NoLeakedHandler, InsertInv, PlaceInv, CallInv, FlagInv, ReachInv, DrainInv
<1>8. ASSUME NEW id \in Ids, RemoveSelf(id) PROVE GroupInv'
  BY <1>8 DEF RemoveSelf, NoLeakedHandler, InsertInv, PlaceInv, CallInv, FlagInv, ReachInv, DrainInv
<1>9. ASSUME NEW id \in Ids, GuardSpawns(id) PROVE GroupInv'
  BY <1>9 DEF GuardSpawns, NoLeakedHandler, InsertInv, PlaceInv, CallInv, FlagInv, ReachInv, DrainInv
<1>10. ASSUME NEW id \in Ids, GuardSignals(id) PROVE GroupInv'
  BY <1>10 DEF GuardSignals, NoLeakedHandler, InsertInv, PlaceInv, CallInv, FlagInv, ReachInv, DrainInv
<1>11. ASSUME NEW id \in Ids, Remove(id) PROVE GroupInv'
  <2>1. TypeOK' /\ CallInv'
    BY <1>11 DEF Remove, AfterDrop, CallInv
  <2>2. NoLeakedHandler' /\ InsertInv' /\ PlaceInv'
    BY <1>11 DEF Remove, AfterDrop, NoLeakedHandler, InsertInv, PlaceInv, CallInv
  <2>3. FlagInv' /\ ReachInv'
    BY <1>11 DEF Remove, AfterDrop, FlagInv, ReachInv, CallInv
  <2>4. DrainInv'
    BY <1>11 DEF Remove, AfterDrop, DrainInv, FlagInv, CallInv
  <2> QED BY <2>1, <2>2, <2>3, <2>4
<1>12. ASSUME NEW c \in Cancellers, Drain(c) PROVE GroupInv'
  <2>1. TypeOK' /\ CallInv'
    BY <1>12 DEF Drain, CallInv
  <2>2. NoLeakedHandler' /\ InsertInv' /\ PlaceInv'
    BY <1>12 DEF Drain, NoLeakedHandler, InsertInv, PlaceInv, CallInv
  <2>3. FlagInv' /\ ReachInv'
    BY <1>12 DEF Drain, FlagInv, ReachInv, CallInv
  <2>4. DrainInv'
    BY <1>12 DEF Drain, DrainInv, FlagInv, CallInv
  <2> QED BY <2>1, <2>2, <2>3, <2>4
<1>13. ASSUME NEW c \in Cancellers, StopOne(c) PROVE GroupInv'
  <2>1. TypeOK' /\ CallInv'
    BY <1>13 DEF StopOne, CallInv
  <2>2. NoLeakedHandler' /\ InsertInv' /\ PlaceInv'
    BY <1>13 DEF StopOne, NoLeakedHandler, InsertInv, PlaceInv, CallInv
  <2>3. FlagInv' /\ ReachInv'
    BY <1>13 DEF StopOne, FlagInv, ReachInv, CallInv
  <2>4. DrainInv'
    BY <1>13 DEF StopOne, DrainInv, FlagInv, CallInv
  <2> QED BY <2>1, <2>2, <2>3, <2>4
<1>14. ASSUME NEW c \in Cancellers, FlagSeen(c) PROVE GroupInv'
  <2>1. TypeOK' /\ CallInv'
    BY <1>14 DEF FlagSeen, CallInv
  <2>2. NoLeakedHandler' /\ InsertInv' /\ PlaceInv'
    BY <1>14 DEF FlagSeen, NoLeakedHandler, InsertInv, PlaceInv, CallInv
  <2>3. FlagInv' /\ ReachInv'
    BY <1>14 DEF FlagSeen, FlagInv, ReachInv, CallInv
  <2>4. DrainInv'
    BY <1>14 DEF FlagSeen, DrainInv, FlagInv, CallInv
  <2> QED BY <2>1, <2>2, <2>3, <2>4
<1>15. ASSUME NEW c \in Cancellers, CancelReturns(c) PROVE GroupInv'
  BY <1>15 DEF CancelReturns, NoLeakedHandler, InsertInv, PlaceInv, CallInv, FlagInv, ReachInv, DrainInv
<1>16. ASSUME NEW c \in Cancellers, CancelDropped(c) PROVE GroupInv'
  <2>1. TypeOK' /\ CallInv'
    BY <1>16 DEF CancelDropped, AfterDrop, CallInv
  <2>2. NoLeakedHandler' /\ InsertInv' /\ PlaceInv'
    BY <1>16 DEF CancelDropped, AfterDrop, NoLeakedHandler, InsertInv, PlaceInv, CallInv
  <2>3. FlagInv' /\ ReachInv'
    BY <1>16 DEF CancelDropped, AfterDrop, FlagInv, ReachInv, CallInv
  <2>4. DrainInv'
    BY <1>16 DEF CancelDropped, AfterDrop, DrainInv, FlagInv, CallInv
  <2> QED BY <2>1, <2>2, <2>3, <2>4
<1>17. CASE UNCHANGED vars
  BY <1>17 DEF vars, NoLeakedHandler, InsertInv, PlaceInv, CallInv, FlagInv, ReachInv, DrainInv
<1> QED BY <1>1, <1>2, <1>3, <1>4, <1>5, <1>6, <1>7, <1>8, <1>9, <1>10, <1>11, <1>12, <1>13, <1>14, <1>15, <1>16, <1>17, GroupCases

\* The invariant as the run states it: one owner is a set of at most one.
LEMMA GroupOwners == GroupInv => OneOwner
<1> SUFFICES ASSUME GroupInv, NEW id \in Ids
             PROVE  /\ Cardinality(Owners(id)) <= 1
                    /\ id \in tasks => Owners(id) = {}
                    /\ pc[id] \in {"run", "callback"} =>
                        \/ id \in tasks \/ mutex = id \/ Owners(id) # {}
                        \/ runtime = "tokio" /\ id \in letgo
  BY DEF OneOwner
<1>1. \A c \in Cancellers : c \in Owners(id) <=> Has(c, id)
  BY DEF Owners, Has
<1>2. \/ Owners(id) = {}
      \/ \E c \in Cancellers : Owners(id) = {c}
  <2> SUFFICES ASSUME NEW c \in Owners(id) PROVE Owners(id) = {c}
    BY DEF Owners
  <2> QED BY <1>1 DEF Owners, GroupInv, PlaceInv
<1>3. Cardinality(Owners(id)) <= 1
  <2>1. CASE Owners(id) = {}
    <3>1. Cardinality(Owners(id)) = 0
      BY <2>1, FS_EmptySet
    <3> QED BY <3>1
  <2>2. ASSUME NEW c \in Cancellers, Owners(id) = {c} PROVE Cardinality(Owners(id)) <= 1
    <3>1. Cardinality(Owners(id)) = 1
      BY <2>2, FS_Singleton
    <3> QED BY <3>1
  <2> QED BY <1>2, <2>1, <2>2
<1>4. id \in tasks => Owners(id) = {}
  BY <1>1 DEF Owners, GroupInv, PlaceInv
<1> QED BY <1>1, <1>3, <1>4 DEF GroupInv, ReachInv

\* The map and the cancel calls account for every handler: a finished task
\* leaves none behind, a handler has one owner, and a task that runs can be
\* stopped.
THEOREM HandlersAccountedFor == Spec => []HandlerInv
<1>1. GroupInv => HandlerInv
  BY GroupOwners DEF GroupInv, HandlerInv
<1> QED BY <1>1, GroupInit, GroupStep, PTL DEF Spec

\* When TaskGroup::cancel returns, the tasks it found are past their callback.
THEOREM CancelWaitsTheorem == Spec => []CancelWaits
<1>1. GroupInv => CancelWaits
  BY IdsAssumption DEF GroupInv, CancelWaits, DrainInv, CallInv, TypeOK, Has
<1> QED BY <1>1, GroupInit, GroupStep, PTL DEF Spec

----------------------------------------------------------------------------
(* CondWait                                                                *)

\* A task is registered only while it awaits the condition variable, and only
\* the waiters that this CondWait has call wait.
SleepInv ==
    /\ style = "signal" => \A s, t \in users : s = t
    /\ \A t \in Waiters : at[t] # "idle" => t \in users
    /\ \A t \in waiting \cup signaled : t \in Waiters /\ at[t] = "wait"

\* The inductive invariant of a CondWait.
FlagsInv == CW!NoSleeperWhenSet /\ SleepInv

\* Nobody waits at first.
LEMMA FlagInit == CW!Init => FlagsInv
<1> SUFFICES ASSUME CW!Init PROVE FlagsInv
  OBVIOUS
<1> USE DEF CW!Init, CW!WakersInit
<1>1. CW!TypeOK
  BY DEF CW!TypeOK, CW!PCs
<1>2. CW!NoSleeperWhenSet
  BY <1>1 DEF CW!NoSleeperWhenSet
<1>3. SleepInv
  BY DEF SleepInv, CW!Tasks
<1> QED BY <1>2, <1>3 DEF FlagsInv

\* Every step of a call preserves it: with one waiter signal wakes it, with
\* several broadcast wakes all.
LEMMA FlagStep == FlagsInv /\ [CW!Next]_(CW!vars) => FlagsInv'
<1> SUFFICES ASSUME FlagsInv, [CW!Next]_(CW!vars) PROVE FlagsInv'
  OBVIOUS
<1> USE DEF FlagsInv, SleepInv, CW!NoSleeperWhenSet, CW!Notifying, CW!TypeOK,
            CW!PCs, CW!Tasks, CW!Goto, CW!usage
<1>1. ASSUME NEW t \in CW!Tasks, CW!Call(t) \/ CW!Acquire(t) PROVE FlagsInv'
  BY <1>1 DEF CW!Call, CW!Acquire
<1>2. ASSUME NEW t \in Waiters, CW!WaitReturns(t) PROVE FlagsInv'
  BY <1>2 DEF CW!WaitReturns
<1>3. ASSUME NEW t \in Waiters, CW!WaitBlocks(t) PROVE FlagsInv'
  BY <1>3 DEF CW!WaitBlocks, CW!Put
<1>4. ASSUME NEW t \in Waiters, CW!WaitWakes(t) PROVE FlagsInv'
  BY <1>4 DEF CW!WaitWakes, CW!Awake
<1>5. ASSUME NEW t \in Waiters, CW!WaitDropped(t) PROVE FlagsInv'
  BY <1>5 DEF CW!WaitDropped, CW!DropWait, CW!wakers
<1>6. ASSUME NEW t \in Signalers, CW!SetFlag(t) PROVE FlagsInv'
  BY <1>6 DEF CW!SetFlag
<1>7. ASSUME NEW t \in Signalers, CW!Notify(t) PROVE FlagsInv'
  BY <1>7 DEF CW!Notify, CW!Broadcast, CW!Signal, CW!wakers
<1>8. ASSUME NEW t \in Resetters, CW!Reset(t) PROVE FlagsInv'
  BY <1>8 DEF CW!Reset
<1>9. CASE UNCHANGED CW!vars
  BY <1>9 DEF CW!vars
<1> QED BY <1>1, <1>2, <1>3, <1>4, <1>5, <1>6, <1>7, <1>8, <1>9
        DEF CW!Next, CW!WaiterSteps, CW!SignalerSteps

\* No wake-up of a CondWait is lost, as it is used: one waiter and signal, or
\* any number of waiters and broadcast.
THEOREM NoSleeperTheorem == CW!Spec => []NoSleeperWhenSet
<1>1. FlagsInv => NoSleeperWhenSet
  BY DEF FlagsInv, NoSleeperWhenSet
<1> QED BY <1>1, FlagInit, FlagStep, PTL DEF CW!Spec

\* The specification that the run explores is that of the two components, so
\* their theorems hold of it.
THEOREM PartsAreWhole == PartSpec => [](HandlerInv /\ CancelWaits /\ NoSleeperWhenSet)
<1>1. PartInit => Init /\ CW!Init
  BY DEF PartInit
<1>2. [PartNext]_<<vars, part, flagVars>> => [Next]_vars /\ [CW!Next]_(CW!vars)
  BY DEF PartNext, vars, flagVars, CW!vars, CW!usage
<1> QED BY <1>1, <1>2, HandlersAccountedFor, CancelWaitsTheorem, NoSleeperTheorem, PTL
        DEF PartSpec, Spec, CW!Spec

=============================================================================
