---------------------------- MODULE TaskControl -----------------------------
(***************************************************************************)
(* TaskGroup, and the CondWait that its tasks and cancel calls wait on,    *)
(* each alone.  A group sees a CondWait as a flag that, once set, ends     *)
(* the wait for it, which is what CondWait promises.                       *)
(***************************************************************************)
EXTENDS TaskGroup, CondVar

CONSTANTS Waiters, Signalers, Resetters, NoTask

VARIABLES
    part,                     \* "group" or "flag"
    style, users, w, lock, at \* CondWait's variables

flagVars == <<style, users, w, lock, at, waiting, signaled>>

CW == INSTANCE CondWait WITH pc <- at

PartInit ==
    /\ Init /\ CW!Init
    /\ \/ part = "group" /\ users = {} /\ style = "signal"
       \/ part = "flag" /\ runtime = "tokio"

PartNext ==
    /\ UNCHANGED part
    /\ \/ part = "group" /\ Next /\ UNCHANGED flagVars
       \/ part = "flag" /\ CW!Next /\ UNCHANGED vars

PartSpec ==
    /\ PartInit /\ [][PartNext]_<<vars, part, flagVars>>
    /\ Fairness /\ CW!Fairness

----------------------------------------------------------------------------

\* What CondWait promises: no lost wake-up, and waits that end.
NoSleeperWhenSet == CW!NoSleeperWhenSet
WaitEnds == CW!WaitEnds

=============================================================================
