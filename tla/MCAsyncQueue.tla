---------------------------- MODULE MCAsyncQueue ----------------------------
(* Two pushers and two receivers on a queue of two places.                 *)
EXTENDS AsyncQueue

CONSTANTS p1, p2, r1, r2

MCPushers == {p1, p2}
MCReceivers == {r1, r2}

\* Callers give up while they wait for the mutex the first time or for the
\* condition variable.
MCCancelPoints == {"lock", "wait"}

=============================================================================
