---------------------------- MODULE MCRpcServer ----------------------------
(* A request that subscribes and one that may unsubscribe, with a queue of    *)
(* responses and a channel of notifications of one place each.                *)
EXTENDS RpcServer

CONSTANTS r1, r2

MCRequests == {r1, r2}
MCSubscribers == {r1}

=============================================================================
