---------------------------- MODULE MCRpcClient ----------------------------
(* Two requests, of which any may subscribe or unsubscribe.                 *)
EXTENDS RpcClient

CONSTANTS c1, c2

MCCalls == {c1, c2}

=============================================================================
