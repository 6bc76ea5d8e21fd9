----------------------------- MODULE MCPeerPool -----------------------------
(* Three connections: two of the same peer (one dialled, one accepted) and  *)
(* one dialled to another.                                                  *)
EXTENDS PeerPool

CONSTANTS a, b, c1, c2, c3

MCConns == {c1, c2, c3}
MCPids == {a, b}
MCPidOf == [c \in MCConns |-> IF c = c3 THEN b ELSE a]
MCOutbound == {c1, c3}

=============================================================================
