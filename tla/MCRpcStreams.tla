---------------------------- MODULE MCRpcStreams ----------------------------
(* A call with every fault over every backend, a subscription with one     *)
(* kind of fault at a time, or both together without, with a stream for    *)
(* each or one for both.                                                   *)
EXTENDS RpcStreams

CONSTANTS c1, c2

MCCalls == {c1, c2}

Workload(b, d, n, x, y, f) ==
    [backend |-> b, deadline |-> d, streams |-> n, kind |-> (c1 :> x @@ c2 :> y),
     faults |-> f]

MCWorkloads ==
    {Workload(b, d, 1, "call", "none", {"client", "server", "network"}) :
        b \in {"quic", "h3", "h2", "h1"}, d \in BOOLEAN}
    \cup {Workload("quic", FALSE, 1, "none", "subscribe", {f}) : f \in {"client", "server"}}
    \cup {Workload("h3", FALSE, 1, "none", "subscribe", f) : f \in {{"network"}, {"client", "decoder"}}}
    \cup {Workload("h2", FALSE, 1, "none", "subscribe", {})}
    \cup {Workload("quic", FALSE, n, "call", "subscribe", {}) : n \in 1 .. 2}
    \cup {Workload("h3", TRUE, 1, "call", "subscribe", {})}

=============================================================================
