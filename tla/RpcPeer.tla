------------------------------ MODULE RpcPeer ------------------------------
(***************************************************************************)
(* What a JSON-RPC server shows on one connection, and what the model of   *)
(* the client relies on: it answers each request that it has read at most  *)
(* once, in any order.                                                     *)
(***************************************************************************)
EXTENDS Naturals

CONSTANT Requests

VARIABLES
    executed,    \* requests read
    responses    \* how many responses to each were sent

vars == <<executed, responses>>

Init == executed = {} /\ responses = [r \in Requests |-> 0]

Execute(r) ==
    /\ r \notin executed
    /\ executed' = executed \cup {r}
    /\ UNCHANGED responses

Respond(r) ==
    /\ r \in executed /\ responses[r] = 0
    /\ responses' = [responses EXCEPT ![r] = 1]
    /\ UNCHANGED executed

Next == \E r \in Requests : Execute(r) \/ Respond(r)

Spec == Init /\ [][Next]_vars

=============================================================================
