------------------------------ MODULE RpcCalls ------------------------------
(***************************************************************************)
(* What a client of a request/response service may count on: a request is  *)
(* executed at most once, and a caller that gets an answer gets that of    *)
(* its own request, after its execution.  A call that fails may have been  *)
(* executed, and may yet be.                                               *)
(***************************************************************************)
EXTENDS Naturals

CONSTANT Calls

VARIABLES
    asked,      \* calls made
    executed,   \* how often the server has executed each
    answered,   \* those whose caller got the answer
    failed      \* those whose caller got an error of the client

vars == <<asked, executed, answered, failed>>

Init ==
    /\ asked = {} /\ answered = {} /\ failed = {}
    /\ executed = [c \in Calls |-> 0]

Open == asked \ (answered \cup failed)

Ask(c) ==
    /\ c \notin asked
    /\ asked' = asked \cup {c}
    /\ UNCHANGED <<executed, answered, failed>>

Execute(c) ==
    /\ c \in asked
    /\ executed[c] = 0
    /\ executed' = [executed EXCEPT ![c] = @ + 1]
    /\ UNCHANGED <<asked, answered, failed>>

Answer(c) ==
    /\ c \in Open
    /\ executed[c] # 0
    /\ answered' = answered \cup {c}
    /\ UNCHANGED <<asked, executed, failed>>

Fail(c) ==
    /\ c \in Open
    /\ failed' = failed \cup {c}
    /\ UNCHANGED <<asked, executed, answered>>

Next == \E c \in Calls : Ask(c) \/ Execute(c) \/ Answer(c) \/ Fail(c)

Spec == Init /\ [][Next]_vars

=============================================================================
