---------------------------- MODULE BoundedQueue ----------------------------
(***************************************************************************)
(* What AsyncQueue promises its callers: a bounded FIFO queue.  Pushing    *)
(* and receiving each take effect at one instant; an item that is pushed   *)
(* is received at most once, in order, and the queue never holds more      *)
(* than Capacity items.                                                    *)
(***************************************************************************)
EXTENDS Naturals, Sequences

CONSTANTS
    Items,      \* what can be pushed
    Capacity    \* bound given to AsyncQueue::new

VARIABLES
    buf,        \* items in the queue, oldest first
    out         \* items handed to receivers, in order

vars == <<buf, out>>

Init ==
    /\ buf = <<>>
    /\ out = <<>>

Push ==
    /\ Len(buf) < Capacity
    /\ \E x \in Items : buf' = Append(buf, x)
    /\ UNCHANGED out

Recv ==
    /\ buf # <<>>
    /\ out' = Append(out, Head(buf))
    /\ buf' = Tail(buf)

Next == Push \/ Recv

Spec == Init /\ [][Next]_vars

=============================================================================
