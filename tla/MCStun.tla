------------------------------- MODULE MCStun -------------------------------
(* Two queries over UDP, from one local address, or over two kinds of stream *)
(* that compete for one slot.  One client sends two requests on its stream.  *)
EXTENDS Stun

CONSTANTS q1, q2, s1, a1, a2

MCQueries == {q1, q2}
MCSockets == {s1}
On(t, u) == [q \in MCQueries |-> IF q = q1 THEN t ELSE u]
MCChoices == {On("udp", "udp"), On("tls", "tcp"), On("quic", "tcp")}
MCRequests == [q \in MCQueries |-> IF q = q1 THEN 2 ELSE 1]
MCAddrs == {a1, a2}

=============================================================================
