---------------------------- MODULE MCTaskGroup -----------------------------
(* Two tasks, one of which may panic, and two concurrent cancel calls; or  *)
(* up to three waiters, two calls of broadcast or signal, and a reset.     *)
EXTENDS TaskControl

CONSTANTS t1, t2, c1, c2, w1, w2, w3, s1, s2, z1

MCIds == {t1, t2}
MCPanics == {t1}
MCCancellers == {c1, c2}

MCWaiters == {w1, w2, w3}
MCSignalers == {s1, s2}
MCResetters == {z1}

=============================================================================
