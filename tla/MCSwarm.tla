------------------------------ MODULE MCSwarm -------------------------------
EXTENDS Swarm

CONSTANTS x1, k1, k2, chat, c1, c2

MCPids == {x1}
MCKeys == {k1, k2}
MCProtos == {chat}
MCProtoOf == [k \in MCKeys |-> chat]
MCFirstKey == {k1}
MCCallers == {c1, c2}

=============================================================================
