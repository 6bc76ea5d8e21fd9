----------------------------- MODULE MCPeerWire -----------------------------
EXTENDS PeerWire

CONSTANTS p, q, b

MCProtos == {p, q}
MCSenders == {b}

=============================================================================
