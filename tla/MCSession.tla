----------------------------- MODULE MCSession -----------------------------
EXTENDS Session

CONSTANT p1

MCPeers == {p1}
=============================================================================
