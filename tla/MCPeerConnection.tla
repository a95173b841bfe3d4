-------------------------- MODULE MCPeerConnection --------------------------
(***************************************************************************)
(* Two clients that connect: at most two connections of each have an end.  *)
(***************************************************************************)
EXTENDS PeerConnection

CONSTANTS m, s \* the master and the slave

MCLines == {1, 2}

MCone == [p \in {m, s} |-> 1]

\* The slave has two addresses, which the master calls at once.
MCtwo == [p \in {m, s} |-> IF p = s THEN 2 ELSE 1]

MCAddresses == {MCone, MCtwo}

MCMaxFaults == [a \in MCAddresses |-> IF a = MCone THEN 2 ELSE 0]
=============================================================================
