-------------------------- MODULE MCPeerTransaction --------------------------
(***************************************************************************)
(* Instances of PeerTransaction: a recipient with one device or two.       *)
(***************************************************************************)
EXTENDS PeerTransaction

CONSTANTS s,      \* the device of the sender
          r1, r2  \* the devices of the recipient

MCgroups == {{r1}, {r1, r2}}

\* Two faults with one device, none with two.
MCmaxFaults == <<2, 0>>
==============================================================================
