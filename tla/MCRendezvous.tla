---------------------------- MODULE MCRendezvous ----------------------------
(***************************************************************************)
(* Rendezvous on the two devices of one transaction, for TLC.              *)
(***************************************************************************)
EXTENDS Rendezvous

CONSTANTS s, r, nobody
==============================================================================
