----------------------------- MODULE MCPresence -----------------------------
(***************************************************************************)
(* Instances of Presence: names for the device and the servers of a cfg.   *)
(***************************************************************************)
EXTENDS Presence

CONSTANTS d1,     \* the device
          s1, s2  \* the trophonius servers
=============================================================================
