-------------------------- MODULE MCLinkTransaction --------------------------
(***************************************************************************)
(* LinkTransaction on a file of a few chunks, pushed by two coroutines.    *)
(***************************************************************************)
EXTENDS LinkTransaction

CONSTANTS c1, c2
=============================================================================
