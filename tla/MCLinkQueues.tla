---------------------------- MODULE MCLinkQueues ----------------------------
(* Small instances of LinkQueues for TLC. *)
EXTENDS LinkQueues
=============================================================================
