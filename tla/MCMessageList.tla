--------------------------- MODULE MCMessageList ---------------------------
(* A small instance of MessageList for TLC: two syncs of one folder. *)
EXTENDS MessageList

CONSTANTS s1, s2
=============================================================================
