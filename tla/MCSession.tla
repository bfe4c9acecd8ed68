----------------------------- MODULE MCSession -----------------------------
(* A small instance of Session for TLC: two operations of one client. *)
EXTENDS Session

CONSTANTS t1, t2
=============================================================================
