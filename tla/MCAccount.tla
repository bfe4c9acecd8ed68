----------------------------- MODULE MCAccount -----------------------------
(* A small instance of Account for TLC: three requests of one account. *)
EXTENDS Account

CONSTANTS r1, r2, r3
=============================================================================
