------------------------------ MODULE MCClient ------------------------------
(* Two calls of one client. *)
EXTENDS Client

MCCaller == 1..2
=============================================================================
