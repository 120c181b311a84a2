-------------------------- MODULE MCRequestCycle --------------------------
(* Small instances of RequestCycle for TLC. *)
EXTENDS RequestCycle
=============================================================================
