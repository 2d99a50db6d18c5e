------------------------------ MODULE MCClock -------------------------------
(* Small instances of Clock for TLC. *)
EXTENDS Clock
=============================================================================
