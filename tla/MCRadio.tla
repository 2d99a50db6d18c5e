------------------------------- MODULE MCRadio -------------------------------
(* A small instance of Radio for TLC. *)
EXTENDS Radio

AllRadioFaults == {"spi", "kill"}
=============================================================================
