---------------------------- MODULE MCDailySummary ----------------------------
(* A small instance of DailySummary for TLC. *)
EXTENDS DailySummary

(* A frost, an exact zero, and two warmer readings of which one brings rain. *)
FourReadings == {<<-1, 0>>, <<0, 1>>, <<1, 0>>, <<2, 1>>}
OneReading == {<<1, 0>>}

(* The clocks go forward on the second day. *)
SecondDay == {1}
=============================================================================
