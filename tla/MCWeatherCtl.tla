---------------------------- MODULE MCWeatherCtl ----------------------------
(***************************************************************************)
(* Small instances of WeatherCtl for TLC.                                  *)
(***************************************************************************)
EXTENDS WeatherCtl

(* Any part of the environment may fail. *)
AllFaults == FaultKinds

(* Posts fail, and nothing else does. *)
LiveFaults == {"curl"}

NoFaults == {}

(* wow.isenabled as every run of the process finds it. *)
Posting == {TRUE}
Either == BOOLEAN

(* No row is refused; or one telemetry row, after its weather row went in. *)
NothingRefused == {}
OneRefused == {<<"telemetry_data", 4>>}
=============================================================================
