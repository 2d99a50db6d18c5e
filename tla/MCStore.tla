------------------------------ MODULE MCStore -------------------------------
(* A small instance of Store for TLC. *)
EXTENDS Store, FiniteSets

(* 20 degrees, 47 %, 1010 hPa; and packets that differ from it in one place. *)
Ordinary ==
  [rawTemperature |-> 2560, rawHumidity |-> 27800, rawICPPressure |-> 101000,
   rawBatteryChargeRate |-> -2, rawBatteryVolts |-> 53000,
   rawRainfall |-> 1, rawWindspeed |-> 400]

WeatherPackets == {
  [Ordinary EXCEPT !.rawHumidity = 3145],                             \* just below 0 %
  [Ordinary EXCEPT !.rawHumidity = 3146, !.rawTemperature = -640],    \* just above it
  [Ordinary EXCEPT !.rawHumidity = 55574],                            \* just above 100 %
  [Ordinary EXCEPT !.rawICPPressure = 993614]}

TelemetryPackets == {
  [Ordinary EXCEPT !.rawBatteryChargeRate = -4807],
  [Ordinary EXCEPT !.rawBatteryChargeRate = 4808]}

AllStatements == ({"weather_data"} \X WeatherPackets) \cup ({"telemetry_data"} \X TelemetryPackets)
FittingStatements == {sql \in AllStatements : RowFits(sql)}

AllLinkFaults == {"link", "kill"}
=============================================================================
