------------------------------- MODULE Store --------------------------------
(***************************************************************************)
(* What reaches the tables: psqlConnection with the statements that        *)
(* DBUpdateThread makes of a packet, and a server that takes them if they  *)
(* fit their columns.  A statement is <<table, packet>>.                   *)
(***************************************************************************)
EXTENDS Psql, Transform

RowFits(sql) ==
  IF sql[1] = "weather_data" THEN WeatherRowFits(sql[2]) ELSE TelemetryRowFits(sql[2])

Statement == {"weather_data", "telemetry_data"} \X WeatherPacket

(* What execute() is given, and what the server takes of it. *)
ASSUME RowsAssumption ==
  /\ Statements \subseteq Statement
  /\ Accepted = {sql \in Statements : RowFits(sql)}

(* A station below some 850 m, its anemometer factor less than three times ANEMOMETER_MPH. *)
ASSUME SiteAssumption == CompensationFactor > 900000 /\ AnemometerFactor <= 15000

(***************************************************************************)
(* No statement made of a packet that a working station can send is        *)
(* refused: below 9000 hPa, not charging or draining by more than 500 % an *)
(* hour, and, since the logarithm of the dew point is taken of the         *)
(* humidity before the clamp, not in air so dry that the clamp applies.    *)
(* (transformWeatherPacket, create_tables.sql)                             *)
(***************************************************************************)
OnlyExtremesAreRefused ==
  thrown = "empty" =>
    LET p == stmt[call][2]
    IN  \/ p.rawICPPressure > 900000
        \/ BatteryChargeRate(p) < -500000 \/ BatteryChargeRate(p) > 500000
        \/ ComputeHumidity(p.rawHumidity) <= 0

(***************************************************************************)
(* In the rows that are stored the humidity is a percentage and never the  *)
(* 0.00 of the clamp, and the dew point is at most the temperature, except *)
(* where the humidity is the 100.00 of the clamp.                          *)
(***************************************************************************)
StoredRowsAreSound ==
  \A c \in table : stmt[c][1] = "weather_data" =>
    LET p == stmt[c][2]
    IN  /\ Humidity(p) \in 1 .. 100 * Percent
        /\ DewPoint(p).than = p.rawTemperature
        /\ DewPoint(p).is = "above" => Humidity(p) = 100 * Percent

(***************************************************************************)
(* Towards an inductive invariant.  A backend inserts and commits nothing  *)
(* but statements of calls that were made and that the server accepts.     *)
(***************************************************************************)
RowsInv ==
  /\ \A s \in Sessions :
       /\ current[s] \in 0..call
       /\ request[s] # "none" => current[s] # 0
       /\ insert[s] # 0 => insert[s] \in 1..call /\ stmt[insert[s]] \in Accepted
  /\ \A c \in table : c \in 1..call /\ stmt[c] \in Accepted
=============================================================================
