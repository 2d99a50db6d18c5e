----------------------------- MODULE Transform ------------------------------
(***************************************************************************)
(* From a weather packet to the rows the database is asked to take:        *)
(* NRFListenThread::transformWeatherPacket with the helpers above it in    *)
(* threads.cpp, the columns of create_tables.sql, and which values the     *)
(* server finds too large for them.                                        *)
(*                                                                         *)
(* The code computes in float; here each quantity is an integer in a unit  *)
(* small enough to be exact, named where it is defined.  Of the dew point  *)
(* only what it is relative to the temperature is kept: its formula gives  *)
(* the temperature at 100 % and rises with the humidity, and has no value  *)
(* where the logarithm has none.                                           *)
(***************************************************************************)
EXTENDS Integers

CONSTANTS
  CompensationFactor,   \* compensationFactor in 1/10000: 993614 at an altitude of 54 m
  AnemometerFactor      \* ANEMOMETER_MPH * calibration.anemometerfactor, in 1e-6 mph

ASSUME FactorsAssumption == CompensationFactor \in Nat \ {0} /\ AnemometerFactor \in Nat

(* The fields of weather_packet_t that are int16_t or uint16_t. *)
UInt16 == 0..65535
Int16 == -32768..32767

(***************************************************************************)
(* weather_packet_t, less the packet number, the status and the battery    *)
(* percentage, which always fit, and rawWindGust, which has the type, the  *)
(* formula and the column of rawWindspeed.                                 *)
(***************************************************************************)
WeatherPacket ==
  [rawTemperature : Int16, rawHumidity : UInt16, rawICPPressure : Nat,
   rawBatteryChargeRate : Int16, rawBatteryVolts : UInt16,
   rawRainfall : UInt16, rawWindspeed : UInt16]

-----------------------------------------------------------------------------
(* The conversions of a parameter declared int16_t or uint16_t. *)
Word == 65536
AsUint16(n) == n % Word
AsInt16(n) == ((n + Word \div 2) % Word) - Word \div 2

(* _computeTemperature, in 1/128 of a degree. *)
ComputeTemperature(raw) == AsInt16(raw)

(* _computeHumidity, in 1e-7 %. *)
Percent == 10000000
ComputeHumidity(raw) == -6 * Percent + 19074 * raw

(* Mutant: only the lower end is clamped. *)
Humidity_ClampedBelow(p) ==
  IF ComputeHumidity(p.rawHumidity) < 0 THEN 0 ELSE ComputeHumidity(p.rawHumidity)

(* target->humidity, clamped. *)
Humidity(p) ==
  LET humidity == ComputeHumidity(p.rawHumidity)
  IN  IF humidity < 0 THEN 0
      ELSE IF humidity > 100 * Percent THEN 100 * Percent ELSE humidity

(***************************************************************************)
(* _computeDewPoint, from the humidity before it is clamped.  The          *)
(* temperature passes through a uint16_t on its way.                       *)
(***************************************************************************)
DewPoint(p) ==
  LET humidity == ComputeHumidity(p.rawHumidity)
  IN  [is   |-> IF humidity <= 0 THEN "nan"
                ELSE IF humidity > 100 * Percent THEN "above" ELSE "atMost",
       than |-> ComputeTemperature(AsUint16(p.rawTemperature))]

(* Mutant: the division by 100 is forgotten. *)
ActualPressure_Pascal(p) == 100 * p.rawICPPressure

(* In hundredths of a hPa. *)
ActualPressure(p) == p.rawICPPressure

(* In 1/10000 mm, 1e-6 mph, 1/8000000 V and 1/1000 % an hour. *)
Rainfall(p) == p.rawRainfall * 2794
Windspeed(p) == p.rawWindspeed * AnemometerFactor
BatteryVoltage(p) == p.rawBatteryVolts * 625
BatteryChargeRate(p) == p.rawBatteryChargeRate * 208

(* _getAltitudeAdjustedPressure, raw / compensationFactor: less than 10000 hPa. *)
AdjustedPressureFits(p) == p.rawICPPressure < CompensationFactor

-----------------------------------------------------------------------------
(* x, in units of 1/scale, has at most so many digits before the point. *)
FitsNumeric(x, scale, limit) == -limit * scale < x /\ x < limit * scale

(***************************************************************************)
(* The INSERT into weather_data: every number fits its column, wind_gust   *)
(* like wind_speed, and a NaN, which printf writes as nan, is not a number *)
(* to the server.                                                          *)
(***************************************************************************)
WeatherRowFits(p) ==
  /\ FitsNumeric(ComputeTemperature(p.rawTemperature), 128, 1000)
  /\ DewPoint(p).is # "nan"
  /\ FitsNumeric(ActualPressure(p), 100, 10000)
  /\ AdjustedPressureFits(p)
  /\ FitsNumeric(Humidity(p) \div Percent, 1, 1000)
  /\ FitsNumeric(Rainfall(p), 10000, 100000)
  /\ FitsNumeric(Windspeed(p), 1000000, 1000)

(* The INSERT into telemetry_data. *)
TelemetryRowFits(p) ==
  /\ FitsNumeric(BatteryVoltage(p), 8000000, 10)
  /\ FitsNumeric(BatteryChargeRate(p), 1000, 1000)
=============================================================================
