----------------------------- MODULE NRFListen ------------------------------
(***************************************************************************)
(* NRFListenThread::run (threads.cpp): poll the radio, turn each weather   *)
(* packet into a weather_transform_t, hand one in every                    *)
(* postCycleSeconds / 30 to the Weather-Observations-Website queue and     *)
(* every one to the database queue.                                        *)
(***************************************************************************)
EXTENDS Queues

CONSTANTS
  PostCycleSeconds,   \* wow.postcycletime; 0 when the key is missing (atoi "")
  MaxPackets          \* bound: weather packets received over all runs

ASSUME PostCycleAssumption == PostCycleSeconds \in Int
ASSUME MaxPacketsAssumption == MaxPackets \in Nat

VARIABLES
  nrfPc,        \* where run() is
  msgCounter,   \* local of run(): seconds since the last hand-over to WoW
  transform,    \* the function-static buffer transformWeatherPacket fills
  rx            \* history: weather packets dispatched so far, over all runs

nrfVars == <<nrfPc, msgCounter, transform, rx>>

NrfPcs == {"unborn", "open", "poll", "web", "db", "thrown"}

NrfTypeOK ==
  /\ nrfPc \in NrfPcs
  /\ msgCounter \in Nat
  /\ transform \in Nat
  /\ rx \in Nat

NrfInit ==
  /\ nrfPc = "unborn"
  /\ msgCounter = 0
  /\ transform = 0
  /\ rx = 0

(* The station sends one weather packet every 30 seconds. *)
PacketSeconds == 30

-----------------------------------------------------------------------------

(* radio.configureSPI and radio.open succeed: enter the polling loop. *)
OpenRadio ==
  /\ alive /\ nrfPc = "open"
  /\ nrfPc' = "poll"
  /\ UNCHANGED <<msgCounter, transform, rx, alive, dbq, webPostQueue>>

(***************************************************************************)
(* nrfcfg::validate or nrf24l01::open throws nrf24_error.  _threadRunner   *)
(* catches thread_error only, so std::terminate ends the process.          *)
(***************************************************************************)
OpenRadioThrows ==
  /\ alive /\ nrfPc = "open"
  /\ "radio" \in Faults
  /\ nrfPc' = "thrown"
  /\ alive' = FALSE
  /\ UNCHANGED <<msgCounter, transform, rx, dbq, webPostQueue>>

(***************************************************************************)
(* A weather packet: the static transform buffer is overwritten, 30 is     *)
(* added to msgCounter, and the counter is compared for equality.          *)
(***************************************************************************)
WeatherPacket ==
  /\ alive /\ nrfPc = "poll"
  /\ rx < MaxPackets
  /\ rx' = rx + 1
  /\ transform' = rx + 1
  /\ msgCounter' = msgCounter + PacketSeconds
  /\ nrfPc' = IF msgCounter + PacketSeconds = PostCycleSeconds THEN "web" ELSE "db"
  /\ UNCHANGED <<alive, dbq, webPostQueue>>

(* Mutant: dbq.push has become the else branch of the hand-over. *)
PushWeb_SkipsDb ==
  /\ alive /\ nrfPc = "web"
  /\ Push(webPostQueue, transform, webPostQueue')
  /\ msgCounter' = 0
  /\ nrfPc' = "poll"
  /\ UNCHANGED <<transform, rx, alive, dbq>>

(* Mutant: msgCounter is not reset after a hand-over. *)
PushWeb_NoReset ==
  /\ alive /\ nrfPc = "web"
  /\ Push(webPostQueue, transform, webPostQueue')
  /\ nrfPc' = "db"
  /\ UNCHANGED <<msgCounter, transform, rx, alive, dbq>>

(* webPostQueue.push of the transform; msgCounter = 0 *)
PushWeb ==
  /\ alive /\ nrfPc = "web"
  /\ Push(webPostQueue, transform, webPostQueue')
  /\ msgCounter' = 0
  /\ nrfPc' = "db"
  /\ UNCHANGED <<transform, rx, alive, dbq>>

(* dbq.push of the transform; break *)
PushDb ==
  /\ alive /\ nrfPc = "db"
  /\ Push(dbq, transform, dbq')
  /\ nrfPc' = "poll"
  /\ UNCHANGED <<msgCounter, transform, rx, alive, webPostQueue>>

(* Mutant: the transform of a sleep packet is queued like a weather packet's. *)
SleepPacket_Queued ==
  /\ alive /\ nrfPc = "poll"
  /\ transform' = 0
  /\ nrfPc' = "db"
  /\ UNCHANGED <<msgCounter, rx, alive, dbq, webPostQueue>>

(***************************************************************************)
(* A sleep packet reuses the last weather packet's bytes with another      *)
(* battery voltage: the static buffer no longer holds a weather reading,   *)
(* and nothing is queued.  Watchdog packets and unknown packet types are   *)
(* only logged.                                                            *)
(***************************************************************************)
SleepPacket ==
  /\ alive /\ nrfPc = "poll"
  /\ transform' = 0
  /\ UNCHANGED <<nrfPc, msgCounter, rx, alive, dbq, webPostQueue>>

(* What the thread does once it has been given something to do. *)
NrfStep == OpenRadio \/ OpenRadioThrows \/ PushWeb \/ PushDb

NrfNext == NrfStep \/ WeatherPacket \/ SleepPacket
=============================================================================
