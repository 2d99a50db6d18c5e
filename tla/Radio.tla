-------------------------------- MODULE Radio --------------------------------
(***************************************************************************)
(* The nRF24L01 driver (radio.cpp) as NRFListenThread uses it, and the     *)
(* part of the chip it depends on: the CE line, the CONFIG register, the   *)
(* registers that tune it to the station, the address of its pipe, the     *)
(* RX_DR flag of STATUS and the three-deep RX FIFO.  The chip receives     *)
(* between any two SPI transfers of the driver; it keeps its registers and *)
(* its FIFO when the process dies.                                         *)
(*                                                                         *)
(* A transfer that fails is ignored by every caller but one: writes change *)
(* nothing, reads leave their buffer as it was.                            *)
(***************************************************************************)
EXTENDS Integers, Sequences, FiniteSets

CONSTANTS
  RadioFaults,   \* subset of {"spi", "kill"}
  Garbage,       \* what the chip sends for a payload it does not have
  MaxFailures,   \* bound: transfers that fail in a run
  MaxSent,       \* bound: packets the station transmits
  MaxRuns        \* bound: runs of the process

ASSUME RadioFaultsAssumption == RadioFaults \subseteq {"spi", "kill"}
ASSUME GarbageAssumption == Garbage \notin Int
ASSUME BoundsAssumption == MaxFailures \in Nat /\ MaxSent \in Nat /\ MaxRuns \in Nat

VARIABLES
  pc,         \* where the listener thread is in the driver
  ce,         \* the CE line: TRUE while the chip may receive
  config,     \* CONFIG register
  untuned,    \* tuning registers that do not hold what open() writes to them
  rxAddress,  \* RX_ADDR_P0: the "reset" value, the "local" or the "remote" address
  rxDr,       \* STATUS.RX_DR
  fifo,       \* RX FIFO, oldest packet first
  rxBuffer,   \* static buffer of readPayload
  sent,       \* history: packets transmitted by the station
  received,   \* history: packets the chip took since this run powered it up
  delivered,  \* history: payloads readPayload returned in this run
  failures,   \* history: transfers of this run that have failed
  runs        \* history: runs of the process

tuneVars == <<untuned, rxAddress>>
chipVars == <<ce, config, tuneVars, rxDr, fifo>>
feedVars == <<sent, received, delivered, runs>>
vars == <<pc, chipVars, rxBuffer, failures, feedVars>>

FifoDepth == 3
Packet == Nat \ {0}
Payload == Packet \cup {Garbage}

(* Those whose value at power-on is not the one the station needs. *)
TuningRegisters == {"RF_CH", "RX_PW_P0", "RF_SETUP", "EN_AA"}

Opening == {"configure", "channel", "powerdown", "rf", "local", "remote",
            "flush", "powerup", "verify"}
Polling == {"status", "fifo", "read", "clear"}

TypeOK ==
  /\ pc \in Opening \cup Polling \cup {"dead"}
  /\ ce \in BOOLEAN
  /\ config \in 0..15
  /\ untuned \subseteq TuningRegisters
  /\ rxAddress \in {"reset", "local", "remote"}
  /\ rxDr \in BOOLEAN
  /\ fifo \in Seq(Packet) /\ Len(fifo) <= FifoDepth
  /\ rxBuffer \in Payload
  /\ sent \in Nat
  /\ received \in Seq(Packet)
  /\ delivered \in Seq(Payload)
  /\ failures \in Nat
  /\ runs \in Nat

(* CONFIG bits (radio.h): PRIM_RX 1, PWR_UP 2, CRCO 4, EN_CRC 8. *)
PrimRx(c) == c % 2 = 1
PwrUp(c) == (c \div 2) % 2 = 1
EnCrc == 8
ResetConfig == EnCrc

(* open() stores nothing of its nrfcfg in nrfConfig, which keeps the default. *)
NumCrcBytes == 2

(* Mutant: the flags are added, DISABLE_CRC (0x08, like ENABLE_CRC) with them. *)
RxConfig_Added == EnCrc + EnCrc + (IF NumCrcBytes = 1 THEN 0 ELSE 4) + 2 + 1

(* What rfPowerUpRx writes, and rfPowerDown: ENABLE_CRC | numCRCBytes. *)
RxConfig == EnCrc + (IF NumCrcBytes = 1 THEN 0 ELSE 4) + 2 + 1
PowerDownConfig == EnCrc + NumCrcBytes

(* The station sends to radio.remoteaddress: it is the address set last. *)
Listening ==
  ce /\ PwrUp(config) /\ PrimRx(config) /\ untuned = {} /\ rxAddress = "remote"

(* The chip after power-on, the driver before configureSPI. *)
Init ==
  /\ pc = "configure"
  /\ ce = FALSE /\ config = ResetConfig
  /\ untuned = TuningRegisters /\ rxAddress = "reset" /\ rxDr = FALSE /\ fifo = <<>>
  /\ rxBuffer = Garbage
  /\ sent = 0 /\ received = <<>> /\ delivered = <<>>
  /\ failures = 0
  /\ runs = 1

(* lgSpiXfer succeeds, or fails if the environment lets it. *)
Succeeds == UNCHANGED failures
Fails ==
  /\ "spi" \in RadioFaults /\ failures < MaxFailures
  /\ failures' = failures + 1

-----------------------------------------------------------------------------
(* configureSPI and open. *)

(* lgGpioClaimOutput and chipDisable pull CE low. *)
ConfigureSPI ==
  /\ pc = "configure"
  /\ ce' = FALSE
  /\ pc' = "channel"
  /\ UNCHANGED <<config, tuneVars, rxDr, fifo, rxBuffer, failures, feedVars>>

(* Writes to registers, of which some are lost; the chip is disabled.  (A *)
(* lost write to one that is right since power-on changes nothing.)       *)
WriteTuning(registers) ==
  \E lost \in SUBSET registers :
    /\ lost # {} => "spi" \in RadioFaults /\ failures + Cardinality(lost) <= MaxFailures
    /\ failures' = failures + Cardinality(lost)
    /\ untuned' = untuned \ (registers \ lost)

(* setRFChannel, setRFPayloadLength, setRFAddressLength. *)
SetChannel ==
  /\ pc = "channel"
  /\ WriteTuning({"RF_CH", "RX_PW_P0"})
  /\ pc' = "powerdown"
  /\ UNCHANGED <<ce, config, rxAddress, rxDr, fifo, rxBuffer, feedVars>>

(* rfPowerDown: CE low, write CONFIG. *)
PowerDown ==
  /\ pc = "powerdown"
  /\ ce' = FALSE
  /\ \/ Succeeds /\ config' = PowerDownConfig
     \/ Fails /\ UNCHANGED config
  /\ pc' = "rf"
  /\ UNCHANGED <<tuneVars, rxDr, fifo, rxBuffer, feedVars>>

(* SETUP_RETR, rfSetup, EN_AA, FEATURE. *)
RfSetup ==
  /\ pc = "rf"
  /\ WriteTuning({"RF_SETUP", "EN_AA"})
  /\ pc' = "local"
  /\ UNCHANGED <<ce, config, rxAddress, rxDr, fifo, rxBuffer, feedVars>>

(* setLocalAddress writes RX_ADDR_P0 and leaves CE high. *)
SetLocalAddress ==
  /\ pc = "local"
  /\ ce' = TRUE
  /\ \/ Succeeds /\ rxAddress' = "local"
     \/ Fails /\ UNCHANGED rxAddress
  /\ pc' = "remote"
  /\ UNCHANGED <<config, untuned, rxDr, fifo, rxBuffer, feedVars>>

(* Mutant: setRemoteAddress writes TX_ADDR only. *)
SetRemoteAddress_TxOnly ==
  /\ pc = "remote"
  /\ ce' = TRUE
  /\ Succeeds \/ Fails
  /\ pc' = "flush"
  /\ UNCHANGED <<config, tuneVars, rxDr, fifo, rxBuffer, feedVars>>

(* setRemoteAddress writes TX_ADDR and, over it, RX_ADDR_P0. *)
SetRemoteAddress ==
  /\ pc = "remote"
  /\ ce' = TRUE
  /\ \/ Succeeds /\ rxAddress' = "remote"
     \/ Fails /\ rxAddress' \in {rxAddress, "remote"}
  /\ pc' = "flush"
  /\ UNCHANGED <<config, untuned, rxDr, fifo, rxBuffer, feedVars>>

(* Mutant: open() does not flush the RX FIFO. *)
FlushRx_Omitted ==
  /\ pc = "flush"
  /\ Succeeds \/ Fails
  /\ pc' = "powerup"
  /\ UNCHANGED <<chipVars, rxBuffer, feedVars>>

(* rfFlushRx: what arrived before this run is thrown away. *)
FlushRx ==
  /\ pc = "flush"
  /\ \/ Succeeds /\ fifo' = <<>>
     \/ Fails /\ UNCHANGED fifo
  /\ pc' = "powerup"
  /\ UNCHANGED <<ce, config, tuneVars, rxDr, rxBuffer, feedVars>>

(***************************************************************************)
(* rfPowerUpRx: CE low, write CONFIG, clear the STATUS flags, CE high.     *)
(* Nothing is received while CE is low, so this is one step.               *)
(***************************************************************************)
PowerUpRx ==
  /\ pc = "powerup"
  /\ ce' = TRUE
  /\ \/ Succeeds /\ config' = RxConfig /\ rxDr' = FALSE
     \/ /\ Fails
        /\ \/ UNCHANGED config /\ rxDr' \in {rxDr, FALSE}
           \/ config' = RxConfig /\ UNCHANGED rxDr
  /\ received' = <<>>
  /\ pc' = "verify"
  /\ UNCHANGED <<tuneVars, fifo, rxBuffer, sent, delivered, runs>>

(* CONFIG is read back: anything but 0 is taken for a working radio, a *)
(* CONFIG the failed write of PowerUpRx left as it was included.        *)
Verify ==
  /\ pc = "verify"
  /\ config # 0
  /\ pc' = "status"
  /\ UNCHANGED <<chipVars, rxBuffer, failures, feedVars>>

(***************************************************************************)
(* open throws nrf24_error, which ends the process: the read failed.  (The *)
(* 0x00 of a board without a chip ends it too; the chip here is present.)  *)
(***************************************************************************)
VerifyThrows ==
  /\ pc = "verify"
  /\ Fails
  /\ pc' = "dead"
  /\ UNCHANGED <<chipVars, rxBuffer, feedVars>>

-----------------------------------------------------------------------------
(* The polling loop: isDataReady, then readPayload. *)

(* The sign bits of a failed transfer's error code may look like RX_DR. *)
GetStatus ==
  /\ pc = "status"
  /\ \/ Succeeds /\ pc' = IF rxDr THEN "read" ELSE "fifo"
     \/ Fails /\ pc' \in {"read", "fifo"}
  /\ UNCHANGED <<chipVars, rxBuffer, feedVars>>

(* Mutant: isDataReady looks at RX_DR only. *)
ReadFifoStatus_Ignored ==
  /\ pc = "fifo"
  /\ Succeeds \/ Fails
  /\ pc' = "status"
  /\ UNCHANGED <<chipVars, rxBuffer, feedVars>>

(* Bit 0 of FIFO_STATUS is RX_EMPTY; unread, fifoStatus is indeterminate. *)
ReadFifoStatus ==
  /\ pc = "fifo"
  /\ \/ Succeeds /\ pc' = IF fifo # <<>> THEN "read" ELSE "status"
     \/ Fails /\ pc' \in {"read", "status"}
  /\ UNCHANGED <<chipVars, rxBuffer, feedVars>>

(***************************************************************************)
(* R_RX_PAYLOAD takes the oldest packet off the FIFO; of an empty FIFO the *)
(* chip sends the bytes of an old packet or rubbish.                       *)
(***************************************************************************)
ReadRxPayload ==
  /\ pc = "read"
  /\ \/ /\ Succeeds
        /\ fifo # <<>>
        /\ rxBuffer' = Head(fifo) /\ fifo' = Tail(fifo)
     \/ /\ Succeeds
        /\ fifo = <<>>
        /\ rxBuffer' \in {rxBuffer, Garbage} /\ UNCHANGED fifo
     \/ Fails /\ UNCHANGED <<rxBuffer, fifo>>
  /\ pc' = "clear"
  /\ UNCHANGED <<ce, config, tuneVars, rxDr, feedVars>>

(* Mutant: RX_DR is not cleared. *)
ClearRxDr_Omitted ==
  /\ pc = "clear"
  /\ Succeeds \/ Fails
  /\ ce' = TRUE
  /\ delivered' = Append(delivered, rxBuffer)
  /\ pc' = "status"
  /\ UNCHANGED <<config, tuneVars, rxDr, fifo, rxBuffer, sent, received, runs>>

(* Mutant: the RX FIFO is flushed after each packet. *)
ClearRxDr_Flushes ==
  /\ pc = "clear"
  /\ \/ Succeeds /\ rxDr' = FALSE /\ fifo' = <<>>
     \/ Fails /\ UNCHANGED <<rxDr, fifo>>
  /\ ce' = TRUE
  /\ delivered' = Append(delivered, rxBuffer)
  /\ pc' = "status"
  /\ UNCHANGED <<config, tuneVars, rxBuffer, sent, received, runs>>

(* CE low, clear RX_DR, CE high, return the buffer to the listener. *)
ClearRxDr ==
  /\ pc = "clear"
  /\ \/ Succeeds /\ rxDr' = FALSE
     \/ Fails /\ UNCHANGED rxDr
  /\ ce' = TRUE
  /\ delivered' = Append(delivered, rxBuffer)
  /\ pc' = "status"
  /\ UNCHANGED <<config, tuneVars, fifo, rxBuffer, sent, received, runs>>

DriverStep ==
  \/ ConfigureSPI \/ SetChannel \/ PowerDown \/ RfSetup
  \/ SetLocalAddress \/ SetRemoteAddress \/ FlushRx
  \/ PowerUpRx \/ Verify \/ VerifyThrows
  \/ GetStatus \/ ReadFifoStatus \/ ReadRxPayload \/ ClearRxDr

-----------------------------------------------------------------------------
(* The station, the chip and the process. *)

(* A transmission reaches a chip that is listening and has room. *)
Receive ==
  /\ sent < MaxSent
  /\ Listening /\ Len(fifo) < FifoDepth
  /\ sent' = sent + 1
  /\ fifo' = Append(fifo, sent + 1)
  /\ rxDr' = TRUE
  /\ received' = Append(received, sent + 1)
  /\ UNCHANGED <<pc, ce, config, tuneVars, rxBuffer, delivered, failures, runs>>

(* A transmission is lost in the air, or to a chip that takes no packet. *)
Miss ==
  /\ sent < MaxSent
  /\ sent' = sent + 1
  /\ UNCHANGED <<pc, chipVars, rxBuffer, received, delivered, failures, runs>>

Kill ==
  /\ "kill" \in RadioFaults
  /\ pc # "dead"
  /\ pc' = "dead"
  /\ UNCHANGED <<chipVars, rxBuffer, failures, feedVars>>

(* A new run finds the chip as the old one left it; CE may have dropped. *)
Boot ==
  /\ pc = "dead" /\ runs < MaxRuns
  /\ pc' = "configure"
  /\ ce' \in {ce, FALSE}
  /\ rxBuffer' = Garbage
  /\ received' = <<>> /\ delivered' = <<>>
  /\ failures' = 0
  /\ runs' = runs + 1
  /\ UNCHANGED <<config, tuneVars, rxDr, fifo, sent>>

Next == DriverStep \/ Receive \/ Miss \/ Kill \/ Boot

(* The listener thread keeps polling; nothing is promised of the station. *)
Spec == Init /\ [][Next]_vars /\ WF_vars(DriverStep)

-----------------------------------------------------------------------------

(***************************************************************************)
(* While no transfer fails, the payloads handed to the listener are the    *)
(* packets the chip has received since this run powered it up, each once   *)
(* and in order: the rest is in the buffer or the FIFO.  Nothing is left   *)
(* over from an earlier run.                                               *)
(***************************************************************************)
FeedIsExact ==
  failures = 0 /\ pc \in Polling =>
    received = delivered \o (IF pc = "clear" THEN <<rxBuffer>> ELSE <<>>) \o fifo

(***************************************************************************)
(* isDataReady answers yes only when there is a packet to read: RX_DR is   *)
(* never left set over an empty FIFO, although packets arrive between the  *)
(* read of a payload and the clearing of the flag.                         *)
(***************************************************************************)
ReadyMeansPacket == failures = 0 /\ pc = "read" => fifo # <<>>

(***************************************************************************)
(* A run of which no transfer failed hears the station while it polls,     *)
(* whatever address, settings and power state the runs before it left in   *)
(* the chip.  (open: only a read that fails, or CONFIG 0x00, is an error;  *)
(* a run that lost a write polls a deaf chip.)                             *)
(***************************************************************************)
DeafOnlyAfterFailure == failures = 0 /\ pc \in Polling => Listening

(***************************************************************************)
(* Failed transfers may repeat a payload or make one up, but a packet that *)
(* the chip has received is still in the FIFO, in the buffer or delivered. *)
(***************************************************************************)
NothingReceivedIsLost ==
  pc \in Polling =>
    \A i \in DOMAIN received :
      \/ \E j \in DOMAIN fifo : fifo[j] = received[i]
      \/ \E j \in DOMAIN delivered : delivered[j] = received[i]
      \/ pc = "clear" /\ rxBuffer = received[i]

(***************************************************************************)
(* No packet stays in the FIFO until the next one comes: RX_DR may be gone *)
(* while packets are left, and FIFO_STATUS then shows them.                *)
(***************************************************************************)
PacketsAreDrained ==
  \A p \in 1..MaxSent :
    (pc \in Polling /\ failures = 0 /\ \E i \in DOMAIN fifo : fifo[i] = p)
      ~> (pc = "dead" \/ failures > 0 \/ \E i \in DOMAIN delivered : delivered[i] = p)

(* The payload that has left the FIFO and has not been returned. *)
InBuffer == IF pc = "clear" THEN <<rxBuffer>> ELSE <<>>

(***************************************************************************)
(* The driver and the chip implement a channel: a payload is given when it *)
(* is read off the FIFO, and a run is ready once open() has flushed that.  *)
(***************************************************************************)
Given == IF pc = "dead" THEN <<>> ELSE delivered \o InBuffer
Ready == pc \in {"powerup", "verify"} \cup Polling
Faulty == failures > 0

Ch == INSTANCE Channel WITH
        chip <- fifo,
        given <- Given,
        ready <- Ready,
        faulty <- Faulty

ChannelSpec == Ch!Spec

-----------------------------------------------------------------------------
(***************************************************************************)
(* Towards an inductive invariant.  What open() has done so far, in a run  *)
(* of which no transfer has failed:                                        *)
(***************************************************************************)
Opened == {"verify"} \cup Polling
Retuned == {"powerdown", "rf"}
Tuned == {"local", "remote", "flush", "powerup"} \cup Opened
Silent == {"rf", "local", "remote", "flush", "powerup"}

TunedInv ==
  failures = 0 =>
    /\ pc \in Retuned => untuned \cap {"RF_CH", "RX_PW_P0"} = {}
    /\ pc \in Tuned => untuned = {}
    /\ pc \in Silent => config = PowerDownConfig
    /\ pc \in {"flush", "powerup"} \cup Opened => rxAddress = "remote"
    /\ pc \in Opened => ce /\ config = RxConfig

FeedInv ==
  /\ pc \in Opening => delivered = <<>>
  /\ failures = 0 =>
       /\ pc = "powerup" => fifo = <<>>
       /\ pc \in Opened => received = delivered \o InBuffer \o fifo
       /\ pc \in {"verify", "status", "fifo"} /\ rxDr => fifo # <<>>
       /\ ReadyMeansPacket

(* Whatever fails. *)
KeptInv ==
  pc \in Opened =>
    \A i \in DOMAIN received :
      \/ \E j \in DOMAIN fifo : fifo[j] = received[i]
      \/ \E j \in DOMAIN delivered : delivered[j] = received[i]
      \/ pc = "clear" /\ rxBuffer = received[i]

(* The buffer holds what was returned last, until it is read into again. *)
BufferInv ==
  pc \notin {"clear", "dead"} =>
    rxBuffer = IF delivered = <<>> THEN Garbage ELSE delivered[Len(delivered)]

IInv == TypeOK /\ TunedInv /\ FeedInv /\ KeptInv /\ BufferInv
=============================================================================
