---------------------------- MODULE Radio_proofs -----------------------------
(***************************************************************************)
(* Proofs about the radio driver and its chip: for any number of packets,  *)
(* runs and failed transfers, what is delivered is what was received, a    *)
(* run without failures is not deaf, and no failure loses a packet.        *)
(***************************************************************************)
EXTENDS Radio, FiniteSetTheorems, SequenceTheorems, TLAPS

(* What is written to CONFIG: powered up to receive, or powered up but not. *)
LEMMA ConfigFacts ==
  /\ RxConfig \in 0..15 /\ PowerDownConfig \in 0..15 /\ ResetConfig \in 0..15
  /\ PrimRx(RxConfig) /\ PwrUp(RxConfig)
  /\ ~PrimRx(PowerDownConfig)
BY DEF RxConfig, PowerDownConfig, ResetConfig, NumCrcBytes, EnCrc, PrimRx, PwrUp

(* The oldest packet goes from the FIFO to the buffer ... *)
LEMMA ConcatHead ==
  ASSUME NEW S, NEW s \in Seq(S), NEW u \in Seq(S), u # <<>>
  PROVE  s \o <<>> \o u = s \o <<Head(u)>> \o Tail(u)
<1>1. Head(u) \in S /\ Tail(u) \in Seq(S) /\ <<Head(u)>> \in Seq(S)
  BY HeadTailProperties
<1>2. u = <<Head(u)>> \o Tail(u)
  <2>1. /\ <<Head(u)>> \o Tail(u) \in Seq(S)
        /\ Len(<<Head(u)>> \o Tail(u)) = Len(<<Head(u)>>) + Len(Tail(u))
        /\ \A i \in 1 .. Len(<<Head(u)>>) + Len(Tail(u)) :
             (<<Head(u)>> \o Tail(u))[i] =
               IF i <= Len(<<Head(u)>>) THEN <<Head(u)>>[i] ELSE Tail(u)[i - Len(<<Head(u)>>)]
    BY <1>1, ConcatProperties
  <2>2. /\ Len(<<Head(u)>>) = 1 /\ <<Head(u)>>[1] = u[1]
        /\ Len(u) \in Nat \ {0} /\ Len(Tail(u)) = Len(u) - 1
        /\ \A i \in 1 .. Len(Tail(u)) : Tail(u)[i] = u[i + 1]
    BY HeadTailProperties, EmptySeq
  <2>3. Len(<<Head(u)>> \o Tail(u)) = Len(u)
    BY <2>1, <2>2
  <2>4. ASSUME NEW i \in 1..Len(u) PROVE (<<Head(u)>> \o Tail(u))[i] = u[i]
    <3>1. CASE i = 1
      BY <2>1, <2>2, <3>1
    <3>2. CASE i > 1
      <4>1. i - 1 \in 1..Len(Tail(u)) /\ (i - 1) + 1 = i /\ i \in 1 .. 1 + Len(Tail(u))
        BY <2>2, <3>2
      <4>2. (<<Head(u)>> \o Tail(u))[i] = Tail(u)[i - 1]
        BY <2>1, <2>2, <3>2, <4>1
      <4>3. Tail(u)[i - 1] = u[i]
        BY <2>2, <4>1
      <4>. QED
        BY <4>2, <4>3
    <3>. QED
      BY <2>2, <3>1, <3>2
  <2>. QED
    BY <2>1, <2>3, <2>4, SeqEqual
<1>3. s \o <<>> = s
  BY ConcatEmptySeq
<1>4. (s \o <<Head(u)>>) \o Tail(u) = s \o (<<Head(u)>> \o Tail(u))
  BY <1>1, ConcatAssociative
<1>. QED
  BY <1>2, <1>3, <1>4

(* ... and from the buffer to the listener. *)
LEMMA ConcatReturn ==
  ASSUME NEW S, NEW s \in Seq(S), NEW u \in Seq(S), NEW e \in S
  PROVE  s \o <<e>> \o u = Append(s, e) \o <<>> \o u
<1>1. Append(s, e) = s \o <<e>> /\ Append(s, e) \in Seq(S)
  BY AppendIsConcat, AppendProperties
<1>2. Append(s, e) \o <<>> = Append(s, e)
  BY <1>1, ConcatEmptySeq
<1>. QED
  BY <1>1, <1>2

(* Nothing is lost by a write if no failure is counted. *)
LEMMA WriteTuningFacts ==
  ASSUME TypeOK, NEW R, IsFiniteSet(R), WriteTuning(R)
  PROVE  /\ failures' \in Nat /\ failures <= failures'
         /\ untuned' \subseteq untuned
         /\ failures' = 0 => failures = 0 /\ untuned' = untuned \ R
<1>1. PICK lost \in SUBSET R :
        failures' = failures + Cardinality(lost) /\ untuned' = untuned \ (R \ lost)
  BY DEF WriteTuning
<1>2. IsFiniteSet(lost) /\ Cardinality(lost) \in Nat
  BY FS_Subset, FS_CardinalityType
<1>3. Cardinality(lost) = 0 => lost = {}
  BY <1>2, FS_EmptySet
<1>4. failures \in Nat
  BY DEF TypeOK
<1>. QED
  BY <1>1, <1>2, <1>3, <1>4

(* The registers of one call are finitely many. *)
LEMMA PairsAreFinite == \A x, y : IsFiniteSet({x, y})
<1>. SUFFICES ASSUME NEW x, NEW y PROVE IsFiniteSet({x, y})
  OBVIOUS
<1>1. IsFiniteSet({x} \cup {y})
  BY FS_Singleton, FS_AddElement
<1>2. {x} \cup {y} = {x, y}
  OBVIOUS
<1>. QED
  BY <1>1, <1>2

(* A failure is counted, and never uncounted within a run. *)
LEMMA FailsFacts ==
  ASSUME TypeOK, Succeeds \/ Fails
  PROVE  failures' \in Nat /\ failures' \in {failures, failures + 1}
         /\ (Fails => failures' # 0) /\ (failures' = 0 => failures = 0)
BY DEF TypeOK, Succeeds, Fails

-----------------------------------------------------------------------------
(* Types. *)

(* The empty sequence is one of packets and of payloads. *)
LEMMA NothingYet == <<>> \in Seq(Packet) /\ <<>> \in Seq(Payload) /\ Len(<<>>) = 0
BY EmptySeq

(* The chip after power-on has its types. *)
LEMMA InitTypeOK == Init => TypeOK
<1>. SUFFICES ASSUME Init PROVE TypeOK
  OBVIOUS
<1>1. /\ fifo \in Seq(Packet) /\ Len(fifo) <= FifoDepth
      /\ received \in Seq(Packet) /\ delivered \in Seq(Payload)
  BY NothingYet DEF Init, FifoDepth
<1>2. rxBuffer \in Payload /\ config \in 0..15
  BY ConfigFacts DEF Init, Payload
<1>. QED
  BY <1>1, <1>2 DEF Init, TypeOK, Opening, Polling, TuningRegisters

(* Each step of open() keeps the types. *)
LEMMA OpeningKeepsTypes ==
  ASSUME TypeOK,
         ConfigureSPI \/ SetChannel \/ PowerDown \/ RfSetup \/ SetLocalAddress
           \/ SetRemoteAddress \/ FlushRx \/ PowerUpRx \/ Verify \/ VerifyThrows
  PROVE  TypeOK'
<1>. USE DEF TypeOK, Opening, Polling, tuneVars, feedVars, chipVars
<1>1. CASE ConfigureSPI
  BY <1>1 DEF ConfigureSPI
<1>2. CASE SetChannel
  BY <1>2, WriteTuningFacts, PairsAreFinite DEF SetChannel
<1>3. CASE PowerDown
  BY <1>3, FailsFacts, ConfigFacts DEF PowerDown
<1>4. CASE RfSetup
  BY <1>4, WriteTuningFacts, PairsAreFinite DEF RfSetup
<1>5. CASE SetLocalAddress
  BY <1>5, FailsFacts DEF SetLocalAddress
<1>6. CASE SetRemoteAddress
  BY <1>6, FailsFacts DEF SetRemoteAddress
<1>7. CASE FlushRx
  <2>1. fifo' \in {fifo, <<>>} /\ (Succeeds \/ Fails)
    BY <1>7 DEF FlushRx
  <2>2. fifo' \in Seq(Packet) /\ Len(fifo') <= FifoDepth
    <3>1. CASE fifo' = fifo
      BY <3>1
    <3>2. CASE fifo' = <<>>
      BY <3>2, NothingYet DEF FifoDepth
    <3>. QED
      BY <2>1, <3>1, <3>2
  <2>. QED
    BY <1>7, <2>1, <2>2, FailsFacts DEF FlushRx
<1>8. CASE PowerUpRx
  BY <1>8, FailsFacts, ConfigFacts, NothingYet DEF PowerUpRx
<1>9. CASE Verify \/ VerifyThrows
  BY <1>9, FailsFacts DEF Verify, VerifyThrows
<1>. QED
  BY <1>1, <1>2, <1>3, <1>4, <1>5, <1>6, <1>7, <1>8, <1>9

(* Each step of the polling loop does. *)
LEMMA PollingKeepsTypes ==
  ASSUME TypeOK, GetStatus \/ ReadFifoStatus \/ ReadRxPayload \/ ClearRxDr
  PROVE  TypeOK'
<1>. USE DEF TypeOK, Opening, Polling, tuneVars, feedVars, chipVars
<1>1. CASE GetStatus
  BY <1>1, FailsFacts DEF GetStatus
<1>2. CASE ReadFifoStatus
  BY <1>2, FailsFacts DEF ReadFifoStatus
<1>3. CASE ReadRxPayload
  <2>1. CASE Succeeds /\ fifo # <<>> /\ rxBuffer' = Head(fifo) /\ fifo' = Tail(fifo)
    <3>1. rxBuffer' \in Packet /\ fifo' \in Seq(Packet) /\ Len(fifo') = Len(fifo) - 1
          /\ Len(fifo) \in Nat
      BY <2>1, HeadTailProperties
    <3>2. Len(fifo') <= FifoDepth
      BY <3>1 DEF FifoDepth
    <3>. QED
      BY <1>3, <2>1, <3>1, <3>2, FailsFacts DEF ReadRxPayload, Payload
  <2>2. CASE UNCHANGED fifo /\ rxBuffer' \in {rxBuffer, Garbage} /\ (Succeeds \/ Fails)
    BY <1>3, <2>2, FailsFacts DEF ReadRxPayload, Payload
  <2>. QED
    BY <1>3, <2>1, <2>2 DEF ReadRxPayload
<1>4. CASE ClearRxDr
  <2>1. delivered' \in Seq(Payload)
    BY <1>4, AppendProperties DEF ClearRxDr
  <2>. QED
    BY <1>4, <2>1, FailsFacts DEF ClearRxDr
<1>. QED
  BY <1>1, <1>2, <1>3, <1>4

(* So do the station and the process. *)
LEMMA OthersKeepTypes ==
  ASSUME TypeOK, Receive \/ Miss \/ Kill \/ Boot
  PROVE  TypeOK'
<1>. USE DEF TypeOK, Opening, Polling, tuneVars, feedVars, chipVars
<1>1. CASE Receive
  <2>1. sent + 1 \in Packet /\ sent' = sent + 1
    BY <1>1 DEF Receive, Packet
  <2>2. fifo' \in Seq(Packet) /\ Len(fifo') = Len(fifo) + 1 /\ Len(fifo) \in Nat
        /\ received' \in Seq(Packet)
    BY <1>1, <2>1, AppendProperties DEF Receive
  <2>3. Len(fifo') <= FifoDepth
    BY <1>1, <2>2 DEF Receive, FifoDepth
  <2>. QED
    BY <1>1, <2>1, <2>2, <2>3 DEF Receive, Packet
<1>2. CASE Miss
  BY <1>2 DEF Miss
<1>3. CASE Kill
  BY <1>3 DEF Kill
<1>4. CASE Boot
  <2>1. received' \in Seq(Packet) /\ delivered' \in Seq(Payload) /\ rxBuffer' \in Payload
    BY <1>4, NothingYet DEF Boot, Payload
  <2>2. ce' \in BOOLEAN
    BY <1>4, Zenon DEF Boot
  <2>3. runs' \in Nat /\ failures' \in Nat /\ sent' \in Nat
    BY <1>4 DEF Boot
  <2>. QED
    BY <1>4, <2>1, <2>2, <2>3, Zenon DEF Boot
<1>. QED
  BY <1>1, <1>2, <1>3, <1>4

(* Every variable keeps its type, however many transfers fail. *)
THEOREM TypeCorrect == Spec => []TypeOK
<1>1. TypeOK /\ [Next]_vars => TypeOK'
  <2>. SUFFICES ASSUME TypeOK, [Next]_vars PROVE TypeOK'
    OBVIOUS
  <2>1. CASE DriverStep
    BY <2>1, OpeningKeepsTypes, PollingKeepsTypes DEF DriverStep
  <2>2. CASE Receive \/ Miss \/ Kill \/ Boot
    BY <2>2, OthersKeepTypes
  <2>3. CASE UNCHANGED vars
    BY <2>3 DEF vars, chipVars, tuneVars, feedVars, TypeOK
  <2>. QED
    BY <2>1, <2>2, <2>3 DEF Next
<1>. QED
  BY <1>1, InitTypeOK, PTL DEF Spec

-----------------------------------------------------------------------------
(* What open() has done. *)

(* A deaf chip receives nothing. *)
LEMMA SilentIsDeaf ==
  ASSUME TunedInv, failures = 0, pc \in Silent
  PROVE  ~Listening
BY ConfigFacts DEF TunedInv, Listening

(* Nothing has been written or received. *)
LEMMA InitInvs == Init => TunedInv /\ FeedInv /\ KeptInv /\ BufferInv
BY DEF Init, TunedInv, FeedInv, KeptInv, BufferInv, ReadyMeansPacket,
       Opened, Polling, Tuned, Retuned, Silent

(* Each step does to the chip what the next one relies on. *)
LEMMA TunedPreserved ==
  ASSUME TypeOK, TunedInv, [Next]_vars
  PROVE  TunedInv'
<1>. USE DEF TunedInv, Tuned, Retuned, Silent, Opened, Polling, tuneVars, feedVars, chipVars
<1>1. CASE ConfigureSPI
  BY <1>1 DEF ConfigureSPI
<1>2. CASE SetChannel
  <2>2. failures' = 0 => failures = 0 /\ untuned' = untuned \ {"RF_CH", "RX_PW_P0"}
    BY <1>2, WriteTuningFacts, PairsAreFinite DEF SetChannel
  <2>. QED
    BY <1>2, <2>2 DEF SetChannel
<1>3. CASE PowerDown
  BY <1>3, FailsFacts DEF PowerDown
<1>4. CASE RfSetup
  <2>2. failures' = 0 => failures = 0 /\ untuned' = untuned \ {"RF_SETUP", "EN_AA"}
    BY <1>4, WriteTuningFacts, PairsAreFinite DEF RfSetup
  <2>3. failures' = 0 => untuned' = {}
    BY <1>4, <2>2 DEF RfSetup, TypeOK, TuningRegisters
  <2>. QED
    BY <1>4, <2>2, <2>3 DEF RfSetup
<1>5. CASE SetLocalAddress
  BY <1>5, FailsFacts DEF SetLocalAddress
<1>6. CASE SetRemoteAddress
  BY <1>6, FailsFacts DEF SetRemoteAddress
<1>7. CASE FlushRx
  BY <1>7, FailsFacts DEF FlushRx
<1>8. CASE PowerUpRx
  BY <1>8, FailsFacts DEF PowerUpRx
<1>9. CASE Verify \/ VerifyThrows
  BY <1>9, FailsFacts DEF Verify, VerifyThrows
<1>10. CASE GetStatus \/ ReadFifoStatus
  BY <1>10, FailsFacts DEF GetStatus, ReadFifoStatus
<1>11. CASE ReadRxPayload
  BY <1>11, FailsFacts DEF ReadRxPayload
<1>12. CASE ClearRxDr
  BY <1>12, FailsFacts DEF ClearRxDr
<1>13. CASE Receive \/ Miss \/ Kill
  BY <1>13 DEF Receive, Miss, Kill
<1>14. CASE Boot
  BY <1>14 DEF Boot
<1>15. CASE UNCHANGED vars
  BY <1>15 DEF vars
<1>. QED
  BY <1>1, <1>2, <1>3, <1>4, <1>5, <1>6, <1>7, <1>8, <1>9, <1>10, <1>11, <1>12, <1>13,
     <1>14, <1>15 DEF Next, DriverStep

-----------------------------------------------------------------------------
(* The feed. *)

(* At most one payload is in the buffer. *)
LEMMA InBufferFacts ==
  ASSUME TypeOK PROVE InBuffer \in Seq(Payload)
BY NothingYet DEF InBuffer, TypeOK

(* A sequence of packets is one of payloads. *)
LEMMA PacketsArePayloads ==
  ASSUME NEW s \in Seq(Packet) PROVE s \in Seq(Payload)
BY SeqMonotonic DEF Payload

(* The packet that comes in goes to the back of everything. *)
LEMMA FeedGrows ==
  ASSUME TypeOK, NEW p \in Packet
  PROVE  Append(delivered \o InBuffer \o fifo, p) = delivered \o InBuffer \o Append(fifo, p)
<1>1. fifo \in Seq(Payload) /\ delivered \in Seq(Payload) /\ InBuffer \in Seq(Payload)
  BY InBufferFacts, PacketsArePayloads DEF TypeOK
<1>2. p \in Payload
  BY DEF Payload
<1>. DEFINE front == delivered \o InBuffer
<1>3. front \in Seq(Payload) /\ front \o fifo \in Seq(Payload) /\ <<p>> \in Seq(Payload)
  BY <1>1, <1>2, ConcatProperties
<1>4. (front \o fifo) \o <<p>> = front \o (fifo \o <<p>>)
  BY <1>1, <1>3, ConcatAssociative
<1>5. Append(front \o fifo, p) = (front \o fifo) \o <<p>>
  <2>. HIDE DEF front
  <2>. QED
    BY <1>2, <1>3, AppendIsConcat
<1>6. Append(fifo, p) = fifo \o <<p>>
  BY <1>1, <1>2, AppendIsConcat
<1>. QED
  BY <1>4, <1>5, <1>6

(* The feed stays received = delivered, buffer, FIFO. *)
LEMMA FeedPreserved ==
  ASSUME TypeOK, TypeOK', TunedInv, FeedInv, [Next]_vars
  PROVE  FeedInv'
<1>. USE DEF FeedInv, ReadyMeansPacket, Opened, Opening, Polling, InBuffer,
             tuneVars, feedVars, chipVars
<1>1. CASE ConfigureSPI \/ SetChannel \/ PowerDown \/ RfSetup \/ SetLocalAddress
             \/ SetRemoteAddress
  BY <1>1 DEF ConfigureSPI, SetChannel, PowerDown, RfSetup, SetLocalAddress, SetRemoteAddress
<1>2. CASE FlushRx
  BY <1>2, FailsFacts DEF FlushRx
<1>3. CASE PowerUpRx
  <2>1. failures' = 0 => failures = 0 /\ fifo' = <<>> /\ ~rxDr'
    BY <1>3, FailsFacts DEF PowerUpRx, Succeeds
  <2>2. delivered' = <<>> /\ received' = <<>> /\ pc' = "verify"
    BY <1>3 DEF PowerUpRx
  <2>3. <<>> \o <<>> \o <<>> = <<>>
    BY NothingYet, ConcatEmptySeq
  <2>. QED
    BY <2>1, <2>2, <2>3
<1>4. CASE Verify
  BY <1>4, FailsFacts DEF Verify
<1>5. CASE VerifyThrows
  BY <1>5, FailsFacts DEF VerifyThrows
<1>6. CASE GetStatus
  BY <1>6, FailsFacts DEF GetStatus
<1>7. CASE ReadFifoStatus
  BY <1>7, FailsFacts DEF ReadFifoStatus
<1>8. CASE ReadRxPayload
  <2>1. /\ pc = "read" /\ pc' = "clear" /\ UNCHANGED <<received, delivered>>
        /\ (failures' = 0 => failures = 0)
    BY <1>8, FailsFacts DEF ReadRxPayload
  <2>2. failures' = 0 => fifo # <<>> /\ rxBuffer' = Head(fifo) /\ fifo' = Tail(fifo)
    BY <1>8, <2>1, FailsFacts DEF ReadRxPayload
  <2>3. fifo # <<>> => delivered \o <<>> \o fifo = delivered \o <<Head(fifo)>> \o Tail(fifo)
    BY ConcatHead, PacketsArePayloads DEF TypeOK
  <2>. QED
    BY <2>1, <2>2, <2>3
<1>9. CASE ClearRxDr
  <2>1. /\ pc = "clear" /\ pc' = "status" /\ UNCHANGED <<received, fifo, rxBuffer>>
        /\ delivered' = Append(delivered, rxBuffer)
        /\ (failures' = 0 => failures = 0 /\ ~rxDr')
    BY <1>9, FailsFacts DEF ClearRxDr
  <2>2. delivered \o <<rxBuffer>> \o fifo = Append(delivered, rxBuffer) \o <<>> \o fifo
    BY ConcatReturn, PacketsArePayloads DEF TypeOK
  <2>. QED
    BY <2>1, <2>2
<1>10. CASE Receive
  <2>1. /\ UNCHANGED <<pc, delivered, failures, rxBuffer>> /\ Listening
        /\ fifo' = Append(fifo, sent + 1) /\ received' = Append(received, sent + 1)
    BY <1>10 DEF Receive
  <2>2. failures = 0 => pc # "powerup"
    BY <2>1, SilentIsDeaf DEF Silent
  <2>3. sent + 1 \in Packet /\ sent + 1 \in Payload
    BY DEF TypeOK, Packet, Payload
  <2>4. fifo' # <<>>
    BY <2>1, <2>3, AppendProperties DEF TypeOK
  <2>5. Append(delivered \o InBuffer \o fifo, sent + 1)
          = delivered \o InBuffer \o Append(fifo, sent + 1)
    BY <2>3, FeedGrows
  <2>. QED
    BY <2>1, <2>2, <2>4, <2>5
<1>11. CASE Miss
  BY <1>11 DEF Miss
<1>12. CASE Kill
  BY <1>12 DEF Kill
<1>13. CASE Boot
  BY <1>13 DEF Boot
<1>14. CASE UNCHANGED vars
  BY <1>14 DEF vars
<1>. QED
  BY <1>1, <1>2, <1>3, <1>4, <1>5, <1>6, <1>7, <1>8, <1>9, <1>10, <1>11, <1>12, <1>13,
     <1>14 DEF Next, DriverStep

(***************************************************************************)
(* Where a received packet can be.                                         *)
(***************************************************************************)
Kept(p) ==
  \/ \E j \in DOMAIN fifo : fifo[j] = p
  \/ \E j \in DOMAIN delivered : delivered[j] = p
  \/ pc = "clear" /\ rxBuffer = p

(* No step loses a received packet. *)
LEMMA KeptPreserved ==
  ASSUME TypeOK, TypeOK', KeptInv, [Next]_vars
  PROVE  KeptInv'
<1>. USE DEF Opened, Polling, tuneVars, feedVars, chipVars
<1>0. KeptInv <=> (pc \in Opened => \A i \in DOMAIN received : Kept(received[i]))
  BY DEF KeptInv, Kept
<1>a. ASSUME pc' \in Opened => pc \in Opened,
             UNCHANGED <<received, fifo, delivered>>,
             pc = "clear" => pc' = "clear" /\ rxBuffer' = rxBuffer
      PROVE  KeptInv'
  BY <1>a DEF KeptInv
<1>1. CASE ConfigureSPI \/ SetChannel \/ PowerDown \/ RfSetup \/ SetLocalAddress
             \/ SetRemoteAddress \/ FlushRx
  BY <1>1 DEF KeptInv, ConfigureSPI, SetChannel, PowerDown, RfSetup, SetLocalAddress,
              SetRemoteAddress, FlushRx
<1>2. CASE PowerUpRx
  BY <1>2, NothingYet DEF KeptInv, PowerUpRx
<1>3. CASE Verify \/ VerifyThrows \/ GetStatus \/ ReadFifoStatus
  BY <1>3, <1>a DEF Verify, VerifyThrows, GetStatus, ReadFifoStatus
<1>4. CASE ReadRxPayload
  <2>1. pc = "read" /\ pc' = "clear" /\ UNCHANGED <<received, delivered>>
    BY <1>4 DEF ReadRxPayload
  <2>2. CASE fifo # <<>> /\ rxBuffer' = Head(fifo) /\ fifo' = Tail(fifo)
    <3>1. /\ DOMAIN fifo = 1..Len(fifo) /\ DOMAIN fifo' = 1..Len(fifo') /\ Len(fifo) \in Nat
          /\ Len(fifo') = Len(fifo) - 1
          /\ \A j \in 1..Len(fifo') : fifo'[j] = fifo[j + 1]
          /\ rxBuffer' = fifo[1]
      BY <2>2, HeadTailProperties, LenProperties DEF TypeOK
    <3>2. ASSUME NEW i \in DOMAIN received PROVE Kept(received[i])'
      <4>1. CASE \E j \in DOMAIN delivered : delivered[j] = received[i]
        BY <2>1, <4>1 DEF Kept
      <4>2. CASE \E j \in DOMAIN fifo : fifo[j] = received[i]
        <5>1. PICK j \in DOMAIN fifo : fifo[j] = received[i]
          BY <4>2
        <5>2. CASE j = 1
          BY <2>1, <3>1, <5>1, <5>2 DEF Kept
        <5>3. CASE j > 1
          <6>1. j - 1 \in DOMAIN fifo' /\ fifo'[j - 1] = fifo[j]
            BY <3>1, <5>3
          <6>. QED
            BY <2>1, <5>1, <6>1 DEF Kept
        <5>. QED
          BY <3>1, <5>2, <5>3
      <4>. QED
        BY <1>0, <2>1, <4>1, <4>2 DEF Kept
    <3>. QED
      BY <2>1, <3>2 DEF KeptInv, Kept
  <2>3. CASE fifo' = fifo
    BY <2>1, <2>3 DEF KeptInv
  <2>. QED
    BY <1>4, <2>2, <2>3 DEF ReadRxPayload
<1>5. CASE ClearRxDr
  <2>1. /\ pc = "clear" /\ pc' = "status" /\ UNCHANGED <<received, fifo, rxBuffer>>
        /\ delivered' = Append(delivered, rxBuffer)
    BY <1>5 DEF ClearRxDr
  <2>2. /\ DOMAIN delivered = 1..Len(delivered) /\ DOMAIN delivered' = 1..Len(delivered')
        /\ Len(delivered) \in Nat /\ Len(delivered') = Len(delivered) + 1
        /\ \A j \in 1..Len(delivered) : delivered'[j] = delivered[j]
        /\ delivered'[Len(delivered) + 1] = rxBuffer
    BY <2>1, AppendProperties, LenProperties DEF TypeOK
  <2>3. ASSUME NEW i \in DOMAIN received PROVE Kept(received[i])'
    <3>1. CASE \E j \in DOMAIN fifo : fifo[j] = received[i]
      BY <2>1, <3>1 DEF Kept
    <3>2. CASE \E j \in DOMAIN delivered : delivered[j] = received[i]
      BY <2>1, <2>2, <3>2 DEF Kept
    <3>3. CASE rxBuffer = received[i]
      <4>1. Len(delivered) + 1 \in DOMAIN delivered'
        BY <2>2
      <4>. QED
        BY <2>1, <2>2, <3>3, <4>1 DEF Kept
    <3>. QED
      BY <1>0, <2>1, <3>1, <3>2, <3>3 DEF Kept
  <2>. QED
    BY <2>1, <2>3 DEF KeptInv, Kept
<1>6. CASE Receive
  <2>1. /\ UNCHANGED <<pc, delivered, rxBuffer>>
        /\ fifo' = Append(fifo, sent + 1) /\ received' = Append(received, sent + 1)
        /\ sent + 1 \in Packet
    BY <1>6 DEF Receive, TypeOK, Packet
  <2>2. /\ DOMAIN fifo = 1..Len(fifo) /\ DOMAIN fifo' = 1..Len(fifo')
        /\ Len(fifo) \in Nat /\ Len(fifo') = Len(fifo) + 1
        /\ \A j \in 1..Len(fifo) : fifo'[j] = fifo[j]
        /\ fifo'[Len(fifo) + 1] = sent + 1
    BY <2>1, AppendProperties, LenProperties DEF TypeOK
  <2>3. /\ DOMAIN received = 1..Len(received) /\ DOMAIN received' = 1..Len(received')
        /\ Len(received) \in Nat /\ Len(received') = Len(received) + 1
        /\ \A j \in 1..Len(received) : received'[j] = received[j]
        /\ received'[Len(received) + 1] = sent + 1
    BY <2>1, AppendProperties, LenProperties DEF TypeOK
  <2>4. ASSUME pc \in Opened, NEW i \in DOMAIN received' PROVE Kept(received[i])'
    <3>1. CASE i \in DOMAIN received
      <4>1. Kept(received[i]) /\ received'[i] = received[i]
        BY <1>0, <2>3, <2>4, <3>1
      <4>2. CASE \E j \in DOMAIN fifo : fifo[j] = received[i]
        BY <2>2, <4>1, <4>2 DEF Kept
      <4>3. CASE ~\E j \in DOMAIN fifo : fifo[j] = received[i]
        BY <2>1, <4>1, <4>3 DEF Kept
      <4>. QED
        BY <4>2, <4>3
    <3>2. CASE i = Len(received) + 1
      <4>1. Len(fifo) + 1 \in DOMAIN fifo'
        BY <2>2
      <4>. QED
        BY <2>2, <2>3, <3>2, <4>1 DEF Kept
    <3>. QED
      BY <2>3, <3>1, <3>2
  <2>. QED
    BY <2>1, <2>4 DEF KeptInv, Kept
<1>7. CASE Miss \/ Kill
  BY <1>7, <1>a DEF Miss, Kill, KeptInv
<1>8. CASE Boot
  BY <1>8 DEF Boot, KeptInv
<1>9. CASE UNCHANGED vars
  BY <1>9, <1>a DEF vars
<1>. QED
  BY <1>1, <1>2, <1>3, <1>4, <1>5, <1>6, <1>7, <1>8, <1>9 DEF Next, DriverStep

-----------------------------------------------------------------------------
(* The buffer, between two reads. *)

(* The steps that touch neither the buffer nor what has been delivered. *)
BufferRests ==
  /\ UNCHANGED <<rxBuffer, delivered>>
  /\ pc' \notin {"clear", "dead"} => pc \notin {"clear", "dead"}

LEMMA BufferPreserved ==
  ASSUME TypeOK, BufferInv, [Next]_vars
  PROVE  BufferInv'
<1>. USE DEF feedVars, chipVars, tuneVars
<1>1. CASE \/ ConfigureSPI \/ SetChannel \/ PowerDown \/ RfSetup
           \/ SetLocalAddress \/ SetRemoteAddress \/ FlushRx
  <2>1. BufferRests
    BY <1>1 DEF BufferRests, ConfigureSPI, SetChannel, PowerDown, RfSetup,
                SetLocalAddress, SetRemoteAddress, FlushRx
  <2>. QED
    BY <2>1 DEF BufferRests, BufferInv
<1>2. CASE PowerUpRx \/ Verify \/ VerifyThrows \/ GetStatus \/ ReadFifoStatus
  <2>1. BufferRests
    BY <1>2 DEF BufferRests, PowerUpRx, Verify, VerifyThrows, GetStatus, ReadFifoStatus
  <2>. QED
    BY <2>1 DEF BufferRests, BufferInv
<1>3. CASE ReadRxPayload
  BY <1>3 DEF ReadRxPayload, BufferInv
<1>4. CASE ClearRxDr
  <2>1. /\ delivered' # <<>> /\ Len(delivered') = Len(delivered) + 1
        /\ delivered'[Len(delivered) + 1] = rxBuffer
    BY <1>4, AppendProperties DEF ClearRxDr, TypeOK
  <2>. QED
    BY <1>4, <2>1 DEF ClearRxDr, BufferInv
<1>5. CASE Receive \/ Miss \/ Kill \/ UNCHANGED vars
  <2>1. BufferRests
    BY <1>5 DEF BufferRests, Receive, Miss, Kill, vars
  <2>. QED
    BY <2>1 DEF BufferRests, BufferInv
<1>6. CASE Boot
  BY <1>6 DEF Boot, BufferInv
<1>. QED
  BY <1>1, <1>2, <1>3, <1>4, <1>5, <1>6 DEF Next, DriverStep

-----------------------------------------------------------------------------

(* The inductive invariant. *)
THEOREM Invariance == Spec => []IInv
<1>1. Init => IInv
  BY InitTypeOK, InitInvs DEF IInv
<1>2. IInv /\ TypeOK' /\ [Next]_vars => IInv'
  BY TunedPreserved, FeedPreserved, KeptPreserved, BufferPreserved DEF IInv
<1>. QED
  BY <1>1, <1>2, TypeCorrect, PTL DEF Spec

(***************************************************************************)
(* While no transfer of a run has failed, the listener is given what the   *)
(* chip received since open(), each packet once and in order.              *)
(***************************************************************************)
THEOREM FeedIsFaithful == Spec => []FeedIsExact
<1>1. IInv => FeedIsExact
  BY DEF IInv, FeedInv, FeedIsExact, InBuffer, Opened
<1>. QED
  BY <1>1, Invariance, PTL

(* A payload is read only when there is a packet, unless a transfer failed. *)
THEOREM ReadsAreWarranted == Spec => []ReadyMeansPacket
<1>1. IInv => ReadyMeansPacket
  BY DEF IInv, FeedInv, ReadyMeansPacket
<1>. QED
  BY <1>1, Invariance, PTL

(* A run that polls a deaf chip has lost a transfer. *)
THEOREM DeafnessIsExplained == Spec => []DeafOnlyAfterFailure
<1>1. IInv => DeafOnlyAfterFailure
  BY ConfigFacts DEF IInv, TunedInv, DeafOnlyAfterFailure, Listening, Opened, Tuned
<1>. QED
  BY <1>1, Invariance, PTL

(* However many transfers fail, what the chip received is not lost. *)
THEOREM ReceivedIsKept == Spec => []NothingReceivedIsLost
<1>1. IInv => NothingReceivedIsLost
  BY DEF IInv, KeptInv, NothingReceivedIsLost, Opened
<1>. QED
  BY <1>1, Invariance, PTL

-----------------------------------------------------------------------------
(* Radio implements Channel. *)

(* What has been given, without concatenation. *)
LEMMA GivenFacts ==
  ASSUME NEW d \in Seq(Payload), NEW b \in Payload
  PROVE  d \o <<>> = d /\ d \o <<b>> = Append(d, b)
BY ConcatEmptySeq, AppendIsConcat

(* Steps that give nothing, while some transfer may fail. *)
LEMMA Unnoticed ==
  ASSUME TypeOK, UNCHANGED <<sent, fifo, Given, Ready>>, Succeeds \/ Fails
  PROVE  [Ch!Next]_(Ch!vars)
<1>1. CASE Succeeds
  BY <1>1 DEF Succeeds, Faulty, Ch!vars
<1>2. CASE Fails
  <2>1. Faulty' = TRUE
    BY <1>2 DEF TypeOK, Fails, Faulty
  <2>. QED
    BY <2>1 DEF Ch!Next, Ch!Fault
<1>. QED
  BY <1>1, <1>2

(* Every step of the driver, the chip and the process is one of the channel's. *)
LEMMA NextImplements ==
  ASSUME IInv, TypeOK', [Next]_vars
  PROVE  [Ch!Next]_(Ch!vars)
<1>. USE DEF IInv, feedVars, chipVars, tuneVars
<1>1. /\ Given = IF pc = "dead" THEN <<>>
                 ELSE IF pc = "clear" THEN Append(delivered, rxBuffer) ELSE delivered
      /\ Given' = IF pc' = "dead" THEN <<>>
                  ELSE IF pc' = "clear" THEN Append(delivered', rxBuffer') ELSE delivered'
  <2>1. /\ delivered \o <<>> = delivered /\ delivered \o <<rxBuffer>> = Append(delivered, rxBuffer)
        /\ delivered' \o <<>> = delivered'
        /\ delivered' \o <<rxBuffer'>> = Append(delivered', rxBuffer')
    BY GivenFacts DEF TypeOK
  <2>. QED
    BY <2>1 DEF Given, InBuffer
<1>2. CASE ConfigureSPI \/ Verify
  <2>1. UNCHANGED <<sent, fifo, Given, Ready, Faulty>>
    BY <1>1, <1>2 DEF ConfigureSPI, Verify, Ready, Faulty, Polling
  <2>. QED
    BY <2>1 DEF Ch!vars
<1>3. CASE SetChannel \/ RfSetup
  <2>1. UNCHANGED <<sent, fifo, Given, Ready>>
    BY <1>1, <1>3 DEF SetChannel, RfSetup, Ready, Polling
  <2>2. failures' \in Nat /\ failures' >= failures
    <3>1. CASE SetChannel
      BY <3>1, WriteTuningFacts, PairsAreFinite DEF SetChannel
    <3>2. CASE RfSetup
      BY <3>2, WriteTuningFacts, PairsAreFinite DEF RfSetup
    <3>. QED
      BY <1>3, <3>1, <3>2
  <2>3. CASE failures' = failures
    BY <2>1, <2>3 DEF Faulty, Ch!vars
  <2>4. CASE failures' # failures
    <3>1. Faulty' = TRUE
      BY <2>2, <2>4 DEF Faulty, TypeOK
    <3>. QED
      BY <2>1, <3>1 DEF Ch!Next, Ch!Fault
  <2>. QED
    BY <2>3, <2>4
<1>4. CASE PowerDown \/ SetLocalAddress \/ SetRemoteAddress \/ PowerUpRx
  <2>1. UNCHANGED <<sent, fifo, Given, Ready>>
    <3>1. CASE PowerDown \/ SetLocalAddress \/ SetRemoteAddress
      BY <1>1, <3>1 DEF PowerDown, SetLocalAddress, SetRemoteAddress, Ready, Polling
    <3>2. CASE PowerUpRx
      BY <1>1, <3>2 DEF PowerUpRx, Ready, Polling
    <3>. QED
      BY <1>4, <3>1, <3>2
  <2>2. Succeeds \/ Fails
    BY <1>4 DEF PowerDown, SetLocalAddress, SetRemoteAddress, PowerUpRx
  <2>. QED
    BY <2>1, <2>2, Unnoticed
<1>5. CASE FlushRx
  <2>1. UNCHANGED <<sent, Given>> /\ ~Ready /\ Ready' = TRUE
    BY <1>1, <1>5 DEF FlushRx, Ready, Polling
  <2>2. \/ fifo' = <<>> /\ UNCHANGED Faulty
        \/ Faulty' = TRUE /\ UNCHANGED fifo
    BY <1>5 DEF FlushRx, Succeeds, Fails, Faulty, TypeOK
  <2>. QED
    BY <2>1, <2>2 DEF Ch!Next, Ch!Open
<1>6. CASE VerifyThrows \/ Kill
  <2>1. UNCHANGED <<sent, fifo>> /\ Given' = <<>> /\ Ready' = FALSE
    BY <1>1, <1>6 DEF VerifyThrows, Kill, Ready, Polling
  <2>2. Faulty' \in {Faulty, TRUE}
    <3>1. CASE Kill
      BY <3>1 DEF Kill, Faulty
    <3>2. CASE VerifyThrows
      <4>1. Faulty' = TRUE
        BY <3>2 DEF VerifyThrows, Fails, Faulty, TypeOK
      <4>. QED
        BY <4>1
    <3>. QED
      BY <1>6, <3>1, <3>2
  <2>. QED
    BY <2>1, <2>2 DEF Ch!Next, Ch!End
<1>7. CASE GetStatus \/ ReadFifoStatus
  <2>1. UNCHANGED <<sent, fifo, Given, Ready>> /\ (Succeeds \/ Fails)
    BY <1>1, <1>7 DEF GetStatus, ReadFifoStatus, Ready, Polling
  <2>. QED
    BY <2>1, Unnoticed
<1>8. CASE ReadRxPayload
  <2>1. /\ UNCHANGED sent /\ Ready = TRUE /\ Ready' = TRUE
        /\ Given = delivered /\ Given' = Append(Given, rxBuffer')
    BY <1>1, <1>8 DEF ReadRxPayload, Ready, Polling
  <2>2. CASE Succeeds /\ fifo # <<>> /\ rxBuffer' = Head(fifo) /\ fifo' = Tail(fifo)
    BY <2>1, <2>2 DEF Succeeds, Faulty, Ch!Next, Ch!Give
  <2>3. CASE UNCHANGED fifo /\ rxBuffer' \in {rxBuffer, Garbage} /\ failures' > 0
    <3>1. rxBuffer = Garbage \/ (Given # <<>> /\ rxBuffer = Given[Len(Given)])
      BY <1>8, <2>1 DEF ReadRxPayload, BufferInv
    <3>. QED
      BY <2>1, <2>3, <3>1 DEF Faulty, Ch!Next, Ch!GiveFalse
  <2>4. fifo = <<>> /\ Succeeds => failures' > 0
    BY <1>8 DEF ReadRxPayload, FeedInv, ReadyMeansPacket, Succeeds, TypeOK
  <2>. QED
    BY <1>8, <2>2, <2>3, <2>4 DEF ReadRxPayload, Fails, TypeOK
<1>9. CASE ClearRxDr
  <2>1. UNCHANGED <<sent, fifo, Given, Ready>> /\ (Succeeds \/ Fails)
    BY <1>1, <1>9 DEF ClearRxDr, Ready, Polling
  <2>. QED
    BY <2>1, Unnoticed
<1>10. CASE Receive \/ Miss
  <2>1. /\ sent' = sent + 1 /\ fifo' \in {fifo, Append(fifo, sent + 1)}
        /\ UNCHANGED <<Given, Ready, Faulty>>
    BY <1>1, <1>10 DEF Receive, Miss, Ready, Faulty
  <2>. QED
    BY <2>1 DEF Ch!Next, Ch!Transmit
<1>11. CASE Boot
  <2>1. /\ UNCHANGED <<sent, fifo, Given>> /\ Ready = FALSE /\ Ready' = FALSE
        /\ Faulty' = FALSE
    BY <1>1, <1>11 DEF Boot, Ready, Faulty, Polling
  <2>. QED
    BY <2>1 DEF Ch!Next, Ch!Boot
<1>12. CASE UNCHANGED vars
  <2>1. UNCHANGED <<sent, fifo, Given, Ready, Faulty>>
    BY <1>1, <1>12 DEF vars, Ready, Faulty
  <2>. QED
    BY <2>1 DEF Ch!vars
<1>. QED
  BY <1>2, <1>3, <1>4, <1>5, <1>6, <1>7, <1>8, <1>9, <1>10, <1>11, <1>12 DEF Next, DriverStep

(***************************************************************************)
(* Whatever fails, the listener is given what a channel gives that loses   *)
(* packets in the air only, and repeats or makes up one only in a run of   *)
(* which a transfer has failed.                                            *)
(***************************************************************************)
THEOREM ImplementsChannel == Spec => ChannelSpec
<1>1. Init => Ch!Init
  <2>. SUFFICES ASSUME Init PROVE Ch!Init
    OBVIOUS
  <2>1. Given = <<>>
    <3>1. delivered \in Seq(Payload) /\ rxBuffer \in Payload
      BY InitTypeOK DEF TypeOK
    <3>2. delivered \o <<>> = delivered
      BY <3>1, GivenFacts
    <3>. QED
      BY <3>2 DEF Given, InBuffer, Init
  <2>. QED
    BY <2>1 DEF Init, Ch!Init, Ready, Faulty, Polling
<1>2. IInv /\ TypeOK' /\ [Next]_vars => [Ch!Next]_(Ch!vars)
  BY NextImplements
<1>. QED
  BY <1>1, <1>2, TypeCorrect, Invariance, PTL DEF Spec, ChannelSpec, Ch!Spec

-----------------------------------------------------------------------------
(* And what holds of a channel holds of the driver. *)

LEMMA TransmitInOrder ==
  ASSUME Ch!ChannelInv, Ch!Transmit
  PROVE  Ch!ChannelInv'
<1>. USE DEF Ch!IsPacket
<1>1. /\ sent \in Nat /\ sent' = sent + 1 /\ sent' \in Nat
      /\ UNCHANGED <<Given, Ready, Faulty>>
  BY DEF Ch!ChannelInv, Ch!Transmit
<1>2. CASE fifo' = fifo
  BY <1>1, <1>2 DEF Ch!ChannelInv, Ch!GivenInOrder
<1>3. CASE fifo' = Append(fifo, sent + 1)
  <2>1. /\ fifo \in Seq(Nat) /\ fifo' \in Seq(Nat) /\ Len(fifo) \in Nat
        /\ DOMAIN fifo = 1..Len(fifo) /\ DOMAIN fifo' = 1 .. Len(fifo) + 1
        /\ \A k \in DOMAIN fifo : fifo'[k] = fifo[k]
        /\ fifo'[Len(fifo) + 1] = sent + 1
    BY <1>1, <1>3, AppendProperties DEF Ch!ChannelInv
  <2>2. \A k \in DOMAIN fifo : fifo[k] \in Nat
    BY <2>1
  <2>3. Given \in Seq(Nat \cup {Garbage}) /\ \A i \in DOMAIN Given : Given[i] # Garbage => Given[i] \in Nat
    BY DEF Ch!ChannelInv
  <2>4. \A k \in DOMAIN fifo : fifo[k] <= sent
    BY DEF Ch!ChannelInv
  <2>5. ASSUME NEW k \in DOMAIN fifo' PROVE fifo'[k] <= sent'
    <3>1. CASE k \in DOMAIN fifo
      <4>1. fifo'[k] = fifo[k] /\ fifo[k] \in Nat /\ fifo[k] <= sent
        BY <2>1, <2>2, <2>4, <3>1
      <4>. QED
        BY <1>1, <4>1
    <3>2. CASE k = Len(fifo) + 1
      BY <1>1, <2>1, <3>2
    <3>. QED
      BY <2>1, <3>1, <3>2
  <2>6. ASSUME NEW i \in DOMAIN fifo', NEW j \in DOMAIN fifo', i < j
        PROVE  fifo'[i] < fifo'[j]
    <3>1. i \in DOMAIN fifo /\ fifo'[i] = fifo[i] /\ fifo[i] \in Nat /\ fifo[i] <= sent
      BY <2>1, <2>2, <2>4, <2>6
    <3>2. CASE j \in DOMAIN fifo
      <4>1. fifo[i] < fifo[j]
        BY <2>6, <3>1, <3>2 DEF Ch!ChannelInv
      <4>. QED
        BY <2>1, <3>1, <3>2, <4>1
    <3>3. CASE j = Len(fifo) + 1
      BY <1>1, <2>1, <3>1, <3>3
    <3>. QED
      BY <2>1, <3>2, <3>3
  <2>7. ASSUME NEW i \in DOMAIN Given, Given[i] # Garbage
        PROVE  Given[i] <= sent' /\ \A k \in DOMAIN fifo' : Given[i] < fifo'[k]
    BY <1>1, <2>1, <2>2, <2>3, <2>7 DEF Ch!ChannelInv
  <2>8. Ch!GivenInOrder'
    BY <1>1 DEF Ch!ChannelInv, Ch!GivenInOrder
  <2>. QED
    BY <1>1, <2>1, <2>5, <2>6, <2>7, <2>8 DEF Ch!ChannelInv
<1>. QED
  BY <1>2, <1>3 DEF Ch!Transmit

(* The oldest packet comes after all that were given. *)
LEMMA GiveInOrder ==
  ASSUME Ch!ChannelInv, Ch!Give
  PROVE  Ch!ChannelInv'
<1>. USE DEF Ch!IsPacket
<1>1. /\ Ready /\ fifo # <<>> /\ UNCHANGED <<sent, Ready, Faulty>>
      /\ Given' = Append(Given, Head(fifo)) /\ fifo' = Tail(fifo)
  BY DEF Ch!Give
<1>2. /\ fifo \in Seq(Nat) /\ Len(fifo) \in Nat \ {0} /\ DOMAIN fifo = 1..Len(fifo)
      /\ Head(fifo) = fifo[1] /\ fifo[1] \in Nat /\ fifo' \in Seq(Nat)
      /\ DOMAIN fifo' = 1 .. Len(fifo) - 1
      /\ \A k \in DOMAIN fifo' : fifo'[k] = fifo[k + 1] /\ k + 1 \in DOMAIN fifo
  BY <1>1, HeadTailProperties, EmptySeq DEF Ch!ChannelInv
<1>3. /\ Given \in Seq(Nat \cup {Garbage}) /\ Given' \in Seq(Nat \cup {Garbage})
      /\ Len(Given) \in Nat /\ DOMAIN Given = 1..Len(Given)
      /\ DOMAIN Given' = 1 .. Len(Given) + 1
      /\ \A i \in DOMAIN Given : Given'[i] = Given[i]
      /\ Given'[Len(Given) + 1] = fifo[1]
  BY <1>1, <1>2, AppendProperties DEF Ch!ChannelInv
<1>4. fifo[1] # Garbage
  BY <1>2, GarbageAssumption
<1>5. ASSUME NEW k \in DOMAIN fifo'
      PROVE  fifo'[k] <= sent' /\ fifo[1] < fifo'[k]
  <2>1. fifo'[k] = fifo[k + 1] /\ k + 1 \in DOMAIN fifo /\ 1 \in DOMAIN fifo /\ 1 < k + 1
    BY <1>2
  <2>2. fifo[k + 1] <= sent /\ fifo[1] < fifo[k + 1]
    BY <2>1 DEF Ch!ChannelInv
  <2>. QED
    BY <1>1, <2>1, <2>2
<1>6. \A i, j \in DOMAIN fifo' : i < j => fifo'[i] < fifo'[j]
  BY <1>2 DEF Ch!ChannelInv
<1>7. ASSUME NEW i \in DOMAIN Given', Given'[i] # Garbage
      PROVE  Given'[i] <= sent' /\ \A k \in DOMAIN fifo' : Given'[i] < fifo'[k]
  <2>1. CASE i = Len(Given) + 1
    <3>1. 1 \in DOMAIN fifo /\ Given'[i] = fifo[1]
      BY <1>2, <1>3, <2>1
    <3>2. fifo[1] <= sent
      BY <3>1 DEF Ch!ChannelInv
    <3>. QED
      BY <1>1, <1>5, <3>1, <3>2
  <2>2. CASE i \in DOMAIN Given
    <3>1. Given'[i] = Given[i] /\ Given[i] # Garbage
      BY <1>3, <1>7, <2>2
    <3>2. Given[i] <= sent /\ \A k \in DOMAIN fifo : Given[i] < fifo[k]
      BY <2>2, <3>1 DEF Ch!ChannelInv
    <3>3. \A k \in DOMAIN fifo' : Given[i] < fifo'[k]
      BY <1>2, <3>2
    <3>. QED
      BY <1>1, <3>1, <3>2, <3>3
  <2>. QED
    BY <1>3, <2>1, <2>2
<1>8. ASSUME NEW i \in DOMAIN Given', NEW j \in DOMAIN Given', i < j,
             Given'[i] # Garbage, Given'[j] # Garbage
      PROVE  Given'[i] < Given'[j] \/ (Faulty' /\ Given'[i] = Given'[j])
  <2>1. i \in DOMAIN Given
    BY <1>3, <1>8
  <2>2. CASE j \in DOMAIN Given
    BY <1>1, <1>3, <1>8, <2>1, <2>2 DEF Ch!ChannelInv, Ch!GivenInOrder
  <2>3. CASE j = Len(Given) + 1
    <3>1. Given'[i] = Given[i] /\ Given[i] # Garbage /\ Given'[j] = fifo[1] /\ 1 \in DOMAIN fifo
      BY <1>2, <1>3, <1>8, <2>1, <2>3
    <3>2. Given[i] < fifo[1]
      BY <2>1, <3>1 DEF Ch!ChannelInv
    <3>. QED
      BY <3>1, <3>2
  <2>. QED
    BY <1>3, <2>2, <2>3
<1>9. Faulty' \/ \A i \in DOMAIN Given' : Given'[i] # Garbage
  BY <1>1, <1>3, <1>4 DEF Ch!ChannelInv, Ch!GivenInOrder
<1>10. Ch!GivenInOrder'
  BY <1>8, <1>9 DEF Ch!GivenInOrder
<1>. QED
  BY <1>1, <1>2, <1>3, <1>5, <1>6, <1>7, <1>10 DEF Ch!ChannelInv

(* What is given in error is no packet, or the last one again. *)
LEMMA GiveFalseInOrder ==
  ASSUME Ch!ChannelInv, Ch!GiveFalse
  PROVE  Ch!ChannelInv'
<1>. USE DEF Ch!IsPacket
<1>1. Ready /\ Faulty' = TRUE /\ UNCHANGED <<sent, fifo, Ready>>
  BY DEF Ch!GiveFalse
<1>2. /\ Given \in Seq(Nat \cup {Garbage}) /\ Len(Given) \in Nat /\ DOMAIN Given = 1..Len(Given)
      /\ \A i \in DOMAIN Given : Given[i] # Garbage => Given[i] \in Nat
  BY DEF Ch!ChannelInv
<1>3. PICK p \in Nat \cup {Garbage} :
        /\ Given' = Append(Given, p)
        /\ p = Garbage \/ (Given # <<>> /\ p = Given[Len(Given)])
  <2>1. CASE Given' = Append(Given, Garbage)
    BY <2>1
  <2>2. CASE Given # <<>> /\ Given' = Append(Given, Given[Len(Given)])
    <3>1. Len(Given) \in DOMAIN Given
      BY <1>2, <2>2, EmptySeq
    <3>. QED
      BY <1>2, <2>2, <3>1
  <2>. QED
    BY <2>1, <2>2 DEF Ch!GiveFalse
<1>4. /\ Given' \in Seq(Nat \cup {Garbage}) /\ DOMAIN Given' = 1 .. Len(Given) + 1
      /\ \A i \in DOMAIN Given : Given'[i] = Given[i]
      /\ Given'[Len(Given) + 1] = p
  BY <1>2, <1>3, AppendProperties
<1>5. p # Garbage => Len(Given) \in DOMAIN Given /\ p = Given[Len(Given)]
  BY <1>2, <1>3, EmptySeq
<1>6. ASSUME NEW i \in DOMAIN Given', Given'[i] # Garbage
      PROVE  \E j \in DOMAIN Given : Given'[i] = Given[j] /\ Given[j] # Garbage
  BY <1>2, <1>4, <1>5, <1>6
<1>7. ASSUME NEW i \in DOMAIN Given', NEW j \in DOMAIN Given', i < j,
             Given'[i] # Garbage, Given'[j] # Garbage
      PROVE  Given'[i] < Given'[j] \/ Given'[i] = Given'[j]
  <2>1. i \in DOMAIN Given
    BY <1>2, <1>4, <1>7
  <2>2. CASE j \in DOMAIN Given
    BY <1>4, <1>7, <2>1, <2>2 DEF Ch!ChannelInv, Ch!GivenInOrder
  <2>3. CASE j = Len(Given) + 1
    <3>1. Given'[j] = Given[Len(Given)] /\ Len(Given) \in DOMAIN Given /\ Given'[i] = Given[i]
      BY <1>4, <1>5, <1>7, <2>1, <2>3
    <3>2. CASE i = Len(Given)
      BY <3>1, <3>2
    <3>3. CASE i < Len(Given)
      BY <1>7, <2>1, <3>1, <3>3 DEF Ch!ChannelInv, Ch!GivenInOrder
    <3>. QED
      BY <1>2, <2>1, <3>2, <3>3
  <2>. QED
    BY <1>2, <1>4, <2>2, <2>3
<1>8. Ch!GivenInOrder'
  BY <1>1, <1>7 DEF Ch!GivenInOrder
<1>9. ASSUME NEW i \in DOMAIN Given', Given'[i] # Garbage
      PROVE  Given'[i] <= sent' /\ \A k \in DOMAIN fifo' : Given'[i] < fifo'[k]
  BY <1>1, <1>6, <1>9 DEF Ch!ChannelInv
<1>. QED
  BY <1>1, <1>4, <1>8, <1>9 DEF Ch!ChannelInv

(***************************************************************************)
(* The listener is given packets in the order the station sent them,       *)
(* however many transfers, runs and packets fail; only after a failed      *)
(* transfer is one given again, or something that is no packet.            *)
(***************************************************************************)
THEOREM PacketsComeInOrder == Spec => []Ch!GivenInOrder
<1>1. Ch!Init => Ch!ChannelInv
  <2>1. <<>> \in Seq(Nat) /\ <<>> \in Seq(Nat \cup {Garbage}) /\ DOMAIN <<>> = {}
    BY EmptySeq
  <2>. QED
    BY <2>1 DEF Ch!Init, Ch!ChannelInv, Ch!GivenInOrder
<1>2. Ch!ChannelInv /\ [Ch!Next]_(Ch!vars) => Ch!ChannelInv'
  <2>. SUFFICES ASSUME Ch!ChannelInv, [Ch!Next]_(Ch!vars) PROVE Ch!ChannelInv'
    OBVIOUS
  <2>. USE DEF Ch!IsPacket
  <2>1. CASE Ch!Open
    <3>1. /\ Given = <<>> /\ Given' = <<>> /\ sent' = sent /\ Ready'
          /\ fifo' \in {fifo, <<>>} /\ DOMAIN <<>> = {} /\ <<>> \in Seq(Nat)
      BY <2>1, EmptySeq DEF Ch!Open, Ch!ChannelInv
    <3>2. Ch!GivenInOrder'
      BY <3>1 DEF Ch!GivenInOrder
    <3>. QED
      BY <3>1, <3>2 DEF Ch!ChannelInv
  <2>2. CASE Ch!Fault \/ Ch!Boot \/ UNCHANGED Ch!vars
    BY <2>2 DEF Ch!Fault, Ch!Boot, Ch!vars, Ch!ChannelInv, Ch!GivenInOrder
  <2>3. CASE Ch!End
    BY <2>3 DEF Ch!End, Ch!ChannelInv, Ch!GivenInOrder
  <2>. QED
    BY <2>1, <2>2, <2>3, TransmitInOrder, GiveInOrder, GiveFalseInOrder DEF Ch!Next
<1>3. Ch!ChannelInv => Ch!GivenInOrder
  BY DEF Ch!ChannelInv
<1>. QED
  BY <1>1, <1>2, <1>3, ImplementsChannel, PTL DEF ChannelSpec, Ch!Spec
=============================================================================
