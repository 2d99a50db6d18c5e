-------------------------- MODULE WeatherCtl_proofs --------------------------
(***************************************************************************)
(* Proofs about WeatherCtl for every set of faults, every posting cycle    *)
(* and any number of packets and runs of the process.                      *)
(***************************************************************************)
EXTENDS WeatherCtl, TLAPS

-----------------------------------------------------------------------------
(* Lemmas about the queue operators. *)

(* What Append does to a sequence: its type, length and elements. *)
LEMMA AppendFacts ==
  ASSUME NEW S, NEW s \in Seq(S), NEW e \in S
  PROVE  /\ Append(s, e) \in Seq(S)
         /\ Len(Append(s, e)) = Len(s) + 1
         /\ \A i \in 1..Len(s) : Append(s, e)[i] = s[i]
         /\ Append(s, e)[Len(s) + 1] = e
  OBVIOUS

(* What Tail does to a sequence that is not empty. *)
LEMMA TailFacts ==
  ASSUME NEW S, NEW s \in Seq(S), s # <<>>
  PROVE  /\ Len(s) \in Nat \ {0}
         /\ Head(s) \in S
         /\ Head(s) = s[1]
         /\ Tail(s) \in Seq(S)
         /\ Len(Tail(s)) = Len(s) - 1
         /\ \A i \in 1..Len(Tail(s)) : Tail(s)[i] = s[i + 1]
  OBVIOUS

(* push() puts one entry with the pushed value at the back. *)
LEMMA PushFacts ==
  ASSUME NEW q \in Seq(QueueEntry), NEW r \in Ordinal, NEW q2, Push(q, r, q2)
  PROVE  /\ q2 \in Seq(QueueEntry)
         /\ Len(q2) = Len(q) + 1
         /\ \A i \in 1..Len(q) : q2[i].val = q[i].val
         /\ q2[Len(q) + 1].val = r
<1>1. PICK v \in Visibilities : q2 = Append(q, [val |-> r, visible |-> v])
  BY DEF Push
<1>2. [val |-> r, visible |-> v] \in QueueEntry
  BY <1>1 DEF QueueEntry, Visibilities
<1>. QED
  BY <1>1, <1>2, AppendFacts

(* front() yields a reading: the value at the front or a torn copy of it. *)
LEMMA FrontFacts ==
  ASSUME NEW q \in Seq(QueueEntry), q # <<>>
  PROVE  /\ FrontValue(q) \in Reading
         /\ FrontValue(q) \in {q[1].val, Torn}
<1>1. Head(q) \in QueueEntry /\ Head(q) = q[1]
  BY TailFacts
<1>. QED
  BY <1>1 DEF FrontValue, Reading, QueueEntry

(* A late store changes neither the length of a queue nor its values. *)
LEMMA ArriveFacts ==
  ASSUME NEW q \in Seq(QueueEntry), NEW q2, Arrive(q, q2)
  PROVE  /\ q2 \in Seq(QueueEntry)
         /\ Len(q2) = Len(q)
         /\ \A i \in 1..Len(q) : q2[i].val = q[i].val
<1>1. PICK k \in DOMAIN q : q2 = [q EXCEPT ![k].visible = TRUE]
  BY DEF Arrive
<1>2. DOMAIN q2 = 1..Len(q) /\ Len(q) \in Nat
  BY <1>1
<1>3. ASSUME NEW i \in 1..Len(q)
      PROVE  q2[i] \in QueueEntry /\ q2[i].val = q[i].val
  <2>1. q[i] \in QueueEntry
    OBVIOUS
  <2>2. CASE i = k
    BY <1>1, <2>1, <2>2 DEF QueueEntry
  <2>3. CASE i # k
    BY <1>1, <2>1, <2>3
  <2>. QED
    BY <2>2, <2>3
<1>4. q2 \in [1..Len(q) -> QueueEntry]
  <2>1. DOMAIN q = 1..Len(q) /\ q \in [1..Len(q) -> QueueEntry]
    OBVIOUS
  <2>2. [q[k] EXCEPT !.visible = TRUE] \in QueueEntry
    BY <2>1 DEF QueueEntry
  <2>. QED
    BY <1>1, <2>1, <2>2
<1>5. q2 \in Seq(QueueEntry) /\ Len(q2) = Len(q)
  BY <1>2, <1>4
<1>. QED
  BY <1>3, <1>5

-----------------------------------------------------------------------------
(***************************************************************************)
(* The part of IInv about rows, which most actions do not disturb.         *)
(***************************************************************************)
RowPart ==
  /\ RowsFollowPackets
  /\ RowsInv
  /\ RowsInOrder
  /\ TelemetryInv
  /\ TelemetryKeepsUp

rowVars == <<rx, boots, bootRx, bootRows, weatherData, telemetryData>>

(* How many packets are with the listener depends on nrfPc only. *)
LEMMA InListenerFacts ==
  /\ InListener \in {0, 1}
  /\ InHand \in {0, 1}
BY DEF InListener, InHand

(* Rows, telemetry and counts are kept by a step that changes none of them. *)
LEMMA RowPartKept ==
  ASSUME RowPart,
         UNCHANGED <<rowVars, alive, dbTr>>,
         dbPc' = dbPc \/ (dbPc \notin {"weather", "telemetry"}
                            /\ dbPc' \notin {"weather", "telemetry"}),
         InListener' = InListener,
         Len(dbq') = Len(dbq),
         \A i \in 1..Len(dbq) : dbq'[i].val = dbq[i].val
  PROVE  RowPart'
<1>1. RowsFollowPackets'
  BY DEF RowPart, rowVars, RowsFollowPackets, Received, Rows, InHand
<1>2. RowsInv' /\ RowsInOrder'
  BY DEF RowPart, rowVars, RowsInv, RowsInOrder, Received, Rows
<1>3. TelemetryInv' /\ TelemetryKeepsUp'
  BY DEF RowPart, rowVars, TelemetryInv, TelemetryKeepsUp
<1>. QED
  BY <1>1, <1>2, <1>3 DEF RowPart

(* A process that dies without touching the tables leaves them in order. *)
LEMMA RowPartSurvives ==
  ASSUME TypeOK, RowPart, alive, ~alive', UNCHANGED rowVars
  PROVE  RowPart'
<1>1. RowsFollowPackets'
  BY DEF RowsFollowPackets
<1>2. RowsInv' /\ RowsInOrder'
  BY DEF RowPart, rowVars, RowsInv, RowsInOrder, Received, Rows
<1>3. TelemetryInv'
  BY DEF TypeOK, DbTypeOK, RowPart, rowVars, TelemetryInv
<1>4. TelemetryKeepsUp'
  BY DEF RowPart, rowVars, TelemetryKeepsUp
<1>. QED
  BY <1>1, <1>2, <1>3, <1>4 DEF RowPart

-----------------------------------------------------------------------------
(* Init. *)

(* The first boot has empty tables and queues. *)
LEMMA InitIInv == Init => IInv
<1>. SUFFICES ASSUME Init PROVE IInv
  OBVIOUS
<1>. USE DEF Init, NrfInit, DbInit, WowInit
<1>1. TypeOK
  <2>1. NrfTypeOK
    BY DEF NrfTypeOK, NrfPcs
  <2>2. DbTypeOK
    <3>1. dailySummary \in Seq(SUBSET Reading) /\ ds \in SUBSET Reading
      OBVIOUS
    <3>2. isSummaryDone \in BOOLEAN
      OBVIOUS
    <3>3. dbPc \in DbPcs /\ conn \in {"none", "open", "wild"} /\ dbTr \in Reading \cup {0}
      BY DEF DbPcs
    <3>4. weatherData \in Seq(Reading) /\ telemetryData \in Seq(Reading)
      OBVIOUS
    <3>. QED
      BY <3>1, <3>2, <3>3, <3>4 DEF DbTypeOK
  <2>3. WowTypeOK
    <3>1. wowEnabled \in BOOLEAN
      BY WoWSettingsAssumption
    <3>. QED
      BY <3>1 DEF WowTypeOK, WowPcs
  <2>. QED
    BY <2>1, <2>2, <2>3 DEF TypeOK
<1>2. HandsInv
  BY DEF HandsInv
<1>3. RowsFollowPackets
  BY DEF RowsFollowPackets, Received, Rows, InHand, InListener
<1>4. RowsInv /\ RowsInOrder
  BY DEF RowsInv, RowsInOrder, Received, Rows
<1>5. TelemetryInv /\ TelemetryKeepsUp
  BY DEF TelemetryInv, TelemetryKeepsUp
<1>. QED
  BY <1>1, <1>2, <1>3, <1>4, <1>5 DEF IInv

-----------------------------------------------------------------------------
(* The types of the variables a step leaves alone. *)
LEMMA NrfTypeKept == ASSUME NrfTypeOK, UNCHANGED nrfVars PROVE NrfTypeOK'
BY DEF NrfTypeOK, nrfVars

(* The same for the database thread. *)
LEMMA DbTypeKept == ASSUME DbTypeOK, UNCHANGED dbVars PROVE DbTypeOK'
BY DEF DbTypeOK, dbVars

(* The same for the website thread. *)
LEMMA WowTypeKept == ASSUME WowTypeOK, UNCHANGED wowVars PROVE WowTypeOK'
BY DEF WowTypeOK, wowVars

(* The counts are natural numbers and fit together. *)
LEMMA CountFacts ==
  ASSUME TypeOK, RowsInv
  PROVE  /\ rx \in Nat /\ bootRx \in Nat /\ bootRows \in Nat /\ boots \in Nat
         /\ Rows \in Nat /\ Received \in Nat /\ Len(dbq) \in Nat
         /\ InHand \in {0, 1} /\ InListener \in {0, 1}
         /\ rx = bootRx + Received
         /\ Len(weatherData) = bootRows + Rows
         /\ Len(weatherData) \in Nat /\ Len(telemetryData) \in Nat
         /\ weatherData \in Seq(Reading) /\ telemetryData \in Seq(Reading)
BY DEF TypeOK, NrfTypeOK, DbTypeOK, RowsInv, Rows, Received, InHand, InListener

-----------------------------------------------------------------------------
(* The listener's steps keep the invariant. *)

(* Every action of the listener preserves the invariant. *)
LEMMA NrfPreserves ==
  ASSUME IInv, NrfNext, UNCHANGED <<dbVars, wowVars, bootVars>>
  PROVE  IInv'
<1>. TypeOK /\ HandsInv /\ RowPart
  BY DEF IInv, RowPart
<1>a. DbTypeOK' /\ WowTypeOK' /\ UNCHANGED <<bootVars, boots, bootRx, bootRows>>
  BY DbTypeKept, WowTypeKept DEF TypeOK, bootVars
<1>b. /\ UNCHANGED <<dbPc, dbTr, weatherData, telemetryData, wowPc, wowTr>>
      /\ InHand' = InHand /\ Rows' = Rows
  BY <1>a DEF dbVars, wowVars, InHand, Rows
<1>t. /\ rx \in Nat /\ bootRx \in Nat /\ Rows \in Nat /\ Received \in Nat
      /\ Len(dbq) \in Nat /\ InHand \in {0, 1} /\ InListener \in {0, 1}
      /\ rx = bootRx + Received
  BY CountFacts DEF RowPart
<1>c. (alive' \in BOOLEAN /\ dbq' \in Seq(QueueEntry) /\ webPostQueue' \in Seq(QueueEntry)
        /\ NrfTypeOK') => TypeOK'
  BY <1>a DEF TypeOK, bootVars
<1>d. ASSUME nrfPc' \in {"web", "db"} => transform' = rx' PROVE HandsInv'
  BY <1>b, <1>d DEF HandsInv
<1>e. ASSUME TypeOK', HandsInv', RowPart' PROVE IInv'
  BY <1>e DEF IInv, RowPart
<1>1. CASE OpenRadio
  <2>1. TypeOK'
    BY <1>1, <1>c DEF OpenRadio, TypeOK, NrfTypeOK, NrfPcs
  <2>2. HandsInv'
    BY <1>1, <1>d DEF OpenRadio
  <2>3. RowPart'
    BY <1>1, <1>a, <1>b, RowPartKept DEF OpenRadio, InListener, rowVars
  <2>. QED
    BY <2>1, <2>2, <2>3, <1>e
<1>2. CASE OpenRadioThrows
  <2>1. TypeOK'
    BY <1>2, <1>c DEF OpenRadioThrows, TypeOK, NrfTypeOK, NrfPcs
  <2>2. HandsInv'
    BY <1>2, <1>d DEF OpenRadioThrows
  <2>3. RowPart'
    BY <1>2, <1>a, <1>b, RowPartSurvives DEF OpenRadioThrows, rowVars
  <2>. QED
    BY <2>1, <2>2, <2>3, <1>e
<1>3. CASE WeatherPacket
  <2>1. TypeOK'
    BY <1>3, <1>c DEF WeatherPacket, TypeOK, NrfTypeOK, NrfPcs, PacketSeconds
  <2>2. HandsInv'
    BY <1>3, <1>d DEF WeatherPacket
  <2>a. /\ rx' = rx + 1 /\ Received' = Received + 1 /\ alive
        /\ InListener = 0 /\ InListener' = 1 /\ UNCHANGED <<alive, dbq>>
    BY <1>3, <1>a, <1>t DEF WeatherPacket, Received, InListener
  <2>3. RowsFollowPackets'
    BY <2>a, <1>a, <1>b, <1>t DEF RowPart, RowsFollowPackets
  <2>4. RowsInv' /\ RowsInOrder'
    BY <2>a, <1>a, <1>b, <1>t DEF RowPart, RowsInv, RowsInOrder
  <2>5. TelemetryInv' /\ TelemetryKeepsUp'
    BY <1>3, <1>a, <1>b DEF WeatherPacket, RowPart, TelemetryInv, TelemetryKeepsUp
  <2>. QED
    BY <2>1, <2>2, <2>3, <2>4, <2>5, <1>e DEF RowPart
<1>4. CASE PushWeb
  <2>0. transform \in Ordinal
    <3>1. InListener = 1 /\ alive /\ transform = rx
      BY <1>4 DEF PushWeb, InListener, HandsInv
    <3>2. Received = Rows + InHand + Len(dbq) + 1
      BY <3>1 DEF RowPart, RowsFollowPackets
    <3>. QED
      BY <3>1, <3>2, <1>t DEF Ordinal
  <2>1. TypeOK'
    BY <1>4, <1>c, <2>0, PushFacts DEF PushWeb, TypeOK, NrfTypeOK, NrfPcs
  <2>2. HandsInv'
    BY <1>4, <1>d DEF PushWeb, HandsInv
  <2>3. RowPart'
    BY <1>4, <1>a, <1>b, RowPartKept DEF PushWeb, InListener, rowVars
  <2>. QED
    BY <2>1, <2>2, <2>3, <1>e
<1>5. CASE PushDb
  <2>0. transform \in Ordinal
    <3>1. InListener = 1 /\ alive /\ transform = rx
      BY <1>5 DEF PushDb, InListener, HandsInv
    <3>2. Received = Rows + InHand + Len(dbq) + 1
      BY <3>1 DEF RowPart, RowsFollowPackets
    <3>. QED
      BY <3>1, <3>2, <1>t DEF Ordinal
  <2>a. /\ dbq' \in Seq(QueueEntry)
        /\ Len(dbq') = Len(dbq) + 1
        /\ \A i \in 1..Len(dbq) : dbq'[i].val = dbq[i].val
        /\ dbq'[Len(dbq) + 1].val = transform
    BY <1>5, <2>0, PushFacts DEF PushDb, TypeOK
  <2>1. TypeOK'
    BY <1>5, <1>c, <2>a DEF PushDb, TypeOK, NrfTypeOK, NrfPcs
  <2>2. HandsInv'
    BY <1>5, <1>d DEF PushDb
  <2>3. RowsFollowPackets'
    <3>1. Received' = Received /\ InListener' = 0 /\ InListener = 1 /\ alive
          /\ transform = rx /\ bootRx' = bootRx
      BY <1>5, <1>a DEF PushDb, Received, InListener, HandsInv
    <3>2. Received = Rows + InHand + Len(dbq) + 1
      BY <3>1 DEF RowPart, RowsFollowPackets
    <3>3. Received' = Rows' + InHand' + Len(dbq') + InListener'
      <4>1. Len(dbq') = Len(dbq) + 1 /\ Rows' = Rows /\ InHand' = InHand
        BY <2>a, <1>b
      <4>. QED
        BY <3>1, <3>2, <4>1, <1>t
    <3>4. ASSUME NEW i \in 1..Len(dbq')
          PROVE  dbq'[i].val = bootRx' + Rows' + InHand' + i
      <4>1. CASE i \in 1..Len(dbq)
        BY <4>1, <3>1, <2>a, <1>b DEF RowPart, RowsFollowPackets
      <4>2. CASE i = Len(dbq) + 1
        <5>1. dbq'[i].val = transform
          BY <4>2, <2>a
        <5>2. transform = bootRx + Rows + InHand + (Len(dbq) + 1)
          BY <3>1, <3>2, <1>t
        <5>3. bootRx' = bootRx /\ Rows' = Rows /\ InHand' = InHand
          BY <3>1, <1>b
        <5>. QED
          BY <4>2, <5>1, <5>2, <5>3
      <4>. QED
        BY <4>1, <4>2, <2>a, <1>t
    <3>. QED
      BY <3>1, <3>3, <3>4, <1>a, <1>b DEF RowPart, RowsFollowPackets
  <2>4. RowsInv' /\ RowsInOrder'
    BY <1>5, <1>a, <1>b
       DEF PushDb, RowPart, RowsInv, RowsInOrder, Received, Rows
  <2>5. TelemetryInv' /\ TelemetryKeepsUp'
    BY <1>5, <1>a, <1>b DEF PushDb, RowPart, TelemetryInv, TelemetryKeepsUp
  <2>. QED
    BY <2>1, <2>2, <2>3, <2>4, <2>5, <1>e DEF RowPart
<1>6. CASE SleepPacket
  <2>1. TypeOK'
    BY <1>6, <1>c DEF SleepPacket, TypeOK, NrfTypeOK, NrfPcs
  <2>2. HandsInv'
    BY <1>6, <1>d DEF SleepPacket
  <2>3. RowPart'
    BY <1>6, <1>a, <1>b, RowPartKept DEF SleepPacket, InListener, rowVars
  <2>. QED
    BY <2>1, <2>2, <2>3, <1>e
<1>. QED
  BY <1>1, <1>2, <1>3, <1>4, <1>5, <1>6 DEF NrfNext, NrfStep

-----------------------------------------------------------------------------
(* The database thread's steps keep the invariant. *)

(***************************************************************************)
(* A weather_data row for the reading in hand goes where it belongs, and   *)
(* no earlier row has its ordinal or a later one.                          *)
(***************************************************************************)
LEMMA RowAppended ==
  ASSUME TypeOK, HandsInv, RowPart, alive, dbPc = "weather",
         weatherData' = Append(weatherData, dbTr),
         UNCHANGED <<rx, boots, bootRx, bootRows, telemetryData>>
  PROVE  /\ Rows' = Rows + 1
         /\ Len(weatherData') = Len(weatherData) + 1
         /\ weatherData'[Len(weatherData) + 1] = dbTr
         /\ RowsInv' /\ RowsInOrder' /\ TelemetryKeepsUp'
<1>. RowsFollowPackets /\ RowsInv /\ RowsInOrder /\ TelemetryInv /\ TelemetryKeepsUp
  BY DEF RowPart
<1>0. /\ rx \in Nat /\ bootRx \in Nat /\ bootRows \in Nat /\ boots \in Nat
      /\ Rows \in Nat /\ Received \in Nat /\ Len(dbq) \in Nat
      /\ InListener \in {0, 1}
      /\ Len(weatherData) = bootRows + Rows
      /\ Len(weatherData) \in Nat /\ Len(telemetryData) \in Nat
      /\ weatherData \in Seq(Reading)
  BY CountFacts
<1>1. dbTr \in Reading /\ InHand = 1
  BY DEF HandsInv, InHand
<1>2. /\ Len(weatherData') = Len(weatherData) + 1
      /\ \A i \in 1..Len(weatherData) : weatherData'[i] = weatherData[i]
      /\ weatherData'[Len(weatherData) + 1] = dbTr
  BY <1>0, <1>1, AppendFacts
<1>3. Rows' = Rows + 1 /\ Received' = Received
  BY <1>0, <1>2 DEF Rows, Received
<1>4. dbTr \in {bootRx + Rows + 1, Torn} /\ Rows + 1 <= Received
  BY <1>0, <1>1 DEF RowsFollowPackets
<1>5. RowsInv'
  <2>1. \A i \in 1..bootRows : weatherData'[i] \in (1..bootRx) \cup {Torn}
    BY <1>0, <1>2 DEF RowsInv
  <2>2. ASSUME NEW i \in 1..Rows + 1
        PROVE  weatherData'[bootRows + i] \in {bootRx + i, Torn}
    <3>1. CASE i \in 1..Rows
      BY <3>1, <1>0, <1>2 DEF RowsInv
    <3>2. CASE i = Rows + 1
      BY <3>2, <1>0, <1>2, <1>4
    <3>. QED
      BY <3>1, <3>2, <1>0
  <2>3. bootRx' <= rx' /\ bootRows' <= Len(weatherData') /\ Rows' <= Received'
    BY <1>0, <1>2, <1>3, <1>4 DEF RowsInv
  <2>. QED
    BY <2>1, <2>2, <2>3, <1>3 DEF RowsInv
<1>6. RowsInOrder'
  <2>. SUFFICES ASSUME NEW i \in 1..Len(weatherData'), NEW j \in 1..Len(weatherData'),
                       i < j, Torn \notin {weatherData'[i], weatherData'[j]}
                PROVE  weatherData'[i] < weatherData'[j]
    BY DEF RowsInOrder
  <2>1. CASE j \in 1..Len(weatherData)
    BY <2>1, <1>0, <1>2 DEF RowsInOrder
  <2>2. CASE j = Len(weatherData) + 1
    <3>1. i \in 1..bootRows + Rows /\ weatherData'[i] = weatherData[i]
      BY <2>2, <1>0, <1>2
    <3>2. weatherData'[j] = bootRx + Rows + 1
      BY <2>2, <1>2, <1>4
    <3>3. CASE i \in 1..bootRows
      <4>1. weatherData[i] \in 1..bootRx
        BY <3>1, <3>3 DEF RowsInv
      <4>. QED
        BY <4>1, <3>1, <3>2, <1>0
    <3>4. CASE i \notin 1..bootRows
      <4>1. i - bootRows \in 1..Rows /\ i = bootRows + (i - bootRows)
        BY <3>1, <3>4, <1>0
      <4>2. weatherData[bootRows + (i - bootRows)] \in {bootRx + (i - bootRows), Torn}
        BY <4>1 DEF RowsInv
      <4>3. weatherData[i] = bootRx + (i - bootRows)
        BY <4>1, <4>2, <3>1
      <4>. QED
        BY <4>1, <4>3, <3>1, <3>2, <1>0
    <3>. QED
      BY <3>3, <3>4
  <2>. QED
    BY <2>1, <2>2, <1>0, <1>2
<1>7. TelemetryKeepsUp'
  <2>1. Len(weatherData) - Len(telemetryData) \in 0..boots - 1
    BY <1>0 DEF TelemetryInv
  <2>2. Len(weatherData') - Len(telemetryData') \in 0..boots'
    BY <2>1, <1>0, <1>2
  <2>3. ASSUME NEW i \in 1..Len(telemetryData)
        PROVE  \E j \in 1..Len(weatherData') : weatherData'[j] = telemetryData[i]
    BY <1>0, <1>2 DEF TelemetryKeepsUp
  <2>. QED
    BY <2>2, <2>3 DEF TelemetryKeepsUp
<1>. QED
  BY <1>2, <1>3, <1>5, <1>6, <1>7

(* A step that dies, with or without a last weather_data row. *)
LEMMA DyingInsert ==
  ASSUME TypeOK, HandsInv, RowPart, alive, ~alive', dbPc = "weather",
         weatherData' \in {weatherData, Append(weatherData, dbTr)},
         UNCHANGED <<rx, boots, bootRx, bootRows, telemetryData>>
  PROVE  RowPart'
<1>1. CASE weatherData' = weatherData
  BY <1>1, RowPartSurvives DEF rowVars
<1>2. CASE weatherData' = Append(weatherData, dbTr)
  <2>1. /\ Len(weatherData') = Len(weatherData) + 1
        /\ RowsInv' /\ RowsInOrder' /\ TelemetryKeepsUp'
    BY <1>2, RowAppended
  <2>2. RowsFollowPackets'
    BY DEF RowsFollowPackets
  <2>3. TelemetryInv'
    BY <2>1, CountFacts DEF RowPart, TelemetryInv
  <2>. QED
    BY <2>1, <2>2, <2>3 DEF RowPart
<1>. QED
  BY <1>1, <1>2

(***************************************************************************)
(* A telemetry_data row for the reading in hand closes the gap that its    *)
(* weather_data row opened.                                                *)
(***************************************************************************)
LEMMA TelemetryAppended ==
  ASSUME TypeOK, HandsInv, RowPart, alive, dbPc = "telemetry",
         telemetryData' = Append(telemetryData, dbTr),
         UNCHANGED <<boots, weatherData>>
  PROVE  /\ Len(weatherData) - Len(telemetryData') \in 0..boots - 1
         /\ TelemetryKeepsUp'
<1>. RowsInv /\ TelemetryInv /\ TelemetryKeepsUp
  BY DEF RowPart
<1>0. /\ boots \in Nat /\ Len(weatherData) \in Nat /\ Len(telemetryData) \in Nat
      /\ weatherData \in Seq(Reading) /\ telemetryData \in Seq(Reading)
  BY CountFacts
<1>1. dbTr \in Reading
  BY DEF HandsInv
<1>2. /\ Len(telemetryData') = Len(telemetryData) + 1
      /\ \A i \in 1..Len(telemetryData) : telemetryData'[i] = telemetryData[i]
      /\ telemetryData'[Len(telemetryData) + 1] = dbTr
  BY <1>0, <1>1, AppendFacts
<1>3. /\ Len(weatherData) - Len(telemetryData) - 1 \in 0..boots - 1
      /\ weatherData[Len(weatherData)] = dbTr
  BY <1>0 DEF TelemetryInv
<1>4. Len(weatherData) - Len(telemetryData') \in 0..boots - 1
  BY <1>0, <1>2, <1>3
<1>5. ASSUME NEW i \in 1..Len(telemetryData')
      PROVE  \E j \in 1..Len(weatherData) : weatherData[j] = telemetryData'[i]
  <2>1. CASE i \in 1..Len(telemetryData)
    BY <2>1, <1>2 DEF TelemetryKeepsUp
  <2>2. CASE i = Len(telemetryData) + 1
    BY <2>2, <1>0, <1>2, <1>3
  <2>. QED
    BY <2>1, <2>2, <1>0, <1>2
<1>. QED
  BY <1>0, <1>4, <1>5 DEF TelemetryKeepsUp

(* Every action of the database thread preserves the invariant. *)
LEMMA DbPreserves ==
  ASSUME IInv, DbStep, UNCHANGED <<nrfVars, wowVars, bootVars>>
  PROVE  IInv'
<1>. TypeOK /\ HandsInv /\ RowPart
  BY DEF IInv, RowPart
<1>a. NrfTypeOK' /\ WowTypeOK' /\ UNCHANGED <<bootVars, boots, bootRx, bootRows>>
  BY NrfTypeKept, WowTypeKept DEF TypeOK, bootVars
<1>b. /\ UNCHANGED <<nrfPc, transform, rx, wowPc, wowTr>>
      /\ InListener' = InListener /\ Received' = Received
  BY <1>a DEF nrfVars, wowVars, InListener, Received
<1>t. /\ rx \in Nat /\ bootRx \in Nat /\ bootRows \in Nat /\ boots \in Nat
      /\ Rows \in Nat /\ Received \in Nat /\ Len(dbq) \in Nat
      /\ InListener \in {0, 1} /\ Len(weatherData) \in Nat /\ Len(telemetryData) \in Nat
      /\ weatherData \in Seq(Reading) /\ telemetryData \in Seq(Reading)
      /\ RowsInv /\ RowsFollowPackets /\ RowsInOrder /\ TelemetryInv /\ TelemetryKeepsUp
  BY CountFacts DEF RowPart
<1>d. ASSUME dbPc' \in {"weather", "telemetry"} => dbTr' \in Reading
      PROVE  HandsInv'
  BY <1>b, <1>d DEF HandsInv
<1>e. ASSUME TypeOK', HandsInv', RowPart' PROVE IInv'
  BY <1>e DEF IInv, RowPart
<1>f. ASSUME alive' \in BOOLEAN, dbq' \in Seq(QueueEntry), UNCHANGED webPostQueue, DbTypeOK'
      PROVE  TypeOK'
  BY <1>a, <1>f DEF TypeOK, bootVars
<1>1. CASE Connect
  <2>1. TypeOK'
    BY <1>1, <1>f DEF Connect, TypeOK, DbTypeOK, DbPcs
  <2>2. HandsInv'
    BY <1>1, <1>d DEF Connect
  <2>3. RowPart'
    BY <1>1, <1>a, <1>b, RowPartKept DEF Connect, InHand, rowVars
  <2>. QED
    BY <2>1, <2>2, <2>3, <1>e
<1>2. CASE ConnectFails
  <2>1. TypeOK'
    BY <1>2, <1>f DEF ConnectFails, TypeOK, DbTypeOK, DbPcs
  <2>2. HandsInv'
    BY <1>2, <1>d DEF ConnectFails
  <2>3. RowPart'
    BY <1>2, <1>a, <1>b, RowPartKept DEF ConnectFails, InHand, rowVars
  <2>. QED
    BY <2>1, <2>2, <2>3, <1>e
<1>3. CASE PopReading
  <2>a. /\ FrontValue(dbq) \in Reading
        /\ FrontValue(dbq) \in {dbq[1].val, Torn}
        /\ dbq' \in Seq(QueueEntry)
        /\ Len(dbq) >= 1
        /\ Len(dbq') = Len(dbq) - 1
        /\ \A i \in 1..Len(dbq') : dbq'[i] = dbq[i + 1]
    BY <1>3, <1>t, FrontFacts, TailFacts DEF PopReading, TypeOK
  <2>b. InHand = 0 /\ InHand' = 1 /\ Rows' = Rows /\ alive /\ alive'
    BY <1>3, <1>a DEF PopReading, InHand, Rows
  <2>1. TypeOK'
    BY <1>3, <2>a, <1>f DEF PopReading, TypeOK, DbTypeOK, DbPcs
  <2>2. HandsInv'
    BY <1>3, <1>d, <2>a DEF PopReading
  <2>3. RowsFollowPackets'
    <3>1. Received = Rows + Len(dbq) + InListener
      BY <2>b, <1>t DEF RowsFollowPackets
    <3>2. Received' = Rows' + InHand' + Len(dbq') + InListener'
      BY <3>1, <2>a, <2>b, <1>b, <1>t
    <3>3. \A i \in 1..Len(dbq) : dbq[i].val = bootRx + Rows + i
      BY <2>b, <1>t DEF RowsFollowPackets
    <3>4. dbTr' \in {bootRx' + Rows' + 1, Torn}
      BY <1>3, <3>3, <2>a, <2>b, <1>a, <1>t DEF PopReading
    <3>5. ASSUME NEW i \in 1..Len(dbq')
          PROVE  dbq'[i].val = bootRx' + Rows' + InHand' + i
      <4>1. i + 1 \in 1..Len(dbq) /\ dbq'[i] = dbq[i + 1]
        BY <2>a, <1>t
      <4>2. dbq'[i].val = bootRx + Rows + (i + 1)
        BY <4>1, <3>3
      <4>. QED
        BY <4>2, <2>b, <1>a, <1>t
    <3>6. \A i \in 1..Rows' : weatherData'[bootRows' + i] \in {bootRx' + i, Torn}
      BY <1>3, <2>b, <1>a, <1>t DEF PopReading, RowsInv
    <3>. QED
      BY <3>2, <3>4, <3>5, <3>6 DEF RowsFollowPackets
  <2>4. RowsInv' /\ RowsInOrder'
    BY <1>3, <1>a, <1>b, <1>t DEF PopReading, RowsInv, RowsInOrder, Rows
  <2>5. TelemetryInv' /\ TelemetryKeepsUp'
    BY <1>3, <1>a, <1>t DEF PopReading, TelemetryInv, TelemetryKeepsUp
  <2>. QED
    BY <2>1, <2>2, <2>3, <2>4, <2>5, <1>e DEF RowPart
<1>4. CASE PopReadingCrashes
  <2>1. TypeOK'
    BY <1>4, <1>f DEF PopReadingCrashes, TypeOK, DbTypeOK, DbPcs
  <2>2. HandsInv'
    BY <1>4, <1>d DEF PopReadingCrashes
  <2>3. RowPart'
    BY <1>4, <1>a, <1>b, RowPartSurvives DEF PopReadingCrashes, rowVars
  <2>. QED
    BY <2>1, <2>2, <2>3, <1>e
<1>5. CASE InsertWeather
  <2>a. dbTr \in Reading /\ InHand = 1 /\ InHand' = 0 /\ alive /\ alive' /\ UNCHANGED dbTr
    BY <1>5 DEF InsertWeather, HandsInv, InHand
  <2>b. /\ Rows' = Rows + 1
        /\ Len(weatherData') = Len(weatherData) + 1
        /\ weatherData'[Len(weatherData) + 1] = dbTr
        /\ RowsInv' /\ RowsInOrder' /\ TelemetryKeepsUp'
    BY <1>5, <1>a, <1>b, RowAppended DEF InsertWeather
  <2>1. TypeOK'
    BY <1>5, <2>a, <1>f DEF InsertWeather, TypeOK, DbTypeOK, DbPcs
  <2>2. HandsInv'
    BY <1>d, <2>a
  <2>3. RowsFollowPackets'
    <3>1. Received = Rows + 1 + Len(dbq) + InListener
      BY <2>a, <1>t DEF RowsFollowPackets
    <3>2. Received' = Rows' + InHand' + Len(dbq') + InListener'
      BY <1>5, <3>1, <2>a, <2>b, <1>b, <1>t DEF InsertWeather
    <3>3. \A i \in 1..Len(dbq') : dbq'[i].val = bootRx' + Rows' + InHand' + i
      BY <1>5, <2>a, <2>b, <1>a, <1>t DEF InsertWeather, RowsFollowPackets
    <3>. QED
      BY <3>2, <3>3, <2>a, <2>b DEF RowsFollowPackets, RowsInv
  <2>4. TelemetryInv'
    BY <1>5, <2>a, <2>b, <1>a, <1>t DEF InsertWeather, TelemetryInv
  <2>. QED
    BY <2>1, <2>2, <2>3, <2>b, <2>4, <1>e DEF RowPart
<1>6. CASE InsertWeatherThrows
  <2>a. /\ weatherData' \in {weatherData, Append(weatherData, dbTr)}
        /\ alive /\ ~alive' /\ dbPc = "weather" /\ dbTr \in Reading
        /\ UNCHANGED <<dbTr, telemetryData>>
    BY <1>6 DEF InsertWeatherThrows, ExecuteThrows, HandsInv
  <2>1. TypeOK'
    <3>1. weatherData' \in Seq(Reading)
      BY <2>a, <1>t, AppendFacts
    <3>. QED
      BY <1>6, <3>1, <1>f DEF InsertWeatherThrows, TypeOK, DbTypeOK, DbPcs
  <2>2. HandsInv'
    BY <1>d, <2>a
  <2>3. RowPart'
    BY <2>a, <1>a, <1>b, DyingInsert
  <2>. QED
    BY <2>1, <2>2, <2>3, <1>e
<1>7. CASE InsertTelemetry
  <2>a. /\ telemetryData' = Append(telemetryData, dbTr)
        /\ alive /\ alive' /\ dbPc = "telemetry" /\ dbPc' = "clock" /\ dbTr \in Reading
        /\ InHand = 0 /\ InHand' = 0
        /\ UNCHANGED <<dbTr, dbq, weatherData, webPostQueue>>
    BY <1>7 DEF InsertTelemetry, HandsInv, InHand
  <2>b. /\ Len(weatherData) - Len(telemetryData') \in 0..boots - 1
        /\ TelemetryKeepsUp'
    BY <2>a, <1>a, TelemetryAppended
  <2>1. TypeOK'
    <3>1. telemetryData' \in Seq(Reading)
      BY <2>a, <1>t, AppendFacts
    <3>. QED
      BY <1>7, <3>1, <1>f DEF InsertTelemetry, TypeOK, DbTypeOK, DbPcs
  <2>2. HandsInv'
    BY <1>d, <2>a
  <2>3. RowsFollowPackets' /\ RowsInv' /\ RowsInOrder'
    BY <2>a, <1>a, <1>b, <1>t DEF RowsFollowPackets, RowsInv, RowsInOrder, Rows
  <2>4. TelemetryInv'
    BY <2>a, <2>b, <1>a, <1>t DEF TelemetryInv
  <2>. QED
    BY <2>1, <2>2, <2>3, <2>b, <2>4, <1>e DEF RowPart
<1>8. CASE InsertTelemetryThrows
  <2>a. /\ telemetryData' \in {telemetryData, Append(telemetryData, dbTr)}
        /\ alive /\ ~alive' /\ dbPc = "telemetry" /\ dbTr \in Reading
        /\ UNCHANGED <<dbTr, weatherData>>
    BY <1>8 DEF InsertTelemetryThrows, ExecuteThrows, HandsInv
  <2>1. TypeOK'
    <3>1. telemetryData' \in Seq(Reading)
      BY <2>a, <1>t, AppendFacts
    <3>. QED
      BY <1>8, <3>1, <1>f DEF InsertTelemetryThrows, TypeOK, DbTypeOK, DbPcs
  <2>2. HandsInv'
    BY <1>d, <2>a, <1>8 DEF InsertTelemetryThrows
  <2>3. RowPart'
    <3>1. CASE telemetryData' = telemetryData
      BY <3>1, <2>a, <1>a, <1>b, RowPartSurvives DEF rowVars
    <3>2. CASE telemetryData' = Append(telemetryData, dbTr)
      <4>1. /\ Len(weatherData) - Len(telemetryData') \in 0..boots - 1
            /\ TelemetryKeepsUp'
        BY <3>2, <2>a, <1>a, TelemetryAppended
      <4>2. RowsFollowPackets' /\ RowsInv' /\ RowsInOrder'
        BY <2>a, <1>a, <1>b, <1>t DEF RowsFollowPackets, RowsInv, RowsInOrder, Rows
      <4>3. TelemetryInv'
        BY <4>1, <2>a, <1>a, <1>t DEF TelemetryInv
      <4>. QED
        BY <4>1, <4>2, <4>3 DEF RowPart
    <3>. QED
      BY <2>a, <3>1, <3>2
  <2>. QED
    BY <2>1, <2>2, <2>3, <1>e
<1>9. CASE \E now \in ClockReadings : ReadClock(now)
  <2>. PICK now \in ClockReadings : ReadClock(now)
    BY <1>9
  <2>1. TypeOK'
    <3>1. isSummaryDone' \in BOOLEAN
      BY DEF ReadClock, TypeOK, DbTypeOK
    <3>2. dbPc' \in DbPcs
      BY DEF ReadClock, DbPcs
    <3>. QED
      BY <3>1, <3>2, <1>f DEF ReadClock, TypeOK, DbTypeOK
  <2>2. HandsInv'
    BY <1>d DEF ReadClock
  <2>3. RowPart'
    BY <1>a, <1>b, RowPartKept DEF ReadClock, InHand, rowVars
  <2>. QED
    BY <2>1, <2>2, <2>3, <1>e
<1>10. CASE InsertSummary
  <2>1. TypeOK'
    <3>1. dailySummary' \in Seq(SUBSET Reading) /\ ds' \in SUBSET Reading
      BY <1>10, AppendFacts DEF InsertSummary, TypeOK, DbTypeOK
    <3>2. isSummaryDone' \in BOOLEAN /\ dbPc' \in DbPcs
      BY <1>10 DEF InsertSummary, DbPcs
    <3>. QED
      BY <1>10, <3>1, <3>2, <1>f DEF InsertSummary, TypeOK, DbTypeOK
  <2>2. HandsInv'
    BY <1>10, <1>d DEF InsertSummary
  <2>3. RowPart'
    BY <1>10, <1>a, <1>b, RowPartKept DEF InsertSummary, InHand, rowVars
  <2>. QED
    BY <2>1, <2>2, <2>3, <1>e
<1>11. CASE InsertSummaryThrows
  <2>1. TypeOK'
    <3>1. dailySummary' \in Seq(SUBSET Reading)
      <4>1. dailySummary' \in {dailySummary, Append(dailySummary, ds)}
        BY <1>11 DEF InsertSummaryThrows
      <4>2. dailySummary \in Seq(SUBSET Reading) /\ ds \in SUBSET Reading
        BY DEF TypeOK, DbTypeOK
      <4>3. Append(dailySummary, ds) \in Seq(SUBSET Reading)
        BY <4>2, AppendFacts
      <4>. QED
        BY <4>1, <4>2, <4>3
    <3>. QED
      BY <1>11, <3>1, <1>f DEF InsertSummaryThrows, TypeOK, DbTypeOK, DbPcs
  <2>2. HandsInv'
    BY <1>11, <1>d DEF InsertSummaryThrows
  <2>3. RowPart'
    BY <1>11, <1>a, <1>b, RowPartSurvives DEF InsertSummaryThrows, rowVars
  <2>. QED
    BY <2>1, <2>2, <2>3, <1>e
<1>. QED
  BY <1>1, <1>2, <1>3, <1>4, <1>5, <1>6, <1>7, <1>8, <1>9, <1>10, <1>11 DEF DbStep

-----------------------------------------------------------------------------
(* The website thread's steps keep the invariant. *)

(* Every action of the website thread preserves the invariant. *)
LEMMA WowPreserves ==
  ASSUME IInv, WowStep, UNCHANGED <<nrfVars, dbVars, bootVars>>
  PROVE  IInv'
<1>. TypeOK /\ HandsInv /\ RowPart
  BY DEF IInv, RowPart
<1>a. /\ NrfTypeOK' /\ DbTypeOK'
      /\ UNCHANGED <<bootVars, boots, bootRx, bootRows, nrfPc, transform, rx,
                     dbPc, dbTr, weatherData, telemetryData>>
      /\ InListener' = InListener
  BY NrfTypeKept, DbTypeKept DEF TypeOK, bootVars, nrfVars, dbVars, InListener
<1>b. UNCHANGED dbq
  BY DEF WowStep, WowRun, WowPost, CurlInit, CurlInitFails, PopPost, PopPostCrashes,
         PostSkipped, RunAgain, PostSucceeds, PostFails
<1>c. ASSUME alive' \in BOOLEAN, webPostQueue' \in Seq(QueueEntry), WowTypeOK',
             wowPc' = "post" => wowTr' \in Reading
      PROVE  TypeOK' /\ HandsInv'
  BY <1>a, <1>b, <1>c DEF TypeOK, HandsInv, bootVars
<1>d. alive \in BOOLEAN /\ webPostQueue \in Seq(QueueEntry)
  BY DEF TypeOK
<1>. wowEnabled' \in BOOLEAN
  BY DEF WowStep, WowRun, WowPost, CurlInit, CurlInitFails, PopPost, PopPostCrashes,
         PostSkipped, RunAgain, PostSucceeds, PostFails, TypeOK, WowTypeOK
<1>1. RowPart'
  <2>1. CASE UNCHANGED alive
    BY <2>1, <1>a, <1>b, RowPartKept DEF rowVars
  <2>2. CASE alive /\ ~alive'
    BY <2>2, <1>a, RowPartSurvives DEF rowVars
  <2>3. UNCHANGED alive \/ (alive /\ ~alive')
    BY DEF WowStep, WowRun, WowPost, CurlInit, CurlInitFails, PopPost, PopPostCrashes,
           PostSkipped, RunAgain, PostSucceeds, PostFails
  <2>. QED
    BY <2>1, <2>2, <2>3
<1>2. TypeOK' /\ HandsInv'
  <2>1. CASE CurlInit
    BY <2>1, <1>c, <1>d DEF CurlInit, TypeOK, WowTypeOK, WowPcs
  <2>2. CASE CurlInitFails
    BY <2>2, <1>c, <1>d DEF CurlInitFails, TypeOK, WowTypeOK, WowPcs
  <2>3. CASE PopPost
    <3>1. FrontValue(webPostQueue) \in Reading /\ webPostQueue' \in Seq(QueueEntry)
      BY <2>3, <1>d, FrontFacts, TailFacts DEF PopPost
    <3>2. taken' \in Seq(Reading)
      BY <2>3, <3>1, AppendFacts DEF PopPost, TypeOK, WowTypeOK
    <3>. QED
      BY <2>3, <3>1, <3>2, <1>c, <1>d DEF PopPost, TypeOK, WowTypeOK, WowPcs
  <2>4. CASE PopPostCrashes
    BY <2>4, <1>c, <1>d DEF PopPostCrashes, TypeOK, WowTypeOK, WowPcs
  <2>5. CASE PostSucceeds
    <3>1. posted' \in Seq(Reading) /\ chunk' \in Seq(Reading)
      BY <2>5, AppendFacts DEF PostSucceeds, HandsInv, TypeOK, WowTypeOK
    <3>. QED
      BY <2>5, <3>1, <1>c, <1>d DEF PostSucceeds, TypeOK, WowTypeOK, WowPcs
  <2>6. CASE PostFails
    <3>1. posted' \in Seq(Reading)
      <4>1. posted' \in {posted, Append(posted, wowTr)}
        BY <2>6 DEF PostFails
      <4>2. posted \in Seq(Reading) /\ wowTr \in Reading
        BY <2>6 DEF PostFails, HandsInv, TypeOK, WowTypeOK
      <4>3. Append(posted, wowTr) \in Seq(Reading)
        BY <4>2, AppendFacts
      <4>. QED
        BY <4>1, <4>2, <4>3
    <3>. QED
      BY <2>6, <3>1, <1>c, <1>d DEF PostFails, TypeOK, WowTypeOK, WowPcs
  <2>7. CASE PostSkipped
    BY <2>7, <1>c, <1>d DEF PostSkipped, TypeOK, WowTypeOK, WowPcs
  <2>8. CASE RunAgain
    BY <2>8, <1>c, <1>d DEF RunAgain, TypeOK, WowTypeOK, WowPcs
  <2>. QED
    BY <2>1, <2>2, <2>3, <2>4, <2>5, <2>6, <2>7, <2>8 DEF WowStep, WowRun, WowPost
<1>. QED
  BY <1>1, <1>2 DEF IInv, RowPart

-----------------------------------------------------------------------------
(* Starting, dying and starting again keep the invariant. *)

(* So does every step of ThreadManager::start. *)
LEMMA StartPreserves ==
  ASSUME IInv, StartThreads
  PROVE  IInv'
<1>. TypeOK /\ HandsInv /\ RowPart
  BY DEF IInv, RowPart
<1>a. ASSUME TypeOK', HandsInv', RowPart' PROVE IInv'
  BY <1>a DEF IInv, RowPart
<1>1. CASE StartNRFListenThread
  <2>1. NrfTypeOK'
    BY <1>1 DEF StartNRFListenThread, TypeOK, NrfTypeOK, NrfPcs
  <2>2. TypeOK'
    BY <1>1, <2>1, DbTypeKept, WowTypeKept DEF StartNRFListenThread, TypeOK, procVars, bootVars
  <2>3. HandsInv'
    BY <1>1 DEF StartNRFListenThread, HandsInv, dbVars, wowVars
  <2>4. RowPart'
    BY <1>1, RowPartKept
       DEF StartNRFListenThread, InListener, InHand, rowVars, procVars, dbVars, bootVars
  <2>. QED
    BY <2>2, <2>3, <2>4, <1>a
<1>2. CASE StartDBUpdateThread
  <2>1. DbTypeOK'
    BY <1>2 DEF StartDBUpdateThread, TypeOK, DbTypeOK, DbPcs
  <2>2. TypeOK'
    BY <1>2, <2>1, NrfTypeKept, WowTypeKept DEF StartDBUpdateThread, TypeOK, procVars, bootVars
  <2>3. HandsInv'
    BY <1>2 DEF StartDBUpdateThread, HandsInv, nrfVars, wowVars
  <2>4. RowPart'
    BY <1>2, RowPartKept
       DEF StartDBUpdateThread, InListener, InHand, rowVars, procVars, nrfVars, bootVars
  <2>. QED
    BY <2>2, <2>3, <2>4, <1>a
<1>3. CASE StartWoWUpdateThread
  <2>1. WowTypeOK'
    BY <1>3 DEF StartWoWUpdateThread, TypeOK, WowTypeOK, WowPcs
  <2>2. TypeOK'
    BY <1>3, <2>1, NrfTypeKept, DbTypeKept DEF StartWoWUpdateThread, TypeOK, procVars, bootVars
  <2>3. HandsInv'
    BY <1>3 DEF StartWoWUpdateThread, HandsInv, nrfVars, dbVars
  <2>4. RowPart'
    BY <1>3, RowPartKept
       DEF StartWoWUpdateThread, InListener, InHand, rowVars, procVars, nrfVars, dbVars, bootVars
  <2>. QED
    BY <2>2, <2>3, <2>4, <1>a
<1>. QED
  BY <1>1, <1>2, <1>3 DEF StartThreads

(* StartThrows and Kill end the process and change nothing else. *)
LEMMA DeathPreserves ==
  ASSUME IInv, StartThrows \/ Kill
  PROVE  IInv'
<1>. TypeOK /\ HandsInv /\ RowPart
  BY DEF IInv, RowPart
<1>1. alive /\ alive' = FALSE
      /\ UNCHANGED <<dbq, webPostQueue, nrfVars, dbVars, wowVars, bootVars>>
  BY DEF StartThrows, Kill
<1>2. TypeOK'
  BY <1>1, NrfTypeKept, DbTypeKept, WowTypeKept DEF TypeOK, bootVars
<1>3. HandsInv'
  BY <1>1 DEF HandsInv, nrfVars, dbVars, wowVars
<1>4. RowPart'
  BY <1>1, RowPartSurvives DEF rowVars, nrfVars, dbVars, bootVars
<1>. QED
  BY <1>2, <1>3, <1>4 DEF IInv, RowPart

(* A new run starts with empty queues and the rows of the runs before. *)
LEMMA BootPreserves ==
  ASSUME IInv, Boot
  PROVE  IInv'
<1>. TypeOK /\ RowPart
  BY DEF IInv, RowPart
<1>. RowsInv /\ RowsInOrder /\ TelemetryInv /\ TelemetryKeepsUp
  BY DEF RowPart
<1>a. /\ rx \in Nat /\ bootRx \in Nat /\ bootRows \in Nat /\ boots \in Nat
      /\ Rows \in Nat /\ Received \in Nat
      /\ rx = bootRx + Received /\ Len(weatherData) = bootRows + Rows
      /\ Len(weatherData) \in Nat /\ Len(telemetryData) \in Nat
  BY CountFacts
<1>b. /\ ~alive /\ alive' = TRUE /\ boots' = boots + 1
      /\ nrfPc' = "unborn" /\ dbPc' = "unborn" /\ wowPc' = "unborn"
      /\ dbq' = <<>> /\ bootRx' = rx /\ bootRows' = Len(weatherData)
      /\ UNCHANGED <<rx, weatherData, telemetryData>>
  BY DEF Boot
<1>c. Rows' = 0 /\ Received' = 0 /\ InHand' = 0 /\ InListener' = 0 /\ Len(dbq') = 0
  BY <1>a, <1>b DEF Rows, Received, InHand, InListener
<1>1. TypeOK'
  <2>1. NrfTypeOK'
    BY DEF Boot, TypeOK, NrfTypeOK, NrfPcs
  <2>2. DbTypeOK'
    <3>1. dbPc' \in DbPcs /\ isSummaryDone' \in BOOLEAN /\ ds' \in SUBSET Reading
      BY DEF Boot, DbPcs
    <3>. QED
      BY <3>1 DEF Boot, TypeOK, DbTypeOK
  <2>3. WowTypeOK'
    <3>1. wowEnabled' \in BOOLEAN
      BY WoWSettingsAssumption DEF Boot
    <3>. QED
      BY <3>1 DEF Boot, TypeOK, WowTypeOK, WowPcs
  <2>4. Len(taken) \in Nat /\ Len(dailySummary) \in Nat
    BY DEF TypeOK, DbTypeOK, WowTypeOK
  <2>. QED
    BY <2>1, <2>2, <2>3, <2>4, <1>a DEF Boot, TypeOK
<1>2. HandsInv'
  BY <1>b DEF HandsInv
<1>3. RowsFollowPackets'
  BY <1>b, <1>c DEF RowsFollowPackets
<1>4. RowsInv'
  <2>1. ASSUME NEW i \in 1..Len(weatherData)
        PROVE  weatherData[i] \in (1..rx) \cup {Torn}
    <3>1. CASE i \in 1..bootRows
      BY <3>1, <1>a DEF RowsInv
    <3>2. CASE i \notin 1..bootRows
      <4>1. i - bootRows \in 1..Rows /\ i = bootRows + (i - bootRows)
        BY <3>2, <1>a
      <4>2. weatherData[bootRows + (i - bootRows)] \in {bootRx + (i - bootRows), Torn}
        BY <4>1 DEF RowsInv
      <4>3. Rows <= Received
        BY DEF RowsInv
      <4>. QED
        BY <4>1, <4>2, <4>3, <1>a
    <3>. QED
      BY <3>1, <3>2
  <2>. QED
    BY <2>1, <1>a, <1>b, <1>c DEF RowsInv
<1>5. RowsInOrder'
  BY <1>b DEF RowsInOrder
<1>6. TelemetryInv' /\ TelemetryKeepsUp'
  BY <1>a, <1>b DEF TelemetryInv, TelemetryKeepsUp
<1>. QED
  BY <1>1, <1>2, <1>3, <1>4, <1>5, <1>6 DEF IInv

(* A late store into a queue changes no value in it. *)
LEMMA StoreArrivesPreserves ==
  ASSUME IInv, StoreArrives
  PROVE  IInv'
<1>. TypeOK /\ HandsInv /\ RowPart
  BY DEF IInv, RowPart
<1>a. UNCHANGED <<alive, nrfVars, dbVars, wowVars, bootVars>>
  BY DEF StoreArrives
<1>b. /\ dbq' \in Seq(QueueEntry) /\ webPostQueue' \in Seq(QueueEntry)
      /\ Len(dbq') = Len(dbq)
      /\ \A i \in 1..Len(dbq) : dbq'[i].val = dbq[i].val
  BY ArriveFacts DEF StoreArrives, TypeOK
<1>1. TypeOK'
  BY <1>a, <1>b, NrfTypeKept, DbTypeKept, WowTypeKept DEF TypeOK, bootVars
<1>2. HandsInv'
  BY <1>a DEF HandsInv, nrfVars, dbVars, wowVars
<1>3. RowPart'
  BY <1>a, <1>b, RowPartKept DEF rowVars, nrfVars, dbVars, bootVars, InListener
<1>. QED
  BY <1>1, <1>2, <1>3 DEF IInv, RowPart

(* A step that changes nothing preserves it. *)
LEMMA StutterPreserves ==
  ASSUME IInv, UNCHANGED vars
  PROVE  IInv'
<1>. TypeOK /\ HandsInv /\ RowPart
  BY DEF IInv, RowPart
<1>a. UNCHANGED <<alive, dbq, webPostQueue, nrfVars, dbVars, wowVars, bootVars>>
  BY DEF vars, procVars
<1>1. TypeOK'
  BY <1>a, NrfTypeKept, DbTypeKept, WowTypeKept DEF TypeOK, bootVars
<1>2. HandsInv'
  BY <1>a DEF HandsInv, nrfVars, dbVars, wowVars
<1>3. RowPart'
  BY <1>a, RowPartKept DEF rowVars, nrfVars, dbVars, bootVars, InListener
<1>. QED
  BY <1>1, <1>2, <1>3 DEF IInv, RowPart

-----------------------------------------------------------------------------
(* The invariant of every behaviour, and the properties it implies. *)

(***************************************************************************)
(* IInv holds in every reachable state of wctl, whatever fails.            *)
(***************************************************************************)
THEOREM Invariance == Spec => []IInv
<1>1. Init => IInv
  BY InitIInv
<1>2. IInv /\ [Next]_vars => IInv'
  <2>. SUFFICES ASSUME IInv, [Next]_vars PROVE IInv'
    OBVIOUS
  <2>1. CASE StartThreads
    BY <2>1, StartPreserves
  <2>2. CASE StartThrows \/ Kill
    BY <2>2, DeathPreserves
  <2>3. CASE NrfNext /\ UNCHANGED <<dbVars, wowVars, bootVars>>
    BY <2>3, NrfPreserves
  <2>4. CASE DbStep /\ UNCHANGED <<nrfVars, wowVars, bootVars>>
    BY <2>4, DbPreserves
  <2>5. CASE WowStep /\ UNCHANGED <<nrfVars, dbVars, bootVars>>
    BY <2>5, WowPreserves
  <2>6. CASE StoreArrives
    BY <2>6, StoreArrivesPreserves
  <2>7. CASE Boot
    BY <2>7, BootPreserves
  <2>8. CASE UNCHANGED vars
    BY <2>8, StutterPreserves
  <2>. QED
    BY <2>1, <2>2, <2>3, <2>4, <2>5, <2>6, <2>7, <2>8 DEF Next
<1>. QED
  BY <1>1, <1>2, PTL DEF Spec

(* The variables of the process, its threads and its stores keep their types. *)
THEOREM TypeCorrect == Spec => []TypeOK
<1>1. IInv => TypeOK
  BY DEF IInv
<1>. QED
  BY <1>1, Invariance, PTL

(* Every packet of this run is a row, in hand or queued, in order of arrival. *)
THEOREM PacketsAreAccountedFor == Spec => []RowsFollowPackets
<1>1. IInv => RowsFollowPackets
  BY DEF IInv
<1>. QED
  BY <1>1, Invariance, PTL

(* No packet is recorded twice or after a later one, over all runs. *)
THEOREM TableIsOrdered == Spec => []RowsInOrder
<1>1. IInv => RowsInOrder
  BY DEF IInv
<1>. QED
  BY <1>1, Invariance, PTL

(* At most one telemetry row per run is missing, and none is without weather. *)
THEOREM TelemetryIsBounded == Spec => []TelemetryKeepsUp
<1>1. IInv => TelemetryKeepsUp
  BY DEF IInv
<1>. QED
  BY <1>1, Invariance, PTL

-----------------------------------------------------------------------------
(* wctl implements ReadingLog. *)

(* The step that commits a weather_data row is a Record step. *)
LEMMA RowIsRecord ==
  ASSUME IInv, alive, dbPc = "weather",
         weatherData' = Append(weatherData, dbTr),
         UNCHANGED <<rx, boots, bootRx, bootRows, telemetryData>>
  PROVE  Log!Record
<1>. TypeOK /\ HandsInv /\ RowPart
  BY DEF IInv, RowPart
<1>0. /\ rx \in Nat /\ bootRx \in Nat /\ Rows \in Nat /\ Received \in Nat
      /\ Len(dbq) \in Nat /\ InListener \in {0, 1} /\ rx = bootRx + Received
  BY CountFacts DEF RowPart
<1>1. Rows' = Rows + 1
  BY RowAppended
<1>2. InHand = 1 /\ dbTr \in {bootRx + Rows + 1, Torn}
  BY DEF InHand, RowPart, RowsFollowPackets
<1>3. Received = Rows + 1 + Len(dbq) + InListener
  BY <1>2 DEF RowPart, RowsFollowPackets
<1>4. bootRx + Rows < rx
  BY <1>0, <1>3
<1>5. bootRx' + Rows' = bootRx + Rows + 1
  BY <1>0, <1>1
<1>. QED
  BY <1>2, <1>4, <1>5 DEF Log!Record

(* Each step of wctl is a step of ReadingLog or changes nothing it sees. *)
LEMMA StepRefines ==
  ASSUME IInv, [Next]_vars
  PROVE  [Log!Next]_(Log!vars)
<1>0. /\ rx \in Nat /\ bootRx \in Nat /\ bootRows \in Nat /\ Rows \in Nat
      /\ Len(weatherData) \in Nat
  BY CountFacts DEF IInv
<1>. DEFINE Stutter == UNCHANGED <<rx, bootRx, bootRows, weatherData>>
<1>a. ASSUME Stutter PROVE UNCHANGED Log!vars
  BY <1>a DEF Log!vars, Rows
<1>. HIDE DEF Stutter
<1>1. CASE StartThreads
  <2>1. Stutter
    BY <1>1 DEF StartThreads, StartNRFListenThread, StartDBUpdateThread, StartWoWUpdateThread,
                nrfVars, dbVars, bootVars, Stutter
  <2>. QED
    BY <2>1, <1>a
<1>2. CASE StartThrows \/ Kill \/ StoreArrives
  <2>1. Stutter
    BY <1>2 DEF StartThrows, Kill, StoreArrives, nrfVars, dbVars, bootVars, Stutter
  <2>. QED
    BY <2>1, <1>a
<1>3. CASE NrfNext /\ UNCHANGED <<dbVars, wowVars, bootVars>>
  <2>1. CASE WeatherPacket
    <3>1. rx' = rx + 1 /\ UNCHANGED <<bootRx, bootRows, weatherData>>
      BY <1>3, <2>1 DEF WeatherPacket, dbVars, bootVars
    <3>2. Rows' = Rows
      BY <3>1 DEF Rows
    <3>. QED
      BY <3>1, <3>2 DEF Log!Next, Log!Arrive
  <2>2. CASE ~WeatherPacket
    <3>1. Stutter
      BY <1>3, <2>2 DEF NrfNext, NrfStep, OpenRadio, OpenRadioThrows, PushWeb, PushDb,
                        SleepPacket, dbVars, bootVars, Stutter
    <3>. QED
      BY <3>1, <1>a
  <2>. QED
    BY <2>1, <2>2
<1>4. CASE DbStep /\ UNCHANGED <<nrfVars, wowVars, bootVars>>
  <2>1. CASE InsertWeather
    <3>1. Log!Record
      BY <1>4, <2>1, RowIsRecord DEF InsertWeather, nrfVars, bootVars
    <3>. QED
      BY <3>1 DEF Log!Next
  <2>2. CASE InsertWeatherThrows
    <3>1. /\ alive /\ dbPc = "weather"
          /\ weatherData' \in {weatherData, Append(weatherData, dbTr)}
          /\ UNCHANGED <<rx, boots, bootRx, bootRows, telemetryData>>
      BY <1>4, <2>2 DEF InsertWeatherThrows, ExecuteThrows, nrfVars, bootVars
    <3>2. CASE weatherData' = weatherData
      BY <3>1, <3>2, <1>a DEF Stutter
    <3>3. CASE weatherData' = Append(weatherData, dbTr)
      BY <3>1, <3>3, RowIsRecord DEF Log!Next
    <3>. QED
      BY <3>1, <3>2, <3>3
  <2>3. CASE ~InsertWeather /\ ~InsertWeatherThrows
    <3>1. UNCHANGED weatherData
      BY <1>4, <2>3 DEF DbStep, Connect, ConnectFails, PopReading, PopReadingCrashes,
                        InsertTelemetry, InsertTelemetryThrows, ReadClock,
                        InsertSummary, InsertSummaryThrows
    <3>2. Stutter
      BY <1>4, <3>1 DEF nrfVars, bootVars, Stutter
    <3>. QED
      BY <3>2, <1>a
  <2>. QED
    BY <2>1, <2>2, <2>3
<1>5. CASE WowStep /\ UNCHANGED <<nrfVars, dbVars, bootVars>>
  <2>1. Stutter
    BY <1>5 DEF nrfVars, dbVars, bootVars, Stutter
  <2>. QED
    BY <2>1, <1>a
<1>6. CASE Boot
  <2>1. bootRx' = rx /\ Rows' = 0 /\ UNCHANGED <<rx, weatherData>>
    BY <1>6, <1>0 DEF Boot, Rows
  <2>. QED
    BY <2>1, <1>0 DEF Log!Next, Log!LoseBacklog
<1>7. CASE UNCHANGED vars
  <2>1. Stutter
    BY <1>7 DEF vars, nrfVars, dbVars, bootVars, Stutter
  <2>. QED
    BY <2>1, <1>a
<1>. QED
  BY <1>1, <1>2, <1>3, <1>4, <1>5, <1>6, <1>7 DEF Next

(***************************************************************************)
(* The weather_data table behaves as ReadingLog says: one row per packet,  *)
(* in order, except the backlog of a process that dies.                    *)
(***************************************************************************)
THEOREM ImplementsReadingLog == Spec => LogSpec
<1>1. Init => Log!Init
  BY DEF Init, NrfInit, DbInit, Log!Init, Rows
<1>2. IInv /\ [Next]_vars => [Log!Next]_(Log!vars)
  BY StepRefines
<1>. QED
  BY <1>1, <1>2, Invariance, PTL DEF Spec, LogSpec, Log!Spec

-----------------------------------------------------------------------------
(***************************************************************************)
(* The daily summaries: no reading is in two of them, and none is left out. *)
(***************************************************************************)

(* The counts of a run that is alive. *)
LEMMA PoppedFacts ==
  ASSUME IInv
  PROVE  /\ rx \in Nat /\ bootRx \in Nat /\ Rows \in Nat /\ Popped \in Nat /\ bootRx <= Popped
         /\ bootRx <= rx
         /\ alive => Popped <= rx
<1>1. rx \in Nat /\ bootRx \in Nat /\ Rows \in Nat /\ bootRx <= rx
  BY CountFacts DEF IInv, TypeOK, NrfTypeOK, RowsInv
<1>2. InHand \in {0, 1} /\ InListener \in {0, 1}
  BY InListenerFacts
<1>3. alive => Received = Rows + InHand + Len(dbq) + InListener /\ Len(dbq) \in Nat
  BY DEF IInv, RowsFollowPackets, TypeOK
<1>. QED
  BY <1>1, <1>2, <1>3 DEF Popped, Received

(* The readings of this run's summaries and of the one being gathered. *)
Gathered == ds \cup UNION Done

summaryVars == <<ds, dailySummary, weatherData, bootRx, bootRows, bootSummary>>

(* A step that folds nothing in and stores nothing keeps the invariant. *)
LEMMA SummaryKept ==
  ASSUME IInv, IInv', SummaryInv,
         UNCHANGED summaryVars, rx <= rx',
         alive' => alive /\ InHand' = InHand,
         alive' /\ dbPc' = "weather" => dbPc = "weather" /\ dbTr' = dbTr
  PROVE  SummaryInv'
<1>. USE DEF summaryVars
<1>1. \A i \in 1..Len(dailySummary') : dailySummary'[i] \ {Torn} \subseteq 1..rx'
  <2>1. rx \in Nat /\ rx' \in Nat
    BY DEF IInv, TypeOK, NrfTypeOK
  <2>2. 1..rx \subseteq 1..rx'
    BY <2>1
  <2>. QED
    BY <2>2 DEF SummaryInv
<1>2. Done' = Done /\ Rows' = Rows
  BY DEF Done, Rows
<1>3. alive' => Popped' = Popped
  BY <1>2 DEF Popped
<1>4. SummariesPartition'
  BY <1>2, <1>3 DEF SummaryInv, SummariesPartition
<1>. QED
  BY <1>1, <1>4 DEF SummaryInv

(* Nothing has been folded in yet. *)
LEMMA InitSummaryInv ==
  Init => SummaryInv
BY DEF Init, NrfInit, DbInit, SummaryInv, SummariesPartition, Done, Rows

(* A reading that comes out of dbq is in no summary yet. *)
LEMMA PopKeepsSummaries ==
  ASSUME IInv, IInv', SummaryInv, PopReading, UNCHANGED <<nrfVars, wowVars, bootVars>>
  PROVE  SummaryInv'
<1>1. /\ alive /\ alive' /\ dbPc = "poll" /\ dbPc' = "weather"
      /\ dbTr' = FrontValue(dbq) /\ ds' = ds \cup {dbTr'}
      /\ UNCHANGED <<dailySummary, weatherData, bootRx, bootRows, bootSummary, rx>>
  BY DEF PopReading, nrfVars, bootVars
<1>2. Done' = Done /\ Rows' = Rows /\ InHand = 0 /\ InHand' = 1
  BY <1>1 DEF Done, Rows, InHand
<1>3. Popped' = Popped + 1 /\ Popped \in Nat
  BY <1>1, <1>2, PoppedFacts DEF Popped
<1>4. dbTr' \in {Popped + 1, Torn}
  <2>1. dbq \in Seq(QueueEntry) /\ dbq # <<>>
    BY DEF PopReading, IInv, TypeOK
  <2>2. dbq[1].val = Popped + 1
    BY <1>1, <1>2, <2>1 DEF IInv, RowsFollowPackets, Popped
  <2>. QED
    BY <1>1, <2>1, <2>2, FrontFacts
<1>5. ASSUME NEW i \in 1..Len(dailySummary)
      PROVE  dailySummary[i] \ {Torn} \subseteq 1..Popped
  <2>1. CASE i <= bootSummary
    <3>1. i \in 1..bootSummary
      BY <2>1 DEF IInv, TypeOK
    <3>. QED
      BY <3>1, PoppedFacts DEF SummaryInv
  <2>2. CASE i > bootSummary
    <3>1. dailySummary[i] \in Done
      BY <2>2 DEF Done, IInv, TypeOK, DbTypeOK
    <3>2. dailySummary[i] \ {Torn} \subseteq bootRx + 1 .. Popped
      BY <1>1, <3>1 DEF SummaryInv, SummariesPartition
    <3>. QED
      BY <3>2, PoppedFacts
  <2>. QED
    BY <2>1, <2>2 DEF IInv, TypeOK
<1>6. \A i \in 1..Len(dailySummary) : dailySummary[i] \cap ds' \subseteq {Torn}
  <2>1. \A i \in 1..Len(dailySummary) : dailySummary[i] \cap ds \subseteq {Torn}
    BY <1>1 DEF SummaryInv, SummariesPartition
  <2>2. Popped + 1 \notin 1..Popped
    BY <1>3
  <2>. QED
    BY <1>1, <1>4, <1>5, <2>1, <2>2
<1>7. (ds' \cup UNION Done') \ {Torn} \subseteq bootRx' + 1 .. Popped'
  <2>1. Gathered \ {Torn} \subseteq bootRx + 1 .. Popped
    BY <1>1 DEF SummaryInv, SummariesPartition, Gathered
  <2>2. Popped + 1 \in bootRx + 1 .. Popped + 1
        /\ bootRx + 1 .. Popped \subseteq bootRx + 1 .. Popped + 1
    BY PoppedFacts
  <2>. QED
    BY <1>1, <1>2, <1>3, <1>4, <2>1, <2>2 DEF Gathered
<1>8. SummariesPartition'
  BY <1>1, <1>2, <1>6, <1>7 DEF SummaryInv, SummariesPartition
<1>. QED
  BY <1>1, <1>8 DEF SummaryInv

(* The row that is inserted is that of a reading folded in already. *)
LEMMA RowKeepsSummaries ==
  ASSUME IInv, IInv', SummaryInv, InsertWeather, UNCHANGED <<nrfVars, wowVars, bootVars>>
  PROVE  SummaryInv'
<1>1. /\ alive /\ dbPc = "weather" /\ dbPc' = "telemetry"
      /\ weatherData' = Append(weatherData, dbTr)
      /\ UNCHANGED <<ds, dailySummary, bootRx, bootRows, bootSummary, rx>>
  BY DEF InsertWeather, nrfVars, bootVars
<1>2. weatherData \in Seq(Reading) /\ dbTr \in Reading /\ bootRows \in Nat /\ Rows \in Nat
  BY <1>1, PoppedFacts DEF IInv, TypeOK, DbTypeOK, HandsInv
<1>3. Done' = Done /\ Rows' = Rows + 1 /\ InHand = 1 /\ InHand' = 0
  BY <1>1, <1>2, AppendFacts DEF Done, Rows, InHand
<1>4. Popped' = Popped
  BY <1>1, <1>2, <1>3, PoppedFacts DEF Popped
<1>5. ASSUME NEW i \in 1..Rows'
      PROVE  weatherData'[bootRows' + i] \in ds' \cup UNION Done'
  <2>1. CASE i = Rows + 1
    <3>1. weatherData'[bootRows' + i] = dbTr
      BY <1>1, <1>2, <2>1, AppendFacts DEF Rows
    <3>. QED
      BY <1>1, <3>1 DEF SummaryInv
  <2>2. CASE i \in 1..Rows
    <3>1. weatherData'[bootRows' + i] = weatherData[bootRows + i]
      BY <1>1, <1>2, <2>2, AppendFacts DEF Rows
    <3>. QED
      BY <1>1, <1>3, <2>2, <3>1 DEF SummaryInv, SummariesPartition
  <2>. QED
    BY <1>2, <1>3, <2>1, <2>2
<1>6. SummariesPartition'
  BY <1>1, <1>3, <1>4, <1>5 DEF SummaryInv, SummariesPartition
<1>. QED
  BY <1>1, <1>6 DEF SummaryInv

(* A summary may be stored and its readings be forgotten, or the process dies. *)
LEMMA SummaryStored ==
  ASSUME IInv, SummaryInv, alive, dailySummary' = Append(dailySummary, ds),
         UNCHANGED <<bootSummary, bootRx, rx>>
  PROVE  /\ bootSummary' <= Len(dailySummary')
         /\ \A i \in 1..Len(dailySummary') : dailySummary'[i] \ {Torn} \subseteq 1..rx'
         /\ \A i \in 1..bootSummary' : dailySummary'[i] \ {Torn} \subseteq 1..bootRx'
         /\ \A i, j \in 1..Len(dailySummary') :
              i # j => dailySummary'[i] \cap dailySummary'[j] \subseteq {Torn}
         /\ UNION Done' = Gathered
<1>1. dailySummary \in Seq(SUBSET Reading) /\ ds \in SUBSET Reading /\ bootSummary \in Nat
  BY DEF IInv, TypeOK, DbTypeOK
<1>2. /\ Len(dailySummary') = Len(dailySummary) + 1 /\ Len(dailySummary) \in Nat
      /\ \A i \in 1..Len(dailySummary) : dailySummary'[i] = dailySummary[i]
      /\ dailySummary'[Len(dailySummary) + 1] = ds
  BY <1>1, AppendFacts
<1>3. bootSummary <= Len(dailySummary)
  BY DEF SummaryInv
<1>4. ds \ {Torn} \subseteq 1..rx
  <2>1. ds \ {Torn} \subseteq bootRx + 1 .. Popped
    BY DEF SummaryInv, SummariesPartition
  <2>. QED
    BY <2>1, PoppedFacts
<1>5. \A i \in 1..Len(dailySummary') : dailySummary'[i] \ {Torn} \subseteq 1..rx'
  BY <1>2, <1>4 DEF SummaryInv
<1>6. \A i \in 1..bootSummary' : dailySummary'[i] \ {Torn} \subseteq 1..bootRx'
  BY <1>1, <1>2, <1>3 DEF SummaryInv
<1>7. ASSUME NEW i \in 1..Len(dailySummary'), NEW j \in 1..Len(dailySummary'), i # j
      PROVE  dailySummary'[i] \cap dailySummary'[j] \subseteq {Torn}
  <2>1. \A k \in 1..Len(dailySummary) : dailySummary[k] \cap ds \subseteq {Torn}
    BY DEF SummaryInv, SummariesPartition
  <2>2. CASE i \in 1..Len(dailySummary) /\ j \in 1..Len(dailySummary)
    BY <1>2, <1>7, <2>2 DEF SummaryInv
  <2>3. CASE i = Len(dailySummary) + 1 /\ j \in 1..Len(dailySummary)
    BY <1>2, <2>1, <2>3
  <2>4. CASE i \in 1..Len(dailySummary) /\ j = Len(dailySummary) + 1
    BY <1>2, <2>1, <2>4
  <2>. QED
    BY <1>2, <1>7, <2>2, <2>3, <2>4
<1>8. UNION Done' = Gathered
  <2>1. Done' = Done \cup {ds}
    <3>1. \A i \in bootSummary + 1 .. Len(dailySummary) : dailySummary'[i] = dailySummary[i]
      BY <1>1, <1>2
    <3>2. Len(dailySummary') \in bootSummary' + 1 .. Len(dailySummary')
      BY <1>1, <1>2, <1>3
    <3>3. bootSummary' + 1 .. Len(dailySummary')
            = (bootSummary + 1 .. Len(dailySummary)) \cup {Len(dailySummary')}
      BY <1>1, <1>2, <1>3
    <3>. DEFINE Old == bootSummary + 1 .. Len(dailySummary)
    <3>4. Done = {dailySummary[i] : i \in Old}
      BY DEF Done
    <3>5. Done' = {dailySummary'[i] : i \in Old \cup {Len(dailySummary')}}
      BY <3>3 DEF Done
    <3>6. dailySummary'[Len(dailySummary')] = ds
      BY <1>2
    <3>. HIDE DEF Old
    <3>7. \A i \in Old : dailySummary'[i] = dailySummary[i]
      BY <3>1 DEF Old
    <3>. QED
      BY <3>4, <3>5, <3>6, <3>7
  <2>. QED
    BY <2>1 DEF Gathered
<1>9. bootSummary' <= Len(dailySummary')
  BY <1>1, <1>2, <1>3
<1>. QED
  BY <1>5, <1>6, <1>7, <1>8, <1>9

(* The database thread, whatever it does. *)
LEMMA DbKeepsSummaries ==
  ASSUME IInv, IInv', SummaryInv, DbStep, UNCHANGED <<nrfVars, wowVars, bootVars>>
  PROVE  SummaryInv'
<1>1. UNCHANGED <<rx, bootRx, bootRows, bootSummary>> /\ rx \in Nat
  BY PoppedFacts DEF nrfVars, bootVars
<1>2. CASE Connect \/ ConnectFails \/ PopReadingCrashes
  BY <1>1, <1>2, SummaryKept DEF Connect, ConnectFails, PopReadingCrashes, summaryVars, InHand
<1>3. CASE PopReading
  BY <1>3, PopKeepsSummaries
<1>4. CASE InsertWeather
  BY <1>4, RowKeepsSummaries
<1>5. CASE InsertWeatherThrows
  <2>1. ~alive' /\ UNCHANGED <<ds, dailySummary>>
    BY <1>5 DEF InsertWeatherThrows
  <2>. QED
    BY <1>1, <2>1 DEF SummaryInv, SummariesPartition
<1>6. CASE InsertTelemetry \/ InsertTelemetryThrows
  BY <1>1, <1>6, SummaryKept DEF InsertTelemetry, InsertTelemetryThrows, summaryVars, InHand
<1>7. CASE \E now \in ClockReadings : ReadClock(now)
  BY <1>1, <1>7, SummaryKept DEF ReadClock, summaryVars, InHand
<1>8. CASE InsertSummary
  <2>1. /\ alive /\ dailySummary' = Append(dailySummary, ds) /\ ds' = {}
        /\ dbPc = "summary" /\ dbPc' = "poll" /\ UNCHANGED weatherData
    BY <1>8 DEF InsertSummary
  <2>2. Rows' = Rows /\ Popped' = Popped
    BY <1>1, <2>1 DEF Rows, Popped, InHand
  <2>3. ds' \cup UNION Done' = Gathered
    BY <1>1, <2>1, SummaryStored
  <2>4. SummariesPartition'
    BY <1>1, <2>1, <2>2, <2>3, SummaryStored DEF SummaryInv, SummariesPartition, Gathered
  <2>. QED
    BY <1>1, <2>1, <2>4, SummaryStored DEF SummaryInv
<1>9. CASE InsertSummaryThrows
  <2>1. alive /\ ~alive' /\ dailySummary' \in {dailySummary, Append(dailySummary, ds)}
    BY <1>9 DEF InsertSummaryThrows
  <2>2. CASE dailySummary' = dailySummary
    BY <1>1, <2>1, <2>2 DEF SummaryInv, SummariesPartition
  <2>3. CASE dailySummary' = Append(dailySummary, ds)
    BY <1>1, <2>1, <2>3, SummaryStored DEF SummaryInv, SummariesPartition
  <2>. QED
    BY <2>1, <2>2, <2>3
<1>. QED
  BY <1>2, <1>3, <1>4, <1>5, <1>6, <1>7, <1>8, <1>9 DEF DbStep

(* Every step preserves the invariant. *)
LEMMA SummaryPreserved ==
  IInv /\ IInv' /\ SummaryInv /\ [Next]_vars => SummaryInv'
<1>. SUFFICES ASSUME IInv, IInv', SummaryInv, [Next]_vars
     PROVE  SummaryInv'
  OBVIOUS
<1>0. rx \in Nat
  BY PoppedFacts
<1>1. CASE StartThreads
  BY <1>0, <1>1, SummaryKept DEF StartThreads, StartNRFListenThread, StartDBUpdateThread,
     StartWoWUpdateThread, nrfVars, dbVars, bootVars, procVars, summaryVars, InHand
<1>2. CASE StartThrows \/ Kill \/ StoreArrives
  BY <1>0, <1>2, SummaryKept DEF StartThrows, Kill, StoreArrives, nrfVars, dbVars, bootVars,
     summaryVars, InHand
<1>3. CASE NrfNext /\ UNCHANGED <<dbVars, wowVars, bootVars>>
  <2>1. rx' \in {rx, rx + 1} /\ (alive' => alive)
    BY <1>3 DEF NrfNext, NrfStep, OpenRadio, OpenRadioThrows, PushWeb, PushDb, SleepPacket,
       WeatherPacket
  <2>. QED
    BY <1>0, <1>3, <2>1, SummaryKept DEF dbVars, bootVars, summaryVars, InHand
<1>4. CASE DbStep /\ UNCHANGED <<nrfVars, wowVars, bootVars>>
  BY <1>4, DbKeepsSummaries
<1>5. CASE WowStep /\ UNCHANGED <<nrfVars, dbVars, bootVars>>
  <2>1. alive
    BY <1>5 DEF WowStep, WowRun, WowPost, CurlInit, CurlInitFails, PopPost, PopPostCrashes,
       PostSkipped, RunAgain, PostSucceeds, PostFails
  <2>. QED
    BY <1>0, <1>5, <2>1, SummaryKept DEF nrfVars, dbVars, bootVars, summaryVars, InHand
<1>6. CASE Boot
  <2>1. /\ ds' = {} /\ dbPc' = "unborn" /\ bootSummary' = Len(dailySummary) /\ bootRx' = rx
        /\ bootRows' = Len(weatherData) /\ UNCHANGED <<rx, dailySummary, weatherData>>
    BY <1>6 DEF Boot
  <2>2. dailySummary \in Seq(SUBSET Reading) /\ weatherData \in Seq(Reading)
    BY DEF IInv, TypeOK, DbTypeOK
  <2>3. Done' = {} /\ Rows' = 0
    BY <2>1, <2>2 DEF Done, Rows
  <2>4. SummariesPartition'
    BY <2>1, <2>3 DEF SummaryInv, SummariesPartition
  <2>. QED
    BY <2>1, <2>2, <2>4 DEF SummaryInv
<1>7. CASE UNCHANGED vars
  BY <1>0, <1>7, SummaryKept DEF vars, procVars, nrfVars, dbVars, bootVars, summaryVars, InHand
<1>. QED
  BY <1>1, <1>2, <1>3, <1>4, <1>5, <1>6, <1>7 DEF Next

(***************************************************************************)
(* Each reading taken from dbq is in one daily summary, or will be, unless *)
(* the process dies first.                                                 *)
(***************************************************************************)
THEOREM SummariesAreDisjoint == Spec => []SummariesPartition
<1>1. SummaryInv => SummariesPartition
  BY DEF SummaryInv
<1>. QED
  BY <1>1, InitSummaryInv, SummaryPreserved, Invariance, PTL DEF Spec
-----------------------------------------------------------------------------
(***************************************************************************)
(* The website's side: which packets are handed to WoWUpdateThread, and    *)
(* that none is posted twice or out of order.                              *)
(*                                                                         *)
(* Due(i), the packet of the i-th hand-over, hides the product of i and    *)
(* Cycle: after DueFacts every step is linear arithmetic.                  *)
(***************************************************************************)


(* Products grow with their factors. *)
LEMMA TimesMonotone ==
  ASSUME NEW c \in Nat \ {0}, NEW i \in Nat, NEW j \in Nat, i < j
  PROVE  i * c < j * c
OBVIOUS

(* A quotient is known from the multiples next to the dividend. *)
LEMMA Quotient ==
  ASSUME NEW c \in Nat \ {0}, NEW q \in Nat, NEW a \in Nat, q * c <= a, a < (q + 1) * c
  PROVE  a \div c = q
OBVIOUS

(* PostCycleSeconds is met by counting in thirties just when Cycle > 0. *)
LEMMA CycleFacts ==
  /\ Cycle \in Nat
  /\ Cycle > 0 => PostCycleSeconds = PacketSeconds * Cycle
  /\ Cycle = 0 => \A n \in Nat \ {0} : PacketSeconds * n # PostCycleSeconds
<1>1. CASE PostCycleSeconds > 0 /\ PostCycleSeconds % PacketSeconds = 0
  BY <1>1, PostCycleAssumption DEF Cycle, PacketSeconds
<1>2. CASE ~(PostCycleSeconds > 0 /\ PostCycleSeconds % PacketSeconds = 0)
  BY <1>2, PostCycleAssumption DEF Cycle, PacketSeconds
<1>. QED
  BY <1>1, <1>2

(* The packets of successive hand-overs are Cycle packets apart. *)
LEMMA DueFacts ==
  ASSUME bootRx \in Nat
  PROVE  /\ Due(0) = bootRx
         /\ \A i \in Nat : Due(i) \in Nat /\ Due(i + 1) = Due(i) + Cycle
         /\ Cycle > 0 => \A i, j \in Nat : i < j => Due(i) < Due(j)
<1>1. Cycle \in Nat
  BY CycleFacts
<1>2. ASSUME NEW i \in Nat PROVE Due(i) \in Nat /\ Due(i + 1) = Due(i) + Cycle
  <2>1. i * Cycle \in Nat /\ (i + 1) * Cycle = i * Cycle + Cycle
    BY <1>1
  <2>. QED
    BY <1>1, <2>1 DEF Due
<1>3. ASSUME Cycle > 0, NEW i \in Nat, NEW j \in Nat, i < j PROVE Due(i) < Due(j)
  <2>1. i * Cycle < j * Cycle /\ i * Cycle \in Nat /\ j * Cycle \in Nat
    BY <1>1, <1>3, TimesMonotone
  <2>. QED
    BY <2>1 DEF Due
<1>4. Due(0) = bootRx
  BY <1>1 DEF Due
<1>. QED
  BY <1>2, <1>3, <1>4

(* Only a new run moves the packets that are due. *)
LEMMA DueStays ==
  ASSUME bootRx' = bootRx PROVE \A i \in Nat : Due(i)' = Due(i)
BY DEF Due

(* The types that the proofs below need. *)
LEMMA PostingTypes ==
  ASSUME IInv, TakenInv
  PROVE  /\ rx \in Nat /\ bootRx \in Nat /\ bootRx <= rx /\ Received = rx - bootRx
         /\ taken \in Seq(Reading) /\ posted \in Seq(Reading) /\ bootTaken \in Nat
         /\ webPostQueue \in Seq(QueueEntry) /\ Len(webPostQueue) \in Nat
         /\ Taken \in Nat /\ Handed = Taken + Len(webPostQueue) /\ Handed \in Nat
         /\ msgCounter \in Nat
<1>1. /\ rx \in Nat /\ bootRx \in Nat /\ bootRx <= rx
      /\ taken \in Seq(Reading) /\ posted \in Seq(Reading) /\ bootTaken \in Nat
      /\ webPostQueue \in Seq(QueueEntry) /\ msgCounter \in Nat
  BY DEF IInv, TypeOK, NrfTypeOK, WowTypeOK, RowsInv
<1>2. Len(taken) \in Nat /\ Len(webPostQueue) \in Nat /\ bootTaken <= Len(taken)
  BY <1>1 DEF TakenInv
<1>. QED
  BY <1>1, <1>2 DEF Received, Taken, Handed

(* What has been handed over is due by now. *)
LEMMA HandedIsDue ==
  ASSUME IInv, CounterInv, TakenInv, alive, Handed > 0
  PROVE  Cycle > 0 /\ \A i \in 0..Handed : Due(i) <= rx
<1>1. Cycle > 0
  BY CycleFacts DEF CounterInv
<1>2. Due(Handed) <= rx
  <2>1. CASE nrfPc = "web"
    <3>1. bootRx \in Nat /\ Handed \in Nat
      BY PostingTypes
    <3>2. Due(Handed + 1) = Due(Handed) + Cycle /\ Due(Handed) \in Nat
      BY <3>1, DueFacts
    <3>3. rx = Due(Handed + 1)
      BY <1>1, <2>1 DEF CounterInv
    <3>. QED
      BY <1>1, <3>2, <3>3, CycleFacts
  <2>2. CASE nrfPc # "web"
    BY <1>1, <2>2 DEF CounterInv
  <2>. QED
    BY <2>1, <2>2
<1>3. ASSUME NEW i \in 0..Handed PROVE Due(i) <= rx
  <2>1. CASE i = Handed
    BY <1>2, <2>1
  <2>2. CASE i < Handed
    <3>1. i \in Nat /\ Handed \in Nat /\ bootRx \in Nat
      BY PostingTypes
    <3>2. Due(i) < Due(Handed) /\ Due(i) \in Nat /\ Due(Handed) \in Nat
      BY <1>1, <2>2, <3>1, DueFacts
    <3>. QED
      BY <1>2, <3>2, PostingTypes
  <2>. QED
    BY <2>1, <2>2, PostingTypes
<1>. QED
  BY <1>1, <1>3

-----------------------------------------------------------------------------

(* Nothing has been received or handed over. *)
LEMMA InitPostingInv == Init => PostingInv
<1>. SUFFICES ASSUME Init PROVE PostingInv
  OBVIOUS
<1>. USE DEF Init, NrfInit, WowInit
<1>1. Taken = 0 /\ Handed = 0 /\ Received = 0 /\ Len(taken) = 0 /\ Len(webPostQueue) = 0
  BY DEF Taken, Handed, Received
<1>2. Due(0) = 0 /\ (Cycle > 0 => Due(1) > 0) /\ Cycle \in Nat
  BY CycleFacts DEF Due
<1>3. CounterInv
  BY <1>1, <1>2 DEF CounterInv, PacketSeconds
<1>4. TakenInv
  BY <1>1 DEF TakenInv
<1>5. PostedInv /\ PostedOnce
  BY DEF PostedInv, PostedOnce
<1>. QED
  BY <1>3, <1>4, <1>5 DEF PostingInv

(* A step that receives, hands over, takes and posts nothing. *)
postingVars == <<rx, bootRx, bootTaken, taken, posted>>

(* A step that touches none of these keeps the invariant. *)
LEMMA PostingKept ==
  ASSUME IInv, PostingInv, UNCHANGED postingVars,
         alive' =>
           /\ alive
           /\ msgCounter' = msgCounter
           /\ (nrfPc' = "web") <=> (nrfPc = "web")
           /\ (wowPc' = "post") <=> (wowPc = "post")
           /\ wowPc = "post" => wowTr' = wowTr
           /\ Len(webPostQueue') = Len(webPostQueue)
           /\ \A i \in 1..Len(webPostQueue) : webPostQueue'[i].val = webPostQueue[i].val
  PROVE  PostingInv'
<1>. USE DEF postingVars
<1>0. CounterInv /\ TakenInv /\ PostedInv /\ PostedOnce
  BY DEF PostingInv
<1>1. /\ \A i : Due(i)' = Due(i)
      /\ Taken' = Taken /\ Received' = Received
      /\ alive' => Handed' = Handed
  BY DEF Due, Taken, Handed, Received
<1>2. CounterInv'
  BY <1>0, <1>1 DEF CounterInv
<1>3. TakenInv'
  BY <1>0, <1>1 DEF TakenInv
<1>4. PostedInv' /\ PostedOnce'
  BY <1>0, <1>1 DEF PostedInv, PostedOnce
<1>. QED
  BY <1>2, <1>3, <1>4 DEF PostingInv

(* A weather packet: the cycle may be complete with it. *)
LEMMA PacketKeepsPosting ==
  ASSUME IInv, IInv', PostingInv, WeatherPacket, UNCHANGED <<dbVars, wowVars, bootVars>>
  PROVE  PostingInv'
<1>0. CounterInv /\ TakenInv /\ PostedInv /\ PostedOnce
  BY DEF PostingInv
<1>1. /\ alive /\ nrfPc = "poll" /\ rx' = rx + 1
      /\ msgCounter' = msgCounter + PacketSeconds
      /\ nrfPc' = IF msgCounter + PacketSeconds = PostCycleSeconds THEN "web" ELSE "db"
      /\ UNCHANGED <<alive, webPostQueue, bootRx, bootTaken, taken, posted, wowPc, wowTr>>
  BY DEF WeatherPacket, wowVars, bootVars
<1>2. (\A i : Due(i)' = Due(i)) /\ Taken' = Taken /\ Handed' = Handed
  BY <1>1 DEF Due, Taken, Handed
<1>3. rx \in Nat /\ bootRx \in Nat /\ Handed \in Nat /\ Received = rx - bootRx
      /\ bootRx <= rx /\ msgCounter \in Nat
  BY <1>0, PostingTypes
<1>4. Received' = Received + 1 /\ Received \in Nat
  BY <1>1, <1>3 DEF Received
<1>5. CounterInv'
  <2>1. CASE Cycle = 0
    <3>1. Handed = 0 /\ msgCounter = PacketSeconds * Received
      BY <1>0, <1>1, <2>1 DEF CounterInv
    <3>2. msgCounter' = PacketSeconds * (Received + 1)
      BY <1>1, <1>4, <3>1 DEF PacketSeconds
    <3>3. msgCounter + PacketSeconds # PostCycleSeconds
      BY <1>1, <1>4, <2>1, <3>2, CycleFacts
    <3>. QED
      BY <1>1, <1>2, <1>4, <2>1, <3>1, <3>2, <3>3 DEF CounterInv
  <2>2. CASE Cycle > 0
    <3>1. /\ Due(Handed) <= rx /\ rx < Due(Handed + 1)
          /\ msgCounter = PacketSeconds * (rx - Due(Handed))
      BY <1>0, <1>1, <2>2 DEF CounterInv
    <3>2. /\ Due(Handed) \in Nat /\ Due(Handed + 1) = Due(Handed) + Cycle
          /\ Cycle \in Nat /\ PostCycleSeconds = PacketSeconds * Cycle
      BY <1>3, <2>2, DueFacts, CycleFacts
    <3>3. msgCounter' = PacketSeconds * (rx' - Due(Handed))
      BY <1>1, <1>3, <3>1, <3>2 DEF PacketSeconds
    <3>4. nrfPc' = "web" => rx' = Due(Handed + 1)
      BY <1>1, <1>3, <3>1, <3>2 DEF PacketSeconds
    <3>5. nrfPc' # "web" => rx' # Due(Handed + 1)
      BY <1>1, <1>3, <3>1, <3>2 DEF PacketSeconds
    <3>6. Due(Handed) <= rx' /\ rx' <= Due(Handed + 1)
      BY <1>1, <1>3, <3>1, <3>2
    <3>7. Due(Handed)' = Due(Handed) /\ Due(Handed + 1)' = Due(Handed + 1)
      BY <1>1, <1>2 DEF Due
    <3>8. nrfPc' # "web" => rx' < Due(Handed + 1)
      BY <1>1, <1>3, <3>2, <3>5, <3>6
    <3>. QED
      BY <1>1, <1>2, <2>2, <3>3, <3>4, <3>6, <3>7, <3>8 DEF CounterInv
  <2>. QED
    BY <2>1, <2>2, CycleFacts
<1>6. TakenInv'
  BY <1>0, <1>1, <1>2 DEF TakenInv
<1>7. PostedInv' /\ PostedOnce'
  <2>1. \A j \in 1..Len(posted) : posted[j] # Torn => posted[j] <= rx'
    <3>1. \A j \in 1..Len(posted) : posted[j] \in Reading
      BY <1>0, PostingTypes
    <3>. QED
      BY <1>0, <1>1, <1>3, <3>1 DEF PostedInv, Reading, Ordinal
  <2>. QED
    BY <1>0, <1>1, <1>2, <2>1 DEF PostedInv, PostedOnce
<1>. QED
  BY <1>5, <1>6, <1>7 DEF PostingInv

(* The hand-over. *)
LEMMA HandOverKeepsPosting ==
  ASSUME IInv, IInv', PostingInv, PushWeb, UNCHANGED <<dbVars, wowVars, bootVars>>
  PROVE  PostingInv'
<1>0. CounterInv /\ TakenInv /\ PostedInv /\ PostedOnce
  BY DEF PostingInv
<1>1. /\ alive /\ nrfPc = "web" /\ nrfPc' = "db" /\ msgCounter' = 0
      /\ Push(webPostQueue, transform, webPostQueue')
      /\ UNCHANGED <<alive, rx, bootRx, bootTaken, taken, posted, wowPc, wowTr>>
  BY DEF PushWeb, wowVars, bootVars
<1>2. /\ rx \in Nat /\ bootRx \in Nat /\ Handed \in Nat /\ Taken \in Nat
      /\ webPostQueue \in Seq(QueueEntry) /\ Len(webPostQueue) \in Nat
      /\ Handed = Taken + Len(webPostQueue)
  BY <1>0, PostingTypes
<1>3. Cycle > 0 /\ rx = Due(Handed + 1) /\ transform = rx
  BY <1>0, <1>1, CycleFacts DEF CounterInv, IInv, HandsInv
<1>4. /\ Due(Handed + 1) \in Nat /\ Due(Handed + 1) = Due(Handed) + Cycle
      /\ Due(Handed + 1 + 1) = Due(Handed + 1) + Cycle /\ Due(Handed) \in Nat
  BY <1>2, DueFacts
<1>5. /\ Len(webPostQueue') = Len(webPostQueue) + 1
      /\ \A i \in 1..Len(webPostQueue) : webPostQueue'[i].val = webPostQueue[i].val
      /\ webPostQueue'[Len(webPostQueue) + 1].val = rx
  <2>1. transform \in Ordinal
    BY <1>2, <1>3, <1>4, CycleFacts DEF Ordinal
  <2>. QED
    BY <1>1, <1>2, <1>3, <2>1, PushFacts
<1>6. Taken' = Taken /\ Handed' = Handed + 1 /\ \A i : Due(i)' = Due(i)
  BY <1>1, <1>2, <1>5 DEF Taken, Handed, Due
<1>7. CounterInv'
  <2>1. Due(Handed)' = Due(Handed + 1) /\ Due(Handed + 1)' = Due(Handed + 1) + Cycle
    <3>1. Due(Handed)' = Due(Handed + 1) /\ Due(Handed + 1)' = Due(Handed + 1 + 1)
      BY <1>1, <1>6 DEF Due
    <3>. QED
      BY <1>4, <3>1
  <2>2. Due(Handed)' <= rx' /\ rx' < Due(Handed + 1)'
    BY <1>1, <1>2, <1>3, <1>4, <2>1, CycleFacts
  <2>3. msgCounter' = PacketSeconds * (rx' - Due(Handed)')
    BY <1>1, <1>2, <1>3, <1>4, <2>1 DEF PacketSeconds
  <2>. QED
    BY <1>1, <1>3, <2>2, <2>3 DEF CounterInv
<1>8. TakenInv'
  <2>1. Due(Taken + Len(webPostQueue) + 1) = rx
    BY <1>2, <1>3
  <2>2. ASSUME NEW i \in 1..Len(webPostQueue') PROVE webPostQueue'[i].val = Due(Taken + i)
    <3>1. CASE i \in 1..Len(webPostQueue)
      BY <1>0, <1>1, <1>5, <3>1 DEF TakenInv
    <3>2. CASE i = Len(webPostQueue) + 1
      <4>1. Taken + i = Handed + 1
        BY <1>2, <3>2
      <4>. QED
        BY <1>3, <1>5, <3>2, <4>1
    <3>. QED
      BY <1>2, <1>5, <3>1, <3>2
  <2>. QED
    BY <1>0, <1>1, <1>6, <2>2 DEF TakenInv
<1>9. PostedInv' /\ PostedOnce'
  BY <1>0, <1>1, <1>6 DEF PostedInv, PostedOnce
<1>. QED
  BY <1>7, <1>8, <1>9 DEF PostingInv

(* WoWUpdateThread takes the next reading. *)
LEMMA TakingKeepsPosting ==
  ASSUME IInv, IInv', PostingInv, PopPost, UNCHANGED <<nrfVars, dbVars, bootVars>>
  PROVE  PostingInv'
<1>0. CounterInv /\ TakenInv /\ PostedInv /\ PostedOnce
  BY DEF PostingInv
<1>1. /\ alive /\ wowPc = "poll" /\ wowPc' = "post" /\ webPostQueue # <<>>
      /\ wowTr' = FrontValue(webPostQueue)
      /\ taken' = Append(taken, FrontValue(webPostQueue))
      /\ webPostQueue' = Tail(webPostQueue)
      /\ UNCHANGED <<alive, rx, bootRx, bootTaken, posted, nrfPc, msgCounter>>
  BY DEF PopPost, nrfVars, bootVars
<1>2. /\ taken \in Seq(Reading) /\ bootTaken \in Nat /\ Taken \in Nat
      /\ webPostQueue \in Seq(QueueEntry) /\ Len(webPostQueue) \in Nat
      /\ Handed = Taken + Len(webPostQueue)
  BY <1>0, PostingTypes
<1>3. /\ Len(webPostQueue') = Len(webPostQueue) - 1 /\ Len(webPostQueue) > 0
      /\ \A i \in 1..Len(webPostQueue') : webPostQueue'[i] = webPostQueue[i + 1]
      /\ FrontValue(webPostQueue) \in Reading
      /\ FrontValue(webPostQueue) \in {webPostQueue[1].val, Torn}
  BY <1>1, <1>2, TailFacts, FrontFacts
<1>4. /\ Len(taken') = Len(taken) + 1 /\ Len(taken) \in Nat
      /\ \A i \in 1..Len(taken) : taken'[i] = taken[i]
      /\ taken'[Len(taken) + 1] = FrontValue(webPostQueue)
  BY <1>1, <1>2, <1>3, AppendFacts
<1>5. Taken' = Taken + 1
  BY <1>1, <1>2, <1>4 DEF Taken
<1>6. Handed' = Handed
  BY <1>1, <1>2, <1>3, <1>5 DEF Handed
<1>7. (\A i : Due(i)' = Due(i)) /\ Received' = Received
  BY <1>1 DEF Due, Received
<1>8. FrontValue(webPostQueue) \in {Due(Taken + 1), Torn}
  BY <1>0, <1>1, <1>3 DEF TakenInv
<1>9. CounterInv'
  <2>1. Due(Handed)' = Due(Handed) /\ Due(Handed + 1)' = Due(Handed + 1)
    BY <1>1, <1>6 DEF Due
  <2>. QED
    BY <1>0, <1>1, <1>6, <1>7, <2>1 DEF CounterInv
<1>10. TakenInv'
  <2>1. bootTaken' <= Len(taken')
    BY <1>0, <1>1, <1>2, <1>4 DEF TakenInv
  <2>2. ASSUME NEW i \in 1..Taken' PROVE taken'[bootTaken + i] \in {Due(i), Torn}
    <3>1. Len(taken) = bootTaken + Taken
      BY <1>2, <1>4 DEF Taken
    <3>2. CASE i \in 1..Taken
      <4>1. bootTaken + i \in 1..Len(taken)
        BY <1>2, <3>1, <3>2
      <4>. QED
        BY <1>0, <1>1, <1>4, <3>2, <4>1 DEF TakenInv
    <3>3. CASE i = Taken + 1
      <4>1. bootTaken + i = Len(taken) + 1
        BY <1>2, <3>1, <3>3
      <4>. QED
        BY <1>4, <1>8, <3>3, <4>1
    <3>. QED
      BY <1>2, <1>5, <3>2, <3>3
  <2>3. ASSUME NEW i \in 1..Len(webPostQueue')
        PROVE  webPostQueue'[i].val = Due(Taken + 1 + i)
    <3>1. i + 1 \in 1..Len(webPostQueue) /\ Taken + (i + 1) = Taken + 1 + i
      <4>1. i \in 1..Len(webPostQueue) - 1
        BY <1>3
      <4>. QED
        BY <1>2, <4>1
    <3>2. webPostQueue[i + 1].val = Due(Taken + (i + 1))
      BY <1>0, <1>1, <3>1 DEF TakenInv
    <3>. QED
      BY <1>3, <3>1, <3>2
  <2>4. \A i \in 1..Taken' : taken'[bootTaken' + i] \in {Due(i)', Torn'}
    BY <1>1, <1>7, <2>2
  <2>5. \A i \in 1..Len(webPostQueue') : webPostQueue'[i].val = Due(Taken + i)'
    <3>1. \A i : Due(Taken + i)' = Due(Taken + 1 + i)
      BY <1>1, <1>5 DEF Due
    <3>. QED
      BY <2>3, <3>1
  <2>. QED
    BY <2>1, <2>4, <2>5 DEF TakenInv
<1>11. PostedInv'
  <2>1. Due(Taken)' = Due(Taken + 1) /\ Due(Taken - 1)' = Due(Taken)
    <3>1. Taken' - 1 = Taken
      BY <1>2, <1>5
    <3>. QED
      BY <1>1, <1>5, <3>1 DEF Due
  <2>2. Taken' > 0 /\ wowTr' \in {Due(Taken)', Torn}
    BY <1>1, <1>2, <1>5, <1>8, <2>1
  <2>3. \A j \in 1..Len(posted) : posted[j] # Torn => posted[j] <= Due(Taken)
    BY <1>0, <1>1 DEF PostedInv
  <2>. QED
    BY <1>0, <1>1, <2>1, <2>2, <2>3 DEF PostedInv
<1>12. PostedOnce'
  BY <1>0, <1>1 DEF PostedOnce
<1>. QED
  BY <1>9, <1>10, <1>11, <1>12 DEF PostingInv

(* It posts it, or fails to, or does not try: the reading is not kept. *)
LEMMA PostKeepsPosting ==
  ASSUME IInv, IInv', PostingInv, alive, wowPc = "post", wowPc' # "post",
         posted' \in {posted, Append(posted, wowTr)},
         UNCHANGED <<alive, rx, bootRx, bootTaken, taken, webPostQueue, nrfPc, msgCounter>>
  PROVE  PostingInv'
<1>0. CounterInv /\ TakenInv /\ PostedInv /\ PostedOnce
  BY DEF PostingInv
<1>1. /\ \A i : Due(i)' = Due(i)
      /\ Taken' = Taken /\ Handed' = Handed /\ Received' = Received
  BY DEF Due, Taken, Handed, Received
<1>2. /\ rx \in Nat /\ bootRx \in Nat /\ posted \in Seq(Reading) /\ Taken \in Nat
      /\ Handed = Taken + Len(webPostQueue) /\ Len(webPostQueue) \in Nat
  BY <1>0, PostingTypes
<1>3. CounterInv'
  BY <1>0, <1>1 DEF CounterInv
<1>4. TakenInv'
  BY <1>0, <1>1 DEF TakenInv
<1>5. Taken > 0 /\ wowTr \in {Due(Taken), Torn} /\ wowTr \in Reading
  BY <1>0 DEF PostedInv, IInv, HandsInv
<1>6. /\ Due(Taken) \in Nat /\ Due(Taken - 1) \in Nat
      /\ Due(Taken - 1) < Due(Taken) /\ Due(Taken) <= rx
  <2>1. Taken - 1 \in Nat /\ Taken - 1 < Taken /\ Taken \in 0..Handed /\ Handed > 0
    BY <1>2, <1>5
  <2>2. Cycle > 0 /\ Due(Taken) <= rx
    BY <1>0, <2>1, HandedIsDue
  <2>. QED
    BY <1>2, <2>1, <2>2, DueFacts
<1>7. \A j \in 1..Len(posted) :
        /\ posted[j] \in Reading
        /\ posted[j] # Torn => posted[j] \in Nat /\ posted[j] < Due(Taken) /\ posted[j] <= rx
  <2>1. \A j \in 1..Len(posted) :
          posted[j] \in Reading /\ (posted[j] # Torn => posted[j] <= Due(Taken - 1))
    BY <1>0, <1>2 DEF PostedInv
  <2>2. \A x \in Reading : x # Torn => x \in Nat
    BY DEF Reading, Ordinal
  <2>. QED
    BY <1>2, <1>6, <2>1, <2>2
<1>8. CASE posted' = posted
  <2>1. \A j \in 1..Len(posted) : posted[j] # Torn => posted[j] <= Due(Taken)
    BY <1>6, <1>7
  <2>. QED
    BY <1>0, <1>1, <1>3, <1>4, <1>8, <2>1 DEF PostingInv, PostedInv, PostedOnce
<1>9. CASE posted' = Append(posted, wowTr)
  <2>1. /\ Len(posted') = Len(posted) + 1 /\ Len(posted) \in Nat
        /\ \A j \in 1..Len(posted) : posted'[j] = posted[j]
        /\ posted'[Len(posted) + 1] = wowTr
    BY <1>2, <1>5, <1>9, AppendFacts
  <2>2. ASSUME NEW j \in 1..Len(posted'), posted'[j] # Torn
        PROVE  posted'[j] <= rx /\ posted'[j] <= Due(Taken)
    <3>1. CASE j \in 1..Len(posted)
      BY <1>6, <1>7, <2>1, <2>2, <3>1
    <3>2. CASE j = Len(posted) + 1
      BY <1>5, <1>6, <2>1, <2>2, <3>2
    <3>. QED
      BY <2>1, <3>1, <3>2
  <2>3. PostedInv'
    BY <1>1, <2>2 DEF PostedInv
  <2>4. ASSUME NEW i \in 1..Len(posted'), NEW j \in 1..Len(posted'), i < j,
               posted'[i] # Torn, posted'[j] # Torn
        PROVE  posted'[i] < posted'[j]
    <3>1. CASE j \in 1..Len(posted)
      <4>1. i \in 1..Len(posted)
        BY <2>1, <2>4, <3>1
      <4>. QED
        BY <1>0, <2>1, <2>4, <3>1, <4>1 DEF PostedOnce
    <3>2. CASE j = Len(posted) + 1
      <4>1. i \in 1..Len(posted)
        BY <2>1, <2>4, <3>2
      <4>2. posted'[j] = Due(Taken)
        BY <1>5, <2>1, <2>4, <3>2
      <4>. QED
        BY <1>7, <2>1, <2>4, <4>1, <4>2
    <3>. QED
      BY <2>1, <3>1, <3>2
  <2>5. PostedOnce'
    BY <2>4 DEF PostedOnce
  <2>. QED
    BY <1>3, <1>4, <2>3, <2>5 DEF PostingInv
<1>. QED
  BY <1>8, <1>9

(* A new run counts from the packets and the posts of the earlier ones. *)
LEMMA BootKeepsPosting ==
  ASSUME IInv, IInv', PostingInv, Boot
  PROVE  PostingInv'
<1>0. CounterInv /\ TakenInv /\ PostedInv /\ PostedOnce
  BY DEF PostingInv
<1>1. /\ webPostQueue' = <<>> /\ nrfPc' = "unborn" /\ msgCounter' = 0 /\ wowPc' = "unborn"
      /\ bootRx' = rx /\ bootTaken' = Len(taken) /\ UNCHANGED <<rx, taken, posted>>
  BY DEF Boot
<1>2. rx \in Nat /\ Len(taken) \in Nat
  BY <1>0, PostingTypes
<1>3. Len(webPostQueue') = 0 /\ Taken' = 0 /\ Received' = 0
  BY <1>1, <1>2 DEF Taken, Received
<1>4. Handed' = 0
  BY <1>3 DEF Handed
<1>5. /\ Due(Handed)' = rx /\ Due(Taken)' = rx
      /\ Due(Handed + 1)' = rx + Cycle /\ Cycle \in Nat
  <2>1. Cycle \in Nat
    BY CycleFacts
  <2>. QED
    BY <1>1, <1>2, <1>3, <1>4, <2>1 DEF Due
<1>6. CounterInv'
  BY <1>1, <1>2, <1>3, <1>4, <1>5 DEF CounterInv, PacketSeconds
<1>7. TakenInv'
  BY <1>1, <1>2, <1>3 DEF TakenInv
<1>8. PostedInv' /\ PostedOnce'
  BY <1>0, <1>1, <1>5 DEF PostedInv, PostedOnce
<1>. QED
  BY <1>6, <1>7, <1>8 DEF PostingInv

(* Every step preserves the invariant. *)
LEMMA PostingPreserved ==
  IInv /\ IInv' /\ PostingInv /\ [Next]_vars => PostingInv'
<1>. SUFFICES ASSUME IInv, IInv', PostingInv, [Next]_vars
     PROVE  PostingInv'
  OBVIOUS
<1>1. CASE StartThreads
  BY <1>1, PostingKept DEF StartThreads, StartNRFListenThread, StartDBUpdateThread,
     StartWoWUpdateThread, nrfVars, wowVars, bootVars, procVars, postingVars
<1>2. CASE StartThrows \/ Kill
  BY <1>2, PostingKept DEF StartThrows, Kill, nrfVars, wowVars, bootVars, postingVars
<1>3. CASE NrfNext /\ UNCHANGED <<dbVars, wowVars, bootVars>>
  <2>1. CASE OpenRadio \/ OpenRadioThrows \/ PushDb \/ SleepPacket
    BY <1>3, <2>1, PostingKept DEF OpenRadio, OpenRadioThrows, PushDb, SleepPacket,
       wowVars, bootVars, postingVars
  <2>2. CASE WeatherPacket
    BY <1>3, <2>2, PacketKeepsPosting
  <2>3. CASE PushWeb
    BY <1>3, <2>3, HandOverKeepsPosting
  <2>. QED
    BY <1>3, <2>1, <2>2, <2>3 DEF NrfNext, NrfStep
<1>4. CASE DbStep /\ UNCHANGED <<nrfVars, wowVars, bootVars>>
  <2>1. alive /\ UNCHANGED webPostQueue
    BY <1>4 DEF DbStep, Connect, ConnectFails, PopReading, PopReadingCrashes, InsertWeather,
       InsertWeatherThrows, InsertTelemetry, InsertTelemetryThrows, ReadClock, InsertSummary,
       InsertSummaryThrows
  <2>. QED
    BY <1>4, <2>1, PostingKept DEF nrfVars, wowVars, bootVars, postingVars
<1>5. CASE WowStep /\ UNCHANGED <<nrfVars, dbVars, bootVars>>
  <2>1. CASE CurlInit \/ CurlInitFails \/ PopPostCrashes \/ RunAgain
    BY <1>5, <2>1, PostingKept DEF CurlInit, CurlInitFails, PopPostCrashes, RunAgain,
       nrfVars, bootVars, postingVars
  <2>2. CASE PopPost
    BY <1>5, <2>2, TakingKeepsPosting
  <2>3. CASE PostSucceeds \/ PostFails \/ PostSkipped
    BY <1>5, <2>3, PostKeepsPosting DEF PostSucceeds, PostFails, PostSkipped, nrfVars, bootVars
  <2>. QED
    BY <1>5, <2>1, <2>2, <2>3 DEF WowStep, WowRun, WowPost
<1>6. CASE StoreArrives
  <2>1. webPostQueue \in Seq(QueueEntry)
    BY DEF IInv, TypeOK
  <2>2. /\ Len(webPostQueue') = Len(webPostQueue)
        /\ \A i \in 1..Len(webPostQueue) : webPostQueue'[i].val = webPostQueue[i].val
    BY <1>6, <2>1, ArriveFacts DEF StoreArrives
  <2>. QED
    BY <1>6, <2>2, PostingKept DEF StoreArrives, nrfVars, wowVars, bootVars, postingVars
<1>7. CASE Boot
  BY <1>7, BootKeepsPosting
<1>8. CASE UNCHANGED vars
  BY <1>8, PostingKept DEF vars, procVars, nrfVars, wowVars, bootVars, postingVars
<1>. QED
  BY <1>1, <1>2, <1>3, <1>4, <1>5, <1>6, <1>7, <1>8 DEF Next

(* The inductive invariant of the website's side. *)
THEOREM PostingInvariance == Spec => []PostingInv
BY InitPostingInv, PostingPreserved, Invariance, PTL DEF Spec

(* The counter's bookkeeping is division by Cycle. *)
LEMMA CountingIsDivision ==
  ASSUME IInv, PostingInv, alive, Cycle > 0
  PROVE  Handed + (IF nrfPc = "web" THEN 1 ELSE 0) = Received \div Cycle
<1>0. CounterInv /\ TakenInv
  BY DEF PostingInv
<1>1. /\ rx \in Nat /\ bootRx \in Nat /\ bootRx <= rx /\ Received = rx - bootRx
      /\ Handed \in Nat /\ Cycle \in Nat \ {0} /\ Received \in Nat
  BY <1>0, PostingTypes, CycleFacts
<1>. DEFINE q == IF nrfPc = "web" THEN Handed + 1 ELSE Handed
<1>2. q \in Nat
  BY <1>1
<1>3. Due(q) <= rx /\ rx < Due(q + 1)
  <2>1. CASE nrfPc = "web"
    <3>1. rx = Due(Handed + 1) /\ q = Handed + 1
      BY <1>0, <2>1 DEF CounterInv
    <3>. HIDE DEF q
    <3>2. Due(q) \in Nat /\ Due(q + 1) = Due(q) + Cycle
      BY <1>1, <1>2, DueFacts
    <3>. QED
      BY <1>1, <3>1, <3>2
  <2>2. CASE nrfPc # "web"
    BY <1>0, <2>2 DEF CounterInv
  <2>. QED
    BY <2>1, <2>2
<1>. HIDE DEF q
<1>4. q * Cycle <= Received /\ Received < (q + 1) * Cycle
  <2>1. q * Cycle \in Nat /\ (q + 1) * Cycle \in Nat
    BY <1>1, <1>2
  <2>. QED
    BY <1>1, <1>3, <2>1 DEF Due
<1>5. Received \div Cycle = q
  BY <1>1, <1>2, <1>4, Quotient
<1>. QED
  BY <1>1, <1>5 DEF q

(***************************************************************************)
(* Every Cycle-th packet of a run, and no other, goes to the website       *)
(* thread, which takes each once and in order.                             *)
(***************************************************************************)
THEOREM HandOversAreExact == Spec => []EveryCycleIsTaken
<1>1. IInv /\ PostingInv => EveryCycleIsTaken
  <2>. SUFFICES ASSUME IInv, PostingInv, alive PROVE EveryCycleIsTaken
    BY DEF EveryCycleIsTaken
  <2>1. CounterInv /\ TakenInv
    BY DEF PostingInv
  <2>2. Taken \in Nat /\ Len(webPostQueue) \in Nat /\ Handed = Taken + Len(webPostQueue)
    BY <2>1, PostingTypes
  <2>3. Cycle = 0 => Handed = 0
    BY <2>1 DEF CounterInv
  <2>4. Cycle > 0 => Handed + (IF nrfPc = "web" THEN 1 ELSE 0) = Received \div Cycle
    BY CountingIsDivision
  <2>5. /\ \A i \in 1..Taken : taken[bootTaken + i] \in {Due(i), Torn}
        /\ \A i \in 1..Len(webPostQueue) : webPostQueue[i].val = Due(Taken + i)
    BY <2>1 DEF TakenInv
  <2>. QED
    BY <2>2, <2>3, <2>4, <2>5 DEF EveryCycleIsTaken, Taken, Handed, Due
<1>. QED
  BY <1>1, PostingInvariance, Invariance, PTL

(* The website stores no packet twice and none after a later one. *)
THEOREM PostsAreOrdered == Spec => []PostedOnce
<1>1. PostingInv => PostedOnce
  BY DEF PostingInv
<1>. QED
  BY <1>1, PostingInvariance, PTL
=============================================================================
