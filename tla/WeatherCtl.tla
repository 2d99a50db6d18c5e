----------------------------- MODULE WeatherCtl -----------------------------
(***************************************************************************)
(* The wctl process: ThreadManager::start creates the three threads, which *)
(* then run concurrently over the two shared queues until the process is   *)
(* terminated, by one of them or from outside.  A new run of the process   *)
(* starts with empty queues and counters; the database keeps its rows.     *)
(***************************************************************************)
EXTENDS NRFListen, DBUpdate, WoWUpdate

CONSTANT
  MaxBoots   \* bound: runs of the process

ASSUME MaxBootsAssumption == MaxBoots \in Nat

VARIABLES
  boots,         \* history: runs of the process so far
  bootRx,        \* history: rx when this run started
  bootRows,      \* history: Len(weatherData) when this run started
  bootTaken,     \* history: Len(taken) when this run started
  bootSummary    \* history: Len(dailySummary) when this run started

bootVars == <<boots, bootRx, bootRows, bootTaken, bootSummary>>
procVars == <<alive, dbq, webPostQueue>>
vars == <<procVars, nrfVars, dbVars, wowVars, bootVars>>

TypeOK ==
  /\ alive \in BOOLEAN
  /\ dbq \in Seq(QueueEntry)
  /\ webPostQueue \in Seq(QueueEntry)
  /\ NrfTypeOK
  /\ DbTypeOK
  /\ WowTypeOK
  /\ boots \in Nat
  /\ bootRx \in Nat
  /\ bootRows \in Nat
  /\ bootTaken \in Nat
  /\ bootSummary \in Nat

Init ==
  /\ alive = TRUE
  /\ dbq = <<>>
  /\ webPostQueue = <<>>
  /\ NrfInit
  /\ DbInit
  /\ WowInit
  /\ boots = 1
  /\ bootRx = 0
  /\ bootRows = 0
  /\ bootTaken = 0
  /\ bootSummary = 0

-----------------------------------------------------------------------------
(* ThreadManager::start, one pthread_create after the other. *)

StartNRFListenThread ==
  /\ alive /\ nrfPc = "unborn"
  /\ nrfPc' = "open"
  /\ UNCHANGED <<msgCounter, transform, rx, procVars, dbVars, wowVars, bootVars>>

StartDBUpdateThread ==
  /\ alive /\ nrfPc # "unborn" /\ dbPc = "unborn"
  /\ dbPc' = "connect"
  /\ UNCHANGED <<conn, dbTr, ds, isSummaryDone, weatherData, telemetryData, dailySummary,
                 procVars, nrfVars, wowVars, bootVars>>

StartWoWUpdateThread ==
  /\ alive /\ dbPc # "unborn" /\ wowPc = "unborn"
  /\ wowPc' = "init"
  /\ UNCHANGED <<wowEnabled, wowTr, chunk, taken, posted, procVars, nrfVars, dbVars, bootVars>>

StartThreads == StartNRFListenThread \/ StartDBUpdateThread \/ StartWoWUpdateThread

(* pthread_create fails: start() throws thread_error, which main lets go. *)
StartThrows ==
  /\ alive
  /\ "thread" \in Faults
  /\ wowPc = "unborn"
  /\ alive' = FALSE
  /\ UNCHANGED <<dbq, webPostQueue, nrfVars, dbVars, wowVars, bootVars>>

-----------------------------------------------------------------------------

(* SIGKILL, which is also what the SIGINT and SIGTERM handler sends. *)
Kill ==
  /\ alive
  /\ "kill" \in Faults
  /\ alive' = FALSE
  /\ UNCHANGED <<dbq, webPostQueue, nrfVars, dbVars, wowVars, bootVars>>

(* The process is started again: only the database and the web service last. *)
Boot ==
  /\ ~alive /\ boots < MaxBoots
  /\ alive' = TRUE
  /\ dbq' = <<>> /\ webPostQueue' = <<>>
  /\ nrfPc' = "unborn" /\ msgCounter' = 0 /\ transform' = 0
  /\ dbPc' = "unborn" /\ conn' = "none" /\ dbTr' = 0
  /\ ds' = {} /\ isSummaryDone' = FALSE
  /\ wowEnabled' \in WoWSettings
  /\ wowPc' = "unborn" /\ wowTr' = 0 /\ chunk' = <<>>
  /\ boots' = boots + 1
  /\ bootRx' = rx
  /\ bootRows' = Len(weatherData)
  /\ bootTaken' = Len(taken)
  /\ bootSummary' = Len(dailySummary)
  /\ UNCHANGED <<rx, weatherData, telemetryData, dailySummary, taken, posted>>

(* A late store of a push reaches the consumer. *)
StoreArrives ==
  /\ alive
  /\ \/ Arrive(dbq, dbq') /\ UNCHANGED webPostQueue
     \/ Arrive(webPostQueue, webPostQueue') /\ UNCHANGED dbq
  /\ UNCHANGED <<alive, nrfVars, dbVars, wowVars, bootVars>>

-----------------------------------------------------------------------------

Next ==
  \/ StartThreads
  \/ StartThrows
  \/ NrfNext /\ UNCHANGED <<dbVars, wowVars, bootVars>>
  \/ DbStep /\ UNCHANGED <<nrfVars, wowVars, bootVars>>
  \/ WowStep /\ UNCHANGED <<nrfVars, dbVars, bootVars>>
  \/ StoreArrives
  \/ Kill
  \/ Boot

(***************************************************************************)
(* The kernel runs every runnable thread, no sleep is unbounded, and a     *)
(* database call returns: libpq turns TCP keepalives on, so even a dead    *)
(* server ends it.  libcurl does not and run() sets no timeout, so a post  *)
(* may hang.  Nothing is promised of packets, signals or a new run.        *)
(***************************************************************************)
Fairness ==
  /\ WF_vars(StartThreads)
  /\ WF_vars(NrfStep /\ UNCHANGED <<dbVars, wowVars, bootVars>>)
  /\ WF_vars(DbStep /\ UNCHANGED <<nrfVars, wowVars, bootVars>>)
  /\ WF_vars(WowRun /\ UNCHANGED <<nrfVars, dbVars, bootVars>>)

Spec == Init /\ [][Next]_vars /\ Fairness

-----------------------------------------------------------------------------
(* Counting, within this run of the process. *)

Received == rx - bootRx
Rows == Len(weatherData) - bootRows
InListener == IF nrfPc \in {"web", "db"} THEN 1 ELSE 0
InHand == IF dbPc = "weather" THEN 1 ELSE 0

(***************************************************************************)
(* Every weather packet of this run is in exactly one place: a             *)
(* weather_data row, the database thread's hand, dbq, or the listener's    *)
(* hand; and each place holds the packets that its position says, in       *)
(* order.  A copy taken too early may be torn, but its place is right.     *)
(***************************************************************************)
RowsFollowPackets ==
  alive =>
    /\ Received = Rows + InHand + Len(dbq) + InListener
    /\ \A i \in 1..Rows : weatherData[bootRows + i] \in {bootRx + i, Torn}
    /\ InHand = 1 => dbTr \in {bootRx + Rows + 1, Torn}
    /\ \A i \in 1..Len(dbq) : dbq[i].val = bootRx + Rows + InHand + i

(***************************************************************************)
(* Over all runs, no packet is recorded twice or after a later one.        *)
(***************************************************************************)
RowsInOrder ==
  \A i, j \in 1..Len(weatherData) :
    i < j /\ Torn \notin {weatherData[i], weatherData[j]}
      => weatherData[i] < weatherData[j]

(***************************************************************************)
(* The two inserts of one packet are two transactions, so a run that dies  *)
(* between them leaves a weather_data row without its telemetry_data row.  *)
(* That is the only way: at most one such row per run, and never           *)
(* telemetry without weather.                                              *)
(***************************************************************************)
TelemetryKeepsUp ==
  /\ Len(weatherData) - Len(telemetryData) \in 0..boots
  /\ \A i \in 1..Len(telemetryData) : \E j \in 1..Len(weatherData) :
       weatherData[j] = telemetryData[i]

(* How many weather packets make up one posting cycle; 0 if none does. *)
Cycle ==
  IF PostCycleSeconds > 0 /\ PostCycleSeconds % PacketSeconds = 0
  THEN PostCycleSeconds \div PacketSeconds
  ELSE 0

(***************************************************************************)
(* Of the packets of a run, exactly every Cycle-th is handed to the        *)
(* website thread, which takes each of them once and in order, whether or  *)
(* not its posts succeed and however often its run() starts anew.  With a  *)
(* posting cycle that is no multiple of 30 seconds nothing is ever posted. *)
(***************************************************************************)
EveryCycleIsTaken ==
  alive =>
    LET n == Len(taken) - bootTaken
        InWebPush == IF nrfPc = "web" THEN 1 ELSE 0
    IN  /\ Cycle = 0 => n + Len(webPostQueue) = 0
        /\ Cycle > 0 => n + Len(webPostQueue) + InWebPush = Received \div Cycle
        /\ \A i \in 1..n : taken[bootTaken + i] \in {bootRx + i * Cycle, Torn}
        /\ \A i \in 1..Len(webPostQueue) : webPostQueue[i].val = bootRx + (n + i) * Cycle

(***************************************************************************)
(* The website stores a packet at most once, and never before an earlier   *)
(* one: no failed post is repeated.                                        *)
(***************************************************************************)
PostedOnce ==
  \A i, j \in 1..Len(posted) :
    i < j /\ Torn \notin {posted[i], posted[j]} => posted[i] < posted[j]

(* The summaries of this run, and the last packet taken from dbq. *)
Done == {dailySummary[i] : i \in bootSummary + 1 .. Len(dailySummary)}
Popped == bootRx + Rows + InHand

(***************************************************************************)
(* Each daily summary covers the readings since the one before it: the     *)
(* readings taken from dbq in this run are in exactly one of its summaries *)
(* or in the one being gathered.                                           *)
(***************************************************************************)
SummariesPartition ==
  alive =>
    /\ (ds \cup UNION Done) \ {Torn} \subseteq bootRx + 1 .. Popped
    /\ \A i, j \in 1..Len(dailySummary) :
         i # j => dailySummary[i] \cap dailySummary[j] \subseteq {Torn}
    /\ \A i \in 1..Len(dailySummary) : dailySummary[i] \cap ds \subseteq {Torn}
    /\ \A i \in 1..Rows : weatherData[bootRows + i] \in ds \cup UNION Done

(***************************************************************************)
(* The table, the queues and the threads implement ReadingLog.             *)
(***************************************************************************)
Log == INSTANCE ReadingLog WITH
         recorded <- bootRx + Rows,
         log <- weatherData

LogSpec == Log!Spec

(***************************************************************************)
(* A received weather packet ends up as a row, unless the process dies     *)
(* first: no backlog is left behind once packets stop, even if the website *)
(* thread hangs in a post.                                                 *)
(***************************************************************************)
EveryPacketIsRecorded ==
  \A n \in 1..MaxPackets : (alive /\ Received >= n) ~> (~alive \/ Rows >= n)

(***************************************************************************)
(* If no post hangs for ever, each reading handed to the website thread is *)
(* taken, however many posts fail before: run() gives up on a failed post  *)
(* and _threadRunner runs it again.                                        *)
(***************************************************************************)
EveryHandOverIsTaken ==
  []<>(wowPc # "post") =>
    \A n \in 1..MaxPackets :
      (alive /\ Len(taken) - bootTaken + Len(webPostQueue) >= n)
        ~> (~alive \/ Len(taken) - bootTaken >= n)

-----------------------------------------------------------------------------
(***************************************************************************)
(* Towards an inductive invariant.  What the threads hold:                 *)
(***************************************************************************)
HandsInv ==
  /\ nrfPc \in {"web", "db"} => transform = rx
  /\ dbPc \in {"weather", "telemetry"} => dbTr \in Reading
  /\ wowPc = "post" => wowTr \in Reading

(* The rows of earlier runs, and of this one even when it has just died. *)
RowsInv ==
  /\ bootRx <= rx
  /\ bootRows <= Len(weatherData)
  /\ Rows <= Received
  /\ \A i \in 1..bootRows : weatherData[i] \in (1..bootRx) \cup {Torn}
  /\ \A i \in 1..Rows : weatherData[bootRows + i] \in {bootRx + i, Torn}

(* One telemetry row may be missing for each run that has died. *)
TelemetryInv ==
  LET missing == Len(weatherData) - Len(telemetryData)
      due == IF alive /\ dbPc = "telemetry" THEN 1 ELSE 0
      deaths == IF alive THEN boots - 1 ELSE boots
  IN  /\ missing - due \in 0..deaths
      /\ due = 1 => weatherData[Len(weatherData)] = dbTr

(* The inductive invariant of the proofs. *)
IInv ==
  /\ TypeOK
  /\ HandsInv
  /\ RowsFollowPackets
  /\ RowsInv
  /\ RowsInOrder
  /\ TelemetryInv
  /\ TelemetryKeepsUp

(* The website's side: the packet that the i-th hand-over of this run is about. *)
Due(i) == bootRx + i * Cycle

Taken == Len(taken) - bootTaken
Handed == Taken + Len(webPostQueue)

(* msgCounter counts the packets since the last hand-over, 30 for each. *)
CounterInv ==
  alive =>
    /\ Cycle = 0 =>
         nrfPc # "web" /\ Handed = 0 /\ msgCounter = PacketSeconds * Received
    /\ Cycle > 0 /\ nrfPc = "web" => rx = Due(Handed + 1)
    /\ Cycle > 0 /\ nrfPc # "web" =>
         /\ Due(Handed) <= rx /\ rx < Due(Handed + 1)
         /\ msgCounter = PacketSeconds * (rx - Due(Handed))

TakenInv ==
  /\ bootTaken <= Len(taken)
  /\ alive =>
       /\ \A i \in 1..Taken : taken[bootTaken + i] \in {Due(i), Torn}
       /\ \A i \in 1..Len(webPostQueue) : webPostQueue[i].val = Due(Taken + i)

(* No reading is posted before it was taken, nor once the next one was. *)
PostedInv ==
  /\ \A j \in 1..Len(posted) : posted[j] # Torn => posted[j] <= rx
  /\ alive /\ wowPc = "post" => Taken > 0 /\ wowTr \in {Due(Taken), Torn}
  /\ alive =>
       \A j \in 1..Len(posted) :
         posted[j] # Torn => posted[j] <= Due(IF wowPc = "post" THEN Taken - 1 ELSE Taken)

PostingInv == CounterInv /\ TakenInv /\ PostedInv /\ PostedOnce

(* The summaries' side: what earlier runs and this one have folded in. *)
SummaryInv ==
  /\ bootSummary <= Len(dailySummary)
  /\ \A i \in 1..Len(dailySummary) : dailySummary[i] \ {Torn} \subseteq 1..rx
  /\ \A i \in 1..bootSummary : dailySummary[i] \ {Torn} \subseteq 1..bootRx
  /\ \A i, j \in 1..Len(dailySummary) :
       i # j => dailySummary[i] \cap dailySummary[j] \subseteq {Torn}
  /\ alive /\ dbPc = "weather" => dbTr \in ds
  /\ SummariesPartition
=============================================================================
