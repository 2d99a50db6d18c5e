---------------------------- MODULE DailySummary ----------------------------
(***************************************************************************)
(* The daily summary of DBUpdateThread::run against the local clock: what  *)
(* updateSummary makes of a day's readings, when a summary is written and  *)
(* under which date.  DBUpdate has the same steps with a clock that says   *)
(* anything and readings without values; here the inserts of the weather   *)
(* and telemetry rows are part of the time that passes.                    *)
(***************************************************************************)
EXTENDS Integers, Sequences, FiniteSets, FiniteSetsExt

CONSTANTS
  Readings,       \* <<value, rainfall>>: value is a temperature, in some unit
  SpringForward,  \* days that have no hour 1: clocks go from 00:59 to 02:00
  MaxDays,        \* bound: days that pass
  MaxReadings,    \* bound: readings taken from dbq
  MaxBoots        \* bound: runs of the process

ASSUME ReadingsAssumption == Readings \subseteq Int \X Nat
ASSUME SpringForwardAssumption == SpringForward \subseteq Nat
ASSUME BoundsAssumption == {MaxDays, MaxReadings, MaxBoots} \subseteq Nat \ {0}

VARIABLES
  time,           \* periods of the day that have begun since the first midnight
  pc,             \* where run() is: "poll", "clock", "summary" or "dead"
  ds,             \* local ds, one measured quantity and the rain
  isSummaryDone,  \* local isSummaryDone
  dailySummary,   \* committed rows of daily_summary
  folded,         \* history: readings folded into ds
  reads,          \* history: times at which this run read the clock
  nights,         \* history: dates whose 23:59 brought this run's summaries
  count,          \* history: readings taken
  boots           \* history: runs of the process

local == <<pc, ds, isSummaryDone>>
history == <<folded, reads, nights, count, boots>>
vars == <<time, local, dailySummary, history>>

(* What run() tells apart of a day, in order: hour 0, hour 1, the rest, 23:59. *)
Periods == <<"00:xx", "01:xx", "day", "23:59">>
PeriodOf(t) == Periods[(t % 4) + 1]
DateOf(t) == t \div 4

(* Whether the local clock ever shows t: British time skips an hour 1 in March. *)
Shown(t) == ~(PeriodOf(t) = "01:xx" /\ DateOf(t) \in SpringForward)

EmptySummary == [min |-> 0, max |-> 0, rain |-> 0]
RowOf(date, s) == [created |-> date, min |-> s.min, max |-> s.max, rain |-> s.rain]

TypeOK ==
  /\ time \in 0 .. 4 * MaxDays - 1
  /\ pc \in {"poll", "clock", "summary", "dead"}
  /\ ds \in [min : Int, max : Int, rain : Nat]
  /\ isSummaryDone \in BOOLEAN
  /\ dailySummary \in
       Seq([created : 0..DateOf(time), min : Int, max : Int, rain : Nat])
  /\ folded \in Seq(Readings)
  /\ reads \subseteq 0..time
  /\ nights \in Seq(0..DateOf(time))
  /\ count \in 0..MaxReadings
  /\ boots \in 1..MaxBoots

Init ==
  /\ time \in {t \in 0..3 : Shown(t)}
  /\ pc = "poll" /\ ds = EmptySummary /\ isSummaryDone = FALSE
  /\ dailySummary = <<>>
  /\ folded = <<>> /\ reads = {} /\ nights = <<>>
  /\ count = 0 /\ boots = 1

-----------------------------------------------------------------------------

(* Mutant: a minimum of 0.00 is taken for a measured one. *)
UpdateSummary_NoSentinel(s, r) ==
  [min  |-> IF r[1] < s.min THEN r[1] ELSE s.min,
   max  |-> IF r[1] > s.max THEN r[1] ELSE s.max,
   rain |-> s.rain + r[2]]

(* updateSummary: 0.00 in min stands for "no reading yet". *)
UpdateSummary(s, r) ==
  [min  |-> IF r[1] < s.min \/ (s.min = 0 /\ r[1] > 0) THEN r[1] ELSE s.min,
   max  |-> IF r[1] > s.max THEN r[1] ELSE s.max,
   rain |-> s.rain + r[2]]

(* A reading comes out of dbq, is folded in and stored. *)
FoldReading ==
  /\ pc = "poll" /\ count < MaxReadings
  /\ \E r \in Readings :
       /\ ds' = UpdateSummary(ds, r)
       /\ folded' = Append(folded, r)
  /\ count' = count + 1
  /\ pc' = "clock"
  /\ UNCHANGED <<time, isSummaryDone, dailySummary, reads, nights, boots>>

(* Mutant: isSummaryDone is reset whenever it is not 23:59. *)
ReadClock_ResetsEarly ==
  /\ pc = "clock"
  /\ LET now == PeriodOf(time)
         write == now = "23:59" /\ ~isSummaryDone
     IN  /\ pc' = IF write THEN "summary" ELSE "poll"
         /\ nights' = IF write THEN Append(nights, DateOf(time)) ELSE nights
         /\ isSummaryDone' = FALSE
  /\ reads' = reads \cup {time}
  /\ UNCHANGED <<time, ds, dailySummary, folded, count, boots>>

(* Mutant: isSummaryDone is never reset. *)
ReadClock_NoReset ==
  /\ pc = "clock"
  /\ LET write == PeriodOf(time) = "23:59" /\ ~isSummaryDone
     IN  /\ pc' = IF write THEN "summary" ELSE "poll"
         /\ nights' = IF write THEN Append(nights, DateOf(time)) ELSE nights
  /\ reads' = reads \cup {time}
  /\ UNCHANGED <<time, ds, isSummaryDone, dailySummary, folded, count, boots>>

(* getLocalTime() and the two conditions on it. *)
ReadClock ==
  /\ pc = "clock"
  /\ LET now == PeriodOf(time)
         write == now = "23:59" /\ ~isSummaryDone
     IN  /\ pc' = IF write THEN "summary" ELSE "poll"
         /\ nights' = IF write THEN Append(nights, DateOf(time)) ELSE nights
         /\ isSummaryDone' = (isSummaryDone /\ now # "01:xx")
  /\ reads' = reads \cup {time}
  /\ UNCHANGED <<time, ds, dailySummary, folded, count, boots>>

(* Mutant: the summary is filed under the day that midnight begins. *)
InsertSummary_Tomorrow ==
  /\ pc = "summary"
  /\ dailySummary' = Append(dailySummary, RowOf(DateOf(time) + 1, ds))
  /\ ds' = EmptySummary
  /\ folded' = <<>>
  /\ isSummaryDone' = TRUE
  /\ pc' = "poll"
  /\ UNCHANGED <<time, reads, nights, count, boots>>

(* Mutant: the memset of ds is missing. *)
InsertSummary_NoMemset ==
  /\ pc = "summary"
  /\ dailySummary' = Append(dailySummary, RowOf(DateOf(time), ds))
  /\ folded' = <<>>
  /\ isSummaryDone' = TRUE
  /\ pc' = "poll"
  /\ UNCHANGED <<time, ds, reads, nights, count, boots>>

(* 100 ms later: getTodaysDate() reads the clock again; execute(); memset. *)
InsertSummary ==
  /\ pc = "summary"
  /\ dailySummary' = Append(dailySummary, RowOf(DateOf(time), ds))
  /\ ds' = EmptySummary
  /\ folded' = <<>>
  /\ isSummaryDone' = TRUE
  /\ pc' = "poll"
  /\ UNCHANGED <<time, reads, nights, count, boots>>

DbStep == FoldReading \/ ReadClock \/ InsertSummary

-----------------------------------------------------------------------------

(* Time passes: while a summary is being written no more than one period. *)
Tick ==
  /\ time < 4 * MaxDays - 1
  /\ pc = "summary" => PeriodOf(time) = "23:59"
  /\ time' = IF Shown(time + 1) THEN time + 1 ELSE time + 2
  /\ UNCHANGED <<local, dailySummary, history>>

(* The process dies, of a failed insert or of anything else. *)
Die ==
  /\ pc # "dead" /\ boots < MaxBoots
  /\ pc' = "dead"
  /\ UNCHANGED <<time, ds, isSummaryDone, dailySummary, history>>

(* run() begins again, in a new process. *)
Boot ==
  /\ pc = "dead"
  /\ pc' = "poll" /\ ds' = EmptySummary /\ isSummaryDone' = FALSE
  /\ folded' = <<>> /\ reads' = {} /\ nights' = <<>>
  /\ boots' = boots + 1
  /\ UNCHANGED <<time, dailySummary, count>>

Next == DbStep \/ Tick \/ Die \/ Boot

Spec == Init /\ [][Next]_vars

-----------------------------------------------------------------------------

Values == {folded[i][1] : i \in DOMAIN folded}
Rainfall(q) == MapThenSumSet(LAMBDA i : q[i][2], DOMAIN q)

(***************************************************************************)
(* What ds says of the readings folded into it: the rain is their total.   *)
(* The maximum is right if one of them is not negative, as humidity,       *)
(* pressure and wind always are, and 0 otherwise; the minimum is right if  *)
(* all are positive or one is negative, but an exact 0.00 is forgotten     *)
(* when a positive reading follows.                                        *)
(***************************************************************************)
SummaryIsExact ==
  /\ ds.rain = Rainfall(folded)
  /\ ds.max = Max(Values \cup {0})
  /\ Values # {} /\ ((\A v \in Values : v > 0) \/ (\E v \in Values : v < 0))
       => ds.min = Min(Values)

(***************************************************************************)
(* However many readings are stored during the minute of 23:59, and even   *)
(* if the summary itself is written after midnight, a run of the process   *)
(* writes at most one summary for a night, and nights in their order.      *)
(***************************************************************************)
OneSummaryPerNight ==
  \A i, j \in DOMAIN nights : i < j => nights[i] < nights[j]

At2359(t) == PeriodOf(t) = "23:59"
In01xx(t) == PeriodOf(t) = "01:xx"
Summarised == {nights[i] : i \in DOMAIN nights}

(***************************************************************************)
(* A night whose 23:59 brings a reading has its summary, or an earlier     *)
(* night had one and no reading came between 01:00 and 01:59 of any day    *)
(* since, be it that the station was not heard or that the clocks went     *)
(* forward: no other course of readings and summaries loses a night.       *)
(***************************************************************************)
NightSkippedOnlyAsleep ==
  \A t \in reads :
    At2359(t) /\ DateOf(t) \notin Summarised =>
      \E n \in Summarised :
        /\ n < DateOf(t)
        /\ \A u \in reads : ~(In01xx(u) /\ DateOf(u) \in n + 1 .. DateOf(t))

-----------------------------------------------------------------------------
(***************************************************************************)
(* Towards an inductive invariant.  The last night this run has written,   *)
(* or begun to write, a summary for:                                       *)
(***************************************************************************)
LastNight == nights[Len(nights)]

(* No reading since came between 01:00 and 01:59. *)
AsleepSince(n) == \A u \in reads : In01xx(u) => DateOf(u) <= n

(* What isSummaryDone stands for: if it is not set, that night is over. *)
FlagInv ==
  /\ nights # <<>> => 4 * LastNight + 3 <= time
  /\ pc \in {"poll", "clock"} =>
       IF isSummaryDone THEN nights # <<>> /\ AsleepSince(LastNight)
       ELSE nights # <<>> => LastNight < DateOf(time)
  /\ pc = "summary" =>
       nights # <<>> /\ AsleepSince(LastNight) /\ time <= 4 * LastNight + 4

(* SummaryIsExact without CHOOSE, and the values of which 0.00 is the least. *)
ExactInv ==
  /\ ds.rain = Rainfall(folded)
  /\ ds.max \in Values \cup {0} /\ \A v \in Values \cup {0} : v <= ds.max
  /\ Values = {} => ds.min = 0
  /\ (\A v \in Values : v >= 0) => ds.min >= 0
  /\ Values # {} /\ ((\A v \in Values : v > 0) \/ (\E v \in Values : v < 0))
       => ds.min \in Values /\ \A v \in Values : ds.min <= v

IInv ==
  /\ TypeOK
  /\ pc = "dead" => boots < MaxBoots
  /\ FlagInv
  /\ OneSummaryPerNight
  /\ NightSkippedOnlyAsleep
  /\ ExactInv

-----------------------------------------------------------------------------

(* Every period the clock has shown since this run's first one brought a reading. *)
Fed(t) == \A u \in 0..t : (\E v \in reads : v <= u) /\ Shown(u) => u \in reads

(***************************************************************************)
(* "On the stroke of midnight, write the daily_summary", the flag being    *)
(* reset "once we've got to 1am" (threads.cpp:508 and 542): a station that *)
(* is heard all day long has every night summarised.  Only a reading in    *)
(* hour 1 resets the flag, and on one day a year there is no hour 1.       *)
(***************************************************************************)
FedNightsAreSummarised ==
  \A t \in reads : At2359(t) /\ Fed(t) => DateOf(t) \in Summarised
=============================================================================
