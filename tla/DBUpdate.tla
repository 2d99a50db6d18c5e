------------------------------ MODULE DBUpdate ------------------------------
(***************************************************************************)
(* DBUpdateThread::run (threads.cpp) with the three tables it writes:      *)
(* take a reading from dbq, fold it into the running daily summary, insert *)
(* a weather_data row and a telemetry_data row, and at 23:59 insert the    *)
(* summary and start a new one.                                            *)
(*                                                                         *)
(* psqlConnection::execute runs BEGIN, the statement and END and throws    *)
(* psql_error if one of them fails; nothing catches it on this thread.     *)
(***************************************************************************)
EXTENDS Queues

CONSTANT
  Refused   \* <<table, reading>> pairs whose INSERT the server rejects

Tables == {"weather_data", "telemetry_data"}

ASSUME RefusedAssumption == Refused \subseteq (Tables \X Ordinal)

VARIABLES
  dbPc,            \* where run() is
  conn,            \* wctlConnection: "none", "open", or "wild" (never assigned)
  dbTr,            \* local tr: the reading in hand; 0 before the first one
  ds,              \* local ds: the readings folded in since the last memset
  isSummaryDone,   \* local isSummaryDone
  weatherData,     \* committed rows of weather_data, oldest first
  telemetryData,   \* committed rows of telemetry_data
  dailySummary     \* committed rows of daily_summary, each as its readings

dbVars == <<dbPc, conn, dbTr, ds, isSummaryDone, weatherData, telemetryData, dailySummary>>

DbPcs == {"unborn", "connect", "poll", "weather", "telemetry", "clock", "summary", "thrown"}

DbTypeOK ==
  /\ dbPc \in DbPcs
  /\ conn \in {"none", "open", "wild"}
  /\ dbTr \in Reading \cup {0}
  /\ ds \in SUBSET Reading
  /\ isSummaryDone \in BOOLEAN
  /\ weatherData \in Seq(Reading)
  /\ telemetryData \in Seq(Reading)
  /\ dailySummary \in Seq(SUBSET Reading)

DbInit ==
  /\ dbPc = "unborn"
  /\ conn = "none"
  /\ dbTr = 0
  /\ ds = {}
  /\ isSummaryDone = FALSE
  /\ weatherData = <<>>
  /\ telemetryData = <<>>
  /\ dailySummary = <<>>

-----------------------------------------------------------------------------

(* new psqlConnection(...) returns: memset(&ds) has been done just before. *)
Connect ==
  /\ alive /\ dbPc = "connect"
  /\ conn' = "open"
  /\ dbPc' = "poll"
  /\ UNCHANGED <<dbTr, ds, isSummaryDone, weatherData, telemetryData, dailySummary,
                 alive, dbq, webPostQueue>>

(***************************************************************************)
(* The constructor throws psql_error.  run() logs it and carries on with   *)
(* wctlConnection unassigned.                                              *)
(***************************************************************************)
ConnectFails ==
  /\ alive /\ dbPc = "connect"
  /\ "connect" \in Faults
  /\ conn' = "wild"
  /\ dbPc' = "poll"
  /\ UNCHANGED <<dbTr, ds, isSummaryDone, weatherData, telemetryData, dailySummary,
                 alive, dbq, webPostQueue>>

(* Mutant: front() without pop(). *)
PopReading_NoPop ==
  /\ alive /\ dbPc = "poll"
  /\ dbq # <<>>
  /\ dbTr' = FrontValue(dbq)
  /\ ds' = ds \cup {FrontValue(dbq)}
  /\ dbPc' = "weather"
  /\ UNCHANGED <<conn, isSummaryDone, weatherData, telemetryData, dailySummary,
                 alive, dbq, webPostQueue>>

(* Mutant: only the newest reading of a backlog is kept. *)
PopReading_Newest ==
  /\ alive /\ dbPc = "poll"
  /\ dbq # <<>>
  /\ dbTr' = dbq[Len(dbq)].val
  /\ dbq' = <<>>
  /\ ds' = ds \cup {dbTr'}
  /\ dbPc' = "weather"
  /\ UNCHANGED <<conn, isSummaryDone, weatherData, telemetryData, dailySummary,
                 alive, webPostQueue>>

(* Mutant: the loop waits for more than one reading. *)
PopReading_LeavesOne ==
  /\ alive /\ dbPc = "poll"
  /\ Len(dbq) > 1
  /\ dbTr' = FrontValue(dbq)
  /\ dbq' = Tail(dbq)
  /\ ds' = ds \cup {FrontValue(dbq)}
  /\ dbPc' = "weather"
  /\ UNCHANGED <<conn, isSummaryDone, weatherData, telemetryData, dailySummary,
                 alive, webPostQueue>>

(* dbq is not empty: front(), pop() and updateSummary(&ds, &tr). *)
PopReading ==
  /\ alive /\ dbPc = "poll"
  /\ dbq # <<>>
  /\ dbTr' = FrontValue(dbq)
  /\ dbq' = Tail(dbq)
  /\ ds' = ds \cup {FrontValue(dbq)}
  /\ dbPc' = "weather"
  /\ UNCHANGED <<conn, isSummaryDone, weatherData, telemetryData, dailySummary,
                 alive, webPostQueue>>

(* The same pop while a push is in flight, following a stale node pointer. *)
PopReadingCrashes ==
  /\ alive /\ dbPc = "poll"
  /\ PopMayCrash(dbq)
  /\ dbPc' = "thrown"
  /\ alive' = FALSE
  /\ UNCHANGED <<conn, dbTr, ds, isSummaryDone, weatherData, telemetryData, dailySummary,
                 dbq, webPostQueue>>

(* A connection whose server accepts the row. *)
Accepts(table, r) == conn = "open" /\ <<table, r>> \notin Refused

(***************************************************************************)
(* execute() does not return: its statement is refused, its connection     *)
(* was never made (the wild pointer ends in SIGSEGV or in a psql_error),   *)
(* or the connection is lost while it runs, in which case END may or may   *)
(* not have reached the server.  rows2 is the table afterwards.            *)
(***************************************************************************)
ExecuteThrows(table, r, rows, rows2) ==
  \/ /\ ~Accepts(table, r) \/ r = Torn
     /\ rows2 = rows
  \/ /\ "execute" \in Faults
     /\ Accepts(table, r)
     /\ rows2 \in {rows, Append(rows, r)}

(* execute(pszWeatherInsertStmt) returns. *)
InsertWeather ==
  /\ alive /\ dbPc = "weather"
  /\ Accepts("weather_data", dbTr)
  /\ weatherData' = Append(weatherData, dbTr)
  /\ dbPc' = "telemetry"
  /\ UNCHANGED <<conn, dbTr, ds, isSummaryDone, telemetryData, dailySummary,
                 alive, dbq, webPostQueue>>

(* Mutant: the exception of the first insert is caught and forgotten. *)
InsertWeatherThrows_Ignored ==
  /\ alive /\ dbPc = "weather"
  /\ ExecuteThrows("weather_data", dbTr, weatherData, weatherData')
  /\ dbPc' = "telemetry"
  /\ UNCHANGED <<conn, dbTr, ds, isSummaryDone, telemetryData, dailySummary,
                 alive, dbq, webPostQueue>>

(* It throws: nothing on this thread catches psql_error. *)
InsertWeatherThrows ==
  /\ alive /\ dbPc = "weather"
  /\ ExecuteThrows("weather_data", dbTr, weatherData, weatherData')
  /\ dbPc' = "thrown"
  /\ alive' = FALSE
  /\ UNCHANGED <<conn, dbTr, ds, isSummaryDone, telemetryData, dailySummary,
                 dbq, webPostQueue>>

(* 100 ms later: execute(pszTelemetryInsertStmt) returns. *)
InsertTelemetry ==
  /\ alive /\ dbPc = "telemetry"
  /\ Accepts("telemetry_data", dbTr)
  /\ telemetryData' = Append(telemetryData, dbTr)
  /\ dbPc' = "clock"
  /\ UNCHANGED <<conn, dbTr, ds, isSummaryDone, weatherData, dailySummary,
                 alive, dbq, webPostQueue>>

InsertTelemetryThrows ==
  /\ alive /\ dbPc = "telemetry"
  /\ ExecuteThrows("telemetry_data", dbTr, telemetryData, telemetryData')
  /\ dbPc' = "thrown"
  /\ alive' = FALSE
  /\ UNCHANGED <<conn, dbTr, ds, isSummaryDone, weatherData, dailySummary,
                 dbq, webPostQueue>>

(***************************************************************************)
(* getLocalTime(): tm_hour and tm_min decide what to do.  now is "23:59",  *)
(* "01:xx" or "other".                                                     *)
(***************************************************************************)
ClockReadings == {"23:59", "01:xx", "other"}

ReadClock(now) ==
  /\ alive /\ dbPc = "clock"
  /\ dbPc' = IF now = "23:59" /\ ~isSummaryDone THEN "summary" ELSE "poll"
  /\ isSummaryDone' = (isSummaryDone /\ now # "01:xx")
  /\ UNCHANGED <<conn, dbTr, ds, weatherData, telemetryData, dailySummary,
                 alive, dbq, webPostQueue>>

(* Mutant: the running summary is not cleared. *)
InsertSummary_NoMemset ==
  /\ alive /\ dbPc = "summary"
  /\ conn = "open"
  /\ dailySummary' = Append(dailySummary, ds)
  /\ isSummaryDone' = TRUE
  /\ dbPc' = "poll"
  /\ UNCHANGED <<conn, dbTr, ds, weatherData, telemetryData, alive, dbq, webPostQueue>>

(* execute(pszSummaryInsertStmt) returns; memset(&ds); isSummaryDone = true *)
InsertSummary ==
  /\ alive /\ dbPc = "summary"
  /\ conn = "open"
  /\ dailySummary' = Append(dailySummary, ds)
  /\ ds' = {}
  /\ isSummaryDone' = TRUE
  /\ dbPc' = "poll"
  /\ UNCHANGED <<conn, dbTr, weatherData, telemetryData, alive, dbq, webPostQueue>>

(* execute() throws: the connection is lost, or torn bytes make a bad row. *)
InsertSummaryThrows ==
  /\ alive /\ dbPc = "summary"
  /\ \/ Torn \in ds /\ dailySummary' = dailySummary
     \/ "execute" \in Faults /\ dailySummary' \in {dailySummary, Append(dailySummary, ds)}
  /\ dbPc' = "thrown"
  /\ alive' = FALSE
  /\ UNCHANGED <<conn, dbTr, ds, isSummaryDone, weatherData, telemetryData,
                 dbq, webPostQueue>>

DbStep ==
  \/ Connect \/ ConnectFails
  \/ PopReading \/ PopReadingCrashes
  \/ InsertWeather \/ InsertWeatherThrows
  \/ InsertTelemetry \/ InsertTelemetryThrows
  \/ \E now \in ClockReadings : ReadClock(now)
  \/ InsertSummary \/ InsertSummaryThrows
=============================================================================
