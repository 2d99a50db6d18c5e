------------------------------- MODULE Clock --------------------------------
(***************************************************************************)
(* What time is it?  Three threads ask the C library, which answers in one *)
(* static struct tm for localtime() and gmtime() alike:                    *)
(*                                                                         *)
(*   "log"  whichever thread is in logger::logMessage: getTimestampUs(),   *)
(*          under the mutex of utils.cpp, for the prefix of a line;        *)
(*   "db"   DBUpdateThread: getTimestamp(), likewise, for the created      *)
(*          column of a row, and then getLocalTime(), under no mutex, for  *)
(*          "is it 23:59?";                                                *)
(*   "wow"  WoWUpdateThread: gmtime() in getEncodedTimeStamp(), under no   *)
(*          mutex either.                                                  *)
(*                                                                         *)
(* The struct is an hour and a minute, of a day of Hours * Minutes, stored *)
(* and loaded one after the other.  The library locks its own stores, so   *)
(* two conversions do not mix; loads it cannot know of.  _getTimestamp     *)
(* returns a reference to a static string that the caller copies after     *)
(* the mutex is released, again one field after the other.                 *)
(***************************************************************************)
EXTENDS Integers

CONSTANTS
  Hours, Minutes,   \* bound: the length of a day and of an hour
  Offset,           \* hours of local time ahead of UTC
  MaxNow            \* bound: minutes that pass

ASSUME DayAssumption == Hours \in Nat \ {0} /\ Minutes \in Nat \ {0} /\ Offset \in Nat
ASSUME MaxNowAssumption == MaxNow \in Nat

Threads == {"log", "db", "wow"}

VARIABLES
  now,             \* the time, in minutes
  mutex,           \* utils.cpp's _mutex: its holder, or "free"
  library,         \* the lock within localtime() and gmtime()
  tm,              \* the static struct tm
  ts,              \* the static string of _getTimestamp
  isSummaryDone,   \* as in DBUpdateThread::run
  pc,              \* where each thread is
  call,            \* what it is calling: "stamp", "clock" or "encode"
  began,           \* the time_t of each thread's call, taken when it began
  seen,            \* the fields it has loaded
  disturbed        \* history: another thread stored into what it was about to load

vars == <<now, mutex, library, tm, ts, isSummaryDone, pc, call, began, seen, disturbed>>

Pcs == {"out", "convert", "store", "hour", "minute",
        "assign", "assigning", "copy", "copying", "back"}

(* Within the mutex, if the call is a stamp. *)
Locked == {"convert", "store", "hour", "minute", "assign", "assigning"}

Fields == [hour : 0..Hours - 1, minute : 0..Minutes - 1]

TypeOK ==
  /\ now \in 0..MaxNow
  /\ mutex \in {"log", "db", "free"}
  /\ \A t \in Threads : (mutex = t) <=> (call[t] = "stamp" /\ pc[t] \in Locked)
  /\ library \in Threads \cup {"free"}
  /\ tm \in Fields
  /\ ts \in Fields
  /\ isSummaryDone \in BOOLEAN
  /\ pc \in [Threads -> Pcs]
  /\ call \in [Threads -> {"stamp", "clock", "encode"}]
  /\ began \in [Threads -> 0..MaxNow]
  /\ seen \in [Threads -> Fields]
  /\ disturbed \in [Threads -> BOOLEAN]

(* The broken-down time n minutes on, h hours east. *)
BrokenDown(n, h) ==
  [hour |-> (n \div Minutes + h) % Hours, minute |-> n % Minutes]

Local(n) == BrokenDown(n, Offset)
UTC(n) == BrokenDown(n, 0)

(* What a call should find out, at time n. *)
Answer(t, n) == IF call[t] = "encode" THEN UTC(n) ELSE Local(n)

Init ==
  /\ now = 0
  /\ mutex = "free" /\ library = "free"
  /\ tm = Local(0) /\ ts = Local(0)
  /\ isSummaryDone = FALSE
  /\ pc = [t \in Threads |-> "out"]
  /\ call = [t \in Threads |-> IF t = "wow" THEN "encode" ELSE "stamp"]
  /\ began = [t \in Threads |-> 0]
  /\ seen = [t \in Threads |-> Local(0)]
  /\ disturbed = [t \in Threads |-> FALSE]

-----------------------------------------------------------------------------
Goto(t, from, to) == pc[t] = from /\ pc' = [pc EXCEPT ![t] = to]

(* t stores into what the threads in S rely on. *)
Disturb(t, S) == disturbed' = [u \in Threads |-> disturbed[u] \/ (u # t /\ u \in S)]

(***************************************************************************)
(* From its first store to its last load a thread relies on tm.  Stamps    *)
(* count on the mutex to keep each other off.                              *)
(***************************************************************************)
ExposedToTm(t) ==
  {u \in Threads : pc[u] \in {"store", "hour", "minute"} /\ {call[t], call[u]} # {"stamp"}}

(* From the unlock to the end of its copy a stamp relies on ts. *)
ExposedToTs == {u \in Threads : pc[u] \in {"copy", "copying"}}

(* Mutant: the mutex is not waited for. *)
Enter_Unlocked(t) ==
  /\ Goto(t, "out", "convert")
  /\ mutex' = IF call[t] = "stamp" THEN t ELSE mutex
  /\ began' = [began EXCEPT ![t] = now]
  /\ UNCHANGED <<now, library, tm, ts, isSummaryDone, call, seen, disturbed>>

(* A stamp takes the mutex; then gettimeofday() or time(). *)
Enter(t) ==
  /\ Goto(t, "out", "convert")
  /\ call[t] = "stamp" => mutex = "free"
  /\ mutex' = IF call[t] = "stamp" THEN t ELSE mutex
  /\ began' = [began EXCEPT ![t] = now]
  /\ UNCHANGED <<now, library, tm, ts, isSummaryDone, call, seen, disturbed>>

(* localtime() or gmtime() stores the hour ... *)
StoreHour(t) ==
  /\ library = "free"
  /\ Goto(t, "convert", "store")
  /\ library' = t
  /\ tm' = [tm EXCEPT !.hour = Answer(t, began[t]).hour]
  /\ Disturb(t, ExposedToTm(t))
  /\ UNCHANGED <<now, mutex, ts, isSummaryDone, call, began, seen>>

(* ... and the minute. *)
StoreMinute(t) ==
  /\ Goto(t, "store", "hour")
  /\ library' = "free"
  /\ tm' = [tm EXCEPT !.minute = Answer(t, began[t]).minute]
  /\ Disturb(t, ExposedToTm(t))
  /\ UNCHANGED <<now, mutex, ts, isSummaryDone, call, began, seen>>

(* The caller loads tm_hour ... *)
LoadHour(t) ==
  /\ Goto(t, "hour", "minute")
  /\ seen' = [seen EXCEPT ![t].hour = tm.hour]
  /\ UNCHANGED <<now, mutex, library, tm, ts, isSummaryDone, call, began, disturbed>>

(* ... and tm_min. *)
LoadMinute(t) ==
  /\ Goto(t, "minute", IF call[t] = "stamp" THEN "assign" ELSE "back")
  /\ seen' = [seen EXCEPT ![t].minute = tm.minute]
  /\ UNCHANGED <<now, mutex, library, tm, ts, isSummaryDone, call, began, disturbed>>

(* Mutant: "static string ts = timestamp;" assigns the first time only. *)
AssignHour_Once(t) ==
  /\ Goto(t, "assign", "assigning")
  /\ Disturb(t, ExposedToTs)
  /\ UNCHANGED <<now, mutex, library, tm, ts, isSummaryDone, call, began, seen>>

(* ts.assign(timestamp), byte after byte. *)
AssignHour(t) ==
  /\ Goto(t, "assign", "assigning")
  /\ ts' = [ts EXCEPT !.hour = seen[t].hour]
  /\ Disturb(t, ExposedToTs)
  /\ UNCHANGED <<now, mutex, library, tm, isSummaryDone, call, began, seen>>

(* ... then pthread_mutex_unlock(&_mutex) and return ts. *)
AssignMinute(t) ==
  /\ Goto(t, "assigning", "copy")
  /\ ts' = [ts EXCEPT !.minute = seen[t].minute]
  /\ mutex' = "free"
  /\ Disturb(t, ExposedToTs)
  /\ UNCHANGED <<now, library, tm, isSummaryDone, call, began, seen>>

(* The caller copies the string it was given a reference to. *)
CopyHour(t) ==
  /\ Goto(t, "copy", "copying")
  /\ seen' = [seen EXCEPT ![t].hour = ts.hour]
  /\ UNCHANGED <<now, mutex, library, tm, ts, isSummaryDone, call, began, disturbed>>

CopyMinute(t) ==
  /\ Goto(t, "copying", "back")
  /\ seen' = [seen EXCEPT ![t].minute = ts.minute]
  /\ UNCHANGED <<now, mutex, library, tm, ts, isSummaryDone, call, began, disturbed>>

(* hour == 23 && minute == 59, on a day of this length. *)
IsMidnight(f) == f.hour = Hours - 1 /\ f.minute = Minutes - 1

(* DBUpdateThread::run decides to write the daily summary. *)
WritesSummary ==
  pc["db"] = "back" /\ call["db"] = "clock" /\ IsMidnight(seen["db"]) /\ ~isSummaryDone

(***************************************************************************)
(* The call is over.  After getLocalTime() the database thread sets or     *)
(* resets isSummaryDone and turns to the next reading.                     *)
(***************************************************************************)
Leave(t) ==
  /\ Goto(t, "back", "out")
  /\ IF t = "db"
     THEN /\ call' = [call EXCEPT !["db"] = IF @ = "stamp" THEN "clock" ELSE "stamp"]
          /\ isSummaryDone' = IF call["db"] = "stamp" THEN isSummaryDone
                              ELSE WritesSummary \/ (isSummaryDone /\ seen["db"].hour # 1)
     ELSE UNCHANGED <<call, isSummaryDone>>
  /\ began' = [began EXCEPT ![t] = 0]
  /\ seen' = [seen EXCEPT ![t] = Local(0)]
  /\ disturbed' = [disturbed EXCEPT ![t] = FALSE]
  /\ UNCHANGED <<now, mutex, library, tm, ts>>

Step(t) ==
  \/ Enter(t)
  \/ StoreHour(t) \/ StoreMinute(t) \/ LoadHour(t) \/ LoadMinute(t)
  \/ AssignHour(t) \/ AssignMinute(t)
  \/ CopyHour(t) \/ CopyMinute(t) \/ Leave(t)

(* A minute passes; bound: at most one during a call. *)
Tick ==
  /\ now < MaxNow
  /\ \A t \in Threads : pc[t] # "out" => began[t] = now
  /\ now' = now + 1
  /\ UNCHANGED <<mutex, library, tm, ts, isSummaryDone, pc, call, began, seen, disturbed>>

Next == Tick \/ \E t \in Threads : Step(t)

Spec == Init /\ [][Next]_vars

-----------------------------------------------------------------------------

(***************************************************************************)
(* A call finds out the time at which it was made, in its own time zone,   *)
(* unless another thread stored into the struct tm or the string while it  *)
(* relied on them.  Two stamps in the mutex never do that to each other;   *)
(* gmtime(), getLocalTime() and a late copy of the string may.             *)
(* (_getTimestamp, getLocalTime, getEncodedTimeStamp)                      *)
(***************************************************************************)
UndisturbedCallsAreRight ==
  \A t \in Threads : pc[t] = "back" /\ ~disturbed[t] =>
    \E n \in began[t]..now : seen[t] = Answer(t, n)

(***************************************************************************)
(* However a call is disturbed, the hour and the minute it comes back with *)
(* were each the clock's, here or in UTC, in the last two minutes: neither *)
(* a torn copy of the string, in the created column of a row, nor a struct *)
(* tm that others have overwritten holds anything older; and a summary is  *)
(* decided on such an hour and such a minute.                              *)
(* (_getTimestamp, getLocalTime, getEncodedTimeStamp, DBUpdateThread::run) *)
(***************************************************************************)
AnswersAreRecent ==
  \A t \in Threads : pc[t] = "back" =>
    \E n, m \in now - 2 .. now :
      /\ n >= 0 /\ m >= 0
      /\ seen[t].hour \in {Local(n).hour, UTC(n).hour}
      /\ seen[t].minute = m % Minutes

(***************************************************************************)
(* "On the stroke of midnight, write the daily_summary" (threads.cpp:508): *)
(* it is 23:59 local time at some point of the call that decides so.       *)
(***************************************************************************)
SummaryAtMidnight ==
  WritesSummary => \E n \in began["db"]..now : IsMidnight(Local(n))

-----------------------------------------------------------------------------
(***************************************************************************)
(* Towards an inductive invariant.  One thread is within the library, and  *)
(* only stamps, of which the website thread has no need, use the string.   *)
(***************************************************************************)
LockInv ==
  /\ call["wow"] = "encode"
  /\ \A t \in Threads :
       /\ (library = t) <=> (pc[t] = "store")
       /\ pc[t] \in {"assign", "assigning", "copy", "copying"} => call[t] = "stamp"

(* A minute passes at most once during a call. *)
PaceInv == \A t \in Threads : pc[t] # "out" => now - began[t] \in 0..1

(* What an undisturbed call has stored and loaded so far. *)
AnswerInv ==
  \A t \in Threads : ~disturbed[t] =>
    LET a == Answer(t, began[t])
    IN  /\ pc[t] = "store" => tm.hour = a.hour
        /\ pc[t] = "hour" => tm = a
        /\ pc[t] = "minute" => seen[t].hour = a.hour /\ tm.minute = a.minute
        /\ pc[t] = "assign" => seen[t] = a
        /\ pc[t] = "assigning" => seen[t] = a /\ ts.hour = a.hour
        /\ pc[t] = "copy" => ts = a
        /\ pc[t] = "copying" => seen[t].hour = a.hour /\ ts.minute = a.minute
        /\ pc[t] = "back" => seen[t] = a

(* Some thread's hour h, or minute m, since a moment before t's call began. *)
HourOf(n, h) == h \in {Local(n).hour, UTC(n).hour}
RecentHour(t, h) == \E n \in began[t] - 1 .. now : n >= 0 /\ HourOf(n, h)
RecentMinute(t, m) == \E n \in began[t] - 1 .. now : n >= 0 /\ m = n % Minutes

(* What any call may have stored or loaded so far. *)
RecentInv ==
  \A t \in Threads :
    /\ pc[t] \in {"store", "hour"} => RecentHour(t, tm.hour)
    /\ pc[t] \in {"hour", "minute"} => RecentMinute(t, tm.minute)
    /\ pc[t] \in {"minute", "assign", "assigning", "copying", "back"} => RecentHour(t, seen[t].hour)
    /\ pc[t] \in {"assign", "assigning", "back"} => RecentMinute(t, seen[t].minute)
    /\ pc[t] \in {"assigning", "copy"} => RecentHour(t, ts.hour)
    /\ pc[t] \in {"copy", "copying"} => RecentMinute(t, ts.minute)

(* A stamp that is being made began after the one that is being copied. *)
OrderInv ==
  \A t, u \in Threads :
    pc[t] \in {"copy", "copying"} /\ mutex = u => began[t] <= began[u]

IInv == TypeOK /\ LockInv /\ PaceInv /\ AnswerInv /\ OrderInv /\ RecentInv
=============================================================================
