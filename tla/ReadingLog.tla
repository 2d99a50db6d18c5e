---------------------------- MODULE ReadingLog -----------------------------
(***************************************************************************)
(* What wctl promises of its weather_data table, whatever its threads,     *)
(* queues and failures do: weather packets are numbered as they arrive,    *)
(* and the table gets one row per packet, in that order.  A process that   *)
(* dies loses the packets it had not yet recorded, all of them at once,    *)
(* and nothing else; a row is never repeated and never out of order.       *)
(***************************************************************************)
EXTENDS Integers, Sequences

CONSTANT Torn   \* the content of a row whose bytes were read too early

VARIABLES
  rx,         \* weather packets that have arrived
  recorded,   \* the ordinal of the last packet accounted for
  log         \* the rows of the table

vars == <<rx, recorded, log>>

Init ==
  /\ rx = 0
  /\ recorded = 0
  /\ log = <<>>

Arrive ==
  /\ rx' = rx + 1
  /\ UNCHANGED <<recorded, log>>

Record ==
  /\ recorded < rx
  /\ recorded' = recorded + 1
  /\ \E r \in {recorded + 1, Torn} : log' = Append(log, r)
  /\ UNCHANGED rx

LoseBacklog ==
  /\ recorded' = rx
  /\ UNCHANGED <<rx, log>>

Next == Arrive \/ Record \/ LoseBacklog

Spec == Init /\ [][Next]_vars
=============================================================================
