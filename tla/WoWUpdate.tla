----------------------------- MODULE WoWUpdate ------------------------------
(***************************************************************************)
(* WoWUpdateThread::run (threads.cpp) and the _threadRunner that runs it   *)
(* again when it returns (posixthread.cpp): take a reading from            *)
(* webPostQueue and post it to the Weather Observations Website.  A post   *)
(* that fails makes run() return; the reading is not put back.             *)
(***************************************************************************)
EXTENDS Queues

CONSTANT
  WoWSettings   \* the values wow.isenabled may have in wctl.cfg when a run starts

ASSUME WoWSettingsAssumption == WoWSettings \subseteq BOOLEAN

VARIABLES
  wowEnabled, \* cfg.getValueAsBoolean("wow.isenabled"), fixed for the run
  wowPc,      \* where run() is; "returned" once it has given up
  wowTr,      \* local tr: the reading in hand; 0 before the first one
  chunk,      \* local chunk: the readings whose responses it has accumulated
  taken,      \* history: readings popped so far, over all runs
  posted      \* external: readings the service has stored

wowVars == <<wowEnabled, wowPc, wowTr, chunk, taken, posted>>

WowPcs == {"unborn", "init", "poll", "post", "returned", "thrown"}

WowTypeOK ==
  /\ wowEnabled \in BOOLEAN
  /\ wowPc \in WowPcs
  /\ wowTr \in Reading \cup {0}
  /\ chunk \in Seq(Reading)
  /\ taken \in Seq(Reading)
  /\ posted \in Seq(Reading)

WowInit ==
  /\ wowEnabled \in WoWSettings
  /\ wowPc = "unborn"
  /\ wowTr = 0
  /\ chunk = <<>>
  /\ taken = <<>>
  /\ posted = <<>>

-----------------------------------------------------------------------------

(* The top of the loop: a fresh curl handle. *)
CurlInit ==
  /\ alive /\ wowPc = "init"
  /\ wowPc' = "poll"
  /\ UNCHANGED <<wowEnabled, wowTr, chunk, taken, posted, alive, dbq, webPostQueue>>

(* curl_easy_init returns NULL: break out of the loop, return NULL. *)
CurlInitFails ==
  /\ alive /\ wowPc = "init"
  /\ "handle" \in Faults
  /\ wowPc' = "returned"
  /\ UNCHANGED <<wowEnabled, wowTr, chunk, taken, posted, alive, dbq, webPostQueue>>

(* webPostQueue is not empty: front(), pop(), build the URL. *)
PopPost ==
  /\ alive /\ wowPc = "poll"
  /\ webPostQueue # <<>>
  /\ wowTr' = FrontValue(webPostQueue)
  /\ taken' = Append(taken, FrontValue(webPostQueue))
  /\ webPostQueue' = Tail(webPostQueue)
  /\ wowPc' = "post"
  /\ UNCHANGED <<wowEnabled, chunk, posted, alive, dbq>>

(* The same pop while a push is in flight, following a stale node pointer. *)
PopPostCrashes ==
  /\ alive /\ wowPc = "poll"
  /\ PopMayCrash(webPostQueue)
  /\ wowPc' = "thrown"
  /\ alive' = FALSE
  /\ UNCHANGED <<wowEnabled, wowTr, chunk, taken, posted, dbq, webPostQueue>>

(***************************************************************************)
(* curl_easy_perform succeeds.  CurlWrite_CallbackFunc appends the         *)
(* response to chunk, which run() never empties.                           *)
(***************************************************************************)
PostSucceeds ==
  /\ alive /\ wowPc = "post"
  /\ wowEnabled
  /\ posted' = Append(posted, wowTr)
  /\ chunk' = Append(chunk, wowTr)
  /\ wowPc' = "init"
  /\ UNCHANGED <<wowEnabled, wowTr, taken, alive, dbq, webPostQueue>>

(* Mutant: a failed post is tried again. *)
PostFails_Retries ==
  /\ alive /\ wowPc = "post"
  /\ wowEnabled
  /\ "curl" \in Faults
  /\ posted' \in {posted, Append(posted, wowTr)}
  /\ UNCHANGED <<wowEnabled, wowPc, wowTr, chunk, taken, alive, dbq, webPostQueue>>

(***************************************************************************)
(* curl_easy_perform fails: return NULL.  The request may have reached the *)
(* service before the connection broke.                                    *)
(***************************************************************************)
PostFails ==
  /\ alive /\ wowPc = "post"
  /\ wowEnabled
  /\ "curl" \in Faults
  /\ posted' \in {posted, Append(posted, wowTr)}
  /\ wowPc' = "returned"
  /\ UNCHANGED <<wowEnabled, wowTr, chunk, taken, alive, dbq, webPostQueue>>

(* Posting disabled by config: do nothing. *)
PostSkipped ==
  /\ alive /\ wowPc = "post"
  /\ ~wowEnabled
  /\ wowPc' = "init"
  /\ UNCHANGED <<wowEnabled, wowTr, chunk, taken, posted, alive, dbq, webPostQueue>>

(* Mutant: isRestartable is false, so the thread ends. *)
RunAgain_NotRestartable ==
  /\ alive /\ wowPc = "returned"
  /\ wowPc' = "thrown"
  /\ UNCHANGED <<wowEnabled, wowTr, chunk, taken, posted, alive, dbq, webPostQueue>>

(* _threadRunner: isRestartable, so run() is called again with new locals. *)
RunAgain ==
  /\ alive /\ wowPc = "returned"
  /\ wowPc' = "init"
  /\ wowTr' = 0
  /\ chunk' = <<>>
  /\ UNCHANGED <<wowEnabled, taken, posted, alive, dbq, webPostQueue>>

(* curl_easy_perform, for which run() sets no timeout. *)
WowPost == PostSucceeds \/ PostFails

(* Everything else the thread does. *)
WowRun ==
  \/ CurlInit \/ CurlInitFails
  \/ PopPost \/ PopPostCrashes
  \/ PostSkipped
  \/ RunAgain

WowStep == WowRun \/ WowPost
=============================================================================
