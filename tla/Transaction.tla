---------------------------- MODULE Transaction -----------------------------
(***************************************************************************)
(* What psqlConnection::execute promises its caller, whatever the server   *)
(* and the network do: a call that returns has stored its row; a call that *)
(* throws has not, unless the connection was lost while END was under way. *)
(* Such a row may still turn up, even when a new process is running.       *)
(***************************************************************************)
EXTENDS Naturals

CONSTANT Calls   \* the calls of execute, over all runs of the process

VARIABLES
  outcome,   \* how each call stands with its caller
  table      \* the calls whose row is committed

vars == <<outcome, table>>

Outcomes == {"new", "open", "returned", "failed", "doubtful"}

TypeOK ==
  /\ outcome \in [Calls -> Outcomes]
  /\ table \in SUBSET Calls

Init ==
  /\ outcome = [c \in Calls |-> "new"]
  /\ table = {}

Become(c, from, to) == outcome[c] = from /\ outcome' = [outcome EXCEPT ![c] = to]

(* One call at a time: a connection is used by one thread. *)
Open(c) ==
  /\ \A d \in Calls : outcome[d] # "open"
  /\ Become(c, "new", "open")
  /\ UNCHANGED table

(* The server commits, before or after the caller knows. *)
Commit(c) ==
  /\ outcome[c] \in {"open", "doubtful"}
  /\ table' = table \cup {c}
  /\ UNCHANGED outcome

Return(c) == c \in table /\ Become(c, "open", "returned") /\ UNCHANGED table

Fail(c) == c \notin table /\ Become(c, "open", "failed") /\ UNCHANGED table

LoseTrack(c) == Become(c, "open", "doubtful") /\ UNCHANGED table

Close(c) == Return(c) \/ Fail(c) \/ LoseTrack(c)

Next == \E c \in Calls : Open(c) \/ Commit(c) \/ Close(c)

(* A call that has been made comes to an end. *)
Spec == Init /\ [][Next]_vars /\ \A c \in Calls : WF_vars(Close(c))

SafeSpec == Init /\ [][Next]_vars

-----------------------------------------------------------------------------
(* The caller may rely on what it is told.  (psqlConnection::execute) *)
Promise ==
  /\ \A c \in Calls : outcome[c] = "returned" => c \in table
  /\ \A c \in Calls : outcome[c] \in {"new", "failed"} => c \notin table
=============================================================================
