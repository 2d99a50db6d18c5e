-------------------------------- MODULE Psql --------------------------------
(***************************************************************************)
(* psqlConnection (psql.cpp) between DBUpdateThread, its only user, and    *)
(* PostgreSQL: execute() is three PQexec round trips, BEGIN, the statement *)
(* and END.  PQexec sends a request and waits for the reply; in between    *)
(* the link may break, the process may be killed, and the server may act   *)
(* on a request of a process that is gone.                                 *)
(*                                                                         *)
(* Each run of the process opens one session.  A psql_error ends the run,  *)
(* for nothing on the thread catches it.  A failed connection is           *)
(* WeatherCtl's ConnectFails.                                              *)
(***************************************************************************)
EXTENDS Integers

CONSTANTS
  Statements,   \* the INSERT statements execute() may be given
  Accepted,     \* those of them that the server accepts
  LinkFaults,   \* "link": connections may break; "kill": the process may be killed
  MaxCalls,     \* bound: calls of execute, over all runs
  MaxRuns       \* bound: runs of the process

ASSUME StatementsAssumption == Accepted \subseteq Statements
ASSUME LinkFaultsAssumption == LinkFaults \subseteq {"link", "kill"}
ASSUME BoundsAssumption == MaxCalls \in Nat /\ MaxRuns \in Nat \ {0}

Calls == 1..MaxCalls
Sessions == 1..MaxRuns

VARIABLES
  \* the client
  run,        \* which run of the process this is, and so which session it uses
  pc,         \* where execute() is; "dead" when the process is
  wire,       \* PQexec: "none" under way, request "sent", or never sent ("unsent")
  call,       \* calls of execute so far
  stmt,       \* the statement of each call
  message,    \* PQerrorMessage: "empty" or what the last failure was
  thrown,     \* the text in the last psql_error, "none" if there was no error yet
  results,    \* PGresult objects that nobody has cleared
  outcome,    \* history: how each call ended
  bootCall,   \* history: call when this run started
  \* each session's link
  cut,        \* broken, or closed by the end of its process
  request,    \* on its way to the server
  reply,      \* on its way back
  \* each session's backend
  tx,         \* its transaction status
  insert,     \* the call whose row it has inserted and not committed, 0 if none
  current,    \* the call its statements come from
  table       \* the calls whose row is committed

clientVars == <<run, pc, wire, call, stmt, message, thrown, results, outcome, bootCall>>
linkVars == <<cut, request, reply>>
serverVars == <<tx, insert, current, table>>
vars == <<clientVars, linkVars, serverVars>>

Requests == {"BEGIN", "INSERT", "END"}
Pcs == {"idle", "begin", "insert", "end", "endRefused", "dead"}
Errors == {"refused", "aborted", "lost"}

ClientTypeOK ==
  /\ run \in Sessions
  /\ pc \in Pcs
  /\ wire \in {"none", "sent", "unsent"}
  /\ call \in 0..MaxCalls
  /\ stmt \in [1..call -> Statements]
  /\ message \in Errors \cup {"empty"}
  /\ thrown \in Errors \cup {"empty", "none"}
  /\ results \in Nat
  /\ outcome \in [Calls -> {"new", "open", "returned", "failed", "doubtful"}]
  /\ bootCall \in 0..MaxCalls

LinkTypeOK ==
  /\ cut \in [Sessions -> BOOLEAN]
  /\ request \in [Sessions -> Requests \cup {"none"}]
  /\ reply \in [Sessions -> {"none", "ok", "refused", "aborted"}]

ServerTypeOK ==
  /\ tx \in [Sessions -> {"idle", "open", "aborted", "gone"}]
  /\ insert \in [Sessions -> 0..MaxCalls]
  /\ current \in [Sessions -> 0..MaxCalls]
  /\ table \in SUBSET Calls

TypeOK == ClientTypeOK /\ LinkTypeOK /\ ServerTypeOK

(* PQconnectdb has given the first run its session; later ones come with Boot. *)
Init ==
  /\ run = 1 /\ pc = "idle" /\ wire = "none"
  /\ call = 0 /\ stmt = <<>>
  /\ message = "empty" /\ thrown = "none" /\ results = 0
  /\ outcome = [c \in Calls |-> "new"]
  /\ bootCall = 0
  /\ cut = [s \in Sessions |-> FALSE]
  /\ request = [s \in Sessions |-> "none"]
  /\ reply = [s \in Sessions |-> "none"]
  /\ tx = [s \in Sessions |-> "idle"]
  /\ insert = [s \in Sessions |-> 0]
  /\ current = [s \in Sessions |-> 0]
  /\ table = {}

-----------------------------------------------------------------------------
(* The client.  PQexec forgets the last error and sends its request. *)

Sends == [begin |-> "BEGIN", insert |-> "INSERT", end |-> "END", endRefused |-> "END"]

PQexecSends ==
  /\ pc \in DOMAIN Sends /\ wire = "none"
  /\ message' = "empty"
  /\ \/ cut[run] /\ wire' = "unsent" /\ UNCHANGED request
     \/ ~cut[run] /\ wire' = "sent" /\ request' = [request EXCEPT ![run] = Sends[pc]]
  /\ UNCHANGED <<run, pc, call, stmt, thrown, results, outcome, bootCall, cut, reply, serverVars>>

(* PQexec returns r: the server's reply, or that there will be none. *)
PQexecReturns(r) ==
  /\ \/ /\ wire = "sent" /\ reply[run] = r /\ r # "none"
        /\ reply' = [reply EXCEPT ![run] = "none"]
     \/ /\ r = "lost"
        /\ wire = "unsent" \/ (wire = "sent" /\ cut[run] /\ reply[run] = "none")
        /\ UNCHANGED reply
  /\ wire' = "none"
  /\ message' = IF r = "ok" THEN message ELSE r

(* psql_error leaves execute(), and the run ends: its socket is closed. *)
Throw(text) ==
  /\ pc' = "dead"
  /\ thrown' = text
  /\ outcome' = [outcome EXCEPT ![call] = IF pc = "end" /\ wire = "sent" THEN "doubtful"
                                         ELSE "failed"]
  /\ cut' = [cut EXCEPT ![run] = TRUE]
  /\ UNCHANGED <<run, call, stmt, results, bootCall, request, serverVars>>

(* Mutant: no BEGIN. *)
Execute_NoBegin(sql) ==
  /\ pc = "idle" /\ call < MaxCalls
  /\ pc' = "insert"
  /\ call' = call + 1
  /\ stmt' = [c \in 1..call' |-> IF c = call' THEN sql ELSE stmt[c]]
  /\ outcome' = [outcome EXCEPT ![call'] = "open"]
  /\ current' = [current EXCEPT ![run] = call']
  /\ UNCHANGED <<run, wire, message, thrown, results, bootCall, linkVars, tx, insert, table>>

(* execute(sql) is called. *)
Execute(sql) ==
  /\ pc = "idle" /\ call < MaxCalls
  /\ pc' = "begin"
  /\ call' = call + 1
  /\ stmt' = [c \in 1..call' |-> IF c = call' THEN sql ELSE stmt[c]]
  /\ outcome' = [outcome EXCEPT ![call'] = "open"]
  /\ current' = [current EXCEPT ![run] = call']
  /\ UNCHANGED <<run, wire, message, thrown, results, bootCall, linkVars, tx, insert, table>>

(* Mutant: beginTransaction() leaves its PGresult behind. *)
BeginReturns_NoClear ==
  /\ pc = "begin"
  /\ PQexecReturns("ok")
  /\ pc' = "insert"
  /\ results' = results + 1
  /\ UNCHANGED <<run, call, stmt, thrown, outcome, bootCall, cut, request, serverVars>>

(* beginTransaction() returns, its PGresult cleared. *)
BeginReturns ==
  /\ pc = "begin"
  /\ PQexecReturns("ok")
  /\ pc' = "insert"
  /\ UNCHANGED <<run, call, stmt, thrown, results, outcome, bootCall, cut, request, serverVars>>

(* It throws "Error beginning transaction". *)
BeginThrows ==
  /\ pc = "begin"
  /\ \E r \in Errors : PQexecReturns(r) /\ Throw(r)

(* The statement succeeded.  Its PGresult is kept for the caller. *)
InsertSucceeds ==
  /\ pc = "insert"
  /\ PQexecReturns("ok")
  /\ pc' = "end"
  /\ results' = results + 1
  /\ UNCHANGED <<run, call, stmt, thrown, outcome, bootCall, cut, request, serverVars>>

(* Mutant: the statement is tried again until it succeeds. *)
InsertFails_Retries ==
  /\ pc = "insert"
  /\ \E r \in Errors : PQexecReturns(r)
  /\ UNCHANGED <<run, pc, call, stmt, thrown, results, outcome, bootCall, cut, request, serverVars>>

(* Mutant: the failed statement's PGresult is cleared twice. *)
InsertFails_ClearsTwice ==
  /\ pc = "insert"
  /\ \E r \in Errors : PQexecReturns(r)
  /\ pc' = "endRefused"
  /\ results' = results - 1
  /\ UNCHANGED <<run, call, stmt, thrown, outcome, bootCall, cut, request, serverVars>>

(* The statement failed: its PGresult is cleared, then endTransaction(). *)
InsertFails ==
  /\ pc = "insert"
  /\ \E r \in Errors : PQexecReturns(r)
  /\ pc' = "endRefused"
  /\ UNCHANGED <<run, call, stmt, thrown, results, outcome, bootCall, cut, request, serverVars>>

(* endTransaction() returns, and so does execute(). *)
EndReturns ==
  /\ pc = "end"
  /\ PQexecReturns("ok")
  /\ pc' = "idle"
  /\ outcome' = [outcome EXCEPT ![call] = "returned"]
  /\ UNCHANGED <<run, call, stmt, thrown, results, bootCall, cut, request, serverVars>>

(* Mutant: the error text is fetched before END. *)
RefusalThrows_OwnText ==
  /\ pc = "endRefused"
  /\ PQexecReturns("ok")
  /\ Throw("refused")

(***************************************************************************)
(* After a failed statement endTransaction() succeeds all the same, for    *)
(* END of an aborted transaction is a ROLLBACK; only then does execute()   *)
(* build its "Error issuing statement" from PQerrorMessage.                *)
(***************************************************************************)
RefusalThrows ==
  /\ pc = "endRefused"
  /\ PQexecReturns("ok")
  /\ Throw(message)

(* endTransaction() throws "Error ending transaction". *)
EndThrows ==
  /\ pc \in {"end", "endRefused"}
  /\ \E r \in Errors : PQexecReturns(r) /\ Throw(r)

ClientStep ==
  \/ PQexecSends
  \/ BeginReturns \/ BeginThrows
  \/ InsertSucceeds \/ InsertFails
  \/ EndReturns \/ EndThrows
  \/ RefusalThrows

(* The process is killed wherever the thread is, its last request with luck sent. *)
Kill ==
  /\ pc # "dead"
  /\ "kill" \in LinkFaults
  /\ pc' = "dead" /\ wire' = "none"
  /\ outcome' = IF pc = "idle" THEN outcome
                ELSE [outcome EXCEPT ![call] = IF pc = "end" /\ wire = "sent" THEN "doubtful"
                                               ELSE "failed"]
  /\ cut' = [cut EXCEPT ![run] = TRUE]
  /\ request' \in {request, [request EXCEPT ![run] = "none"]}
  /\ UNCHANGED <<run, call, stmt, message, thrown, results, bootCall, reply, serverVars>>

(* The next run of the process connects. *)
Boot ==
  /\ pc = "dead" /\ run < MaxRuns
  /\ run' = run + 1
  /\ pc' = "idle" /\ wire' = "none"
  /\ message' = "empty" /\ thrown' = "none" /\ results' = 0
  /\ bootCall' = call
  /\ UNCHANGED <<call, stmt, outcome, linkVars, serverVars>>

-----------------------------------------------------------------------------
(* The link and the server, a backend for each session. *)

(* The link breaks; what is under way may still arrive. *)
Cut(s) ==
  /\ s = run /\ pc # "dead" /\ ~cut[s]
  /\ "link" \in LinkFaults
  /\ cut' = [cut EXCEPT ![s] = TRUE]
  /\ request' \in {request, [request EXCEPT ![s] = "none"]}
  /\ reply' \in {reply, [reply EXCEPT ![s] = "none"]}
  /\ UNCHANGED <<clientVars, serverVars>>

Replies(s, r) ==
  /\ request' = [request EXCEPT ![s] = "none"]
  /\ reply' = [reply EXCEPT ![s] = IF cut[s] THEN "none" ELSE r]
  /\ UNCHANGED <<clientVars, cut, current>>

(* BEGIN in an open transaction is a warning, in an aborted one an error. *)
ServeBegin(s) ==
  /\ request[s] = "BEGIN"
  /\ tx' = IF tx[s] = "aborted" THEN tx ELSE [tx EXCEPT ![s] = "open"]
  /\ Replies(s, IF tx[s] = "aborted" THEN "aborted" ELSE "ok")
  /\ UNCHANGED <<insert, table>>

(* Outside a transaction a statement commits by itself. *)
ServeInsert(s) ==
  LET c == current[s]
      ok == tx[s] # "aborted" /\ stmt[c] \in Accepted
      within == tx[s] # "idle"
  IN  /\ request[s] = "INSERT"
      /\ tx' = IF within /\ ~ok THEN [tx EXCEPT ![s] = "aborted"] ELSE tx
      /\ insert' = IF within THEN [insert EXCEPT ![s] = IF ok THEN c ELSE 0] ELSE insert
      /\ table' = IF ok /\ ~within THEN table \cup {c} ELSE table
      /\ Replies(s, IF ok THEN "ok" ELSE IF tx[s] = "aborted" THEN "aborted" ELSE "refused")

(* END commits what an open transaction holds; of an aborted one it is a ROLLBACK. *)
ServeEnd(s) ==
  /\ request[s] = "END"
  /\ table' = IF insert[s] = 0 THEN table ELSE table \cup {insert[s]}
  /\ insert' = [insert EXCEPT ![s] = 0]
  /\ tx' = [tx EXCEPT ![s] = "idle"]
  /\ Replies(s, "ok")

Serve(s) == ServeBegin(s) \/ ServeInsert(s) \/ ServeEnd(s)

(* A backend that finds its client gone rolls back and exits. *)
Hangup(s) ==
  /\ cut[s] /\ request[s] = "none" /\ tx[s] # "gone"
  /\ tx' = [tx EXCEPT ![s] = "gone"]
  /\ insert' = [insert EXCEPT ![s] = 0]
  /\ UNCHANGED <<clientVars, linkVars, current, table>>

Next ==
  \/ \E sql \in Statements : Execute(sql)
  \/ ClientStep
  \/ Kill
  \/ Boot
  \/ \E s \in Sessions : Cut(s) \/ Serve(s) \/ Hangup(s)

(* PostgreSQL answers, or libpq's TCP keepalives find that it does not. *)
Fairness ==
  /\ WF_vars(ClientStep)
  /\ \A s \in Sessions : WF_vars(Serve(s))

Spec == Init /\ [][Next]_vars /\ Fairness

-----------------------------------------------------------------------------

(***************************************************************************)
(* execute() keeps the promise of Transaction, with its caller's view      *)
(* (outcome) and the table just as they are: nothing is stored by a call   *)
(* that failed, a doubtful row may come late, and every call ends.         *)
(***************************************************************************)
T == INSTANCE Transaction
TransactionSpec == T!Spec

(* A returned call has its row, a failed one has not.  (psqlConnection::execute) *)
Promise == T!Promise

(***************************************************************************)
(* The text of a psql_error comes from a PQerrorMessage that a successful  *)
(* END has emptied exactly when the server refused the statement: what was *)
(* wrong with a row is never logged, what was wrong with the link always.  *)
(***************************************************************************)
EmptyTextMeansRefused ==
  pc = "dead" /\ thrown # "none" =>
    \/ thrown = "lost"
    \/ thrown = "empty" /\ stmt[call] \notin Accepted

(***************************************************************************)
(* A PGresult outlives execute() only as its return value, one for each    *)
(* call that returned; DBUpdateThread clears none of them, so they pile up *)
(* by two for every packet.                                                *)
(***************************************************************************)
OnlyReturnedResultsPileUp ==
  pc # "dead" =>
    results = call - bootCall - (IF pc \in {"begin", "insert", "endRefused"} THEN 1 ELSE 0)

-----------------------------------------------------------------------------
(***************************************************************************)
(* Towards an inductive invariant.  Calls are made one after the other:    *)
(***************************************************************************)
OutcomeInv ==
  /\ pc \notin {"idle", "dead"} => call \in Calls
  /\ \A c \in Calls :
       /\ outcome[c] = "new" <=> c > call
       /\ outcome[c] = "open" <=> c = call /\ pc \notin {"idle", "dead"}

(* The promise, and when a row may be there before its call has returned. *)
TableInv ==
  \A c \in Calls :
    /\ outcome[c] = "returned" => c \in table
    /\ outcome[c] \in {"new", "failed"} => c \notin table
    /\ outcome[c] = "open" /\ c \in table => pc = "end" /\ wire = "sent"

(* Each session, whether its process is alive or not or has yet to come. *)
ServerInv ==
  \A s \in Sessions :
    /\ tx[s] = "gone" => cut[s] /\ request[s] = "none"
    /\ request[s] = "INSERT" => tx[s] = "open"
    /\ reply[s] # "none" => request[s] = "none"
    /\ request[s] = "END" /\ insert[s] # 0 =>
         \/ outcome[insert[s]] = "doubtful"
         \/ s = run /\ pc = "end" /\ wire = "sent" /\ insert[s] = call
    /\ s > run =>
         ~cut[s] /\ request[s] = "none" /\ reply[s] = "none" /\ tx[s] = "idle"

(* What is under way on the live session: the request of this PQexec alone. *)
LinkInv ==
  pc # "dead" =>
    /\ pc = "idle" => wire = "none"
    /\ pc # "idle" => current[run] = call
    /\ wire = "sent" => request[run] \in {"none", Sends[pc]}
    /\ wire = "unsent" => cut[run]
    /\ wire # "sent" =>
         /\ reply[run] = "none"
         /\ request[run] # "none" => request[run] = "INSERT" /\ pc = "endRefused" /\ cut[run]

(* And what its backend has come to. *)
TxInv ==
  /\ pc = "idle" \/ (pc = "begin" /\ wire # "sent") => tx[run] \in {"idle", "gone"}
  /\ pc = "begin" =>
       /\ tx[run] # "aborted"
       /\ reply[run] # "none" => reply[run] = "ok" /\ tx[run] \in {"open", "gone"}
  /\ pc = "insert" =>
       /\ wire = "none" => tx[run] \in {"open", "gone"}
       /\ reply[run] = "ok" /\ ~cut[run] => insert[run] = call
       /\ reply[run] \in {"refused", "aborted"} => insert[run] = 0 /\ stmt[call] \notin Accepted
  /\ pc = "end" =>
       /\ wire = "none" /\ ~cut[run] => insert[run] = call
       /\ request[run] = "END" => insert[run] = call
       /\ reply[run] # "none" =>
            reply[run] = "ok" /\ call \in table /\ tx[run] \in {"idle", "gone"}
  /\ pc = "endRefused" =>
       /\ wire = "sent" \/ (wire = "none" /\ ~cut[run]) =>
            insert[run] = 0 /\ stmt[call] \notin Accepted
       /\ reply[run] # "none" => reply[run] = "ok"

(* The last error is forgotten when a request is sent; the first psql_error ends the run. *)
TextInv ==
  /\ wire # "none" => message = "empty"
  /\ pc # "dead" => thrown = "none"
  /\ thrown # "none" => call # 0
  /\ EmptyTextMeansRefused

IInv ==
  /\ TypeOK
  /\ OutcomeInv /\ TableInv
  /\ ServerInv /\ LinkInv /\ TxInv
  /\ TextInv
  /\ OnlyReturnedResultsPileUp
=============================================================================
