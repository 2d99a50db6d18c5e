---------------------------- MODULE Store_proofs -----------------------------
(***************************************************************************)
(* Proofs about execute() and about what reaches the tables through it,    *)
(* for every set of statements and of faults, every packet that a station  *)
(* can send, and any number of calls and runs of the process.              *)
(*                                                                         *)
(* First those that need no more than Psql.                                *)
(***************************************************************************)
EXTENDS Store, TLAPS


(* Nothing has happened yet. *)
LEMMA InitInvariant ==
  Init => IInv
<1>. USE BoundsAssumption DEF Init, Calls, Sessions
<1>1. ASSUME Init
      PROVE  TypeOK
  BY <1>1 DEF TypeOK, ClientTypeOK, LinkTypeOK, ServerTypeOK, Requests, Pcs, Errors
<1>2. ASSUME Init
      PROVE  OutcomeInv /\ TableInv
  BY <1>2 DEF OutcomeInv, TableInv
<1>3. ASSUME Init
      PROVE  ServerInv /\ LinkInv /\ TxInv
  BY <1>3 DEF ServerInv, LinkInv, TxInv
<1>4. ASSUME Init
      PROVE  TextInv /\ OnlyReturnedResultsPileUp
  <2>1. results = call - bootCall - 0 /\ pc = "idle"
    BY <1>4
  <2>. QED
    BY <1>4, <2>1 DEF TextInv, EmptyTextMeansRefused, OnlyReturnedResultsPileUp
<1>. QED
  BY <1>1, <1>2, <1>3, <1>4 DEF IInv

-----------------------------------------------------------------------------
(* What several actions have in common. *)

(* The server and the link leave what the client knows of itself alone. *)
LEMMA ClientPartKept ==
  ASSUME IInv, UNCHANGED clientVars
  PROVE  ClientTypeOK' /\ OutcomeInv' /\ TextInv' /\ OnlyReturnedResultsPileUp'
<1>. USE DEF IInv, TypeOK, clientVars
<1>1. ClientTypeOK'
  BY DEF ClientTypeOK
<1>2. OutcomeInv'
  BY DEF OutcomeInv
<1>3. TextInv'
  BY DEF TextInv, EmptyTextMeansRefused
<1>4. OnlyReturnedResultsPileUp'
  BY DEF OnlyReturnedResultsPileUp
<1>. QED
  BY <1>1, <1>2, <1>3, <1>4

(* When PQexec returns, the reply it waited for is no longer under way. *)
LEMMA PQexecReturnsType ==
  ASSUME IInv, NEW r, PQexecReturns(r), UNCHANGED request,
         cut' \in {cut, [cut EXCEPT ![run] = TRUE]}
  PROVE  LinkTypeOK'
<1>. USE DEF IInv, TypeOK
<1>1. reply' = reply \/ reply' = [reply EXCEPT ![run] = "none"]
  BY DEF PQexecReturns
<1>2. (reply \in [Sessions -> {"none", "ok", "refused", "aborted"}])'
  BY <1>1 DEF LinkTypeOK
<1>3. (cut \in [Sessions -> BOOLEAN])'
  BY DEF LinkTypeOK
<1>. QED
  BY <1>2, <1>3 DEF LinkTypeOK

(***************************************************************************)
(* The end of a run, by an exception or a kill: the session is left to its *)
(* backend, and the call under way has failed unless END was.              *)
(***************************************************************************)
Verdict == IF pc = "end" /\ wire = "sent" THEN "doubtful" ELSE "failed"

RunEnds ==
  /\ pc # "dead" /\ pc' = "dead"
  /\ outcome' = IF pc = "idle" THEN outcome ELSE [outcome EXCEPT ![call] = Verdict]
  /\ cut' = [cut EXCEPT ![run] = TRUE]
  /\ request' \in {request, [request EXCEPT ![run] = "none"]}
  /\ reply' \in {reply, [reply EXCEPT ![run] = "none"]}
  /\ UNCHANGED <<run, call, stmt, bootCall, serverVars>>

(* The call that is under way, if there is one, gets its verdict. *)
LEMMA RunEndsOutcome ==
  ASSUME IInv, RunEnds
  PROVE  /\ OutcomeInv'
         /\ \A c \in Calls : outcome[c] # "open" => outcome'[c] = outcome[c]
         /\ pc # "idle" => call \in Calls /\ outcome[call] = "open" /\ outcome'[call] = Verdict
<1>. USE DEF IInv, TypeOK
<1>1. pc # "idle" => call \in Calls /\ outcome[call] = "open"
  BY DEF OutcomeInv, RunEnds
<1>2. pc # "idle" => outcome'[call] = Verdict
  BY <1>1 DEF RunEnds, ClientTypeOK
<1>3. \A c \in Calls : outcome[c] # "open" => outcome'[c] = outcome[c]
  BY <1>1 DEF RunEnds, ClientTypeOK
<1>4. OutcomeInv'
  BY <1>1, <1>2, <1>3 DEF RunEnds, OutcomeInv, Verdict
<1>. QED
  BY <1>1, <1>2, <1>3, <1>4

(* Its row is not in the table, unless the verdict is doubtful. *)
LEMMA RunEndsTable ==
  ASSUME IInv, RunEnds
  PROVE  TableInv'
<1>. USE DEF IInv, TypeOK
<1>1. pc # "idle" /\ Verdict = "failed" => call \notin table
  BY RunEndsOutcome DEF TableInv, Verdict
<1>2. \A c \in Calls : outcome'[c] = outcome[c] \/ (c = call /\ pc # "idle")
  BY DEF RunEnds, ClientTypeOK
<1>3. UNCHANGED table
  BY DEF RunEnds, serverVars
<1>. QED
  BY <1>1, <1>2, <1>3, RunEndsOutcome DEF TableInv, OutcomeInv, RunEnds, Verdict

(* An END that is still under way is that of a call whose verdict is doubtful. *)
LEMMA RunEndsServer ==
  ASSUME IInv, RunEnds
  PROVE  ServerInv'
<1>. USE DEF IInv, TypeOK
<1>1. ASSUME NEW s \in Sessions, request[s] = "END", insert[s] # 0
      PROVE  outcome'[insert[s]] = "doubtful"
  <2>1. insert[s] \in Calls
    BY <1>1 DEF ServerTypeOK, Calls
  <2>2. CASE outcome[insert[s]] = "doubtful"
    BY <2>1, <2>2, RunEndsOutcome
  <2>3. CASE pc = "end" /\ wire = "sent" /\ insert[s] = call
    BY <2>3, RunEndsOutcome DEF Verdict
  <2>. QED
    BY <1>1, <2>2, <2>3 DEF ServerInv
<1>2. ASSUME NEW s \in Sessions
      PROVE  /\ cut[s] => cut'[s]
             /\ cut'[s] => cut[s] \/ s = run
             /\ request'[s] \in {request[s], "none"}
             /\ reply'[s] \in {reply[s], "none"}
  BY DEF RunEnds, LinkTypeOK
<1>3. UNCHANGED <<run, tx, insert>>
  BY DEF RunEnds, serverVars
<1>4. ASSUME NEW s \in Sessions
      PROVE  /\ tx'[s] = "gone" => cut'[s] /\ request'[s] = "none"
             /\ request'[s] = "INSERT" => tx'[s] = "open"
             /\ reply'[s] # "none" => request'[s] = "none"
             /\ request'[s] = "END" /\ insert'[s] # 0 => outcome'[insert'[s]] = "doubtful"
  BY <1>1, <1>2, <1>3 DEF ServerInv
<1>5. ASSUME NEW s \in Sessions, s > run'
      PROVE  ~cut'[s] /\ request'[s] = "none" /\ reply'[s] = "none" /\ tx'[s] = "idle"
  BY <1>2, <1>3, <1>5 DEF ServerInv, Sessions, ClientTypeOK
<1>. QED
  BY <1>4, <1>5 DEF ServerInv

(* The rest of the invariant is about runs that are alive. *)
LEMMA RunEndsPreserves ==
  ASSUME IInv, RunEnds, TypeOK', TextInv'
  PROVE  IInv'
<1>1. LinkInv' /\ TxInv'
  BY DEF RunEnds, LinkInv, TxInv
<1>2. OnlyReturnedResultsPileUp'
  BY DEF RunEnds, OnlyReturnedResultsPileUp
<1>. QED
  BY <1>1, <1>2, RunEndsOutcome, RunEndsTable, RunEndsServer DEF IInv

(* A psql_error ends the run. *)
LEMMA ThrowEndsRun ==
  ASSUME IInv, NEW r \in Errors \cup {"ok"}, NEW text \in Errors \cup {"empty"},
         pc \in {"begin", "end", "endRefused"}, PQexecReturns(r), Throw(text)
  PROVE  RunEnds /\ TypeOK'
<1>. USE DEF IInv, TypeOK
<1>1. reply' \in {reply, [reply EXCEPT ![run] = "none"]}
  BY DEF PQexecReturns
<1>2. RunEnds
  BY <1>1 DEF RunEnds, Throw, Verdict
<1>3. LinkTypeOK'
  BY PQexecReturnsType DEF Throw
<1>4. ServerTypeOK'
  BY DEF Throw, serverVars, ServerTypeOK
<1>5. ClientTypeOK'
  <2>1. (outcome \in [Calls -> {"new", "open", "returned", "failed", "doubtful"}])'
    BY DEF Throw, ClientTypeOK
  <2>2. message' \in Errors \cup {"empty"}
    BY DEF PQexecReturns, ClientTypeOK
  <2>3. wire' = "none" /\ pc' = "dead" /\ thrown' = text
    BY DEF PQexecReturns, Throw
  <2>4. UNCHANGED <<run, call, stmt, results, bootCall>>
    BY DEF Throw
  <2>. QED
    BY <2>1, <2>2, <2>3, <2>4 DEF ClientTypeOK, Pcs
<1>. QED
  BY <1>2, <1>3, <1>4, <1>5

-----------------------------------------------------------------------------
(* The ways a run ends. *)

(* BEGIN is never refused, so what failed was the link. *)
LEMMA BeginThrowsPreserves ==
  ASSUME IInv, BeginThrows
  PROVE  IInv'
<1>1. PICK r \in Errors : PQexecReturns(r) /\ Throw(r)
  BY DEF BeginThrows
<1>2. RunEnds /\ TypeOK'
  BY <1>1, ThrowEndsRun DEF BeginThrows
<1>3. r = "lost"
  BY <1>1 DEF BeginThrows, PQexecReturns, IInv, TxInv, Errors
<1>4. call' # 0
  BY <1>1 DEF BeginThrows, PQexecReturns, Throw, IInv, OutcomeInv, Calls
<1>5. TextInv'
  BY <1>1, <1>3, <1>4 DEF PQexecReturns, Throw, TextInv, EmptyTextMeansRefused
<1>. QED
  BY <1>2, <1>5, RunEndsPreserves

(* Nor is END. *)
LEMMA EndThrowsPreserves ==
  ASSUME IInv, EndThrows
  PROVE  IInv'
<1>1. PICK r \in Errors : PQexecReturns(r) /\ Throw(r)
  BY DEF EndThrows
<1>2. RunEnds /\ TypeOK'
  BY <1>1, ThrowEndsRun DEF EndThrows
<1>3. r = "lost"
  <2>1. reply[run] # "none" => reply[run] = "ok"
    BY DEF EndThrows, IInv, TxInv
  <2>. QED
    BY <1>1, <2>1 DEF PQexecReturns, Errors
<1>4. wire' = "none" /\ pc' = "dead" /\ thrown' = "lost"
  BY <1>1, <1>3 DEF PQexecReturns, Throw
<1>5. call' # 0
  BY <1>1 DEF EndThrows, PQexecReturns, Throw, IInv, OutcomeInv, Calls
<1>6. TextInv'
  BY <1>4, <1>5 DEF TextInv, EmptyTextMeansRefused
<1>. QED
  BY <1>2, <1>6, RunEndsPreserves

(* The text was emptied when END was sent, and the server has refused the statement. *)
LEMMA RefusalThrowsPreserves ==
  ASSUME IInv, RefusalThrows
  PROVE  IInv'
<1>1. message = "empty" /\ stmt[call] \notin Accepted
  BY DEF RefusalThrows, PQexecReturns, IInv, TextInv, TxInv
<1>2. RunEnds /\ TypeOK'
  BY <1>1, ThrowEndsRun DEF RefusalThrows
<1>3. call' # 0
  BY DEF RefusalThrows, PQexecReturns, Throw, IInv, OutcomeInv, Calls
<1>4. TextInv'
  BY <1>1, <1>3 DEF RefusalThrows, PQexecReturns, Throw, TextInv, EmptyTextMeansRefused
<1>. QED
  BY <1>2, <1>4, RunEndsPreserves

(* A killed process has thrown nothing. *)
LEMMA KillPreserves ==
  ASSUME IInv, Kill
  PROVE  IInv'
<1>. USE DEF IInv, TypeOK
<1>1. RunEnds
  BY DEF Kill, RunEnds, Verdict
<1>2. ClientTypeOK'
  BY DEF Kill, ClientTypeOK, Pcs
<1>3. LinkTypeOK'
  <2>1. (request \in [Sessions -> Requests \cup {"none"}])'
    BY DEF Kill, LinkTypeOK
  <2>. QED
    BY <2>1 DEF Kill, LinkTypeOK
<1>4. ServerTypeOK'
  BY DEF Kill, serverVars, ServerTypeOK
<1>5. TextInv'
  BY DEF Kill, TextInv, EmptyTextMeansRefused
<1>. QED
  BY <1>1, <1>2, <1>3, <1>4, <1>5, RunEndsPreserves

-----------------------------------------------------------------------------
(* The other steps of the client. *)

(* A call of execute starts on an idle session. *)
LEMMA ExecutePreserves ==
  ASSUME IInv, NEW sql \in Statements, Execute(sql)
  PROVE  IInv'
<1>. USE DEF IInv, TypeOK
<1>1. ClientTypeOK'
  BY BoundsAssumption DEF Execute, ClientTypeOK, Calls, Pcs
<1>2. LinkTypeOK'
  BY DEF Execute, linkVars, LinkTypeOK
<1>3. ServerTypeOK'
  BY BoundsAssumption DEF Execute, ServerTypeOK, ClientTypeOK
<1>4. OutcomeInv'
  <2>1. pc' = "begin" /\ call' = call + 1 /\ call' \in Calls
    BY BoundsAssumption DEF Execute, ClientTypeOK, Calls
  <2>2. ASSUME NEW c \in Calls
        PROVE  outcome'[c] = IF c = call + 1 THEN "open" ELSE outcome[c]
    BY <2>1 DEF Execute, ClientTypeOK
  <2>3. ASSUME NEW c \in Calls
        PROVE  (outcome'[c] = "new" <=> c > call') /\ (outcome'[c] = "open" <=> c = call')
    BY <2>1, <2>2 DEF OutcomeInv, ClientTypeOK, Calls, Execute
  <2>. QED
    BY <2>1, <2>3 DEF OutcomeInv
<1>5. TableInv'
  BY DEF Execute, TableInv, ClientTypeOK, OutcomeInv
<1>6. ServerInv'
  BY DEF Execute, linkVars, ServerInv, ClientTypeOK, OutcomeInv
<1>7. LinkInv'
  BY DEF Execute, linkVars, LinkInv, ClientTypeOK, ServerTypeOK
<1>8. TxInv'
  BY DEF Execute, linkVars, TxInv, LinkInv
<1>9. TextInv'
  BY DEF Execute, TextInv, EmptyTextMeansRefused
<1>10. OnlyReturnedResultsPileUp'
  BY DEF Execute, OnlyReturnedResultsPileUp, ClientTypeOK
<1>. QED
  BY <1>1, <1>2, <1>3, <1>4, <1>5, <1>6, <1>7, <1>8, <1>9, <1>10

(* PQexec sends its request, or finds the link gone. *)
LEMMA PQexecSendsPreserves ==
  ASSUME IInv, PQexecSends
  PROVE  IInv'
<1>. USE DEF IInv, TypeOK
<1>1. ClientTypeOK'
  BY DEF PQexecSends, ClientTypeOK
<1>2. LinkTypeOK'
  <2>1. (request \in [Sessions -> Requests \cup {"none"}])'
    BY DEF PQexecSends, Sends, LinkTypeOK, Requests
  <2>. QED
    BY <2>1 DEF PQexecSends, LinkTypeOK
<1>3. ServerTypeOK'
  BY DEF PQexecSends, ServerTypeOK, serverVars
<1>4. OutcomeInv'
  BY DEF PQexecSends, OutcomeInv
<1>5. TableInv'
  BY DEF PQexecSends, serverVars, TableInv
<1>6. ServerInv'
  <2>1. UNCHANGED <<run, pc, call, outcome, cut, reply, tx, insert>>
    BY DEF PQexecSends, serverVars
  <2>2. CASE UNCHANGED request
    BY <2>1, <2>2 DEF ServerInv, PQexecSends
  <2>3. CASE ~cut[run] /\ wire' = "sent" /\ request' = [request EXCEPT ![run] = Sends[pc]]
    <3>1. reply[run] = "none" /\ request[run] = "none" /\ tx[run] # "gone"
      BY <2>3 DEF PQexecSends, Sends, LinkInv, ServerInv, ClientTypeOK
    <3>2. Sends[pc] = "INSERT" => tx[run] = "open"
      BY <2>3, <3>1 DEF PQexecSends, Sends, TxInv
    <3>3. Sends[pc] = "END" /\ insert[run] # 0 => pc = "end" /\ insert[run] = call
      BY <2>3 DEF PQexecSends, Sends, TxInv
    <3>4. request'[run] = Sends[pc] /\ \A q \in Sessions \ {run} : request'[q] = request[q]
      BY <2>3 DEF LinkTypeOK, ClientTypeOK
    <3>5. Sends[pc] # "none" /\ \A q \in Sessions : q > run => q # run
      BY DEF PQexecSends, Sends, Sessions, ClientTypeOK
    <3>. QED
      BY <2>1, <2>3, <3>1, <3>2, <3>3, <3>4, <3>5 DEF ServerInv
  <2>. QED
    BY <2>2, <2>3 DEF PQexecSends
<1>7. LinkInv'
  BY DEF PQexecSends, Sends, serverVars, LinkInv, LinkTypeOK
<1>8. TxInv'
  BY DEF PQexecSends, serverVars, TxInv
<1>9. TextInv'
  BY DEF PQexecSends, TextInv, EmptyTextMeansRefused
<1>10. OnlyReturnedResultsPileUp'
  BY DEF PQexecSends, OnlyReturnedResultsPileUp
<1>. QED
  BY <1>1, <1>2, <1>3, <1>4, <1>5, <1>6, <1>7, <1>8, <1>9, <1>10

(* BEGIN was answered. *)
LEMMA BeginReturnsPreserves ==
  ASSUME IInv, BeginReturns
  PROVE  IInv'
<1>. USE DEF IInv, TypeOK
<1>1. ClientTypeOK'
  BY DEF BeginReturns, PQexecReturns, ClientTypeOK, Pcs
<1>2. LinkTypeOK'
  BY PQexecReturnsType DEF BeginReturns
<1>3. ServerTypeOK'
  BY DEF BeginReturns, ServerTypeOK, serverVars
<1>4. OutcomeInv'
  BY DEF BeginReturns, OutcomeInv
<1>5. TableInv'
  BY DEF BeginReturns, serverVars, TableInv
<1>6. ServerInv'
  BY DEF BeginReturns, PQexecReturns, serverVars, ServerInv, LinkTypeOK
<1>7. LinkInv'
  BY DEF BeginReturns, PQexecReturns, serverVars, LinkInv, ClientTypeOK, LinkTypeOK,
     ServerInv
<1>8. TxInv'
  BY DEF BeginReturns, PQexecReturns, serverVars, TxInv, ClientTypeOK, LinkTypeOK
<1>9. TextInv'
  BY DEF BeginReturns, PQexecReturns, TextInv, EmptyTextMeansRefused
<1>10. OnlyReturnedResultsPileUp'
  BY DEF BeginReturns, OnlyReturnedResultsPileUp
<1>. QED
  BY <1>1, <1>2, <1>3, <1>4, <1>5, <1>6, <1>7, <1>8, <1>9, <1>10

(* The server has run the statement. *)
LEMMA InsertSucceedsPreserves ==
  ASSUME IInv, InsertSucceeds
  PROVE  IInv'
<1>. USE DEF IInv, TypeOK
<1>1. ClientTypeOK'
  BY DEF InsertSucceeds, PQexecReturns, ClientTypeOK, Pcs
<1>2. LinkTypeOK'
  BY PQexecReturnsType DEF InsertSucceeds
<1>3. ServerTypeOK'
  BY DEF InsertSucceeds, ServerTypeOK, serverVars
<1>4. OutcomeInv'
  BY DEF InsertSucceeds, OutcomeInv
<1>5. TableInv'
  BY DEF InsertSucceeds, serverVars, TableInv
<1>6. ServerInv'
  BY DEF InsertSucceeds, PQexecReturns, serverVars, ServerInv, LinkTypeOK
<1>7. LinkInv'
  BY DEF InsertSucceeds, PQexecReturns, serverVars, LinkInv, ClientTypeOK, LinkTypeOK,
     ServerInv
<1>8. TxInv'
  BY DEF InsertSucceeds, PQexecReturns, serverVars, TxInv, ClientTypeOK, LinkTypeOK,
     ServerInv, LinkInv
<1>9. TextInv'
  BY DEF InsertSucceeds, PQexecReturns, TextInv, EmptyTextMeansRefused
<1>10. OnlyReturnedResultsPileUp'
  BY DEF InsertSucceeds, OnlyReturnedResultsPileUp, ClientTypeOK
<1>. QED
  BY <1>1, <1>2, <1>3, <1>4, <1>5, <1>6, <1>7, <1>8, <1>9, <1>10

(* It has not, or nobody knows. *)
LEMMA InsertFailsPreserves ==
  ASSUME IInv, InsertFails
  PROVE  IInv'
<1>. USE DEF IInv, TypeOK
<1>1. ClientTypeOK'
  BY DEF InsertFails, PQexecReturns, ClientTypeOK, Pcs
<1>2. LinkTypeOK'
  BY PQexecReturnsType DEF InsertFails
<1>3. ServerTypeOK'
  BY DEF InsertFails, ServerTypeOK, serverVars
<1>4. OutcomeInv'
  BY DEF InsertFails, OutcomeInv
<1>5. TableInv'
  BY DEF InsertFails, serverVars, TableInv
<1>6. ServerInv'
  BY DEF InsertFails, PQexecReturns, serverVars, ServerInv, LinkTypeOK
<1>7. LinkInv'
  BY DEF InsertFails, PQexecReturns, serverVars, LinkInv, ClientTypeOK, LinkTypeOK,
     ServerInv, Sends
<1>8. TxInv'
  BY DEF InsertFails, PQexecReturns, serverVars, TxInv, ClientTypeOK, LinkTypeOK, LinkInv,
     Errors
<1>9. TextInv'
  BY DEF InsertFails, PQexecReturns, TextInv, EmptyTextMeansRefused
<1>10. OnlyReturnedResultsPileUp'
  BY DEF InsertFails, OnlyReturnedResultsPileUp
<1>. QED
  BY <1>1, <1>2, <1>3, <1>4, <1>5, <1>6, <1>7, <1>8, <1>9, <1>10

(* END was answered: the row is committed. *)
LEMMA EndReturnsPreserves ==
  ASSUME IInv, EndReturns
  PROVE  IInv'
<1>. USE DEF IInv, TypeOK
<1>1. ClientTypeOK'
  BY DEF EndReturns, PQexecReturns, ClientTypeOK, OutcomeInv, Pcs
<1>2. LinkTypeOK'
  BY PQexecReturnsType DEF EndReturns
<1>3. ServerTypeOK'
  BY DEF EndReturns, ServerTypeOK, serverVars
<1>4. OutcomeInv'
  BY DEF EndReturns, OutcomeInv, ClientTypeOK
<1>5. TableInv'
  BY DEF EndReturns, PQexecReturns, serverVars, TableInv, ClientTypeOK, OutcomeInv, TxInv
<1>6. ServerInv'
  BY DEF EndReturns, PQexecReturns, serverVars, ServerInv, LinkTypeOK, OutcomeInv
<1>7. LinkInv'
  BY DEF EndReturns, PQexecReturns, LinkInv, ClientTypeOK, LinkTypeOK, ServerInv
<1>8. TxInv'
  BY DEF EndReturns, PQexecReturns, serverVars, TxInv
<1>9. TextInv'
  BY DEF EndReturns, PQexecReturns, TextInv, EmptyTextMeansRefused
<1>10. OnlyReturnedResultsPileUp'
  BY DEF EndReturns, OnlyReturnedResultsPileUp
<1>. QED
  BY <1>1, <1>2, <1>3, <1>4, <1>5, <1>6, <1>7, <1>8, <1>9, <1>10

(* A new run finds a session that nobody has used. *)
LEMMA BootPreserves ==
  ASSUME IInv, Boot
  PROVE  IInv'
<1>. USE DEF IInv, TypeOK
<1>1. ClientTypeOK'
  BY BoundsAssumption DEF Boot, ClientTypeOK, Sessions, Pcs
<1>2. LinkTypeOK'
  BY DEF Boot, linkVars, LinkTypeOK
<1>3. ServerTypeOK'
  BY DEF Boot, ServerTypeOK, serverVars
<1>4. OutcomeInv'
  BY DEF Boot, OutcomeInv
<1>5. TableInv'
  BY DEF Boot, serverVars, TableInv
<1>6. ServerInv'
  BY DEF Boot, serverVars, linkVars, ServerInv, ClientTypeOK, Sessions
<1>7. LinkInv'
  BY BoundsAssumption DEF Boot, linkVars, LinkInv, ClientTypeOK, ServerInv, Sessions
<1>8. TxInv'
  BY BoundsAssumption DEF Boot, serverVars, TxInv, ClientTypeOK, ServerInv, Sessions
<1>9. TextInv'
  BY DEF Boot, TextInv, EmptyTextMeansRefused
<1>10. OnlyReturnedResultsPileUp'
  <2>1. pc' = "idle" /\ results' = 0 /\ call' = call /\ bootCall' = call
    BY DEF Boot
  <2>2. results' = call' - bootCall' - 0
    BY <2>1 DEF ClientTypeOK
  <2>. QED
    BY <2>1, <2>2 DEF OnlyReturnedResultsPileUp
<1>. QED
  BY <1>1, <1>2, <1>3, <1>4, <1>5, <1>6, <1>7, <1>8, <1>9, <1>10

-----------------------------------------------------------------------------
(* The link and the server. *)

(* The link breaks. *)
LEMMA CutPreserves ==
  ASSUME IInv, NEW s \in Sessions, Cut(s)
  PROVE  IInv'
<1>. USE DEF IInv, TypeOK
<1>1. ClientTypeOK' /\ OutcomeInv' /\ TextInv' /\ OnlyReturnedResultsPileUp'
  BY ClientPartKept DEF Cut
<1>2. LinkTypeOK'
  <2>1. (request \in [Sessions -> Requests \cup {"none"}])'
    BY DEF Cut, LinkTypeOK
  <2>2. (reply \in [Sessions -> {"none", "ok", "refused", "aborted"}])'
    BY DEF Cut, LinkTypeOK
  <2>. QED
    BY <2>1, <2>2 DEF Cut, LinkTypeOK
<1>3. ServerTypeOK'
  BY DEF Cut, ServerTypeOK, serverVars
<1>4. TableInv'
  BY DEF Cut, clientVars, serverVars, TableInv
<1>5. ServerInv'
  <2>1. s = run /\ UNCHANGED <<run, pc, wire, call, outcome, tx, insert>>
    BY DEF Cut, clientVars, serverVars
  <2>2. ASSUME NEW q \in Sessions
        PROVE  /\ cut[q] => cut'[q]
               /\ cut'[q] => cut[q] \/ q = run
               /\ request'[q] \in {request[q], "none"}
               /\ reply'[q] \in {reply[q], "none"}
    BY <2>1 DEF Cut, LinkTypeOK
  <2>3. \A q \in Sessions : q > run => q # run
    BY DEF Sessions, ClientTypeOK
  <2>. QED
    BY <2>1, <2>2, <2>3 DEF ServerInv
<1>6. LinkInv'
  BY DEF Cut, clientVars, serverVars, LinkInv, LinkTypeOK
<1>7. TxInv'
  BY DEF Cut, clientVars, serverVars, TxInv, LinkTypeOK
<1>. QED
  BY <1>1, <1>2, <1>3, <1>4, <1>5, <1>6, <1>7

(* The server opens a transaction, unless this one has failed. *)
LEMMA ServeBeginPreserves ==
  ASSUME IInv, NEW s \in Sessions, ServeBegin(s)
  PROVE  IInv'
<1>. USE DEF IInv, TypeOK
<1>1. ClientTypeOK' /\ OutcomeInv' /\ TextInv' /\ OnlyReturnedResultsPileUp'
  BY ClientPartKept DEF ServeBegin, Replies
<1>2. LinkTypeOK'
  BY DEF ServeBegin, Replies, LinkTypeOK
<1>3. ServerTypeOK'
  BY DEF ServeBegin, Replies, ServerTypeOK
<1>4. TableInv'
  BY DEF ServeBegin, clientVars, Replies, TableInv
<1>5. ServerInv'
  BY DEF ServeBegin, clientVars, Replies, ServerInv, LinkTypeOK
<1>6. LinkInv'
  BY DEF ServeBegin, clientVars, Replies, LinkInv
<1>7. TxInv'
  BY DEF ServeBegin, clientVars, Replies, TxInv, ServerTypeOK, LinkInv, Sends
<1>. QED
  BY <1>1, <1>2, <1>3, <1>4, <1>5, <1>6, <1>7

(* The statement is always run inside a transaction. *)
LEMMA ServeInsertPreserves ==
  ASSUME IInv, NEW s \in Sessions, ServeInsert(s)
  PROVE  IInv'
<1>. USE DEF IInv, TypeOK
<1>1. ClientTypeOK' /\ OutcomeInv' /\ TextInv' /\ OnlyReturnedResultsPileUp'
  BY ClientPartKept DEF ServeInsert, Replies
<1>2. LinkTypeOK'
  BY DEF ServeInsert, Replies, LinkTypeOK
<1>3. ServerTypeOK'
  <2>1. tx' \in {tx, [tx EXCEPT ![s] = "aborted"]}
    BY DEF ServeInsert
  <2>2. insert' \in {insert, [insert EXCEPT ![s] = current[s]], [insert EXCEPT ![s] = 0]}
    BY DEF ServeInsert
  <2>3. (insert \in [Sessions -> 0..MaxCalls])'
    BY <2>2, BoundsAssumption DEF ServerTypeOK
  <2>4. UNCHANGED <<current, table>>
    BY DEF ServeInsert, Replies, ServerInv
  <2>. QED
    BY <2>1, <2>3, <2>4 DEF ServerTypeOK
<1>4. TableInv'
  BY DEF ServeInsert, clientVars, Replies, TableInv, ServerInv
<1>5. ServerInv'
  BY DEF ServeInsert, clientVars, Replies, ServerInv, LinkTypeOK
<1>6. LinkInv'
  BY DEF ServeInsert, clientVars, Replies, LinkInv
<1>7. TxInv'
  BY DEF ServeInsert, clientVars, Replies, TxInv, ServerTypeOK, ServerInv, LinkInv, Sends
<1>. QED
  BY <1>1, <1>2, <1>3, <1>4, <1>5, <1>6, <1>7

(* The row is committed while its caller waits for END, or has lost track of it. *)
LEMMA ServeEndPreserves ==
  ASSUME IInv, NEW s \in Sessions, ServeEnd(s)
  PROVE  IInv'
<1>. USE DEF IInv, TypeOK
<1>1. ClientTypeOK' /\ OutcomeInv' /\ TextInv' /\ OnlyReturnedResultsPileUp'
  BY ClientPartKept DEF ServeEnd, Replies
<1>2. LinkTypeOK'
  BY DEF ServeEnd, Replies, LinkTypeOK
<1>3. ServerTypeOK'
  <2>1. (tx \in [Sessions -> {"idle", "open", "aborted", "gone"}])'
    BY DEF ServeEnd, ServerTypeOK
  <2>2. (insert \in [Sessions -> 0..MaxCalls])'
    BY BoundsAssumption DEF ServeEnd, ServerTypeOK
  <2>3. (current \in [Sessions -> 0..MaxCalls])'
    BY DEF ServeEnd, Replies, ServerTypeOK
  <2>4. insert[s] = 0 \/ insert[s] \in Calls
    BY DEF Calls, ServerTypeOK
  <2>5. table' \in SUBSET Calls
    BY <2>4 DEF ServeEnd, ServerTypeOK
  <2>. QED
    BY <2>1, <2>2, <2>3, <2>5 DEF ServerTypeOK
<1>4. TableInv'
  <2>1. UNCHANGED <<outcome, call, pc, wire>>
    BY DEF ServeEnd, Replies, clientVars
  <2>2. CASE insert[s] = 0
    BY <2>1, <2>2 DEF ServeEnd, TableInv
  <2>3. CASE insert[s] # 0
    <3>1. table' = table \cup {insert[s]} /\ request[s] = "END"
      BY <2>3 DEF ServeEnd
    <3>2. \/ outcome[insert[s]] = "doubtful"
          \/ pc = "end" /\ wire = "sent" /\ insert[s] = call
      BY <2>3, <3>1 DEF ServerInv
    <3>3. pc = "end" => call \in Calls /\ outcome[call] = "open"
      BY DEF OutcomeInv
    <3>. QED
      BY <2>1, <3>1, <3>2, <3>3 DEF TableInv, OutcomeInv
  <2>. QED
    BY <2>2, <2>3
<1>5. ServerInv'
  BY DEF ServeEnd, clientVars, Replies, ServerInv, LinkTypeOK
<1>6. LinkInv'
  BY DEF ServeEnd, clientVars, Replies, LinkInv
<1>7. TxInv'
  BY DEF ServeEnd, clientVars, Replies, TxInv, LinkTypeOK, ServerTypeOK, OutcomeInv,
     LinkInv, Calls, Errors, Sends
<1>. QED
  BY <1>1, <1>2, <1>3, <1>4, <1>5, <1>6, <1>7

(* A backend rolls back for a client that is gone. *)
LEMMA HangupPreserves ==
  ASSUME IInv, NEW s \in Sessions, Hangup(s)
  PROVE  IInv'
<1>. USE DEF IInv, TypeOK
<1>1. ClientTypeOK' /\ OutcomeInv' /\ TextInv' /\ OnlyReturnedResultsPileUp'
  BY ClientPartKept DEF Hangup
<1>2. LinkTypeOK'
  BY DEF Hangup, linkVars, LinkTypeOK
<1>3. ServerTypeOK'
  <2>1. (insert \in [Sessions -> 0..MaxCalls])'
    BY BoundsAssumption DEF Hangup, ServerTypeOK
  <2>. QED
    BY <2>1 DEF Hangup, ServerTypeOK
<1>4. TableInv'
  BY DEF Hangup, clientVars, TableInv
<1>5. ServerInv'
  BY DEF Hangup, clientVars, linkVars, ServerInv
<1>6. LinkInv'
  BY DEF Hangup, clientVars, linkVars, LinkInv
<1>7. TxInv'
  BY DEF Hangup, clientVars, linkVars, TxInv
<1>. QED
  BY <1>1, <1>2, <1>3, <1>4, <1>5, <1>6, <1>7

-----------------------------------------------------------------------------
(* Every step preserves the invariant. *)
LEMMA NextPreserves ==
  IInv /\ [Next]_vars => IInv'
<1>. SUFFICES ASSUME IInv, [Next]_vars
     PROVE  IInv'
  OBVIOUS
<1>1. CASE \E sql \in Statements : Execute(sql)
  BY <1>1, ExecutePreserves
<1>2. CASE ClientStep
  BY <1>2, PQexecSendsPreserves, BeginReturnsPreserves, BeginThrowsPreserves,
     InsertSucceedsPreserves, InsertFailsPreserves, EndReturnsPreserves,
     EndThrowsPreserves, RefusalThrowsPreserves DEF ClientStep
<1>3. CASE Kill
  BY <1>3, KillPreserves
<1>4. CASE Boot
  BY <1>4, BootPreserves
<1>5. CASE \E s \in Sessions : Cut(s) \/ Serve(s) \/ Hangup(s)
  BY <1>5, CutPreserves, ServeBeginPreserves, ServeInsertPreserves, ServeEndPreserves,
     HangupPreserves DEF Serve
<1>6. CASE UNCHANGED vars
  <2>1. UNCHANGED <<clientVars, linkVars, serverVars>>
    BY <1>6 DEF vars
  <2>2. LinkTypeOK' /\ ServerTypeOK'
    BY <2>1 DEF IInv, TypeOK, LinkTypeOK, ServerTypeOK, linkVars, serverVars
  <2>3. TableInv' /\ ServerInv' /\ LinkInv' /\ TxInv'
    BY <2>1 DEF IInv, TableInv, ServerInv, LinkInv, TxInv, clientVars, linkVars, serverVars
  <2>. QED
    BY <2>1, <2>2, <2>3, ClientPartKept DEF IInv, TypeOK
<1>. QED
  BY <1>1, <1>2, <1>3, <1>4, <1>5, <1>6 DEF Next

(* The inductive invariant of psqlConnection, its link and its backends. *)
THEOREM Invariance == Spec => []IInv
BY InitInvariant, NextPreserves, PTL DEF Spec

(* Every variable keeps its type. *)
THEOREM TypeCorrect == Spec => []TypeOK
<1>1. IInv => TypeOK
  BY DEF IInv
<1>. QED
  BY <1>1, Invariance, PTL

(* A call of execute that returned has its row, one that failed never will. *)
THEOREM PromiseKept == Spec => []Promise
<1>1. IInv => Promise
  BY DEF IInv, TableInv, Promise, T!Promise
<1>. QED
  BY <1>1, Invariance, PTL

(* What the server said of a refused statement is never in the psql_error. *)
THEOREM RefusedMeansEmptyText == Spec => []EmptyTextMeansRefused
<1>1. IInv => EmptyTextMeansRefused
  BY DEF IInv, TextInv
<1>. QED
  BY <1>1, Invariance, PTL

(* execute() leaks the results it returns and no others. *)
THEOREM ResultsPileUp == Spec => []OnlyReturnedResultsPileUp
<1>1. IInv => OnlyReturnedResultsPileUp
  BY DEF IInv
<1>. QED
  BY <1>1, Invariance, PTL

-----------------------------------------------------------------------------
(* The run that ends gives the call under way its verdict, as Close does. *)
LEMMA RunEndsRefines ==
  ASSUME IInv, RunEnds
  PROVE  [T!Next]_(T!vars)
<1>1. UNCHANGED table
  BY DEF RunEnds, serverVars
<1>2. CASE pc = "idle"
  BY <1>1, <1>2 DEF RunEnds, T!vars
<1>3. CASE pc # "idle" /\ Verdict = "doubtful"
  <2>1. call \in Calls /\ outcome[call] = "open"
    BY <1>3, RunEndsOutcome
  <2>2. T!LoseTrack(call)
    BY <1>1, <1>3, <2>1 DEF RunEnds, T!LoseTrack, T!Become
  <2>. QED
    BY <2>1, <2>2 DEF T!Next, T!Close
<1>4. CASE pc # "idle" /\ Verdict = "failed"
  <2>1. call \in Calls /\ outcome[call] = "open"
    BY <1>4, RunEndsOutcome
  <2>2. call \notin table
    BY <1>4, <2>1 DEF IInv, TableInv, Verdict
  <2>3. T!Fail(call)
    BY <1>1, <1>4, <2>1, <2>2 DEF RunEnds, T!Fail, T!Become
  <2>. QED
    BY <2>1, <2>3 DEF T!Next, T!Close
<1>. QED
  BY <1>2, <1>3, <1>4 DEF Verdict

(* What the server does is a commit or nothing. *)
LEMMA ServerRefines ==
  ASSUME IInv, NEW s \in Sessions, Serve(s)
  PROVE  [T!Next]_(T!vars)
<1>. USE DEF IInv, TypeOK
<1>1. UNCHANGED outcome
  BY DEF Serve, ServeBegin, ServeInsert, ServeEnd, Replies, clientVars
<1>2. CASE ServeBegin(s)
  BY <1>1, <1>2 DEF ServeBegin, T!vars
<1>3. CASE ServeInsert(s)
  <2>1. tx[s] = "open"
    BY <1>3 DEF ServeInsert, ServerInv
  <2>. QED
    BY <1>1, <1>3, <2>1 DEF ServeInsert, T!vars
<1>4. CASE ServeEnd(s) /\ insert[s] = 0
  BY <1>1, <1>4 DEF ServeEnd, T!vars
<1>5. CASE ServeEnd(s) /\ insert[s] # 0
  <2>1. insert[s] \in Calls
    BY <1>5 DEF ServerTypeOK, Calls
  <2>2. outcome[insert[s]] \in {"open", "doubtful"}
    BY <1>5 DEF ServeEnd, ServerInv, OutcomeInv
  <2>3. T!Commit(insert[s])
    BY <1>1, <1>5, <2>2 DEF ServeEnd, T!Commit
  <2>. QED
    BY <2>1, <2>3 DEF T!Next
<1>. QED
  BY <1>2, <1>3, <1>4, <1>5 DEF Serve

(* Every step of Psql is one of Transaction, or none. *)
LEMMA StepRefines ==
  IInv /\ [Next]_vars => [T!Next]_(T!vars)
<1>. SUFFICES ASSUME IInv, [Next]_vars
     PROVE  [T!Next]_(T!vars)
  OBVIOUS
<1>1. CASE \E sql \in Statements : Execute(sql)
  <2>1. PICK sql \in Statements : Execute(sql)
    BY <1>1
  <2>2. call + 1 \in Calls
    BY <2>1, BoundsAssumption DEF Execute, Calls, IInv, TypeOK, ClientTypeOK
  <2>3. outcome[call + 1] = "new" /\ \A d \in Calls : outcome[d] # "open"
    BY <2>1, <2>2 DEF Execute, Calls, IInv, TypeOK, ClientTypeOK, OutcomeInv
  <2>4. T!Open(call + 1)
    BY <2>1, <2>3 DEF Execute, T!Open, T!Become
  <2>. QED
    BY <2>2, <2>4 DEF T!Next
<1>2. CASE PQexecSends \/ BeginReturns \/ InsertSucceeds \/ InsertFails
  BY <1>2 DEF PQexecSends, BeginReturns, InsertSucceeds, InsertFails, serverVars, T!vars
<1>3. CASE BeginThrows \/ EndThrows \/ RefusalThrows \/ Kill
  <2>1. RunEnds
    <3>1. CASE BeginThrows
      BY <3>1, ThrowEndsRun DEF BeginThrows, Errors
    <3>2. CASE EndThrows
      BY <3>2, ThrowEndsRun DEF EndThrows, Errors
    <3>3. CASE RefusalThrows
      <4>1. message \in Errors \cup {"empty"}
        BY DEF IInv, TypeOK, ClientTypeOK
      <4>. QED
        BY <3>3, <4>1, ThrowEndsRun DEF RefusalThrows
    <3>4. CASE Kill
      BY <3>4 DEF Kill, RunEnds, Verdict
    <3>. QED
      BY <1>3, <3>1, <3>2, <3>3, <3>4
  <2>. QED
    BY <2>1, RunEndsRefines
<1>4. CASE EndReturns
  <2>1. call \in Calls /\ outcome[call] = "open" /\ call \in table
    BY <1>4 DEF EndReturns, PQexecReturns, IInv, OutcomeInv, TxInv
  <2>2. T!Return(call)
    BY <1>4, <2>1 DEF EndReturns, serverVars, T!Return, T!Become
  <2>. QED
    BY <2>1, <2>2 DEF T!Next, T!Close
<1>5. CASE Boot
  BY <1>5 DEF Boot, serverVars, T!vars
<1>6. CASE \E s \in Sessions : Cut(s) \/ Serve(s) \/ Hangup(s)
  <2>1. PICK s \in Sessions : Cut(s) \/ Serve(s) \/ Hangup(s)
    BY <1>6
  <2>2. CASE Cut(s) \/ Hangup(s)
    BY <2>2 DEF Cut, Hangup, clientVars, serverVars, T!vars
  <2>3. CASE Serve(s)
    BY <2>3, ServerRefines
  <2>. QED
    BY <2>1, <2>2, <2>3
<1>7. CASE UNCHANGED vars
  BY <1>7 DEF vars, clientVars, serverVars, T!vars
<1>. QED
  BY <1>1, <1>2, <1>3, <1>4, <1>5, <1>6, <1>7 DEF Next, ClientStep

(***************************************************************************)
(* execute(), its link and its backends do what Transaction allows and     *)
(* nothing else: psqlConnection keeps its promise across lost connections, *)
(* kills and restarts.                                                     *)
(***************************************************************************)
THEOREM ImplementsTransaction == Spec => T!SafeSpec
<1>1. Init => T!Init
  BY DEF Init, T!Init
<1>. QED
  BY <1>1, StepRefines, Invariance, PTL DEF Spec, T!SafeSpec

-----------------------------------------------------------------------------
(* What the statements are, and what the server takes of them. *)


(* No session has been given a statement. *)
LEMMA InitRowsInv == Init => RowsInv
<1>. SUFFICES ASSUME Init PROVE RowsInv
  OBVIOUS
<1>. QED
  BY BoundsAssumption DEF Init, RowsInv

(* Each step of execute(), of the link and of the server. *)
LEMMA RowsPreserved == IInv /\ RowsInv /\ [Next]_vars => RowsInv'
<1>. SUFFICES ASSUME IInv, RowsInv, [Next]_vars PROVE RowsInv'
  OBVIOUS
<1>0. /\ call \in 0..MaxCalls /\ call \in Nat /\ run \in Sessions
      /\ request \in [Sessions -> Requests \cup {"none"}]
      /\ current \in [Sessions -> 0..MaxCalls]
      /\ insert \in [Sessions -> 0..MaxCalls]
      /\ stmt \in [1..call -> Statements]
  BY BoundsAssumption DEF IInv, TypeOK, ClientTypeOK, LinkTypeOK, ServerTypeOK
<1>1. ASSUME NEW sql \in Statements, Execute(sql) PROVE RowsInv'
  <2>1. call' = call + 1 /\ current' = [current EXCEPT ![run] = call + 1]
    BY <1>1 DEF Execute
  <2>2. \A c \in 1..call : stmt'[c] = stmt[c]
    <3>1. stmt' = [c \in 1..call + 1 |-> IF c = call + 1 THEN sql ELSE stmt[c]]
      BY <1>1, <2>1 DEF Execute
    <3>. QED
      BY <1>0, <3>1
  <2>3. UNCHANGED <<request, insert, table>>
    BY <1>1 DEF Execute, linkVars
  <2>. QED
    BY <1>0, <2>1, <2>2, <2>3 DEF RowsInv
<1>2. CASE PQexecSends
  <2>1. UNCHANGED <<call, stmt, current, insert, table>>
    BY <1>2 DEF PQexecSends, serverVars
  <2>2. current[run] = call /\ call # 0
    BY <1>2 DEF PQexecSends, Sends, IInv, LinkInv, OutcomeInv, Calls
  <2>3. request' = request \/ request' = [request EXCEPT ![run] = Sends[pc]]
    BY <1>2 DEF PQexecSends
  <2>. QED
    BY <1>0, <2>1, <2>2, <2>3 DEF RowsInv
<1>3. CASE (BeginReturns \/ BeginThrows \/ InsertSucceeds \/ InsertFails \/ EndReturns
             \/ EndThrows \/ RefusalThrows)
  <2>1. UNCHANGED <<call, stmt, current, insert, table, request>>
    BY <1>3 DEF BeginReturns, BeginThrows, InsertSucceeds, InsertFails, EndReturns,
         EndThrows, RefusalThrows, Throw, serverVars
  <2>. QED
    BY <2>1 DEF RowsInv
<1>4. ASSUME Kill \/ Boot \/ \E s \in Sessions : Cut(s) PROVE RowsInv'
  <2>1. UNCHANGED <<call, stmt, current, insert, table>>
    BY <1>4 DEF Kill, Boot, Cut, serverVars, clientVars
  <2>2. \A s \in Sessions : request'[s] # "none" => request[s] # "none"
    BY <1>0, <1>4 DEF Kill, Boot, Cut, linkVars
  <2>. QED
    BY <2>1, <2>2 DEF RowsInv
<1>5. ASSUME NEW s \in Sessions, ServeBegin(s) \/ ServeInsert(s) \/ ServeEnd(s)
      PROVE  RowsInv'
  <2>1. UNCHANGED <<call, stmt, current>> /\ request' = [request EXCEPT ![s] = "none"]
    BY <1>5 DEF ServeBegin, ServeInsert, ServeEnd, Replies, clientVars
  <2>2. CASE ServeBegin(s)
    BY <1>0, <2>1, <2>2 DEF ServeBegin, RowsInv
  <2>3. CASE ServeInsert(s)
    <3>1. current[s] \in 1..call
      BY <1>0, <2>3 DEF ServeInsert, RowsInv
    <3>2. /\ \/ insert' = insert
             \/ insert' = [insert EXCEPT ![s] = 0]
             \/ insert' = [insert EXCEPT ![s] = current[s]] /\ stmt[current[s]] \in Accepted
          /\ \/ table' = table
             \/ table' = table \cup {current[s]} /\ stmt[current[s]] \in Accepted
      BY <2>3 DEF ServeInsert
    <3>. QED
      BY <1>0, <2>1, <3>1, <3>2 DEF RowsInv
  <2>4. CASE ServeEnd(s)
    <3>1. /\ insert' = [insert EXCEPT ![s] = 0]
          /\ table' = IF insert[s] = 0 THEN table ELSE table \cup {insert[s]}
      BY <2>4 DEF ServeEnd
    <3>. QED
      BY <1>0, <2>1, <3>1 DEF RowsInv
  <2>. QED
    BY <1>5, <2>2, <2>3, <2>4
<1>6. ASSUME NEW s \in Sessions, Hangup(s) PROVE RowsInv'
  <2>1. UNCHANGED <<call, stmt, current, table, request>> /\ insert' = [insert EXCEPT ![s] = 0]
    BY <1>6 DEF Hangup, clientVars, linkVars
  <2>. QED
    BY <1>0, <2>1 DEF RowsInv
<1>7. CASE UNCHANGED vars
  BY <1>7 DEF vars, clientVars, linkVars, serverVars, RowsInv
<1>. QED
  BY <1>1, <1>2, <1>3, <1>4, <1>5, <1>6, <1>7 DEF Next, ClientStep, Serve

(* The inductive invariant of the rows, on top of that of Psql. *)
THEOREM RowsInvariance == Spec => []RowsInv
BY InitRowsInv, RowsPreserved, Invariance, PTL DEF Spec

-----------------------------------------------------------------------------
(* The conversions, over all the values a packet may hold. *)

(* What the two types of a field hold. *)
LEMMA IntegerTypes ==
  /\ \A n \in UInt16 : n \in Nat /\ n <= 65535
  /\ \A n \in Int16 : n \in Int /\ -32768 <= n /\ n <= 32767
BY SMT DEF UInt16, Int16

(* The numbers behind the names. *)
LEMMA WordFacts ==
  /\ Word \in Nat /\ Word \div 2 \in Nat /\ Word = Word \div 2 + Word \div 2
  /\ \A n \in Int16 : -(Word \div 2) <= n /\ n < Word \div 2
BY SMT DEF Word, Int16

(* Remainders next to 0. *)
LEMMA Remainder ==
  ASSUME NEW w \in Nat, NEW n \in Int, -w <= n, n < w
  PROVE  n % w = IF n < 0 THEN n + w ELSE n
BY SMT

(* A temperature that passes through a uint16_t comes back whole. *)
LEMMA TemperatureRoundTrip ==
  ASSUME NEW n \in Int16
  PROVE  AsInt16(n) = n /\ AsInt16(AsUint16(n)) = n
<1>. DEFINE half == Word \div 2
<1>1. n \in Int /\ half \in Nat /\ Word \in Nat /\ Word = half + half /\ -half <= n /\ n < half
  BY WordFacts, IntegerTypes
<1>. HIDE DEF half
<1>2. /\ -Word <= n /\ n < Word
      /\ n + half \in Int /\ -Word <= n + half /\ n + half < Word /\ ~(n + half < 0)
  BY <1>1
<1>3. AsUint16(n) = IF n < 0 THEN n + Word ELSE n
  BY <1>1, <1>2, Remainder DEF AsUint16
<1>4. (n + half) % Word = n + half
  BY <1>1, <1>2, Remainder
<1>5. AsInt16(n) = n
  BY <1>1, <1>4 DEF AsInt16, half
<1>6. CASE n < 0
  <2>1. (n + Word + half) % Word = n + half
    BY <1>1, <1>6, SMT
  <2>. QED
    BY <1>1, <1>3, <1>5, <1>6, <2>1 DEF AsInt16, half
<1>7. CASE ~(n < 0)
  BY <1>3, <1>5, <1>7
<1>. QED
  BY <1>5, <1>6, <1>7

(* The clamp is of the humidity that the dew point saw unclamped. *)
LEMMA DewPointFacts ==
  ASSUME NEW p \in WeatherPacket
  PROVE  /\ DewPoint(p).is \in {"nan", "above", "atMost"}
         /\ DewPoint(p).than = p.rawTemperature
         /\ DewPoint(p).is = "nan" <=> ComputeHumidity(p.rawHumidity) <= 0
         /\ DewPoint(p).is # "nan" => Humidity(p) \in 1 .. 100 * Percent
         /\ DewPoint(p).is = "above" => Humidity(p) = 100 * Percent
<1>. DEFINE h == ComputeHumidity(p.rawHumidity)
            top == 100 * Percent
<1>0. p.rawHumidity \in UInt16 /\ p.rawTemperature \in Int16
  BY DEF WeatherPacket
<1>1. h \in Int /\ top \in Int /\ top > 0
  BY <1>0, IntegerTypes, SMT DEF ComputeHumidity, Percent
<1>2. ComputeTemperature(AsUint16(p.rawTemperature)) = p.rawTemperature
  BY <1>0, TemperatureRoundTrip DEF ComputeTemperature
<1>3. DewPoint(p) =
        [is   |-> IF h <= 0 THEN "nan" ELSE IF h > top THEN "above" ELSE "atMost",
         than |-> p.rawTemperature]
  BY <1>2 DEF DewPoint
<1>4. Humidity(p) = IF h < 0 THEN 0 ELSE IF h > top THEN top ELSE h
  BY DEF Humidity
<1>. HIDE DEF h, top
<1>5. /\ DewPoint(p).is \in {"nan", "above", "atMost"}
      /\ DewPoint(p).than = p.rawTemperature
      /\ DewPoint(p).is = "nan" <=> h <= 0
      /\ DewPoint(p).is # "nan" => Humidity(p) \in 1 .. top
      /\ DewPoint(p).is = "above" => Humidity(p) = top
  BY <1>1, <1>3, <1>4, SMT
<1>. QED
  BY <1>5 DEF h, top

(* The wind speed, a product of two numbers that are not given. *)
LEMMA WindspeedIsBounded ==
  ASSUME NEW w \in Nat, w <= 65535
  PROVE  0 <= w * AnemometerFactor /\ w * AnemometerFactor <= 983025000
<1>1. AnemometerFactor \in Nat /\ AnemometerFactor <= 15000
  BY SiteAssumption, FactorsAssumption
<1>2. 0 <= w * AnemometerFactor /\ w * AnemometerFactor <= 65535 * AnemometerFactor
  BY <1>1, SMT
<1>3. 65535 * AnemometerFactor <= 983025000
  BY <1>1, SMT
<1>. QED
  BY <1>1, <1>2, <1>3, SMT

(* Which packets make a row that does not fit. *)
LEMMA WeatherMisfits ==
  ASSUME NEW p \in WeatherPacket, ~WeatherRowFits(p)
  PROVE  p.rawICPPressure > 900000 \/ ComputeHumidity(p.rawHumidity) <= 0
<1>1. /\ p.rawHumidity \in UInt16 /\ p.rawTemperature \in Int16
      /\ p.rawICPPressure \in Nat /\ p.rawRainfall \in UInt16
      /\ p.rawWindspeed \in UInt16
  BY DEF WeatherPacket
<1>. DEFINE dry == ComputeHumidity(p.rawHumidity) <= 0
            high == p.rawICPPressure > 900000
            whole == Humidity(p) \div Percent
<1>2. FitsNumeric(ComputeTemperature(p.rawTemperature), 128, 1000)
  <2>1. ComputeTemperature(p.rawTemperature) = p.rawTemperature
    BY <1>1, TemperatureRoundTrip DEF ComputeTemperature
  <2>. QED
    BY <1>1, <2>1, IntegerTypes, SMT DEF FitsNumeric
<1>3. high \/ (FitsNumeric(ActualPressure(p), 100, 10000) /\ AdjustedPressureFits(p))
  BY <1>1, SiteAssumption, FactorsAssumption, SMT
     DEF FitsNumeric, ActualPressure, AdjustedPressureFits
<1>4. dry \/ FitsNumeric(whole, 1, 1000)
  <2>1. dry \/ (Humidity(p) \in Int /\ 0 <= Humidity(p) /\ Humidity(p) <= 1000000000)
    BY <1>1, IntegerTypes, SMT DEF Humidity, ComputeHumidity, Percent
  <2>2. \A h \in Int : 0 <= h /\ h <= 1000000000 => 0 <= h \div Percent /\ h \div Percent <= 100
    BY SMT DEF Percent
  <2>3. dry \/ (0 <= whole /\ whole <= 100 /\ whole \in Int)
    BY <2>1, <2>2, SMT DEF Percent
  <2>. HIDE DEF whole, dry
  <2>. QED
    BY <2>3, SMT DEF FitsNumeric
<1>5. FitsNumeric(Rainfall(p), 10000, 100000)
  BY <1>1, IntegerTypes, SMT DEF FitsNumeric, Rainfall
<1>6. FitsNumeric(Windspeed(p), 1000000, 1000)
  BY <1>1, IntegerTypes, WindspeedIsBounded, SiteAssumption, FactorsAssumption, SMT
     DEF FitsNumeric, Windspeed
<1>7. DewPoint(p).is = "nan" => dry
  BY DewPointFacts
<1>. HIDE DEF dry, high, whole
<1>8. high \/ dry
  BY <1>2, <1>3, <1>4, <1>5, <1>6, <1>7 DEF WeatherRowFits, whole
<1>. QED
  BY <1>8 DEF high, dry

(* The same for the telemetry row. *)
LEMMA TelemetryMisfits ==
  ASSUME NEW p \in WeatherPacket, ~TelemetryRowFits(p)
  PROVE  BatteryChargeRate(p) < -500000 \/ BatteryChargeRate(p) > 500000
<1>1. p.rawBatteryVolts \in UInt16 /\ p.rawBatteryChargeRate \in Int16
  BY DEF WeatherPacket
<1>2. FitsNumeric(BatteryVoltage(p), 8000000, 10)
  BY <1>1, IntegerTypes, SMT DEF FitsNumeric, BatteryVoltage
<1>3. ~FitsNumeric(BatteryChargeRate(p), 1000, 1000)
  BY <1>2, SMT DEF TelemetryRowFits
<1>. QED
  BY <1>1, <1>3, IntegerTypes, SMT DEF FitsNumeric, BatteryChargeRate

-----------------------------------------------------------------------------

(***************************************************************************)
(* DBUpdateThread dies of a refused row only over a packet beyond what a   *)
(* working station sends, or so dry that the dew point is not a number.    *)
(***************************************************************************)
THEOREM RefusedAreExtreme == Spec => []OnlyExtremesAreRefused
<1>1. IInv => OnlyExtremesAreRefused
  <2>. SUFFICES ASSUME IInv, thrown = "empty"
         PROVE  LET p == stmt[call][2]
                IN  \/ p.rawICPPressure > 900000
                    \/ BatteryChargeRate(p) < -500000 \/ BatteryChargeRate(p) > 500000
                    \/ ComputeHumidity(p.rawHumidity) <= 0
    BY DEF OnlyExtremesAreRefused
  <2>1. pc = "dead" /\ stmt[call] \notin Accepted
    BY DEF IInv, TextInv, EmptyTextMeansRefused
  <2>2. stmt[call] \in Statements
    <3>1. call \in 1..call
      BY BoundsAssumption DEF IInv, TypeOK, ClientTypeOK, TextInv
    <3>. QED
      BY <3>1 DEF IInv, TypeOK, ClientTypeOK
  <2>3. stmt[call] \in Statement /\ ~RowFits(stmt[call])
    BY <2>1, <2>2, RowsAssumption
  <2>4. stmt[call][2] \in WeatherPacket
    BY <2>3 DEF Statement
  <2>. QED
    BY <2>3, <2>4, WeatherMisfits, TelemetryMisfits DEF RowFits
<1>. QED
  BY <1>1, Invariance, PTL

(***************************************************************************)
(* Whatever is sent and whatever fails, a stored humidity is a percentage  *)
(* and a stored dew point is at most the temperature, but for saturation.  *)
(***************************************************************************)
THEOREM StoredRowsAreRight == Spec => []StoredRowsAreSound
<1>1. IInv /\ RowsInv => StoredRowsAreSound
  <2>. SUFFICES ASSUME RowsInv, NEW c \in table, stmt[c][1] = "weather_data"
         PROVE  LET p == stmt[c][2]
                IN  /\ Humidity(p) \in 1 .. 100 * Percent
                    /\ DewPoint(p).than = p.rawTemperature
                    /\ DewPoint(p).is = "above" => Humidity(p) = 100 * Percent
    BY DEF StoredRowsAreSound
  <2>1. stmt[c] \in Statement /\ RowFits(stmt[c])
    BY RowsAssumption DEF RowsInv
  <2>2. stmt[c][2] \in WeatherPacket /\ WeatherRowFits(stmt[c][2])
    BY <2>1 DEF RowFits, Statement
  <2>. QED
    BY <2>2, DewPointFacts DEF WeatherRowFits
<1>. QED
  BY <1>1, Invariance, RowsInvariance, PTL
=============================================================================
