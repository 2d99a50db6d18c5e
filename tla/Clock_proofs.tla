---------------------------- MODULE Clock_proofs -----------------------------
(***************************************************************************)
(* Proofs about the threads that share struct tm and the string of         *)
(* utils.cpp: for a day of any length, any distance to UTC and any time,   *)
(* the mutex protects what it can, and the rest is not far off.            *)
(***************************************************************************)
EXTENDS Clock, TLAPS

(* What the C library makes of a time is an hour and a minute. *)
LEMMA BrokenDownType ==
  ASSUME NEW n \in Nat, NEW h \in Nat
  PROVE  BrokenDown(n, h) \in Fields /\ BrokenDown(n, h).minute = n % Minutes
<1>1. n \div Minutes \in Nat
  BY DayAssumption
<1>2. (n \div Minutes + h) % Hours \in 0..Hours - 1
  BY <1>1, DayAssumption
<1>3. n % Minutes \in 0..Minutes - 1
  BY DayAssumption
<1>. QED
  BY <1>2, <1>3 DEF BrokenDown, Fields

(* An answer is somebody's local time or UTC. *)
LEMMA AnswerFacts ==
  ASSUME NEW t \in Threads, NEW n \in Nat
  PROVE  /\ Answer(t, n) \in Fields
         /\ Answer(t, n).minute = n % Minutes
         /\ HourOf(n, Answer(t, n).hour)
<1>1. 0 \in Nat /\ Offset \in Nat
  BY DayAssumption
<1>. QED
  BY <1>1, BrokenDownType DEF Answer, HourOf, Local, UTC

(* An answer depends on what is called and when, on nothing shared. *)
LEMMA AnswerKept ==
  ASSUME NEW t, NEW n, call'[t] = call[t]
  PROVE  Answer(t, n)' = Answer(t, n)
BY DEF Answer

(* At the start nobody is asking. *)
LEMMA InitIInv == Init => IInv
<1>. SUFFICES ASSUME Init PROVE IInv
  OBVIOUS
<1>1. Local(0) \in Fields
  BY BrokenDownType, DayAssumption DEF Local
<1>2. TypeOK
  <2>1. /\ now \in 0..MaxNow /\ began \in [Threads -> 0..MaxNow]
        /\ tm \in Fields /\ ts \in Fields /\ seen \in [Threads -> Fields]
    BY <1>1, MaxNowAssumption DEF Init
  <2>2. call \in [Threads -> {"stamp", "clock", "encode"}]
    BY DEF Init
  <2>3. /\ pc \in [Threads -> Pcs] /\ disturbed \in [Threads -> BOOLEAN]
        /\ isSummaryDone \in BOOLEAN
    BY DEF Init, Pcs
  <2>4. /\ \A t \in Threads : (mutex = t) <=> (call[t] = "stamp" /\ pc[t] \in Locked)
        /\ mutex \in {"log", "db", "free"} /\ library \in Threads \cup {"free"}
    BY DEF Init, Threads, Locked
  <2>. QED
    BY <2>1, <2>2, <2>3, <2>4 DEF TypeOK
<1>3. LockInv /\ PaceInv /\ AnswerInv /\ OrderInv /\ RecentInv
  BY DEF Init, LockInv, PaceInv, AnswerInv, OrderInv, RecentInv, Threads
<1>. QED
  BY <1>2, <1>3 DEF IInv

-----------------------------------------------------------------------------
(* Every step keeps the types, and the mutex its one holder. *)
LEMMA TypePreserved == IInv /\ [Next]_vars => TypeOK'
<1>. SUFFICES ASSUME IInv, [Next]_vars PROVE TypeOK'
  OBVIOUS
<1>1. CASE Tick
  BY <1>1, MaxNowAssumption DEF IInv, TypeOK, Tick
<1>2. ASSUME NEW t \in Threads, Step(t) PROVE TypeOK'
  <2>1. Answer(t, began[t]) \in Fields /\ Local(0) \in Fields
    BY AnswerFacts, BrokenDownType, MaxNowAssumption, DayAssumption DEF IInv, TypeOK, Local
  <2>. USE DEF IInv, TypeOK, Goto, Pcs, Fields, Locked
  <2>2. CASE Enter(t)
    <3>1. t \in {"log", "db"} \/ call[t] # "stamp"
      BY DEF LockInv, Threads
    <3>2. \A u \in Threads : (mutex = u) <=> (call[u] = "stamp" /\ pc[u] \in Locked)
      OBVIOUS
    <3>3. (\A u \in Threads : (mutex = u) <=> (call[u] = "stamp" /\ pc[u] \in Locked))'
      <4>1. "free" \notin Threads /\ call' = call
        BY <2>2 DEF Enter, Threads
      <4>. QED
        BY <2>2, <3>2, <4>1 DEF Enter
    <3>. QED
      BY <2>2, <3>1, <3>3 DEF Enter
  <2>3. CASE StoreHour(t)
    BY <2>1, <2>3 DEF StoreHour, Disturb, ExposedToTm
  <2>4. CASE StoreMinute(t)
    BY <2>1, <2>4 DEF StoreMinute, Disturb, ExposedToTm
  <2>5. CASE LoadHour(t)
    BY <2>5 DEF LoadHour
  <2>6. CASE LoadMinute(t)
    BY <2>6 DEF LoadMinute
  <2>7. CASE AssignHour(t)
    BY <2>7 DEF AssignHour, Disturb, ExposedToTs
  <2>8. CASE AssignMinute(t)
    <3>1. mutex = t /\ mutex' = "free" /\ call' = call /\ "free" \notin Threads
      BY <2>8 DEF AssignMinute, LockInv, Threads
    <3>2. (\A u \in Threads : (mutex = u) <=> (call[u] = "stamp" /\ pc[u] \in Locked))'
      BY <2>8, <3>1 DEF AssignMinute
    <3>. QED
      BY <2>8, <3>2 DEF AssignMinute, Disturb, ExposedToTs
  <2>9. CASE CopyHour(t)
    BY <2>9 DEF CopyHour
  <2>10. CASE CopyMinute(t)
    BY <2>10 DEF CopyMinute
  <2>11. CASE Leave(t)
    <3>1. call' \in [Threads -> {"stamp", "clock", "encode"}]
      BY <2>11 DEF Leave
    <3>2. isSummaryDone' \in BOOLEAN
      BY <2>11 DEF Leave, WritesSummary
    <3>3. (\A u \in Threads : (mutex = u) <=> (call[u] = "stamp" /\ pc[u] \in Locked))'
      BY <2>11 DEF Leave
    <3>4. began' \in [Threads -> 0..MaxNow] /\ seen' \in [Threads -> Fields]
      BY <2>1, <2>11, MaxNowAssumption DEF Leave
    <3>. QED
      BY <2>11, <3>1, <3>2, <3>3, <3>4 DEF Leave
  <2>. QED
    BY <1>2, <2>2, <2>3, <2>4, <2>5, <2>6, <2>7, <2>8, <2>9, <2>10, <2>11 DEF Step
<1>3. CASE UNCHANGED vars
  BY <1>3 DEF IInv, TypeOK, vars
<1>. QED
  BY <1>1, <1>2, <1>3 DEF Next

(* One conversion at a time, and at most a minute for a call. *)
LEMMA LockPreserved == IInv /\ [Next]_vars => LockInv' /\ PaceInv'
<1>. SUFFICES ASSUME IInv, [Next]_vars PROVE LockInv' /\ PaceInv'
  OBVIOUS
<1>. USE DEF IInv, TypeOK, LockInv, PaceInv, Goto, Pcs
<1>1. CASE Tick
  BY <1>1, MaxNowAssumption DEF Tick
<1>2. ASSUME NEW t \in Threads, Step(t) PROVE LockInv' /\ PaceInv'
  <2>. USE DEF Threads
  <2>2. CASE Enter(t)
    BY <2>2 DEF Enter
  <2>3. CASE StoreHour(t)
    BY <2>3 DEF StoreHour
  <2>4. CASE StoreMinute(t)
    BY <2>4 DEF StoreMinute
  <2>5. CASE LoadHour(t) \/ LoadMinute(t)
    BY <2>5 DEF LoadHour, LoadMinute
  <2>6. CASE AssignHour(t) \/ AssignMinute(t)
    BY <2>6 DEF AssignHour, AssignMinute
  <2>7. CASE CopyHour(t) \/ CopyMinute(t)
    BY <2>7 DEF CopyHour, CopyMinute
  <2>8. CASE Leave(t)
    BY <2>8 DEF Leave
  <2>. QED
    BY <1>2, <2>2, <2>3, <2>4, <2>5, <2>6, <2>7, <2>8 DEF Step
<1>3. CASE UNCHANGED vars
  BY <1>3 DEF vars
<1>. QED
  BY <1>1, <1>2, <1>3 DEF Next

(* Who stores disturbs everyone else who relies on what was there. *)
LEMMA AnswerPreserved == IInv /\ [Next]_vars => AnswerInv'
<1>. SUFFICES ASSUME IInv, [Next]_vars PROVE AnswerInv'
  OBVIOUS
<1>. DEFINE A(u) == Answer(u, began[u])
<1>1. CASE Tick \/ UNCHANGED vars
  BY <1>1 DEF Tick, vars, IInv, AnswerInv, Answer
<1>2. ASSUME NEW t \in Threads, Step(t) PROVE AnswerInv'
  <2>. SUFFICES ASSUME NEW u \in Threads, ~disturbed'[u]
         PROVE (/\ pc[u] = "store" => tm.hour = A(u).hour
                /\ pc[u] = "hour" => tm = A(u)
                /\ pc[u] = "minute" => seen[u].hour = A(u).hour /\ tm.minute = A(u).minute
                /\ pc[u] = "assign" => seen[u] = A(u)
                /\ pc[u] = "assigning" => seen[u] = A(u) /\ ts.hour = A(u).hour
                /\ pc[u] = "copy" => ts = A(u)
                /\ pc[u] = "copying" => seen[u].hour = A(u).hour /\ ts.minute = A(u).minute
                /\ pc[u] = "back" => seen[u] = A(u))'
    BY DEF AnswerInv
  <2>1. A(u) \in Fields /\ tm \in Fields /\ ts \in Fields /\ seen[u] \in Fields
    BY AnswerFacts, MaxNowAssumption DEF IInv, TypeOK
  <2>2. ~disturbed[u] => 
          /\ pc[u] = "store" => tm.hour = A(u).hour
          /\ pc[u] = "hour" => tm = A(u)
          /\ pc[u] = "minute" => seen[u].hour = A(u).hour /\ tm.minute = A(u).minute
          /\ pc[u] = "assign" => seen[u] = A(u)
          /\ pc[u] = "assigning" => seen[u] = A(u) /\ ts.hour = A(u).hour
          /\ pc[u] = "copy" => ts = A(u)
          /\ pc[u] = "copying" => seen[u].hour = A(u).hour /\ ts.minute = A(u).minute
          /\ pc[u] = "back" => seen[u] = A(u)
    BY DEF IInv, AnswerInv
  <2>3. A(u)' = A(u) \/ pc'[u] \in {"out", "convert"}
    BY <1>2, AnswerKept DEF Step, Enter, StoreHour, StoreMinute, LoadHour, LoadMinute, AssignHour,
         AssignMinute, CopyHour, CopyMinute, Leave, Goto, IInv, TypeOK
  <2>4. (mutex = t /\ mutex = u) => t = u
    OBVIOUS
  <2>. HIDE DEF A
  <2>. USE <2>1, <2>2, <2>3 DEF Goto
  <2>5. CASE Enter(t)
    BY <2>5 DEF Enter, IInv, TypeOK
  <2>6. CASE StoreHour(t)
    <3>1. t # u => pc[u] \notin {"store", "hour", "minute"}
      <4>1. "free" \notin Threads /\ library = "free" /\ pc[t] = "convert"
        BY <2>6 DEF StoreHour, Threads
      <4>2. pc[u] # "store"
        BY <4>1 DEF IInv, LockInv
      <4>3. ~(u # t /\ u \in ExposedToTm(t))
        BY <2>6 DEF StoreHour, Disturb
      <4>4. pc[u] \in {"hour", "minute"} /\ u # t => call[t] = "stamp" /\ call[u] = "stamp"
        BY <4>3 DEF ExposedToTm
      <4>. QED
        BY <4>1, <4>2, <4>4 DEF IInv, TypeOK, Locked
    <3>2. tm'.hour = A(t).hour /\ tm' = [tm EXCEPT !.hour = A(t).hour]
      BY <2>6, <2>1 DEF StoreHour, A, Fields
    <3>. QED
      BY <2>6, <3>1, <3>2 DEF StoreHour, Disturb, IInv, TypeOK
  <2>7. CASE StoreMinute(t)
    <3>1. t # u => pc[u] \notin {"store", "hour", "minute"}
      BY <2>7 DEF StoreMinute, Disturb, ExposedToTm, IInv, TypeOK, LockInv, Locked
    <3>2. tm' = [tm EXCEPT !.minute = A(t).minute]
      BY <2>7 DEF StoreMinute, A
    <3>3. ~disturbed[u] /\ t = u => tm' = A(u)
      BY <2>7, <3>2 DEF StoreMinute, Fields
    <3>. QED
      BY <2>7, <3>1, <3>3 DEF StoreMinute, Disturb, IInv, TypeOK
  <2>8. CASE LoadHour(t)
    BY <2>8 DEF LoadHour, IInv, TypeOK, Fields
  <2>9. CASE LoadMinute(t)
    BY <2>9 DEF LoadMinute, IInv, TypeOK, Fields
  <2>10. CASE AssignHour(t)
    <3>1. t # u => pc[u] \notin {"assigning", "copy", "copying"}
      BY <2>10 DEF AssignHour, Disturb, ExposedToTs, IInv, TypeOK, LockInv, Locked
    <3>. QED
      BY <2>10, <3>1 DEF AssignHour, Disturb, IInv, TypeOK, Fields
  <2>11. CASE AssignMinute(t)
    <3>1. t # u => pc[u] \notin {"assigning", "copy", "copying"}
      BY <2>11 DEF AssignMinute, Disturb, ExposedToTs, IInv, TypeOK, LockInv, Locked
    <3>. QED
      BY <2>11, <3>1 DEF AssignMinute, Disturb, IInv, TypeOK, Fields
  <2>12. CASE CopyHour(t)
    BY <2>12 DEF CopyHour, IInv, TypeOK, Fields
  <2>13. CASE CopyMinute(t)
    BY <2>13 DEF CopyMinute, IInv, TypeOK, Fields
  <2>14. CASE Leave(t)
    BY <2>14 DEF Leave, IInv, TypeOK
  <2>. QED
    BY <1>2, <2>5, <2>6, <2>7, <2>8, <2>9, <2>10, <2>11, <2>12, <2>13, <2>14 DEF Step
<1>. QED
  BY <1>1, <1>2 DEF Next

(* The mutex passes from the stamp that is copied to the one that is made. *)
LEMMA OrderPreserved == IInv /\ [Next]_vars => OrderInv'
<1>. SUFFICES ASSUME IInv, [Next]_vars PROVE OrderInv'
  OBVIOUS
<1>1. CASE Tick \/ UNCHANGED vars
  BY <1>1 DEF Tick, vars, IInv, OrderInv
<1>2. ASSUME NEW t \in Threads, Step(t) PROVE OrderInv'
  <2>. SUFFICES ASSUME NEW w \in Threads, NEW u \in Threads,
                       pc'[w] \in {"copy", "copying"}, mutex' = u
       PROVE  began'[w] <= began'[u]
    BY DEF OrderInv
  <2>. USE DEF IInv, TypeOK, Goto
  <2>1. "free" \notin Threads
    BY DEF Threads
  <2>2. CASE Enter(t)
    <3>1. w # t /\ pc'[w] = pc[w] /\ began'[w] = began[w] /\ began'[t] = now
      BY <2>2 DEF Enter
    <3>2. mutex' = t \/ mutex' = mutex
      BY <2>2 DEF Enter
    <3>3. began[w] <= now
      <4>1. pc[w] # "out"
        BY <3>1
      <4>2. now - began[w] \in 0..1 /\ now \in Nat /\ began[w] \in Nat
        BY <4>1, MaxNowAssumption DEF PaceInv
      <4>. QED
        BY <4>2
    <3>4. CASE u = t
      BY <3>1, <3>3, <3>4
    <3>5. CASE u # t
      BY <2>2, <3>1, <3>2, <3>5 DEF Enter, OrderInv
    <3>. QED
      BY <3>4, <3>5
  <2>3. CASE StoreHour(t) \/ StoreMinute(t) \/ LoadHour(t) \/ LoadMinute(t)
    <3>1. UNCHANGED <<mutex, began>> /\ pc[w] \in {"copy", "copying"}
      BY <2>3 DEF StoreHour, StoreMinute, LoadHour, LoadMinute
    <3>. QED
      BY <3>1 DEF OrderInv
  <2>4. CASE AssignHour(t) \/ CopyHour(t) \/ CopyMinute(t)
    <3>1. UNCHANGED <<mutex, began>> /\ pc[w] \in {"copy", "copying"}
      BY <2>4 DEF AssignHour, CopyHour, CopyMinute
    <3>. QED
      BY <3>1 DEF OrderInv
  <2>5. CASE AssignMinute(t)
    BY <2>1, <2>5 DEF AssignMinute
  <2>6. CASE Leave(t)
    <3>1. mutex' = mutex /\ w # t /\ pc'[w] = pc[w] /\ began'[w] = began[w]
      BY <2>6 DEF Leave
    <3>2. u # t
      BY <2>6, <3>1 DEF Leave, Locked
    <3>. QED
      BY <2>6, <3>1, <3>2 DEF Leave, OrderInv
  <2>. QED
    BY <1>2, <2>2, <2>3, <2>4, <2>5, <2>6 DEF Step
<1>. QED
  BY <1>1, <1>2 DEF Next

(* What RecentInv says of one call. *)
RecentIn(u) ==
  /\ pc[u] \in {"store", "hour"} => RecentHour(u, tm.hour)
  /\ pc[u] \in {"hour", "minute"} => RecentMinute(u, tm.minute)
  /\ pc[u] \in {"minute", "assign", "assigning", "copying", "back"} => RecentHour(u, seen[u].hour)
  /\ pc[u] \in {"assign", "assigning", "back"} => RecentMinute(u, seen[u].minute)
  /\ pc[u] \in {"assigning", "copy"} => RecentHour(u, ts.hour)
  /\ pc[u] \in {"copy", "copying"} => RecentMinute(u, ts.minute)

(***************************************************************************)
(* What a call loads was stored by its own conversion, or by one that      *)
(* another thread began at most a minute before; what it copies, by its    *)
(* own stamp or by one that began later.                                   *)
(***************************************************************************)
LEMMA RecentPreserved == IInv /\ [Next]_vars => RecentInv'
<1>. SUFFICES ASSUME IInv, [Next]_vars PROVE RecentInv'
  OBVIOUS
<1>1. CASE Tick
  <2>1. \A t \in Threads : began[t] \in Nat
    BY DEF IInv, TypeOK
  <2>2. now \in Nat /\ now' = now + 1
    BY <1>1 DEF IInv, TypeOK, Tick
  <2>3. ASSUME NEW t \in Threads, NEW x
        PROVE  /\ RecentHour(t, x) => RecentHour(t, x)'
               /\ RecentMinute(t, x) => RecentMinute(t, x)'
    <3>1. began' = began /\ \A n \in began[t] - 1 .. now : n \in began[t] - 1 .. now'
      BY <1>1, <2>1, <2>2 DEF Tick
    <3>2. ASSUME NEW n, HourOf(n, x) PROVE HourOf(n, x)'
      BY <3>2 DEF HourOf
    <3>. QED
      BY <3>1, <3>2 DEF RecentHour, RecentMinute
  <2>4. UNCHANGED <<tm, ts, pc, call, seen>>
    BY <1>1 DEF Tick
  <2>. QED
    BY <2>3, <2>4 DEF IInv, RecentInv
<1>2. ASSUME NEW t \in Threads, Step(t) PROVE RecentInv'
  <2>. SUFFICES ASSUME NEW u \in Threads PROVE RecentIn(u)'
    BY DEF RecentInv, RecentIn
  <2>0. now' = now
    BY <1>2 DEF Step, Enter, StoreHour, StoreMinute, LoadHour, LoadMinute, AssignHour,
         AssignMinute, CopyHour, CopyMinute, Leave
  <2>1. ASSUME began'[u] = began[u], NEW x
        PROVE  (RecentHour(u, x)' <=> RecentHour(u, x)) /\ (RecentMinute(u, x)' <=> RecentMinute(u, x))
    <3>1. \A n : HourOf(n, x)' <=> HourOf(n, x)
      BY DEF HourOf
    <3>. QED
      BY <2>0, <2>1, <3>1 DEF RecentHour, RecentMinute
  <2>2. RecentIn(u) /\ RecentIn(t)
    BY DEF IInv, RecentInv, RecentIn
  <2>3. Answer(t, began[t]) \in Fields /\ tm \in Fields /\ ts \in Fields /\ seen[u] \in Fields
    BY AnswerFacts, MaxNowAssumption DEF IInv, TypeOK
  (* What t stores is recent for u, if both are in a call. *)
  <2>4. ASSUME pc[t] # "out", pc[u] # "out"
        PROVE  /\ RecentHour(u, Answer(t, began[t]).hour)
               /\ RecentMinute(u, Answer(t, began[t]).minute)
    <3>1. /\ began[t] \in Nat /\ began[u] \in Nat /\ now \in Nat
          /\ now - began[t] \in 0..1 /\ now - began[u] \in 0..1
      BY <2>4 DEF IInv, TypeOK, PaceInv
    <3>2. began[t] \in began[u] - 1 .. now /\ began[t] >= 0
      BY <3>1
    <3>. QED
      BY <3>1, <3>2, AnswerFacts DEF RecentHour, RecentMinute
  (* What is recent for the stamp that is made is so for one that is copied. *)
  <2>5. ASSUME mutex = t, pc[u] \in {"copy", "copying"}, NEW x
        PROVE  /\ RecentHour(t, x) => RecentHour(u, x)
               /\ RecentMinute(t, x) => RecentMinute(u, x)
    <3>1. began[u] <= began[t] /\ began[u] \in Nat /\ began[t] \in Nat /\ now \in Nat
      BY <2>5 DEF IInv, TypeOK, OrderInv
    <3>2. \A n \in began[t] - 1 .. now : n \in began[u] - 1 .. now
      BY <3>1
    <3>. QED
      BY <3>2 DEF RecentHour, RecentMinute
  <2>. HIDE DEF RecentHour, RecentMinute
  <2>. USE DEF Goto
  <2>6. CASE Enter(t)
    <3>1. u = t => pc'[u] = "convert"
      BY <2>6 DEF Enter, IInv, TypeOK
    <3>2. u # t => began'[u] = began[u] /\ pc'[u] = pc[u]
      BY <2>6 DEF Enter, IInv, TypeOK
    <3>3. UNCHANGED <<tm, ts, seen>>
      BY <2>6 DEF Enter
    <3>. QED
      BY <2>1, <2>2, <3>1, <3>2, <3>3 DEF RecentIn
  <2>7. CASE StoreHour(t)
    <3>1. UNCHANGED <<began, seen, ts>> /\ pc[t] = "convert"
      BY <2>7 DEF StoreHour
    <3>2. tm'.hour = Answer(t, began[t]).hour /\ tm'.minute = tm.minute
      BY <2>3, <2>7 DEF StoreHour, Fields
    <3>3. pc'[u] = IF u = t THEN "store" ELSE pc[u]
      BY <2>7 DEF StoreHour, IInv, TypeOK
    <3>. QED
      BY <2>1, <2>2, <2>4, <3>1, <3>2, <3>3 DEF RecentIn
  <2>8. CASE StoreMinute(t)
    <3>1. UNCHANGED <<began, seen, ts>> /\ pc[t] = "store"
      BY <2>8 DEF StoreMinute
    <3>2. tm'.minute = Answer(t, began[t]).minute /\ tm'.hour = tm.hour
      BY <2>3, <2>8 DEF StoreMinute, Fields
    <3>3. pc'[u] = IF u = t THEN "hour" ELSE pc[u]
      BY <2>8 DEF StoreMinute, IInv, TypeOK
    <3>. QED
      BY <2>1, <2>2, <2>4, <3>1, <3>2, <3>3 DEF RecentIn
  <2>9. CASE LoadHour(t)
    <3>1. UNCHANGED <<began, tm, ts>> /\ pc[t] = "hour"
      BY <2>9 DEF LoadHour
    <3>2. pc'[u] = IF u = t THEN "minute" ELSE pc[u]
      BY <2>9 DEF LoadHour, IInv, TypeOK
    <3>3. IF u = t THEN seen'[u].hour = tm.hour ELSE seen'[u] = seen[u]
      BY <2>3, <2>9 DEF LoadHour, IInv, TypeOK, Fields
    <3>. QED
      BY <2>1, <2>2, <3>1, <3>2, <3>3 DEF RecentIn
  <2>10. CASE LoadMinute(t)
    <3>1. UNCHANGED <<began, tm, ts>> /\ pc[t] = "minute"
      BY <2>10 DEF LoadMinute
    <3>2. pc'[u] = IF u # t THEN pc[u] ELSE IF call[t] = "stamp" THEN "assign" ELSE "back"
      BY <2>10 DEF LoadMinute, IInv, TypeOK
    <3>3. IF u = t THEN seen'[u].minute = tm.minute /\ seen'[u].hour = seen[u].hour
                   ELSE seen'[u] = seen[u]
      BY <2>3, <2>10 DEF LoadMinute, IInv, TypeOK, Fields
    <3>. QED
      BY <2>1, <2>2, <3>1, <3>2, <3>3 DEF RecentIn
  <2>11. CASE AssignHour(t)
    <3>1. UNCHANGED <<began, tm, seen>> /\ pc[t] = "assign" /\ call[t] = "stamp"
      BY <2>11 DEF AssignHour, IInv, LockInv
    <3>2. ts'.hour = seen[t].hour /\ ts'.minute = ts.minute
      BY <2>3, <2>11 DEF AssignHour, Fields
    <3>3. pc'[u] = IF u = t THEN "assigning" ELSE pc[u]
      BY <2>11 DEF AssignHour, IInv, TypeOK
    <3>4. mutex = t /\ (u # t => pc[u] # "assigning")
      BY <3>1 DEF IInv, TypeOK, LockInv, Locked
    <3>. QED
      BY <2>1, <2>2, <2>5, <3>1, <3>2, <3>3, <3>4 DEF RecentIn
  <2>12. CASE AssignMinute(t)
    <3>1. UNCHANGED <<began, tm, seen>> /\ pc[t] = "assigning" /\ call[t] = "stamp"
      BY <2>12 DEF AssignMinute, IInv, LockInv
    <3>2. ts'.minute = seen[t].minute /\ ts'.hour = ts.hour
      BY <2>3, <2>12 DEF AssignMinute, Fields
    <3>3. pc'[u] = IF u = t THEN "copy" ELSE pc[u]
      BY <2>12 DEF AssignMinute, IInv, TypeOK
    <3>4. mutex = t
      BY <3>1 DEF IInv, TypeOK, Locked
    <3>. QED
      BY <2>1, <2>2, <2>5, <3>1, <3>2, <3>3, <3>4 DEF RecentIn
  <2>13. CASE CopyHour(t)
    <3>1. UNCHANGED <<began, tm, ts>> /\ pc[t] = "copy"
      BY <2>13 DEF CopyHour
    <3>2. pc'[u] = IF u = t THEN "copying" ELSE pc[u]
      BY <2>13 DEF CopyHour, IInv, TypeOK
    <3>3. IF u = t THEN seen'[u].hour = ts.hour ELSE seen'[u] = seen[u]
      BY <2>3, <2>13 DEF CopyHour, IInv, TypeOK, Fields
    <3>. QED
      BY <2>1, <2>2, <3>1, <3>2, <3>3 DEF RecentIn
  <2>14. CASE CopyMinute(t)
    <3>1. UNCHANGED <<began, tm, ts>> /\ pc[t] = "copying"
      BY <2>14 DEF CopyMinute
    <3>2. pc'[u] = IF u = t THEN "back" ELSE pc[u]
      BY <2>14 DEF CopyMinute, IInv, TypeOK
    <3>3. IF u = t THEN seen'[u].minute = ts.minute /\ seen'[u].hour = seen[u].hour
                   ELSE seen'[u] = seen[u]
      BY <2>3, <2>14 DEF CopyMinute, IInv, TypeOK, Fields
    <3>. QED
      BY <2>1, <2>2, <3>1, <3>2, <3>3 DEF RecentIn
  <2>15. CASE Leave(t)
    <3>1. UNCHANGED <<tm, ts>>
      BY <2>15 DEF Leave
    <3>2. u = t => pc'[u] = "out"
      BY <2>15 DEF Leave, IInv, TypeOK
    <3>3. u # t => began'[u] = began[u] /\ pc'[u] = pc[u] /\ seen'[u] = seen[u]
      BY <2>15 DEF Leave, IInv, TypeOK
    <3>. QED
      BY <2>1, <2>2, <3>1, <3>2, <3>3 DEF RecentIn
  <2>. QED
    BY <1>2, <2>6, <2>7, <2>8, <2>9, <2>10, <2>11, <2>12, <2>13, <2>14, <2>15 DEF Step
<1>3. CASE UNCHANGED vars
  BY <1>3 DEF vars, IInv, RecentInv, RecentHour, RecentMinute, HourOf
<1>. QED
  BY <1>1, <1>2, <1>3 DEF Next

-----------------------------------------------------------------------------
(* The inductive invariant of the threads that ask for the time. *)
THEOREM Invariance == Spec => []IInv
<1>1. IInv /\ [Next]_vars => IInv'
  BY TypePreserved, LockPreserved, AnswerPreserved, OrderPreserved, RecentPreserved DEF IInv
<1>. QED
  BY <1>1, InitIInv, PTL DEF Spec

(* Every variable keeps its type, and the mutex of utils.cpp one holder. *)
THEOREM TypeCorrect == Spec => []TypeOK
<1>1. IInv => TypeOK
  BY DEF IInv
<1>. QED
  BY <1>1, Invariance, PTL

(***************************************************************************)
(* A thread into whose struct tm or string nobody else has stored meanwhile *)
(* is told the time at which it asked; two stamps never disturb each other. *)
(***************************************************************************)
THEOREM UndisturbedIsRight == Spec => []UndisturbedCallsAreRight
<1>1. IInv => UndisturbedCallsAreRight
  <2>. SUFFICES ASSUME IInv, NEW t \in Threads, pc[t] = "back", ~disturbed[t]
         PROVE  \E n \in began[t]..now : seen[t] = Answer(t, n)
    BY DEF UndisturbedCallsAreRight
  <2>1. seen[t] = Answer(t, began[t])
    BY DEF IInv, AnswerInv
  <2>2. began[t] \in began[t]..now
    BY MaxNowAssumption DEF IInv, TypeOK, PaceInv
  <2>. QED
    BY <2>1, <2>2
<1>. QED
  BY <1>1, Invariance, PTL

(***************************************************************************)
(* Every hour and every minute that a call comes back with was the clock's *)
(* in the last two minutes, however many threads stored meanwhile: so, in  *)
(* particular, a summary is decided at such an hour 23 and minute 59.      *)
(***************************************************************************)
THEOREM AnswersAreNear == Spec => []AnswersAreRecent
<1>1. IInv => AnswersAreRecent
  <2>. SUFFICES ASSUME IInv, NEW t \in Threads, pc[t] = "back"
         PROVE  \E n, m \in now - 2 .. now :
                  /\ n >= 0 /\ m >= 0
                  /\ seen[t].hour \in {Local(n).hour, UTC(n).hour}
                  /\ seen[t].minute = m % Minutes
    BY DEF AnswersAreRecent
  <2>1. RecentHour(t, seen[t].hour) /\ RecentMinute(t, seen[t].minute)
    BY DEF IInv, RecentInv
  <2>2. \A n \in began[t] - 1 .. now : n \in now - 2 .. now
    <3>1. now \in Nat /\ began[t] \in Nat /\ now - began[t] \in 0..1
      BY DEF IInv, TypeOK, PaceInv
    <3>. QED
      BY <3>1
  <2>. QED
    BY <2>1, <2>2 DEF RecentHour, RecentMinute, HourOf
<1>. QED
  BY <1>1, Invariance, PTL
=============================================================================
