--------------------------- MODULE Signals_proofs ----------------------------
(***************************************************************************)
(* Proofs about the signal handlers and the logger: for any threads, any   *)
(* number of lines and any number of signals, lines are not mixed and the  *)
(* log level is what the signals made it.                                  *)
(***************************************************************************)
EXTENDS Signals, SequenceTheorems, TLAPS

(* The two frames of each thread, and no others. *)
LEMMA FrameFacts ==
  /\ "main" \in Threads
  /\ None \notin Frames
  /\ \A t \in Threads : Run(t) \in Frames /\ Handler(t) \in Frames
  /\ \A t, u \in Threads : Run(t) # Handler(u)
  /\ \A t, u \in Threads : Run(t) = Run(u) => t = u
  /\ \A t, u \in Threads : Handler(t) = Handler(u) => t = u
  /\ \A f \in Frames :
       \/ f[1] \in Threads /\ f = Run(f[1]) /\ f[2] = "run"
       \/ f[1] \in Threads /\ f = Handler(f[1]) /\ f[2] = "handler"
BY DEF Threads, Frames, None, Run, Handler

(* Workers are threads, all different, and none of them is main. *)
LEMMA WorkerFacts ==
  /\ Len(Workers) \in Nat /\ DOMAIN Workers = 1..Len(Workers)
  /\ \A i \in DOMAIN Workers : Workers[i] \in Threads /\ Workers[i] # "main"
  /\ \A i, j \in DOMAIN Workers : i # j => Workers[i] # Workers[j]
BY WorkersAssumption, LenProperties DEF Threads

(* What a step of logMessage changes besides the mutexes and the file. *)
LogStepTo(f, p) ==
  /\ alive /\ pc[f] \in Logging
  /\ pc' = [pc EXCEPT ![f] = p]
  /\ UNCHANGED <<alive, sig, msg, levelVars, history>>
  /\ f[2] = "run" => p \in Logging \cup {"idle"}
  /\ f[2] = "handler" =>
       /\ p \in Logging \cup {"test", "kill"}
       /\ p = "test" => sig[f[1]] = "USR1"
       /\ p = "kill" => sig[f[1]] # "USR1"

(* A handler comes back from the logger to what its signal asks for. *)
LEMMA LogStepFacts ==
  ASSUME IInv, NEW f \in Frames, LogStep(f)
  PROVE  \E p \in Logging \cup {"idle", "test", "kill"} : LogStepTo(f, p)
<1>. USE FrameFacts DEF LogStepTo, Logging, At, Goto, mutexes
<1>1. CASE Lock(f)
  <2>1. LogStepTo(f, IF msg[f] \in loggingLevel THEN "stamp" ELSE "unlock")
    BY <1>1 DEF Lock
  <2>. QED
    BY <2>1
<1>2. CASE Stamp(f)
  BY <1>2 DEF Stamp
<1>3. CASE Stamping(f)
  <2>1. f[2] = "handler" => logMutex = f
    BY <1>3 DEF Stamping, IInv, MutexInv, Run
  <2>2. LogStepTo(f, IF logMutex = f THEN "prefix" ELSE "idle")
    BY <1>3, <2>1 DEF Stamping
  <2>. QED
    BY <2>2
<1>4. CASE WritePrefix(f) \/ WriteText(f)
  BY <1>4 DEF WritePrefix, WriteText, Write
<1>5. CASE Unlock(f)
  <2>1. LogStepTo(f, Returned(f)) /\ Returned(f) \in {"idle", "test", "kill"}
    BY <1>5 DEF Unlock, Returned
  <2>. QED
    BY <2>1
<1>. QED
  BY <1>1, <1>2, <1>3, <1>4, <1>5 DEF LogStep

-----------------------------------------------------------------------------
(* The parts of the invariant, one at a time. *)

(* Every step keeps the types. *)
LEMMA TypePreserved == IInv /\ [Next]_vars => TypeOK'
<1>. SUFFICES ASSUME IInv, [Next]_vars PROVE TypeOK'
  OBVIOUS
<1>. USE FrameFacts DEF IInv, Logging, Toggling, At, Goto, mutexes, levelVars, history
<1>1. CASE StartThread
  BY <1>1, WorkerFacts DEF TypeOK, StartThread, Levels
<1>2. ASSUME NEW t \in Threads, LogLine(t) PROVE TypeOK'
  BY <1>2, LevelsAssumption DEF TypeOK, LogLine
<1>3. CASE GetTimestamp
  BY <1>3 DEF TypeOK, GetTimestamp
<1>4. ASSUME NEW f \in Frames, LogStep(f) PROVE TypeOK'
  <2>1. CASE Lock(f)
    BY <2>1 DEF TypeOK, Lock
  <2>2. CASE Stamp(f)
    BY <2>2 DEF TypeOK, Stamp
  <2>3. CASE Stamping(f)
    BY <2>3 DEF TypeOK, Stamping
  <2>4. ASSUME NEW piece \in {"prefix", "text"}, NEW next \in {"text", "unlock"},
               Write(f, piece, next)
        PROVE  TypeOK'
    <3>1. file' \in Seq(Frames \X {"prefix", "text"})
      BY <2>4, AppendProperties DEF TypeOK, Write
    <3>. QED
      BY <2>4, <3>1 DEF TypeOK, Write
  <2>5. CASE Unlock(f)
    BY <2>5 DEF TypeOK, Unlock, Returned
  <2>. QED
    BY <1>4, <2>1, <2>2, <2>3, <2>4, <2>5 DEF LogStep, WritePrefix, WriteText
<1>5. ASSUME NEW t \in Threads, NEW s \in SignalNames, Signal(t, s) PROVE TypeOK'
  BY <1>5, SignalsAssumption, BoundsAssumption DEF TypeOK, Signal, Levels
<1>6. ASSUME NEW t \in Threads, HandlerStep(t) PROVE TypeOK'
  <2>1. CASE TestLevel(t)
    BY <2>1 DEF TypeOK, TestLevel
  <2>2. CASE GetLevel(t)
    <3>1. bit[t] \in Levels
      BY DEF TypeOK, Levels
    <3>. QED
      BY <2>2, <3>1 DEF TypeOK, GetLevel
  <2>3. CASE SetLevel(t)
    BY <2>3 DEF TypeOK, SetLevel
  <2>4. CASE KillThreads(t)
    BY <2>4 DEF TypeOK, KillThreads
  <2>. QED
    BY <1>6, <2>1, <2>2, <2>3, <2>4 DEF HandlerStep
<1>7. CASE UNCHANGED vars
  BY <1>7 DEF TypeOK, vars
<1>. QED
  BY <1>1, <1>2, <1>3, <1>4, <1>5, <1>6, <1>7 DEF Next

(* A frame of a thread that has started stays within what it may do. *)
LEMMA FramePreserved == IInv /\ [Next]_vars => FrameInv'
<1>. SUFFICES ASSUME IInv, [Next]_vars PROVE FrameInv'
  OBVIOUS
<1>. USE FrameFacts, WorkerFacts
     DEF IInv, TypeOK, FrameInv, Logging, Toggling, At, Goto, mutexes, levelVars, history
<1>1. CASE StartThread
  BY <1>1 DEF StartThread
<1>2. ASSUME NEW t \in Threads, LogLine(t) PROVE FrameInv'
  BY <1>2 DEF LogLine
<1>3. CASE GetTimestamp
  BY <1>3 DEF GetTimestamp
<1>4. ASSUME NEW f \in Frames, LogStep(f) PROVE FrameInv'
  <2>1. PICK p \in Logging \cup {"idle", "test", "kill"} : LogStepTo(f, p)
    BY <1>4, LogStepFacts
  <2>. QED
    BY <2>1 DEF LogStepTo
<1>5. ASSUME NEW t \in Threads, NEW s \in SignalNames, Signal(t, s) PROVE FrameInv'
  BY <1>5, SignalsAssumption DEF Signal
<1>6. ASSUME NEW t \in Threads, HandlerStep(t) PROVE FrameInv'
  BY <1>6 DEF HandlerStep, TestLevel, GetLevel, SetLevel, KillThreads
<1>7. CASE UNCHANGED vars
  BY <1>7 DEF vars
<1>. QED
  BY <1>1, <1>2, <1>3, <1>4, <1>5, <1>6, <1>7 DEF Next

(* The mutex of the logger has one owner, and its owner is who writes. *)
LEMMA MutexPreserved == IInv /\ [Next]_vars => MutexInv'
<1>. SUFFICES ASSUME IInv, [Next]_vars PROVE MutexInv'
  OBVIOUS
<1>. USE FrameFacts, WorkerFacts
     DEF IInv, TypeOK, MutexInv, Logging, Toggling, At, Goto, mutexes, levelVars, history
<1>1. CASE StartThread
  BY <1>1 DEF StartThread
<1>2. ASSUME NEW t \in Threads, LogLine(t) PROVE MutexInv'
  BY <1>2 DEF LogLine
<1>3. CASE GetTimestamp
  BY <1>3 DEF GetTimestamp
<1>4. ASSUME NEW f \in Frames, LogStep(f) PROVE MutexInv'
  <2>1. CASE Lock(f)
    BY <2>1 DEF Lock
  <2>2. CASE Stamp(f)
    BY <2>2 DEF Stamp
  <2>3. CASE Stamping(f)
    BY <2>3 DEF Stamping
  <2>4. CASE WritePrefix(f) \/ WriteText(f)
    BY <2>4 DEF WritePrefix, WriteText, Write
  <2>5. CASE Unlock(f)
    BY <2>5 DEF Unlock, Returned
  <2>. QED
    BY <1>4, <2>1, <2>2, <2>3, <2>4, <2>5 DEF LogStep
<1>5. ASSUME NEW t \in Threads, NEW s \in SignalNames, Signal(t, s) PROVE MutexInv'
  BY <1>5 DEF Signal
<1>6. ASSUME NEW t \in Threads, HandlerStep(t) PROVE MutexInv'
  BY <1>6 DEF HandlerStep, TestLevel, GetLevel, SetLevel, KillThreads
<1>7. CASE UNCHANGED vars
  BY <1>7 DEF vars
<1>. QED
  BY <1>1, <1>2, <1>3, <1>4, <1>5, <1>6, <1>7 DEF Next

(* A piece that is written finds the log as its writer left it. *)
LEMMA FilePreserved == IInv /\ [Next]_vars => FileInv'
<1>. SUFFICES ASSUME IInv, [Next]_vars PROVE FileInv'
  OBVIOUS
<1>. DEFINE Kept ==
       /\ file' = file
       /\ \A f \in Frames : (pc[f] = "text") <=> (pc[f] = "text")'
<1>. USE FrameFacts
<1>1. ASSUME Kept PROVE FileInv'
  <2>1. file # <<>> => file[Len(file)] \in Frames \X {"prefix", "text"}
    <3>1. file # <<>> => Len(file) \in 1..Len(file)
      BY LenProperties, EmptySeq DEF IInv, TypeOK
    <3>. QED
      BY <3>1, ElementOfSeq DEF IInv, TypeOK
  <2>. QED
    BY <1>1, <2>1 DEF IInv, FileInv, LinesAreWhole
<1>2. ASSUME NEW f \in Frames, LogStep(f) PROVE FileInv'
  <2>. DEFINE n == Len(file)
  <2>0. n \in Nat /\ \A i \in 1..n : file[i] \in Frames \X {"prefix", "text"}
    BY ElementOfSeq, LenProperties DEF IInv, TypeOK
  <2>1. CASE WritePrefix(f) \/ WriteText(f)
    <3>. DEFINE piece == pc[f]
    <3>1. /\ piece \in {"prefix", "text"}
          /\ file' = Append(file, <<f, piece>>)
          /\ pc' = [pc EXCEPT ![f] = IF piece = "prefix" THEN "text" ELSE "unlock"]
          /\ logMutex = f
      BY <2>1 DEF WritePrefix, WriteText, Write, At, Goto, IInv, MutexInv
    <3>2. /\ Len(file') = n + 1
          /\ file'[n + 1] = <<f, piece>>
          /\ \A i \in 1..n : file'[i] = file[i]
          /\ DOMAIN file' = 1 .. (n + 1) /\ DOMAIN file = 1..n
          /\ file' # <<>>
      BY <3>1, AppendProperties, LenProperties, EmptySeq DEF IInv, TypeOK
    <3>3. \A g \in Frames : pc[g] = "text" => g = f
      BY <3>1 DEF IInv, MutexInv
    <3>4. \A g \in Frames : pc'[g] = "text" => g = f /\ piece = "prefix"
      BY <3>1, <3>3 DEF IInv, TypeOK
    <3>5. piece = "text" => n > 0 /\ file[n] = <<f, "prefix">>
      BY <2>0, EmptySeq DEF IInv, TypeOK, FileInv
    <3>6. piece = "prefix" /\ n > 0 => file[n][2] = "text"
      BY <2>0, <3>3, EmptySeq DEF IInv, TypeOK, FileInv
    <3>7. (\A g \in Frames : pc[g] = "text" => file # <<>> /\ file[Len(file)] = <<g, "prefix">>)'
      BY <3>2, <3>4
    <3>8. (file # <<>> /\ file[Len(file)][2] = "prefix" => pc[file[Len(file)][1]] = "text")'
      BY <3>1, <3>2 DEF IInv, TypeOK
    <3>9. LinesAreWhole'
      <4>. SUFFICES ASSUME NEW i \in 1 .. (n + 1)
             PROVE /\ file'[i][2] = "prefix" /\ i < n + 1
                         => file'[i + 1] = <<file'[i][1], "text">>
                   /\ file'[i][2] = "text" => i > 1 /\ file'[i - 1] = <<file'[i][1], "prefix">>
        BY <3>2 DEF LinesAreWhole
      <4>1. CASE i < n
        BY <2>0, <3>2, <4>1 DEF IInv, FileInv, LinesAreWhole
      <4>2. CASE i = n
        <5>1. file'[i] = file[i] /\ file'[i + 1] = <<f, piece>> /\ i \in DOMAIN file
          BY <2>0, <3>2, <4>2
        <5>2. file[i][2] = "prefix" => piece = "text" /\ file[i] = <<f, "prefix">>
          BY <2>0, <3>1, <3>5, <3>6, <4>2
        <5>3. file[i][2] = "text" => i > 1 /\ file[i - 1] = <<file[i][1], "prefix">>
          BY <5>1 DEF IInv, FileInv, LinesAreWhole
        <5>4. i > 1 => file'[i - 1] = file[i - 1]
          BY <2>0, <3>2, <4>2
        <5>. QED
          BY <5>1, <5>2, <5>3, <5>4
      <4>3. CASE i = n + 1
        <5>1. file'[i] = <<f, piece>> /\ ~(i < n + 1) /\ i - 1 = n
          BY <2>0, <3>2, <4>3
        <5>2. piece = "text" => i > 1 /\ file'[n] = <<f, "prefix">>
          BY <2>0, <3>2, <3>5, <4>3
        <5>. QED
          BY <5>1, <5>2
      <4>. QED
        BY <2>0, <4>1, <4>2, <4>3
    <3>. QED
      BY <3>7, <3>8, <3>9 DEF FileInv
  <2>2. CASE Lock(f) \/ Stamp(f) \/ Stamping(f)
    <3>. Kept
      BY <2>2 DEF Lock, Stamp, Stamping, At, Goto, mutexes, IInv, TypeOK
    <3>. QED
      BY <1>1
  <2>3. CASE Unlock(f)
    <3>. Kept
      BY <2>3 DEF Unlock, Returned, At, Goto, IInv, TypeOK
    <3>. QED
      BY <1>1
  <2>. QED
    BY <1>2, <2>1, <2>2, <2>3 DEF LogStep
<1>3. CASE StartThread
  <2>. Kept
    BY <1>3, WorkerFacts DEF StartThread, At, Goto, IInv, TypeOK, FrameInv
  <2>. QED
    BY <1>1
<1>4. ASSUME NEW t \in Threads, LogLine(t) \/ HandlerStep(t) PROVE FileInv'
  <2>. Kept
    BY <1>4 DEF LogLine, HandlerStep, TestLevel, GetLevel, SetLevel, KillThreads,
                At, Goto, IInv, TypeOK
  <2>. QED
    BY <1>1
<1>5. CASE GetTimestamp
  <2>. Kept
    BY <1>5 DEF GetTimestamp, At, Goto, IInv, TypeOK
  <2>. QED
    BY <1>1
<1>6. ASSUME NEW t \in Threads, NEW s \in SignalNames, Signal(t, s) PROVE FileInv'
  <2>. Kept
    BY <1>6 DEF Signal, At, Goto, IInv, TypeOK
  <2>. QED
    BY <1>1
<1>7. CASE UNCHANGED vars
  <2>. Kept
    BY <1>7 DEF vars
  <2>. QED
    BY <1>1
<1>. QED
  BY <1>2, <1>3, <1>4, <1>5, <1>6, <1>7 DEF Next

(* A step outside handleSignal's own code leaves every handler's level alone. *)
LevelsKept ==
  /\ UNCHANGED levelVars
  /\ \A t \in Threads : \/ pc'[Handler(t)] = pc[Handler(t)]
                         \/ {pc[Handler(t)], pc'[Handler(t)]} \cap {"get", "set"} = {}
  /\ \A t \in Threads : pc[Handler(t)] \in Toggling => pc'[Handler(t)] = pc[Handler(t)]

(* Every step is one of handleSignal's own, or keeps the levels. *)
LEMMA LevelSteps ==
  ASSUME IInv, [Next]_vars
  PROVE  \/ LevelsKept
         \/ \E t \in Threads : TestLevel(t) \/ GetLevel(t) \/ SetLevel(t)
<1>. USE FrameFacts, WorkerFacts
     DEF IInv, TypeOK, LevelsKept, Logging, Toggling, At, Goto, levelVars
<1>1. CASE StartThread
  BY <1>1 DEF StartThread
<1>2. ASSUME NEW t \in Threads, LogLine(t) PROVE LevelsKept
  BY <1>2 DEF LogLine
<1>3. CASE GetTimestamp
  BY <1>3 DEF GetTimestamp
<1>4. ASSUME NEW f \in Frames, LogStep(f) PROVE LevelsKept
  <2>1. PICK p \in Logging \cup {"idle", "test", "kill"} : LogStepTo(f, p)
    BY <1>4, LogStepFacts
  <2>. QED
    BY <2>1 DEF LogStepTo
<1>5. ASSUME NEW t \in Threads, NEW s \in SignalNames, Signal(t, s) PROVE LevelsKept
  BY <1>5 DEF Signal
<1>6. ASSUME NEW t \in Threads, KillThreads(t) PROVE LevelsKept
  BY <1>6 DEF KillThreads
<1>7. CASE UNCHANGED vars
  BY <1>7 DEF vars
<1>. QED
  BY <1>1, <1>2, <1>3, <1>4, <1>5, <1>6, <1>7 DEF Next, HandlerStep

(* A handler writes back a level that differs in INFO and DEBUG only. *)
LEMMA LevelPreserved == IInv /\ [Next]_vars => LevelInv'
<1>. SUFFICES ASSUME IInv, [Next]_vars PROVE LevelInv'
  OBVIOUS
<1>. USE FrameFacts DEF IInv, TypeOK, LevelInv, Toggling, Switched, At, Goto, levelVars
<1>1. CASE LevelsKept
  BY <1>1 DEF LevelsKept
<1>2. ASSUME NEW t \in Threads, TestLevel(t) PROVE LevelInv'
  BY <1>2 DEF TestLevel
<1>3. ASSUME NEW t \in Threads, GetLevel(t) PROVE LevelInv'
  BY <1>3 DEF GetLevel
<1>4. ASSUME NEW t \in Threads, SetLevel(t) PROVE LevelInv'
  BY <1>4 DEF SetLevel
<1>. QED
  BY <1>1, <1>2, <1>3, <1>4, LevelSteps

(* Counting one more handler turns what its level should be around. *)
LEMMA ToggleParity ==
  ASSUME NEW n \in Nat
  PROVE  ((n + 1) % 2 = 0) <=> ~(n % 2 = 0)
OBVIOUS

(* One handler at a time flips INFO, then DEBUG, and is done. *)
LEMMA TogglePreserved == IInv /\ [Next]_vars => ToggleInv'
<1>. SUFFICES ASSUME IInv, [Next]_vars, ~overlapped' PROVE ToggleInv'
  BY DEF ToggleInv
<1>. USE FrameFacts
<1>1. CASE UNCHANGED <<levelVars, toggles, overlapped>> /\ LevelsKept
            /\ \A t \in Threads : Toggler(t)' => Toggler(t)
  <2>1. UNCHANGED <<loggingLevel, bit, level, toggles, overlapped>> /\ ToggleInv
    BY <1>1 DEF IInv, levelVars
  <2>2. \A b \in Switched : InStep(b)' <=> InStep(b)
    BY <2>1 DEF InStep
  <2>3. \A t \in Threads : pc'[Handler(t)] \in {"get", "set"} => pc'[Handler(t)] = pc[Handler(t)]
    BY <1>1 DEF LevelsKept
  <2>. QED
    BY <1>1, <2>1, <2>2, <2>3 DEF ToggleInv, Switched
<1>2. CASE StartThread
  <2>1. LevelsKept
    BY <1>2, WorkerFacts DEF StartThread, At, Goto, IInv, TypeOK, LevelsKept, Toggling, levelVars
  <2>. QED
    BY <1>1, <1>2, <2>1, WorkerFacts DEF StartThread, At, Goto, IInv, TypeOK, Toggler, levelVars
<1>3. ASSUME NEW t \in Threads, LogLine(t) PROVE ToggleInv'
  <2>1. LevelsKept
    BY <1>3 DEF LogLine, At, Goto, IInv, TypeOK, LevelsKept, Toggling, levelVars
  <2>. QED
    BY <1>1, <1>3, <2>1 DEF LogLine, At, Goto, IInv, TypeOK, Toggler, levelVars, history
<1>4. CASE GetTimestamp
  <2>1. LevelsKept
    BY <1>4 DEF GetTimestamp, At, Goto, IInv, TypeOK, LevelsKept, Toggling, levelVars
  <2>. QED
    BY <1>1, <1>4, <2>1 DEF GetTimestamp, At, Goto, IInv, TypeOK, Toggler, levelVars, history
<1>5. ASSUME NEW f \in Frames, LogStep(f) PROVE ToggleInv'
  <2>1. PICK p \in Logging \cup {"idle", "test", "kill"} : LogStepTo(f, p)
    BY <1>5, LogStepFacts
  <2>2. LevelsKept
    BY <2>1 DEF LogStepTo, IInv, TypeOK, LevelsKept, Logging, Toggling, levelVars
  <2>. QED
    BY <1>1, <2>1, <2>2 DEF LogStepTo, IInv, TypeOK, Logging, Toggler, levelVars, history
<1>6. ASSUME NEW t \in Threads, NEW s \in SignalNames, Signal(t, s) PROVE ToggleInv'
  <2>1. LevelsKept
    BY <1>6 DEF Signal, At, Goto, IInv, TypeOK, LevelsKept, Toggling, levelVars
  <2>2. UNCHANGED <<levelVars, toggles>> /\ ~overlapped
    BY <1>6 DEF Signal, levelVars
  <2>3. \A u \in Threads : Toggler(u)' => Toggler(u) \/ (u = t /\ s = "USR1")
    BY <1>6, SignalsAssumption DEF Signal, Goto, IInv, TypeOK, Toggler
  <2>4. s = "USR1" => \A u \in Threads : ~Toggler(u)
    BY <1>6 DEF Signal
  <2>5. \A u, v \in Threads : Toggler(u)' /\ Toggler(v)' => u = v
    BY <2>2, <2>3, <2>4 DEF IInv, ToggleInv
  <2>. QED
    <3>1. UNCHANGED <<loggingLevel, bit, level, toggles>> /\ ToggleInv
      BY <2>2 DEF IInv, levelVars
    <3>2. \A b \in Switched : InStep(b)' <=> InStep(b)
      BY <3>1 DEF InStep
    <3>3. \A u \in Threads : pc'[Handler(u)] \in {"get", "set"} => pc'[Handler(u)] = pc[Handler(u)]
      BY <2>1 DEF LevelsKept
    <3>. QED
      BY <2>2, <2>5, <3>1, <3>2, <3>3 DEF ToggleInv, Switched
<1>7. ASSUME NEW t \in Threads, TestLevel(t) \/ GetLevel(t) \/ SetLevel(t)
      PROVE  ToggleInv'
  <2>1. /\ ~overlapped /\ UNCHANGED sig
        /\ pc[Handler(t)] \in Toggling
        /\ \A u \in Threads \ {t} : pc'[Handler(u)] = pc[Handler(u)]
    <3>1. /\ ~overlapped /\ UNCHANGED sig /\ pc[Handler(t)] \in Toggling
          /\ \E p \in {"get", "set", "test", "idle"} : Goto(Handler(t), p)
      BY <1>7 DEF TestLevel, GetLevel, SetLevel, At, history, Toggling
    <3>. QED
      BY <3>1 DEF Goto, IInv, TypeOK
  <2>2. Toggler(t)
    BY <2>1 DEF IInv, FrameInv, Toggler, Toggling
  <2>3. \A u \in Threads : Toggler(u)' => u = t
    BY <2>1, <2>2 DEF IInv, ToggleInv, Toggler
  <2>4. \A u \in Threads \ {t} :
          bit[u] = "INFO" /\ pc'[Handler(u)] \notin {"get", "set"}
    BY <2>1, <2>2 DEF IInv, TypeOK, FrameInv, LevelInv, ToggleInv, Toggler, Toggling
  <2>5. CASE TestLevel(t)
    BY <2>1, <2>3, <2>4, <2>5
       DEF TestLevel, At, Goto, IInv, TypeOK, ToggleInv, InStep, Switched, history
  <2>6. CASE GetLevel(t)
    BY <2>1, <2>3, <2>4, <2>6
       DEF GetLevel, At, Goto, IInv, TypeOK, ToggleInv, InStep, Switched, history
  <2>7. CASE SetLevel(t)
    <3>1. \A b \in Switched : (b \in level[t]) <=> ((b \in loggingLevel) <=> b # bit[t])
      BY <2>1, <2>7 DEF SetLevel, At, IInv, ToggleInv
    <3>2. \A u \in Threads : bit'[u] = IF u = t THEN IF bit[t] = "INFO" THEN "DEBUG" ELSE "INFO"
                                       ELSE "INFO"
      BY <2>4, <2>7 DEF SetLevel, IInv, TypeOK
    <3>3. InStep("INFO") <=> bit[t] = "INFO"
      BY <2>1, <2>4 DEF IInv, ToggleInv
    <3>4. InStep("DEBUG")
      BY <2>1 DEF IInv, ToggleInv
    <3>5. bit[t] \in {"INFO", "DEBUG"}
      BY DEF IInv, TypeOK
    <3>6. pc'[Handler(t)] \notin {"get", "set"}
      BY <2>7 DEF SetLevel, Goto, IInv, TypeOK
    <3>7. CASE bit[t] = "INFO"
      <4>1. toggles' = toggles /\ loggingLevel' = level[t]
        BY <2>7, <3>7 DEF SetLevel
      <4>2. InStep("DEBUG")' /\ ~InStep("INFO")'
        BY <3>1, <3>3, <3>4, <3>7, <4>1 DEF InStep, Switched
      <4>. QED
        BY <2>3, <2>4, <3>2, <3>6, <3>7, <4>2 DEF ToggleInv
    <3>8. CASE bit[t] = "DEBUG"
      <4>1. toggles' = toggles + 1 /\ loggingLevel' = level[t]
        BY <2>7, <3>8 DEF SetLevel
      <4>2. (toggles' % 2 = 0) <=> ~(toggles % 2 = 0)
        BY <4>1, ToggleParity DEF IInv, TypeOK
      <4>3. InStep("DEBUG")' /\ InStep("INFO")'
        BY <3>1, <3>3, <3>4, <3>8, <4>1, <4>2 DEF InStep, Switched
      <4>. QED
        BY <2>3, <2>4, <3>2, <3>6, <3>8, <4>3 DEF ToggleInv
    <3>. QED
      BY <3>5, <3>7, <3>8
  <2>. QED
    BY <1>7, <2>5, <2>6, <2>7
<1>8. ASSUME NEW t \in Threads, KillThreads(t) PROVE ToggleInv'
  BY <1>8 DEF KillThreads, IInv, ToggleInv, InStep, Toggler, levelVars, history
<1>9. CASE UNCHANGED vars
  BY <1>9 DEF vars, IInv, ToggleInv, InStep, Toggler, levelVars, history
<1>. QED
  BY <1>2, <1>3, <1>4, <1>5, <1>6, <1>7, <1>8, <1>9 DEF Next, HandlerStep

-----------------------------------------------------------------------------

(* No thread has started, nothing is logged and no handler runs. *)
LEMMA InitIInv == Init => IInv
<1>. SUFFICES ASSUME Init PROVE IInv
  OBVIOUS
<1>. USE FrameFacts, WorkerFacts DEF Init
<1>1. TypeOK
  <2>1. file \in Seq(Frames \X {"prefix", "text"})
    BY EmptySeq
  <2>. QED
    <3>1. pc \in [Frames -> {"unborn", "idle"} \cup Logging \cup Toggling \cup {"kill"}]
      OBVIOUS
    <3>2. msg \in [Frames -> Levels] /\ loggingLevel \subseteq Levels
      BY LevelsAssumption DEF Levels
    <3>3. level \in [Threads -> SUBSET Levels]
      OBVIOUS
    <3>4. started \in 0..Len(Workers) /\ signals \in 0..MaxSignals /\ toggles \in Nat
      BY BoundsAssumption
    <3>. QED
      BY <2>1, <3>1, <3>2, <3>3, <3>4 DEF TypeOK
<1>2. FrameInv /\ MutexInv
  BY DEF FrameInv, MutexInv, Toggling, Run
<1>3. FileInv
  BY DEF FileInv, LinesAreWhole
<1>4. LevelInv
  BY DEF LevelInv, Switched
<1>5. ToggleInv
  <2>1. InStep("DEBUG") /\ InStep("INFO")
    BY DEF InStep
  <2>. QED
    BY <2>1 DEF ToggleInv, Toggler
<1>. QED
  BY <1>1, <1>2, <1>3, <1>4, <1>5 DEF IInv

(***************************************************************************)
(* In every reachable state the mutexes have the owners, the log the pieces *)
(* and the handlers the local levels that logMessage and handleSignal      *)
(* leave.                                                                  *)
(***************************************************************************)
THEOREM Invariance == Spec => []IInv
<1>1. IInv /\ [Next]_vars => IInv'
  BY TypePreserved, FramePreserved, MutexPreserved, FilePreserved, LevelPreserved,
     TogglePreserved DEF IInv
<1>. QED
  BY <1>1, InitIInv, PTL DEF Spec

(* The variables of the handlers and the logger have their types. *)
THEOREM TypeCorrect == Spec => []TypeOK
<1>1. IInv => TypeOK
  BY DEF IInv
<1>. QED
  BY <1>1, Invariance, PTL

(***************************************************************************)
(* Whatever interrupts what, the prefix of a line that logMessage writes   *)
(* is followed by the text of the same line.                               *)
(***************************************************************************)
THEOREM LogIsUnmixed == Spec => []LinesAreWhole
<1>1. IInv => LinesAreWhole
  BY DEF IInv, FileInv
<1>. QED
  BY <1>1, Invariance, PTL

(***************************************************************************)
(* After any number of SIGUSR1 that did not overlap INFO and DEBUG are on  *)
(* or off as their number says, and nothing touches the other levels.      *)
(***************************************************************************)
THEOREM LevelsAreRight == Spec => []LevelsFollowSignals
<1>1. IInv => LevelsFollowSignals
  <2>. SUFFICES ASSUME IInv PROVE LevelsFollowSignals
    OBVIOUS
  <2>1. ASSUME ~overlapped, \A t \in Threads : ~Toggler(t)
        PROVE  InStep("INFO") /\ InStep("DEBUG")
    BY <2>1, FrameFacts DEF IInv, TypeOK, FrameInv, LevelInv, ToggleInv, Toggler, Toggling
  <2>. QED
    BY <2>1 DEF LevelsFollowSignals, IInv, LevelInv, InStep, Switched
<1>. QED
  BY <1>1, Invariance, PTL
=============================================================================
