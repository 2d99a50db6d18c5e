------------------------------ MODULE Signals ------------------------------
(***************************************************************************)
(* The signal handler of main.cpp over the logger it shares with every     *)
(* thread.  logMessage (logger.cpp) writes a line under a mutex and, if    *)
(* the line's level is enabled, takes the time stamp under the mutex of    *)
(* utils.cpp; neither mutex is recursive.  A signal is delivered to some   *)
(* thread, whose own work then waits until the handler has returned.       *)
(*                                                                         *)
(* Of the threads' work only its use of the logger is here: WeatherCtl     *)
(* has the rest, and the handler's effect on it (Kill).                    *)
(***************************************************************************)
EXTENDS Integers, Sequences, FiniteSets

CONSTANTS
  Workers,      \* the threads of ThreadManager, in the order it starts them
  Messages,     \* levels at which the threads log
  Level0,       \* log.level of the configuration
  SignalNames,  \* signals that are sent
  MaxSignals,   \* bound: signals sent
  MaxLines      \* bound: lines the workers log

Levels == {"INFO", "STATUS", "DEBUG", "ERROR", "FATAL"}

ASSUME WorkersAssumption ==
  /\ Workers \in Seq(STRING) /\ "main" \notin {Workers[i] : i \in DOMAIN Workers}
  /\ \A i, j \in DOMAIN Workers : i # j => Workers[i] # Workers[j]
ASSUME LevelsAssumption == Messages \subseteq Levels /\ Level0 \subseteq Levels
ASSUME SignalsAssumption == SignalNames \subseteq {"TERM", "USR1", "USR2"}
ASSUME BoundsAssumption == MaxSignals \in Nat /\ MaxLines \in Nat

Threads == {Workers[i] : i \in DOMAIN Workers} \cup {"main"}

(* A thread's own calls, and those of the handler it may be running. *)
Frames == Threads \X {"run", "handler"}
None == <<"main", "none">>

VARIABLES
  alive,          \* the process exists
  pc,             \* where each frame is
  sig,            \* the signal each thread's handler was called for
  msg,            \* level of the line each frame is logging
  logMutex,       \* frame that holds logger.cpp's _mutex
  tsMutex,        \* frame that holds utils.cpp's _mutex
  loggingLevel,   \* logger::loggingLevel
  bit,            \* the level each handler is toggling
  level,          \* local level of each handler
  file,           \* the log file: who wrote each piece, and which piece
  started,        \* history: workers started
  signals,        \* history: signals sent
  toggles,        \* history: SIGUSR1 handlers that have returned
  overlapped      \* history: two SIGUSR1 handlers have been active at once

mutexes == <<logMutex, tsMutex>>
levelVars == <<loggingLevel, bit, level>>
history == <<started, signals, toggles, overlapped>>
vars == <<alive, pc, sig, msg, mutexes, levelVars, file, history>>

Toggling == {"test", "get", "set"}
Logging == {"lock", "stamp", "stamping", "prefix", "text", "unlock"}

TypeOK ==
  /\ alive \in BOOLEAN
  /\ pc \in [Frames -> {"unborn", "idle"} \cup Logging \cup Toggling \cup {"kill"}]
  /\ sig \in [Threads -> {"TERM", "USR1", "USR2"}]
  /\ msg \in [Frames -> Levels]
  /\ logMutex \in Frames \cup {None}
  /\ tsMutex \in Frames \cup {None}
  /\ loggingLevel \subseteq Levels
  /\ bit \in [Threads -> {"INFO", "DEBUG"}]
  /\ level \in [Threads -> SUBSET Levels]
  /\ file \in Seq(Frames \X {"prefix", "text"})
  /\ started \in 0..Len(Workers)
  /\ signals \in 0..MaxSignals
  /\ toggles \in Nat
  /\ overlapped \in BOOLEAN

Run(t) == <<t, "run">>
Handler(t) == <<t, "handler">>

(* The handlers are registered and ThreadManager::start is about to run. *)
Init ==
  /\ alive = TRUE
  /\ pc = [f \in Frames |-> IF f[2] = "run" /\ f[1] # "main" THEN "unborn" ELSE "idle"]
  /\ sig = [t \in Threads |-> "TERM"]
  /\ msg = [f \in Frames |-> "STATUS"]
  /\ logMutex = None /\ tsMutex = None
  /\ loggingLevel = Level0
  /\ bit = [t \in Threads |-> "INFO"]
  /\ level = [t \in Threads |-> {}]
  /\ file = <<>>
  /\ started = 0 /\ signals = 0 /\ toggles = 0 /\ overlapped = FALSE

(* A frame takes its next step at p: its thread is not in a handler above it. *)
At(f, p) ==
  /\ alive /\ pc[f] = p
  /\ f[2] = "run" => pc[Handler(f[1])] = "idle"

Goto(f, p) == pc' = [pc EXCEPT ![f] = p]

-----------------------------------------------------------------------------
(* The threads. *)

(* ThreadManager::start creates the next thread and logs that it has. *)
StartThread ==
  /\ At(Run("main"), "idle")
  /\ started < Len(Workers)
  /\ pc' = [pc EXCEPT ![Run(Workers[started + 1])] = "idle", ![Run("main")] = "lock"]
  /\ msg' = [msg EXCEPT ![Run("main")] = "STATUS"]
  /\ started' = started + 1
  /\ UNCHANGED <<alive, sig, mutexes, levelVars, file, signals, toggles, overlapped>>

(* A worker logs a line. *)
LogLine(t) ==
  /\ t # "main" /\ At(Run(t), "idle")
  /\ Len(file) < 2 * MaxLines
  /\ \E m \in Messages : msg' = [msg EXCEPT ![Run(t)] = m]
  /\ Goto(Run(t), "lock")
  /\ UNCHANGED <<alive, sig, mutexes, levelVars, file, history>>

(* DBUpdateThread::run takes a time stamp for its rows, outside the logger. *)
GetTimestamp ==
  /\ "db" \in Threads /\ At(Run("db"), "idle")
  /\ Goto(Run("db"), "stamp")
  /\ UNCHANGED <<alive, sig, msg, mutexes, levelVars, file, history>>

-----------------------------------------------------------------------------
(* logger::logMessage *)

(* Mutant: pthread_mutex_trylock, and its result is not looked at. *)
Lock_TryOnly(f) ==
  /\ At(f, "lock")
  /\ logMutex' = f
  /\ Goto(f, IF msg[f] \in loggingLevel THEN "stamp" ELSE "unlock")
  /\ UNCHANGED <<alive, sig, msg, tsMutex, levelVars, file, history>>

(* pthread_mutex_lock blocks, even the thread that holds the mutex. *)
Lock(f) ==
  /\ At(f, "lock")
  /\ logMutex = None
  /\ logMutex' = f
  /\ Goto(f, IF msg[f] \in loggingLevel THEN "stamp" ELSE "unlock")
  /\ UNCHANGED <<alive, sig, msg, tsMutex, levelVars, file, history>>

(* _getTimestamp takes its mutex ... *)
Stamp(f) ==
  /\ At(f, "stamp")
  /\ tsMutex = None
  /\ tsMutex' = f
  /\ Goto(f, "stamping")
  /\ UNCHANGED <<alive, sig, msg, logMutex, levelVars, file, history>>

(* ... and gives it back, to logMessage or to the database thread. *)
Stamping(f) ==
  /\ At(f, "stamping")
  /\ tsMutex' = None
  /\ Goto(f, IF logMutex = f THEN "prefix" ELSE "idle")
  /\ UNCHANGED <<alive, sig, msg, logMutex, levelVars, file, history>>

Write(f, piece, next) ==
  /\ At(f, piece)
  /\ file' = Append(file, <<f, piece>>)
  /\ Goto(f, next)
  /\ UNCHANGED <<alive, sig, msg, mutexes, levelVars, history>>

WritePrefix(f) == Write(f, "prefix", "text")
WriteText(f) == Write(f, "text", "unlock")

(* Mutant: the handler leaves its switch towards exit() without kill(). *)
Returned_NoKill(f) ==
  IF f[2] = "run" THEN "idle" ELSE IF sig[f[1]] = "USR1" THEN "test" ELSE "exit"

(* The handler goes on to what its signal asks for. *)
Returned(f) ==
  IF f[2] = "run" THEN "idle" ELSE IF sig[f[1]] = "USR1" THEN "test" ELSE "kill"

(* Mutant: a line whose level is off returns without unlocking. *)
Unlock_OnlyIfWritten(f) ==
  /\ At(f, "unlock")
  /\ logMutex' = IF msg[f] \in loggingLevel THEN None ELSE logMutex
  /\ Goto(f, Returned(f))
  /\ UNCHANGED <<alive, sig, msg, tsMutex, levelVars, file, history>>

Unlock(f) ==
  /\ At(f, "unlock")
  /\ logMutex' = None
  /\ Goto(f, Returned(f))
  /\ UNCHANGED <<alive, sig, msg, tsMutex, levelVars, file, history>>

LogStep(f) ==
  Lock(f) \/ Stamp(f) \/ Stamping(f) \/ WritePrefix(f) \/ WriteText(f) \/ Unlock(f)

-----------------------------------------------------------------------------
(* handleSignal *)

Toggler(t) == pc[Handler(t)] # "idle" /\ sig[t] = "USR1"

(***************************************************************************)
(* A signal interrupts a thread wherever it is.  Every case but SIGUSR2    *)
(* begins with logStatus.  A handler is not interrupted by another signal  *)
(* here; two threads may each run one.                                     *)
(***************************************************************************)
Signal(t, s) ==
  /\ alive /\ signals < MaxSignals
  /\ pc[Run(t)] # "unborn" /\ pc[Handler(t)] = "idle"
  /\ signals' = signals + 1
  /\ sig' = [sig EXCEPT ![t] = s]
  /\ msg' = [msg EXCEPT ![Handler(t)] = "STATUS"]
  /\ Goto(Handler(t), IF s = "USR2" THEN "kill" ELSE "lock")
  /\ overlapped' = (overlapped \/ (s = "USR1" /\ \E u \in Threads : Toggler(u)))
  /\ UNCHANGED <<alive, mutexes, levelVars, file, started, toggles>>

(* isLogLevel: the level is read without the mutex. *)
TestLevel(t) ==
  /\ At(Handler(t), "test")
  /\ level' = [level EXCEPT ![t] =
                 IF bit[t] \in loggingLevel THEN {bit[t]} ELSE {}]
  /\ Goto(Handler(t), "get")
  /\ UNCHANGED <<alive, sig, msg, mutexes, loggingLevel, bit, file, history>>

(* getLogLevel, and the bit cleared or set in the copy. *)
GetLevel(t) ==
  /\ At(Handler(t), "get")
  /\ level' = [level EXCEPT ![t] =
                 IF level[t] = {} THEN loggingLevel \cup {bit[t]}
                                  ELSE loggingLevel \ {bit[t]}]
  /\ Goto(Handler(t), "set")
  /\ UNCHANGED <<alive, sig, msg, mutexes, loggingLevel, bit, file, history>>

(* Mutant: setLogLevel gets the bit alone, not the level with the bit set. *)
SetLevel_BitOnly(t) ==
  /\ At(Handler(t), "set")
  /\ loggingLevel' = level[t] \cap {bit[t]}
  /\ bit' = [bit EXCEPT ![t] = IF bit[t] = "INFO" THEN "DEBUG" ELSE "INFO"]
  /\ level' = [level EXCEPT ![t] = {}]
  /\ Goto(Handler(t), IF bit[t] = "INFO" THEN "test" ELSE "idle")
  /\ toggles' = IF bit[t] = "INFO" THEN toggles ELSE toggles + 1
  /\ UNCHANGED <<alive, sig, msg, mutexes, file, started, signals, overlapped>>

(* setLogLevel; after INFO the same for DEBUG, and then the handler returns. *)
SetLevel(t) ==
  /\ At(Handler(t), "set")
  /\ loggingLevel' = level[t]
  /\ bit' = [bit EXCEPT ![t] = IF bit[t] = "INFO" THEN "DEBUG" ELSE "INFO"]
  /\ level' = [level EXCEPT ![t] = {}]
  /\ Goto(Handler(t), IF bit[t] = "INFO" THEN "test" ELSE "idle")
  /\ toggles' = IF bit[t] = "INFO" THEN toggles ELSE toggles + 1
  /\ UNCHANGED <<alive, sig, msg, mutexes, file, started, signals, overlapped>>

(***************************************************************************)
(* ThreadManager::kill: the first pthread_kill(tid, SIGKILL) ends the      *)
(* process, with a thread that was never started it is a SIGSEGV.  What    *)
(* handleSignal would do next (close the radio and the log) is not done.   *)
(***************************************************************************)
KillThreads(t) ==
  /\ At(Handler(t), "kill")
  /\ alive' = FALSE
  /\ UNCHANGED <<pc, sig, msg, mutexes, levelVars, file, history>>

HandlerStep(t) == TestLevel(t) \/ GetLevel(t) \/ SetLevel(t) \/ KillThreads(t)

-----------------------------------------------------------------------------

Next ==
  \/ StartThread
  \/ \E t \in Threads : LogLine(t) \/ HandlerStep(t)
  \/ GetTimestamp
  \/ \E f \in Frames : LogStep(f)
  \/ \E t \in Threads, s \in SignalNames : Signal(t, s)

(***************************************************************************)
(* The kernel runs every thread that can run.  A mutex is not handed over  *)
(* fairly, but its holders sleep between lines, so one who waits gets it.  *)
(***************************************************************************)
Fairness ==
  /\ \A f \in Frames : SF_vars(LogStep(f))
  /\ \A t \in Threads : WF_vars(HandlerStep(t))

Spec == Init /\ [][Next]_vars /\ Fairness

-----------------------------------------------------------------------------

(***************************************************************************)
(* Lines of different threads and handlers are not mixed: the prefix of a  *)
(* line is followed by its own text, whoever waits and whoever interrupts. *)
(***************************************************************************)
LinesAreWhole ==
  \A i \in DOMAIN file :
    /\ file[i][2] = "prefix" /\ i < Len(file) => file[i + 1] = <<file[i][1], "text">>
    /\ file[i][2] = "text" => i > 1 /\ file[i - 1] = <<file[i][1], "prefix">>

(***************************************************************************)
(* However the handlers interleave, SIGUSR1 changes INFO and DEBUG only,   *)
(* and if no two of them ran at once each has flipped both.                *)
(***************************************************************************)
LevelsFollowSignals ==
  /\ loggingLevel \ {"INFO", "DEBUG"} = Level0 \ {"INFO", "DEBUG"}
  /\ ~overlapped /\ (\A t \in Threads : ~Toggler(t)) =>
       \A b \in {"INFO", "DEBUG"} :
         (b \in loggingLevel) = ((b \in Level0) = (toggles % 2 = 0))

(***************************************************************************)
(* A handler waits, above a frame of its own thread that holds a mutex:    *)
(* either the very mutex the handler waits for, or the one for which the   *)
(* owner of that mutex waits.                                              *)
(***************************************************************************)
HolderInterrupted ==
  \E t \in Threads :
    pc[Handler(t)] \in {"lock", "stamp"} /\ Run(t) \in {logMutex, tsMutex}

(***************************************************************************)
(* That is the only way for a thread to be stuck: the two mutexes are      *)
(* always taken in the same order, and if no holder stays interrupted for  *)
(* ever, every log call and every handler comes to its end, or the process *)
(* does.                                                                   *)
(***************************************************************************)
OnlyHandlersBlock ==
  []<>(~HolderInterrupted) =>
    \A f \in Frames : pc[f] \in Logging \cup Toggling ~> (pc[f] = "idle" \/ ~alive)

-----------------------------------------------------------------------------

(***************************************************************************)
(* "Detected SIGTERM, cleaning up..." (main.cpp:96): once a thread handles *)
(* SIGTERM the process ends.                                               *)
(***************************************************************************)
TermEndsProcess ==
  \A t \in Threads : (pc[Handler(t)] # "idle" /\ sig[t] = "TERM") ~> ~alive

-----------------------------------------------------------------------------
(***************************************************************************)
(* Towards an inductive invariant.  Threads are born in their order, and   *)
(* only the database thread takes a time stamp without logging.            *)
(***************************************************************************)
FrameInv ==
  /\ \A i \in DOMAIN Workers : i > started => pc[Run(Workers[i])] = "unborn"
  /\ \A t \in Threads :
       /\ pc[Handler(t)] # "unborn"
       /\ pc[Run(t)] \notin Toggling \cup {"kill"}
       /\ pc[Handler(t)] \in Toggling => sig[t] = "USR1"
       /\ pc[Handler(t)] = "kill" => sig[t] # "USR1"

(* Who writes, has the mutex. *)
MutexInv ==
  \A f \in Frames :
    /\ pc[f] \in {"prefix", "text", "unlock"} => logMutex = f
    /\ pc[f] \in {"stamp", "stamping"} => logMutex = f \/ f = Run("db")

(* The last piece is a prefix as long as its writer has not added the text. *)
FileInv ==
  /\ \A f \in Frames : pc[f] = "text" => file # <<>> /\ file[Len(file)] = <<f, "prefix">>
  /\ file # <<>> /\ file[Len(file)][2] = "prefix" => pc[file[Len(file)][1]] = "text"
  /\ LinesAreWhole

Switched == {"INFO", "DEBUG"}

(* b is as SIGUSR1 should have left it. *)
InStep(b) == (b \in loggingLevel) <=> ((b \in Level0) <=> (toggles % 2 = 0))

(* What the handlers have in their local variables. *)
LevelInv ==
  /\ loggingLevel \ Switched = Level0 \ Switched
  /\ \A t \in Threads :
       /\ bit[t] = "DEBUG" => pc[Handler(t)] \in Toggling
       /\ pc[Handler(t)] = "get" => level[t] \subseteq {bit[t]}
       /\ pc[Handler(t)] = "set" => level[t] \ Switched = Level0 \ Switched

(* A SIGUSR1 handler that is alone has flipped INFO before it turns to DEBUG. *)
ToggleInv ==
  ~overlapped =>
    /\ \A t, u \in Threads : Toggler(t) /\ Toggler(u) => t = u
    /\ InStep("DEBUG")
    /\ InStep("INFO") <=> \A t \in Threads : bit[t] = "INFO"
    /\ \A t \in Threads :
         /\ pc[Handler(t)] = "get" => (level[t] = {} <=> bit[t] \notin loggingLevel)
         /\ pc[Handler(t)] = "set" => \A b \in Switched :
              (b \in level[t]) <=> ((b \in loggingLevel) <=> b # bit[t])

IInv == TypeOK /\ FrameInv /\ MutexInv /\ FileInv /\ LevelInv /\ ToggleInv
=============================================================================
