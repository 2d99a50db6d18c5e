------------------------------ MODULE Startup -------------------------------
(***************************************************************************)
(* main() of wctl from its command line to the moment the threads run      *)
(* (main.cpp), with cfgmgr::initialise (cfgmgr.cpp), logger::initlogger    *)
(* (logger.cpp) and daemonise (utils.cpp): what the configuration comes    *)
(* to, where log lines go, and what becomes of the log of the run before.  *)
(*                                                                         *)
(* The process may be killed at every step and be started again, on the    *)
(* same day or a later one.  What it leaves are the log file and one       *)
(* archive of it a day, logfile_YYYYMMDD.                                  *)
(***************************************************************************)
EXTENDS Integers, Sequences, SequencesExt, FiniteSetsExt

CONSTANTS
  CommandLines,    \* the command lines it may be started with
  Configs,         \* the contents its configuration file may have
  PropertyFiles,   \* the values <file> that name a file, and what the file holds
  IsProperty(_),   \* whether a value has the form <file>
  PosLimit,        \* 2^32: where an uint32_t wraps; bound on the length of a line
  IOFaults,        \* what may fail: "fork", "look", "archive", "read", "write", "log"
  LogFile,         \* the path of the log file, wherever one is named
  MaxRuns,         \* bound: runs of the process
  MaxDays,         \* bound: days that pass
  MaxLines         \* bound: lines written to log files

ASSUME CommandLinesAssumption ==
  CommandLines \subseteq
    [cfg : {"none", "absent", "relative", "absolute"}, d : BOOLEAN, log : BOOLEAN, dump : BOOLEAN]
ASSUME ConfigsAssumption ==
  \A lines \in Configs :
    /\ lines \in Seq([text : STRING, length : Nat, comment : BOOLEAN,
                     equals : BOOLEAN, pos : Nat, key : STRING, value : STRING])
    /\ \A i \in DOMAIN lines :
         /\ lines[i].length \in 0 .. PosLimit - 1
         /\ lines[i].equals => lines[i].pos \in 0 .. lines[i].length - 1
         /\ lines[i].key = "log.filename" => lines[i].value \in {LogFile, ""}
ASSUME IOFaultsAssumption == IOFaults \subseteq {"fork", "look", "archive", "read", "write", "log"}
ASSUME PosLimitAssumption == PosLimit \in Nat \ {0}
ASSUME BoundsAssumption == MaxRuns \in Nat /\ MaxDays \in Nat \ {0} /\ MaxLines \in Nat

VARIABLES
  \* outside the process
  day, runs,
  config,       \* the lines of the configuration file
  logFile,      \* the log file: the lines in it
  exists,       \* whether there is one
  archive,      \* the archive of each day
  \* the process
  pc, args,
  values,       \* cfgmgr's values
  fptr,         \* logger's fptr: "none", "stdout" or "file"
  fd,           \* its file descriptors
  into,         \* the day whose archive archiveLogFile opened, 0 if it did not
  toCopy,       \* what it has still to read
  \* histories
  logged,       \* lines written to a log file
  sealed,       \* days whose archive holds what the log file no longer does
  discarded,    \* lines of such an archive that was opened again
  ioFailed      \* opening or writing an archive, or looking for the log, went wrong

diskVars == <<config, logFile, exists, archive>>
histVars == <<logged, sealed, discarded, ioFailed>>
vars == <<day, runs, diskVars, pc, args, values, fptr, fd, into, toCopy, histVars>>

Days == 1..MaxDays
Lines == 1..MaxLines
Descriptors == 0..7
Files == {"closed", "tty", "oldLog", "log", "gpio", "spi", "db"}
Pcs == {"dead", "daemonise", "config", "dump", "logger", "copy", "stuck", "open", "threads", "running"}

TypeOK ==
  /\ day \in Days /\ runs \in 0..MaxRuns
  /\ config \in Configs
  /\ logFile \subseteq Lines /\ exists \in BOOLEAN
  /\ archive \in [Days -> SUBSET Lines]
  /\ pc \in Pcs /\ args \in CommandLines
  /\ fptr \in {"none", "stdout", "file"}
  /\ (fptr = "file") <=> (\E n \in Descriptors : fd[n] = "log")
  /\ fd \in [Descriptors -> Files]
  /\ into \in Days \cup {0}
  /\ toCopy \subseteq logFile
  /\ logged \subseteq Lines /\ sealed \subseteq Days
  /\ discarded \subseteq Lines /\ ioFailed \in BOOLEAN

Init ==
  /\ day = 1 /\ runs = 0
  /\ config \in Configs
  /\ logFile = {} /\ exists = FALSE
  /\ archive = [d \in Days |-> {}]
  /\ pc = "dead" /\ args \in CommandLines
  /\ values = <<>> /\ fptr = "none"
  /\ fd = [n \in Descriptors |-> "closed"]
  /\ into = 0 /\ toCopy = {}
  /\ logged = {} /\ sealed = {} /\ discarded = {} /\ ioFailed = FALSE

-----------------------------------------------------------------------------
(* cfgmgr. *)

(* Mutant: the first of two lines for one key wins. *)
Assign_FirstWins(vals, key, value) ==
  IF key \in DOMAIN vals THEN vals
  ELSE [k \in DOMAIN vals \cup {key} |-> IF k = key THEN value ELSE vals[k]]

(* this->values[key] = value *)
Assign(vals, key, value) ==
  [k \in DOMAIN vals \cup {key} |-> IF k = key THEN value ELSE vals[k]]

(* A line that is neither empty nor a comment. *)
IsSetting(line) == line.text # "" /\ ~line.comment

(***************************************************************************)
(* Where to split it.  Without a '=' find_first_of gives npos, the largest *)
(* size_t, of which equalPos, an uint32_t, keeps the low bits: a position  *)
(* beyond any line, so the key is the whole line; and so is the value,     *)
(* which starts at equalPos + 1 = 0.                                       *)
(***************************************************************************)
Npos == -1
EqualPos(line) == (IF line.equals THEN line.pos ELSE Npos) % PosLimit
KeyOf(line) == IF EqualPos(line) < line.length THEN line.key ELSE line.text
RawValueOf(line) == IF (EqualPos(line) + 1) % PosLimit = 0 THEN line.text ELSE line.value

(* readPropertyValue: a value <file> is replaced by what is in the file. *)
ValueOf(line) ==
  IF IsProperty(RawValueOf(line)) THEN PropertyFiles[RawValueOf(line)] ELSE RawValueOf(line)

(* It throws cfg_error if there is no such file. *)
PropertyMissing(lines) ==
  \E i \in DOMAIN lines : /\ IsSetting(lines[i])
                          /\ IsProperty(RawValueOf(lines[i]))
                          /\ RawValueOf(lines[i]) \notin DOMAIN PropertyFiles

(* initialise: the file from its first line to its last. *)
ReadLine(vals, line) ==
  IF IsSetting(line) THEN Assign(vals, KeyOf(line), ValueOf(line)) ELSE vals
ReadLines(lines) == FoldLeft(ReadLine, <<>>, lines)

GetValue(key) == IF key \in DOMAIN values THEN values[key] ELSE ""

-----------------------------------------------------------------------------
(* The process starts, ends, and what the kernel does for it. *)

Die ==
  /\ pc' = "dead"
  /\ fptr' = "none" /\ values' = <<>> /\ into' = 0 /\ toCopy' = {}
  /\ fd' = [n \in Descriptors |-> "closed"]

(* open() gives the lowest descriptor that is free. *)
Opened(fds, what) ==
  LET n == Min({m \in Descriptors : fds[m] = "closed"})
  IN  [fds EXCEPT ![n] = what]

Start(a) ==
  /\ pc = "dead" /\ runs < MaxRuns
  /\ runs' = runs + 1
  /\ args' = a
  /\ fd' = [n \in Descriptors |-> IF n \in {0, 1, 2} THEN "tty" ELSE "closed"]
  /\ pc' = IF a.d THEN "daemonise" ELSE "config"
  /\ UNCHANGED <<day, diskVars, values, fptr, into, toCopy, histVars>>

(* A child goes on, in the root directory, without stdin and stdout. *)
Daemonise ==
  /\ pc = "daemonise"
  /\ pc' = "config"
  /\ fd' = [fd EXCEPT ![0] = "closed", ![1] = "closed"]
  /\ UNCHANGED <<day, runs, diskVars, args, values, fptr, into, toCopy, histVars>>

(* fork(), setsid() or chdir() fails: exit(EXIT_FAILURE). *)
DaemoniseFails ==
  /\ pc = "daemonise" /\ "fork" \in IOFaults
  /\ Die
  /\ UNCHANGED <<day, runs, diskVars, args, histVars>>

(* A relative path means nothing any more after daemonise(). *)
ConfigFound == args.cfg = "absolute" \/ (args.cfg = "relative" /\ ~args.d)

(***************************************************************************)
(* cfg.initialise(pszConfigFileName).  An ifstream that cannot open its    *)
(* file does not throw; getline() just ends at once.                       *)
(***************************************************************************)
Initialise ==
  /\ pc = "config"
  /\ args.cfg # "none"
  /\ ConfigFound => ~PropertyMissing(config)
  /\ values' = IF ConfigFound THEN ReadLines(config) ELSE <<>>
  /\ pc' = IF args.dump THEN "dump" ELSE "logger"
  /\ UNCHANGED <<day, runs, diskVars, args, fptr, fd, into, toCopy, histVars>>

(***************************************************************************)
(* It throws: cfg_error for want of a property file, which main reports;   *)
(* or, without -cfg, what std::string makes of a null pointer, which ends  *)
(* the process.                                                            *)
(***************************************************************************)
InitialiseThrows ==
  /\ pc = "config"
  /\ args.cfg = "none" \/ (ConfigFound /\ PropertyMissing(config))
  /\ Die
  /\ UNCHANGED <<day, runs, diskVars, args, histVars>>

DumpConfig ==
  /\ pc = "dump"
  /\ Die
  /\ UNCHANGED <<day, runs, diskVars, args, histVars>>

(* SIGKILL, or a crash of the process; what it wrote, the kernel has. *)
Kill ==
  /\ pc # "dead"
  /\ Die
  /\ UNCHANGED <<day, runs, diskVars, args, histVars>>

NextDay ==
  /\ day < MaxDays
  /\ day' = day + 1
  /\ UNCHANGED <<runs, diskVars, pc, args, values, fptr, fd, into, toCopy, histVars>>

-----------------------------------------------------------------------------
(* The log file: -log on the command line, or log.filename. *)

LogName == IF args.log THEN LogFile ELSE GetValue("log.filename")

HasOldLog == LogName # "" /\ exists

(* logFileExists() says no: nothing to archive. *)
NoOldLog ==
  /\ pc = "logger" /\ ~HasOldLog
  /\ pc' = "open"
  /\ UNCHANGED <<day, runs, diskVars, args, values, fptr, fd, into, toCopy, histVars>>

(***************************************************************************)
(* The log is there but cannot be opened: logFileExists() says no, or      *)
(* archiveLogFile returns -1 at once, which main does not look at.         *)
(***************************************************************************)
OldLogUnread ==
  /\ pc = "logger" /\ HasOldLog /\ "look" \in IOFaults
  /\ pc' = "open"
  /\ ioFailed' = TRUE
  /\ UNCHANGED <<day, runs, diskVars, args, values, fptr, fd, into, toCopy,
                 logged, sealed, discarded>>

(* archiveLogFile opens the log and, for writing, the archive of today. *)
OpenArchive ==
  /\ pc = "logger" /\ HasOldLog
  /\ pc' = "copy"
  /\ into' = day /\ toCopy' = logFile
  /\ archive' = [archive EXCEPT ![day] = {}]
  /\ discarded' = discarded \cup (IF day \in sealed THEN archive[day] ELSE {})
  /\ UNCHANGED <<day, runs, config, logFile, exists, args, values, fptr, fd,
                 logged, sealed, ioFailed>>

(* It cannot open the archive, and returns -1 with the log still open. *)
OpenArchiveFails ==
  /\ pc = "logger" /\ HasOldLog /\ "archive" \in IOFaults
  /\ pc' = "open"
  /\ fd' = Opened(fd, "oldLog")
  /\ ioFailed' = TRUE
  /\ UNCHANGED <<day, runs, diskVars, args, values, fptr, into, toCopy,
                 logged, sealed, discarded>>

(* fread() and fwrite() of one buffer, here one line. *)
CopyBuffer ==
  /\ pc = "copy"
  /\ \E line \in toCopy :
       /\ toCopy' = toCopy \ {line}
       /\ archive' = [archive EXCEPT ![into] = @ \cup {line}]
  /\ UNCHANGED <<day, runs, config, logFile, exists, pc, args, values, fptr, fd, into, histVars>>

(* fwrite() writes less than it was given, which nobody looks at. *)
CopyBufferShort ==
  /\ pc = "copy" /\ "write" \in IOFaults
  /\ \E line \in toCopy : toCopy' = toCopy \ {line}
  /\ ioFailed' = TRUE
  /\ UNCHANGED <<day, runs, diskVars, pc, args, values, fptr, fd, into,
                 logged, sealed, discarded>>

(* fread() fails.  The loop waits for feof(), which an error never sets. *)
CopyReadFails ==
  /\ pc = "copy" /\ toCopy # {} /\ "read" \in IOFaults
  /\ pc' = "stuck"
  /\ UNCHANGED <<day, runs, diskVars, args, values, fptr, fd, into, toCopy, histVars>>

(* Mutant: the archive is closed before the end of the log. *)
CopyEnds_Early ==
  /\ pc = "copy"
  /\ pc' = "open" /\ toCopy' = {}
  /\ UNCHANGED <<day, runs, diskVars, args, values, fptr, fd, into, histVars>>


(* feof(): both files are closed. *)
CopyEnds ==
  /\ pc = "copy" /\ toCopy = {}
  /\ pc' = "open"
  /\ UNCHANGED <<day, runs, diskVars, args, values, fptr, fd, into, toCopy, histVars>>

(* Mutant: without log.level the file name is not looked at either. *)
UsesStdout_NoLevel == ~args.log /\ GetValue("log.level") = ""

(* initlogger(level): neither a name nor a level is configured. *)
UsesStdout == LogName = "" /\ GetValue("log.level") = ""

InitLoggerStdout ==
  /\ pc = "open" /\ UsesStdout
  /\ fptr' = "stdout"
  /\ pc' = "threads"
  /\ UNCHANGED <<day, runs, diskVars, args, values, fd, into, toCopy, histVars>>

(* initlogger(filename, level): fopen(..., "wt") empties the file. *)
InitLogger ==
  /\ pc = "open" /\ ~UsesStdout /\ LogName # ""
  /\ fptr' = "file"
  /\ fd' = Opened(fd, "log")
  /\ logFile' = {} /\ exists' = TRUE
  /\ sealed' = (sealed \cup {into}) \ {0}
  /\ pc' = "threads"
  /\ UNCHANGED <<day, runs, config, archive, args, values, into, toCopy,
                 logged, discarded, ioFailed>>

(* Mutant: a failed fopen() goes unnoticed. *)
InitLoggerThrows_Unchecked ==
  /\ pc = "open" /\ ~UsesStdout
  /\ LogName = "" \/ "log" \in IOFaults
  /\ fptr' = "file"
  /\ pc' = "threads"
  /\ UNCHANGED <<day, runs, diskVars, args, values, fd, into, toCopy, histVars>>

(* fopen() fails, as it always does of the empty name: log_error, exit(-1). *)
InitLoggerThrows ==
  /\ pc = "open" /\ ~UsesStdout
  /\ LogName = "" \/ "log" \in IOFaults
  /\ Die
  /\ UNCHANGED <<day, runs, diskVars, args, histVars>>

-----------------------------------------------------------------------------
(* threadMgr.start(), and what the threads open, each in its own time. *)

StartThreads ==
  /\ pc = "threads"
  /\ pc' = "running"
  /\ UNCHANGED <<day, runs, diskVars, args, values, fptr, fd, into, toCopy, histVars>>

IsOpen(what) == \E n \in Descriptors : fd[n] = what

(* configureSPI opens the GPIO chip and then the SPI bus; libpq a socket. *)
OpenDevice(what) ==
  /\ pc = "running" /\ ~IsOpen(what)
  /\ what = "spi" => IsOpen("gpio")
  /\ fd' = Opened(fd, what)
  /\ UNCHANGED <<day, runs, diskVars, pc, args, values, fptr, into, toCopy, histVars>>

(* logMessage: a line goes to the log file. *)
LogToFile ==
  /\ pc = "running" /\ fptr = "file"
  /\ \E line \in Lines \ logged :
       /\ \A other \in Lines \ logged : line <= other
       /\ logFile' = logFile \cup {line}
       /\ logged' = logged \cup {line}
  /\ UNCHANGED <<day, runs, config, exists, archive, pc, args, values, fptr, fd, into, toCopy,
                 sealed, discarded, ioFailed>>

StartupStep ==
  \/ Daemonise \/ DaemoniseFails
  \/ Initialise \/ InitialiseThrows \/ DumpConfig
  \/ NoOldLog \/ OldLogUnread \/ OpenArchive \/ OpenArchiveFails
  \/ CopyBuffer \/ CopyBufferShort \/ CopyReadFails \/ CopyEnds
  \/ InitLoggerStdout \/ InitLogger \/ InitLoggerThrows
  \/ StartThreads

Next ==
  \/ \E a \in CommandLines : Start(a)
  \/ StartupStep
  \/ \E what \in {"gpio", "spi", "db"} : OpenDevice(what)
  \/ LogToFile
  \/ Kill
  \/ NextDay

(* main() is running code.  Nothing is promised of starts, threads or days. *)
Spec == Init /\ [][Next]_vars /\ WF_vars(StartupStep)

-----------------------------------------------------------------------------

(* What a line is meant to say: what is before its '=' and what after, if it has one. *)
Name(line) == IF line.equals THEN line.key ELSE line.text
Meaning(line) ==
  LET value == IF line.equals THEN line.value ELSE line.text
  IN  IF IsProperty(value) THEN PropertyFiles[value] ELSE value

(***************************************************************************)
(* Each setting has the value of the last line for it, read from its file  *)
(* if the line names one; a line without '=' is a setting of its own name, *)
(* whatever becomes of npos in 32 bits.  (cfgmgr::initialise)              *)
(***************************************************************************)
LastLineCounts ==
  pc \in {"logger", "copy", "open", "threads", "running"} /\ ConfigFound =>
    \A i \in DOMAIN config :
      LET isLast == \A j \in DOMAIN config :
            j > i /\ IsSetting(config[j]) => Name(config[j]) # Name(config[i])
      IN  IsSetting(config[i]) /\ isLast => GetValue(Name(config[i])) = Meaning(config[i])

(***************************************************************************)
(* Wherever the process is killed and however often it is started, a line  *)
(* that was logged is in the log file or in an archive, unless an          *)
(* operation on the files failed.  A second restart within one day loses   *)
(* what the first put into the archive of that day and nothing else.       *)
(* (archiveLogFile, initlogger)                                            *)
(***************************************************************************)
LogIsKept ==
  ~ioFailed => logged \subseteq logFile \cup discarded \cup UNION {archive[d] : d \in Days}

(***************************************************************************)
(* The logger's stdout is a device or the database connection only in a    *)
(* daemon with neither -log, log.filename nor log.level: descriptor 1,     *)
(* which daemonise() closed, goes to what is opened next.                  *)
(* (logger::initlogger, daemonise)                                         *)
(***************************************************************************)
OnlyDaemonsSpill ==
  fptr = "stdout" /\ fd[1] \notin {"tty", "closed"} =>
    args.d /\ LogName = "" /\ GetValue("log.level") = ""


-----------------------------------------------------------------------------
(* Towards an inductive invariant. *)

(* The descriptors of the three standard streams, and one for each file or device. *)
DescriptorInv ==
  /\ \A n \in Descriptors : fd[n] = "tty" => n \in {0, 1, 2}
  /\ \A m, n \in Descriptors : m # n /\ fd[m] = fd[n] => fd[m] \in {"closed", "tty"}
  /\ pc \notin {"dead", "open", "threads", "running"} =>
       \A n \in Descriptors : fd[n] \in {"closed", "tty"}
  /\ pc = "open" => \A n \in Descriptors : fd[n] \in {"closed", "tty", "oldLog"}
  /\ pc = "daemonise" => args.d
  /\ pc # "dead" /\ ~args.d => \A n \in {0, 1, 2} : fd[n] = "tty"

(* What main() and cfgmgr know. *)
SettingsInv ==
  /\ pc \in {"logger", "copy", "open", "threads", "running"} /\ ConfigFound =>
       values = ReadLines(config)
  /\ fptr # "none" => pc \in {"threads", "running"}
  /\ fptr = "stdout" => UsesStdout

(* What has been copied of a log that is going to be emptied. *)
ArchiveInv ==
  /\ exists \/ logFile = {}
  /\ fptr = "file" => exists
  /\ pc \in {"dead", "daemonise", "config", "dump", "logger"} => into = 0
  /\ pc \notin {"copy", "stuck"} => toCopy = {}
  /\ pc = "copy" => into # 0
  /\ pc \in {"copy", "open"} /\ ~ioFailed =>
       IF into # 0 THEN logFile \ toCopy \subseteq archive[into]
       ELSE LogName # "" => ~exists
  /\ ~ioFailed =>
       logged \subseteq logFile \cup discarded \cup UNION {archive[d] : d \in sealed}

IInv == TypeOK /\ DescriptorInv /\ SettingsInv /\ ArchiveInv

-----------------------------------------------------------------------------

(***************************************************************************)
(* "Could not open configuration file" (main.cpp:196): the threads run     *)
(* with a configuration that was read.                                     *)
(***************************************************************************)
MissingConfigIsReported == pc = "running" => ConfigFound
=============================================================================
