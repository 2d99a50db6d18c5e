--------------------------- MODULE Startup_proofs -----------------------------
(***************************************************************************)
(* Proofs about Startup for every command line, every configuration file   *)
(* and any number of runs, days and lines.                                 *)
(***************************************************************************)
EXTENDS Startup, Induction, TLAPS

-----------------------------------------------------------------------------
(* Descriptors. *)

(* What wctl opens itself. *)
Opens == Files \ {"closed", "tty"}

(* A terminal on the standard streams alone, and nothing else opened twice. *)
OpenOnce(fds) ==
  /\ fds \in [Descriptors -> Files]
  /\ \A n \in Descriptors : fds[n] = "tty" => n \in {0, 1, 2}
  /\ \A m, n \in Descriptors : m # n /\ fds[m] = fds[n] => fds[m] \in {"closed", "tty"}

(* There are five things to open and, beside the standard streams, five descriptors. *)
LEMMA OneIsFree ==
  ASSUME NEW fds, OpenOnce(fds),
         NEW what \in Opens, \A n \in Descriptors : fds[n] # what
  PROVE  \E n \in Descriptors : fds[n] = "closed"
<1>. SUFFICES ASSUME \A n \in Descriptors : fds[n] # "closed" PROVE FALSE
  OBVIOUS
<1>1. /\ 3 \in Descriptors /\ 4 \in Descriptors /\ 5 \in Descriptors
      /\ 6 \in Descriptors /\ 7 \in Descriptors
  BY DEF Descriptors
<1>2. \A n \in {3, 4, 5, 6, 7} : fds[n] \in Opens \ {what}
  BY <1>1 DEF OpenOnce, Opens
<1>3. \A m, n \in {3, 4, 5, 6, 7} : m # n => fds[m] # fds[n]
  BY <1>1, <1>2 DEF OpenOnce, Opens
<1>4. \A n \in {3, 4, 5, 6, 7} : fds[n] \in {"oldLog", "log", "gpio", "spi", "db"} \ {what}
  BY <1>2 DEF Opens, Files
<1>5. what \in {"oldLog", "log", "gpio", "spi", "db"}
  BY DEF Opens, Files
<1>6. /\ fds[3] # fds[4] /\ fds[3] # fds[5] /\ fds[3] # fds[6] /\ fds[3] # fds[7]
      /\ fds[4] # fds[5] /\ fds[4] # fds[6] /\ fds[4] # fds[7]
      /\ fds[5] # fds[6] /\ fds[5] # fds[7] /\ fds[6] # fds[7]
  BY <1>3
<1>7. /\ fds[3] \in {"oldLog", "log", "gpio", "spi", "db"} \ {what}
      /\ fds[4] \in {"oldLog", "log", "gpio", "spi", "db"} \ {what}
      /\ fds[5] \in {"oldLog", "log", "gpio", "spi", "db"} \ {what}
      /\ fds[6] \in {"oldLog", "log", "gpio", "spi", "db"} \ {what}
      /\ fds[7] \in {"oldLog", "log", "gpio", "spi", "db"} \ {what}
  BY <1>4
<1>. QED
  BY <1>5, <1>6, <1>7

(* So open() succeeds, and disturbs none of the others. *)
LEMMA OpenedFacts ==
  ASSUME NEW fds, OpenOnce(fds),
         NEW what \in Opens, \A n \in Descriptors : fds[n] # what
  PROVE  /\ OpenOnce(Opened(fds, what))
         /\ \E n \in Descriptors : Opened(fds, what)[n] = what
         /\ \A n \in Descriptors : /\ Opened(fds, what)[n] \in {fds[n], what}
                                   /\ fds[n] # "closed" => Opened(fds, what)[n] = fds[n]
<1>. DEFINE free == {m \in Descriptors : fds[m] = "closed"}
            o == Opened(fds, what)
<1>1. PICK m \in free : \A n \in free : m <= n
  <2>1. free \in SUBSET Nat /\ free # {}
    BY OneIsFree DEF Descriptors
  <2>. HIDE DEF free
  <2>. QED
    BY <2>1, LeastNatural
<1>2. Min(free) = m
  <2>1. free \in SUBSET Int
    BY DEF Descriptors
  <2>. HIDE DEF free
  <2>. QED
    BY <1>1, <2>1, MinFact
<1>3. o = [fds EXCEPT ![m] = what]
  BY <1>2 DEF Opened
<1>. HIDE DEF o
<1>4. m \in Descriptors /\ fds[m] = "closed" /\ fds \in [Descriptors -> Files]
  BY <1>1 DEF OpenOnce
<1>5. o \in [Descriptors -> Files] /\ o[m] = what /\ \A n \in Descriptors \ {m} : o[n] = fds[n]
  BY <1>3, <1>4 DEF Opens
<1>6. OpenOnce(o)
  <2>1. what \notin {"closed", "tty"}
    BY DEF Opens
  <2>. QED
    BY <1>4, <1>5, <2>1 DEF OpenOnce
<1>. QED
  BY <1>4, <1>5, <1>6 DEF o

-----------------------------------------------------------------------------
(* TypeOK and what is open when. *)

(* Whether it is to run in the background is known. *)
LEMMA CommandLineFacts ==
  ASSUME NEW a \in CommandLines
  PROVE  a.d \in BOOLEAN
BY CommandLinesAssumption

(* The steps that end the process. *)
Ends == DaemoniseFails \/ InitialiseThrows \/ DumpConfig \/ InitLoggerThrows \/ Kill

(* All of them do what Die says. *)
LEMMA EndFacts ==
  ASSUME Ends
  PROVE  Die /\ UNCHANGED <<day, runs, diskVars, args, histVars>>
BY DEF Ends, DaemoniseFails, InitialiseThrows, DumpConfig, InitLoggerThrows, Kill

(* The steps that open or close nothing while the process runs. *)
Moves ==
  \/ Initialise \/ NoOldLog \/ OldLogUnread \/ OpenArchive
  \/ CopyBuffer \/ CopyBufferShort \/ CopyReadFails \/ CopyEnds
  \/ InitLoggerStdout \/ StartThreads

(* Every step is of one of these kinds. *)
LEMMA NextCases ==
  ASSUME Next
  PROVE  \/ \E a \in CommandLines : Start(a)
         \/ Daemonise
         \/ Ends
         \/ Moves
         \/ OpenArchiveFails
         \/ InitLogger
         \/ \E what \in {"gpio", "spi", "db"} : OpenDevice(what)
         \/ LogToFile
         \/ NextDay
BY DEF Next, StartupStep, Ends, Moves

(* Where they lead. *)
LEMMA MoveFacts ==
  ASSUME Moves
  PROVE  /\ UNCHANGED <<day, runs, config, logFile, exists, args, fd, logged, sealed>>
         /\ pc \in Pcs \ {"dead", "daemonise", "running"} /\ pc' \in Pcs \ {"dead", "daemonise"}
         /\ pc = "threads" => pc' = "running"
         /\ pc = "open" => pc' = "threads" /\ fptr' = "stdout"
         /\ pc # "open" => fptr' = fptr
         /\ pc' = "running" => pc = "threads"
         /\ pc' = "threads" => pc = "open"
<1>. USE DEF Pcs, diskVars, histVars
<1>1. CASE Initialise
  BY <1>1 DEF Initialise
<1>2. CASE NoOldLog \/ OldLogUnread \/ OpenArchive
  BY <1>2 DEF NoOldLog, OldLogUnread, OpenArchive
<1>3. CASE CopyBuffer \/ CopyBufferShort \/ CopyReadFails \/ CopyEnds
  BY <1>3 DEF CopyBuffer, CopyBufferShort, CopyReadFails, CopyEnds
<1>4. CASE InitLoggerStdout \/ StartThreads
  BY <1>4 DEF InitLoggerStdout, StartThreads
<1>. QED
  BY <1>1, <1>2, <1>3, <1>4 DEF Moves

(* What opening something does to the invariant of the descriptors. *)
LEMMA OpeningKeeps ==
  ASSUME TypeOK, DescriptorInv, NEW what \in Opens,
         \A n \in Descriptors : fd[n] # what, fd' = Opened(fd, what), args' = args,
         pc # "dead" /\ pc # "daemonise", pc' \notin {"dead", "daemonise"},
         pc' \in {"open", "threads", "running"},
         pc' = "open" => what = "oldLog" /\ pc # "threads" /\ pc # "running"
  PROVE  /\ fd' \in [Descriptors -> Files]
         /\ DescriptorInv'
         /\ \A k \in Files \ {"closed", "tty"} :
              (\E n \in Descriptors : fd'[n] = k) <=> k = what \/ \E n \in Descriptors : fd[n] = k
<1>1. OpenOnce(fd)
  BY DEF OpenOnce, TypeOK, DescriptorInv
<1>2. /\ OpenOnce(fd') /\ \E n \in Descriptors : fd'[n] = what
      /\ \A n \in Descriptors : /\ fd'[n] \in {fd[n], what}
                                /\ fd[n] # "closed" => fd'[n] = fd[n]
  BY <1>1, OpenedFacts
<1>3. fd' \in [Descriptors -> Files]
  BY <1>2 DEF OpenOnce
<1>4. \A k \in Files \ {"closed", "tty"} :
        (\E n \in Descriptors : fd'[n] = k) <=> k = what \/ \E n \in Descriptors : fd[n] = k
  BY <1>2
<1>5. DescriptorInv'
  <2>1. pc' = "open" => \A n \in Descriptors : fd'[n] \in {"closed", "tty", "oldLog"}
    BY <1>2 DEF DescriptorInv
  <2>2. pc' # "dead" /\ ~args'.d => \A n \in {0, 1, 2} : fd'[n] = "tty"
    <3>1. \A n \in {0, 1, 2} : n \in Descriptors
      BY DEF Descriptors
    <3>. QED
      BY <1>2, <3>1 DEF DescriptorInv
  <2>3. /\ \A n \in Descriptors : fd'[n] = "tty" => n \in {0, 1, 2}
        /\ \A m, n \in Descriptors : m # n /\ fd'[m] = fd'[n] => fd'[m] \in {"closed", "tty"}
    BY <1>2 DEF OpenOnce
  <2>. QED
    BY <2>1, <2>2, <2>3 DEF DescriptorInv
<1>. QED
  BY <1>3, <1>4, <1>5

(* The invariant of the files that are open, and the type of what they are open for. *)
OpenInv ==
  /\ fd \in [Descriptors -> Files]
  /\ fptr \in {"none", "stdout", "file"}
  /\ (fptr = "file") <=> (\E n \in Descriptors : fd[n] = "log")
  /\ DescriptorInv

LEMMA NextOpen ==
  ASSUME IInv, Next
  PROVE  OpenInv'
<1>. USE DEF IInv
<1>1. ASSUME NEW a \in CommandLines, Start(a)
      PROVE  OpenInv'
  <2>1. /\ fd' = [n \in Descriptors |-> IF n \in {0, 1, 2} THEN "tty" ELSE "closed"]
        /\ fptr' = fptr /\ args' = a /\ pc' = IF a.d THEN "daemonise" ELSE "config"
    BY <1>1 DEF Start
  <2>2. fptr = "none"
    BY <1>1 DEF Start, SettingsInv, TypeOK
  <2>3. fd' \in [Descriptors -> Files] /\ \A n \in Descriptors : fd'[n] \in {"closed", "tty"}
    BY <2>1 DEF Files
  <2>4. \A n \in {0, 1, 2} : fd'[n] = "tty"
    BY <2>1 DEF Descriptors
  <2>5. DescriptorInv'
    BY <2>1, <2>3, <2>4, CommandLineFacts DEF DescriptorInv
  <2>. QED
    BY <2>1, <2>2, <2>3, <2>5 DEF OpenInv
<1>2. CASE Daemonise
  <2>1. /\ fd' = [fd EXCEPT ![0] = "closed", ![1] = "closed"]
        /\ fptr' = fptr /\ args' = args /\ pc' = "config" /\ pc = "daemonise"
    BY <1>2 DEF Daemonise
  <2>2. fd \in [Descriptors -> Files] /\ args.d
    BY <2>1 DEF TypeOK, DescriptorInv
  <2>3. fd' \in [Descriptors -> Files] /\ \A n \in Descriptors : fd'[n] \in {"closed", fd[n]}
    BY <2>1, <2>2 DEF Files
  <2>4. \A n \in Descriptors : fd[n] \in {"closed", "tty"}
    BY <2>1 DEF DescriptorInv
  <2>5. DescriptorInv'
    BY <2>1, <2>2, <2>3, <2>4 DEF DescriptorInv
  <2>. QED
    BY <2>1, <2>3, <2>4, <2>5 DEF OpenInv, TypeOK
<1>3. CASE Ends
  <2>1. Die /\ args' = args
    BY <1>3, EndFacts
  <2>2. fd' \in [Descriptors -> Files] /\ \A n \in Descriptors : fd'[n] = "closed"
    BY <2>1 DEF Die, Files
  <2>. QED
    BY <2>1, <2>2 DEF OpenInv, Die, DescriptorInv
<1>4. CASE Moves
  <2>1. DescriptorInv'
    BY <1>4, MoveFacts DEF DescriptorInv, TypeOK, Pcs
  <2>2. pc = "open" => fptr' = "stdout" /\ \A n \in Descriptors : fd'[n] # "log"
    BY <1>4, MoveFacts DEF DescriptorInv
  <2>. QED
    BY <1>4, <2>1, <2>2, MoveFacts DEF OpenInv, TypeOK
<1>5. CASE OpenArchiveFails
  <2>1. /\ pc = "logger" /\ pc' = "open" /\ fd' = Opened(fd, "oldLog") /\ args' = args
        /\ fptr' = fptr
    BY <1>5 DEF OpenArchiveFails
  <2>2. "oldLog" \in Opens /\ \A n \in Descriptors : fd[n] # "oldLog"
    BY <2>1 DEF DescriptorInv, Opens, Files
  <2>3. /\ fd' \in [Descriptors -> Files] /\ DescriptorInv'
        /\ (\E n \in Descriptors : fd'[n] = "log") <=> \E n \in Descriptors : fd[n] = "log"
    BY <2>1, <2>2, OpeningKeeps DEF Files
  <2>. QED
    BY <2>1, <2>3 DEF OpenInv, TypeOK
<1>6. CASE InitLogger
  <2>1. /\ pc = "open" /\ pc' = "threads" /\ fd' = Opened(fd, "log") /\ args' = args
        /\ fptr' = "file"
    BY <1>6 DEF InitLogger
  <2>2. "log" \in Opens /\ \A n \in Descriptors : fd[n] # "log"
    BY <2>1 DEF DescriptorInv, Opens, Files
  <2>3. /\ fd' \in [Descriptors -> Files] /\ DescriptorInv'
        /\ \E n \in Descriptors : fd'[n] = "log"
    BY <2>1, <2>2, OpeningKeeps DEF Files
  <2>. QED
    BY <2>1, <2>3 DEF OpenInv
<1>7. ASSUME NEW what \in {"gpio", "spi", "db"}, OpenDevice(what)
      PROVE  OpenInv'
  <2>1. /\ pc = "running" /\ pc' = pc /\ fd' = Opened(fd, what) /\ args' = args
        /\ fptr' = fptr
    BY <1>7 DEF OpenDevice
  <2>2. what \in Opens /\ \A n \in Descriptors : fd[n] # what
    BY <1>7 DEF OpenDevice, IsOpen, Opens, Files
  <2>3. /\ fd' \in [Descriptors -> Files] /\ DescriptorInv'
        /\ (\E n \in Descriptors : fd'[n] = "log") <=> \E n \in Descriptors : fd[n] = "log"
    BY <2>1, <2>2, OpeningKeeps DEF Files
  <2>. QED
    BY <2>1, <2>3 DEF OpenInv, TypeOK
<1>8. CASE LogToFile \/ NextDay
  <2>1. UNCHANGED <<pc, args, fptr, fd>>
    BY <1>8 DEF LogToFile, NextDay
  <2>. QED
    BY <2>1 DEF OpenInv, TypeOK, DescriptorInv
<1>. QED
  BY <1>1, <1>2, <1>3, <1>4, <1>5, <1>6, <1>7, <1>8, NextCases

(* The other variables keep their types. *)
LEMMA NextType ==
  ASSUME IInv, Next
  PROVE  TypeOK'
<1>. USE DEF IInv
<1>1. OpenInv'
  BY NextOpen
<1>. DEFINE Plain == /\ day \in Days /\ runs \in 0..MaxRuns
                     /\ config \in Configs
                     /\ logFile \subseteq Lines /\ exists \in BOOLEAN
                     /\ archive \in [Days -> SUBSET Lines]
                     /\ pc \in Pcs /\ args \in CommandLines
                     /\ into \in Days \cup {0}
                     /\ toCopy \subseteq logFile
                     /\ logged \subseteq Lines /\ sealed \subseteq Days
                     /\ discarded \subseteq Lines /\ ioFailed \in BOOLEAN
<1>2. Plain
  BY DEF TypeOK
<1>3. Plain'
  <2>. USE <1>2 DEF diskVars, histVars, Pcs
  <2>1. ASSUME NEW a \in CommandLines, Start(a)
        PROVE  Plain'
    BY <2>1, BoundsAssumption DEF Start
  <2>2. CASE Daemonise \/ Initialise \/ NoOldLog \/ OldLogUnread
    BY <2>2 DEF Daemonise, Initialise, NoOldLog, OldLogUnread
  <2>3. CASE Ends
    BY <2>3, EndFacts DEF Die
  <2>4. CASE OpenArchive
    <3>1. archive \in [Days -> SUBSET Lines] /\ discarded' \subseteq Lines
      BY <2>4 DEF OpenArchive
    <3>. QED
      BY <2>4, <3>1 DEF OpenArchive
  <2>5. CASE CopyBuffer
    <3>1. PICK line \in toCopy : /\ toCopy' = toCopy \ {line}
                                /\ archive' = [archive EXCEPT ![into] = @ \cup {line}]
      BY <2>5 DEF CopyBuffer
    <3>2. archive' \in [Days -> SUBSET Lines]
      BY <3>1
    <3>. QED
      BY <2>5, <3>1, <3>2 DEF CopyBuffer
  <2>6. CASE CopyBufferShort \/ CopyReadFails \/ CopyEnds \/ OpenArchiveFails
    BY <2>6 DEF CopyBufferShort, CopyReadFails, CopyEnds, OpenArchiveFails
  <2>7. CASE InitLogger
    <3>1. toCopy = {}
      BY <2>7 DEF InitLogger, ArchiveInv
    <3>. QED
      BY <2>7, <3>1 DEF InitLogger
  <2>8. CASE InitLoggerStdout \/ StartThreads
    BY <2>8 DEF InitLoggerStdout, StartThreads
  <2>9. ASSUME NEW what \in {"gpio", "spi", "db"}, OpenDevice(what)
        PROVE  Plain'
    BY <2>9 DEF OpenDevice
  <2>10. CASE LogToFile
    BY <2>10 DEF LogToFile
  <2>11. CASE NextDay
    BY <2>11, BoundsAssumption DEF NextDay, Days
  <2>. QED
    BY <2>1, <2>2, <2>3, <2>4, <2>5, <2>6, <2>7, <2>8, <2>9, <2>10, <2>11, NextCases DEF Moves
<1>. QED
  BY <1>1, <1>3 DEF TypeOK, OpenInv

-----------------------------------------------------------------------------
(* What main() and cfgmgr know, and what is kept of the log. *)

LEMMA InitInvariant ==
  Init => IInv
<1>. SUFFICES ASSUME Init PROVE IInv
  OBVIOUS
<1>1. fd \in [Descriptors -> Files] /\ \A n \in Descriptors : fd[n] = "closed"
  BY DEF Init, Files
<1>2. TypeOK
  <2>1. archive \in [Days -> SUBSET Lines]
    BY DEF Init
  <2>2. day \in Days /\ runs \in 0..MaxRuns /\ pc \in Pcs
    BY BoundsAssumption DEF Init, Days, Pcs
  <2>3. fptr \in {"none", "stdout", "file"} /\ ~(fptr = "file")
        /\ ~\E n \in Descriptors : fd[n] = "log"
    BY <1>1 DEF Init
  <2>. QED
    BY <1>1, <2>1, <2>2, <2>3 DEF Init, TypeOK
<1>3. DescriptorInv
  BY <1>1 DEF Init, DescriptorInv
<1>4. SettingsInv /\ ArchiveInv
  BY DEF Init, SettingsInv, ArchiveInv
<1>. QED
  BY <1>2, <1>3, <1>4 DEF IInv

(* What the settings are used for depends on the command line and the values alone. *)
LEMMA SameSettings ==
  ASSUME UNCHANGED <<args, values>>
  PROVE  UNCHANGED <<ConfigFound, LogName, UsesStdout>>
BY DEF ConfigFound, LogName, UsesStdout, GetValue

LEMMA NextSettings ==
  ASSUME IInv, Next
  PROVE  SettingsInv'
<1>. USE DEF IInv, diskVars, histVars
<1>1. CASE \/ \E a \in CommandLines : Start(a)
           \/ Daemonise
  BY <1>1, CommandLineFacts DEF Start, Daemonise, SettingsInv, TypeOK
<1>2. CASE Ends
  BY <1>2, EndFacts DEF Die, SettingsInv
<1>3. CASE Initialise
  <2>1. /\ pc = "config" /\ pc' \in {"dump", "logger"} /\ UNCHANGED <<args, fptr, config>>
        /\ values' = IF ConfigFound THEN ReadLines(config) ELSE <<>>
    BY <1>3 DEF Initialise
  <2>2. ConfigFound' = ConfigFound
    BY <2>1 DEF ConfigFound
  <2>3. fptr = "none"
    BY <2>1 DEF SettingsInv, TypeOK
  <2>. QED
    BY <2>1, <2>2, <2>3 DEF SettingsInv
<1>4. CASE InitLoggerStdout
  <2>1. /\ pc = "open" /\ UsesStdout /\ pc' = "threads" /\ UNCHANGED <<args, values, config>>
    BY <1>4 DEF InitLoggerStdout
  <2>. QED
    BY <2>1, SameSettings DEF SettingsInv
<1>5. CASE InitLogger
  <2>1. /\ pc = "open" /\ pc' = "threads" /\ fptr' = "file" /\ UNCHANGED <<args, values, config>>
    BY <1>5 DEF InitLogger
  <2>. QED
    BY <2>1, SameSettings DEF SettingsInv
<1>6. CASE \/ NoOldLog \/ OpenArchive \/ CopyBuffer \/ CopyBufferShort \/ CopyReadFails
           \/ CopyEnds \/ OpenArchiveFails \/ OldLogUnread
  <2>1. /\ UNCHANGED <<args, values, config, fptr>> /\ pc \in {"logger", "copy"}
        /\ pc' \in {"copy", "stuck", "open"}
    BY <1>6 DEF NoOldLog, OpenArchive, CopyBuffer, CopyBufferShort, CopyReadFails, CopyEnds,
                OpenArchiveFails, OldLogUnread
  <2>. QED
    BY <2>1, SameSettings DEF SettingsInv
<1>7. CASE \/ StartThreads
           \/ \E what \in {"gpio", "spi", "db"} : OpenDevice(what)
           \/ LogToFile
  <2>1. /\ UNCHANGED <<args, values, config, fptr>> /\ pc \in {"threads", "running"}
        /\ pc' = "running"
    BY <1>7 DEF StartThreads, OpenDevice, LogToFile
  <2>. QED
    BY <2>1, SameSettings DEF SettingsInv
<1>8. CASE NextDay
  <2>1. UNCHANGED <<pc, args, values, config, fptr>>
    BY <1>8 DEF NextDay
  <2>. QED
    BY <2>1, SameSettings DEF SettingsInv
<1>. QED
  BY <1>1, <1>2, <1>3, <1>4, <1>5, <1>6, <1>7, <1>8, NextCases DEF Moves

LEMMA NextArchive ==
  ASSUME IInv, Next
  PROVE  ArchiveInv'
<1>. USE DEF IInv, diskVars, histVars
<1>. DEFINE Kept == ~ioFailed =>
                      logged \subseteq logFile \cup discarded \cup UNION {archive[d] : d \in sealed}
<1>1. CASE \/ \E a \in CommandLines : Start(a)
           \/ Daemonise \/ Initialise
  <2>1. /\ UNCHANGED <<diskVars, histVars, fptr, into, toCopy>>
        /\ pc \in {"dead", "daemonise", "config"}
        /\ pc' \in {"daemonise", "config", "dump", "logger"}
    BY <1>1 DEF Start, Daemonise, Initialise
  <2>. QED
    BY <2>1 DEF ArchiveInv
<1>2. CASE Ends
  <2>1. /\ UNCHANGED <<diskVars, histVars>>
        /\ pc' = "dead" /\ into' = 0 /\ toCopy' = {} /\ fptr' = "none"
    BY <1>2, EndFacts DEF Die
  <2>. QED
    BY <2>1 DEF ArchiveInv
<1>3. CASE NoOldLog
  <2>1. /\ UNCHANGED <<diskVars, histVars, args, values, fptr, into, toCopy>>
        /\ pc = "logger" /\ pc' = "open" /\ (LogName # "" => ~exists)
    BY <1>3 DEF NoOldLog, HasOldLog
  <2>. QED
    BY <2>1, SameSettings DEF ArchiveInv
<1>4. CASE OpenArchive
  <2>1. /\ UNCHANGED <<config, logFile, exists, logged, sealed, ioFailed, fptr>>
        /\ pc = "logger" /\ pc' = "copy" /\ into' = day /\ toCopy' = logFile
        /\ archive' = [archive EXCEPT ![day] = {}]
        /\ discarded' = discarded \cup (IF day \in sealed THEN archive[day] ELSE {})
    BY <1>4 DEF OpenArchive
  <2>2. into' # 0
    BY <2>1, BoundsAssumption DEF TypeOK, Days
  <2>3. Kept'
    <3>1. archive[day] \subseteq discarded' \/ day \notin sealed
      BY <2>1
    <3>2. \A d \in sealed : archive[d] \subseteq discarded' \/ archive'[d] = archive[d]
      BY <2>1, <3>1 DEF TypeOK
    <3>3. UNION {archive[d] : d \in sealed} \subseteq discarded' \cup UNION {archive'[d] : d \in sealed}
      BY <3>2
    <3>4. discarded \subseteq discarded' /\ Kept
      BY <2>1 DEF ArchiveInv
    <3>. QED
      BY <2>1, <3>3, <3>4
  <2>. QED
    BY <2>1, <2>2, <2>3 DEF ArchiveInv
<1>5. CASE OpenArchiveFails \/ OldLogUnread
  <2>1. /\ UNCHANGED <<diskVars, fptr, into, toCopy>>
        /\ pc = "logger" /\ pc' = "open" /\ ioFailed' = TRUE
    BY <1>5 DEF OpenArchiveFails, OldLogUnread
  <2>. QED
    BY <2>1 DEF ArchiveInv
<1>6. CASE CopyBuffer
  <2>1. PICK line \in toCopy : /\ toCopy' = toCopy \ {line}
                              /\ archive' = [archive EXCEPT ![into] = @ \cup {line}]
    BY <1>6 DEF CopyBuffer
  <2>2. /\ UNCHANGED <<config, logFile, exists, histVars, args, values, fptr, into>>
        /\ pc = "copy" /\ pc' = pc
    BY <1>6 DEF CopyBuffer
  <2>3. into \in Days /\ archive \in [Days -> SUBSET Lines] /\ sealed \subseteq Days
    BY <2>2 DEF ArchiveInv, TypeOK
  <2>4. /\ archive'[into] = archive[into] \cup {line}
        /\ \A d \in Days : archive[d] \subseteq archive'[d]
    BY <2>1, <2>3
  <2>5. Kept'
    BY <2>2, <2>3, <2>4 DEF ArchiveInv
  <2>6. ~ioFailed => logFile \ toCopy' \subseteq archive'[into]
    BY <2>1, <2>2, <2>4 DEF ArchiveInv
  <2>. QED
    BY <2>1, <2>2, <2>5, <2>6 DEF ArchiveInv
<1>7. CASE CopyBufferShort
  <2>1. /\ UNCHANGED <<diskVars, fptr, into, logged, sealed, discarded>>
        /\ pc = "copy" /\ pc' = "copy" /\ ioFailed' = TRUE
    BY <1>7 DEF CopyBufferShort
  <2>. QED
    BY <2>1 DEF ArchiveInv
<1>13. CASE CopyReadFails
  <2>1. UNCHANGED <<diskVars, histVars, fptr, into, toCopy>> /\ pc = "copy" /\ pc' = "stuck"
    BY <1>13 DEF CopyReadFails
  <2>. QED
    BY <2>1 DEF ArchiveInv
<1>8. CASE CopyEnds
  <2>1. /\ UNCHANGED <<diskVars, histVars, fptr, into, toCopy>>
        /\ pc = "copy" /\ pc' = "open" /\ toCopy = {}
    BY <1>8 DEF CopyEnds
  <2>. QED
    BY <2>1 DEF ArchiveInv
<1>9. CASE InitLoggerStdout \/ StartThreads
  <2>1. /\ UNCHANGED <<diskVars, histVars, into, toCopy>> /\ pc \in {"open", "threads"}
        /\ pc' \in {"threads", "running"} /\ (fptr' = "stdout" \/ fptr' = fptr)
    BY <1>9 DEF InitLoggerStdout, StartThreads
  <2>. QED
    BY <2>1 DEF ArchiveInv
<1>10. CASE InitLogger
  <2>1. /\ pc = "open" /\ pc' = "threads" /\ LogName # ""
        /\ logFile' = {} /\ exists' = TRUE /\ sealed' = (sealed \cup {into}) \ {0}
        /\ UNCHANGED <<archive, into, toCopy, logged, discarded, ioFailed>>
    BY <1>10 DEF InitLogger
  <2>2. toCopy = {} /\ 0 \notin sealed
    <3>1. toCopy = {}
      BY <2>1 DEF ArchiveInv
    <3>2. 0 \notin Days
      BY BoundsAssumption DEF Days
    <3>. QED
      BY <3>1, <3>2 DEF TypeOK
  <2>3. ~ioFailed => logFile \subseteq UNION {archive[d] : d \in sealed'}
    <3>1. ~ioFailed => IF into # 0 THEN logFile \ toCopy \subseteq archive[into]
                       ELSE LogName # "" => ~exists
      BY <2>1 DEF ArchiveInv
    <3>2. ~ioFailed => logFile = {} \/ (into # 0 /\ logFile \subseteq archive[into])
      BY <2>1, <2>2, <3>1 DEF ArchiveInv
    <3>3. into # 0 => into \in sealed'
      BY <2>1
    <3>. QED
      BY <3>2, <3>3
  <2>4. Kept'
    <3>1. sealed \subseteq sealed'
      BY <2>1, <2>2
    <3>2. Kept
      BY DEF ArchiveInv
    <3>3. /\ UNION {archive[d] : d \in sealed} \subseteq UNION {archive[d] : d \in sealed'}
          /\ UNION {archive[d] : d \in sealed'} = UNION {archive'[d] : d \in sealed'}
      BY <2>1, <3>1
    <3>4. ~ioFailed => logged \subseteq discarded \cup UNION {archive[d] : d \in sealed'}
      BY <2>3, <3>2, <3>3
    <3>. QED
      BY <2>1, <3>3, <3>4
  <2>. QED
    BY <2>1, <2>2, <2>4 DEF ArchiveInv
<1>11. CASE \/ \E what \in {"gpio", "spi", "db"} : OpenDevice(what)
            \/ NextDay
  <2>1. UNCHANGED <<diskVars, histVars, pc, args, values, fptr, into, toCopy>>
    BY <1>11 DEF OpenDevice, NextDay
  <2>. QED
    BY <2>1, SameSettings DEF ArchiveInv
<1>12. CASE LogToFile
  <2>1. PICK line \in Lines : logFile' = logFile \cup {line} /\ logged' = logged \cup {line}
    BY <1>12 DEF LogToFile
  <2>2. /\ UNCHANGED <<exists, archive, fptr, into, toCopy, sealed, discarded, ioFailed>>
        /\ pc = "running" /\ pc' = pc /\ fptr = "file"
    BY <1>12 DEF LogToFile
  <2>3. Kept'
    BY <2>1, <2>2 DEF ArchiveInv
  <2>. QED
    BY <2>1, <2>2, <2>3 DEF ArchiveInv
<1>. QED
  BY <1>1, <1>2, <1>3, <1>4, <1>5, <1>6, <1>7, <1>8, <1>9, <1>10, <1>11, <1>12, <1>13,
     NextCases
  DEF Moves

(* Every step preserves the invariant. *)
LEMMA NextPreserves ==
  IInv /\ [Next]_vars => IInv'
<1>1. ASSUME IInv, Next
      PROVE  IInv'
  BY <1>1, NextOpen, NextType, NextSettings, NextArchive DEF IInv, OpenInv
<1>2. ASSUME IInv, UNCHANGED vars
      PROVE  IInv'
  <2>1. UNCHANGED <<ConfigFound, LogName, UsesStdout>>
    BY <1>2, SameSettings DEF vars
  <2>. USE <1>2 DEF IInv, vars, diskVars, histVars
  <2>2. TypeOK'
    BY DEF TypeOK
  <2>3. DescriptorInv'
    BY DEF DescriptorInv
  <2>4. SettingsInv'
    BY <2>1 DEF SettingsInv
  <2>5. ArchiveInv'
    BY <2>1 DEF ArchiveInv
  <2>. QED
    BY <2>2, <2>3, <2>4, <2>5
<1>. QED
  BY <1>1, <1>2

-----------------------------------------------------------------------------
(* cfgmgr::initialise: where a line is split. *)

(* What is left of a position in the bits of an uint32_t. *)
LEMMA CutFacts ==
  ASSUME NEW m \in Nat \ {0}
  PROVE  /\ \A x \in 0 .. m - 1 : x % m = x
         /\ (-1) % m = m - 1
         /\ m % m = 0
<1>1. ASSUME NEW x \in 0 .. m - 1 PROVE x % m = x
  OBVIOUS
<1>2. (-1) % m = m - 1
  OBVIOUS
<1>3. m % m = 0
  OBVIOUS
<1>. QED
  BY <1>1, <1>2, <1>3

(* However long the lines, npos loses its upper bits and means what it did. *)
LEMMA SplitIsRight ==
  ASSUME NEW line, line.length \in 0 .. PosLimit - 1,
         line.equals => line.pos \in 0 .. line.length - 1
  PROVE  KeyOf(line) = Name(line) /\ ValueOf(line) = Meaning(line)
<1>1. CASE line.equals
  <2>1. line.pos \in 0 .. PosLimit - 1 /\ line.pos + 1 \in 1 .. PosLimit - 1
    BY <1>1, PosLimitAssumption
  <2>2. EqualPos(line) = line.pos
    BY <1>1, <2>1, CutFacts, PosLimitAssumption DEF EqualPos
  <2>3. (EqualPos(line) + 1) % PosLimit = line.pos + 1
    <3>1. line.pos + 1 \in 0 .. PosLimit - 1
      BY <2>1
    <3>. QED
      BY <2>2, <3>1, CutFacts, PosLimitAssumption
  <2>4. KeyOf(line) = line.key
    BY <1>1, <2>2 DEF KeyOf
  <2>5. RawValueOf(line) = line.value
    BY <2>1, <2>3 DEF RawValueOf
  <2>. QED
    BY <1>1, <2>4, <2>5 DEF Name, ValueOf, Meaning
<1>2. CASE ~line.equals
  <2>1. EqualPos(line) = PosLimit - 1
    BY <1>2, CutFacts, PosLimitAssumption DEF EqualPos, Npos
  <2>2. (EqualPos(line) + 1) % PosLimit = 0
    <3>1. EqualPos(line) + 1 = PosLimit
      BY <2>1, PosLimitAssumption
    <3>. QED
      BY <3>1, CutFacts, PosLimitAssumption
  <2>3. KeyOf(line) = line.text
    BY <2>1, PosLimitAssumption DEF KeyOf
  <2>4. RawValueOf(line) = line.text
    BY <2>2 DEF RawValueOf
  <2>. QED
    BY <1>2, <2>3, <2>4 DEF Name, ValueOf, Meaning
<1>. QED
  BY <1>1, <1>2

-----------------------------------------------------------------------------
(* cfgmgr::initialise: what FoldLeft makes of the lines. *)

(* The values after the lines with the numbers s, given those after fewer. *)
ReadStep(lines, g, s) == IF s = {} THEN <<>> ELSE ReadLine(g[s \ {Max(s)}], lines[Max(s)])
IsRead(lines, g, D) == g = [s \in D |-> ReadStep(lines, g, s)]

(* What the library's definition says. *)
LEMMA ReadUnfold ==
  ASSUME NEW lines
  PROVE  ReadLines(lines) = (CHOOSE g : IsRead(lines, g, SUBSET DOMAIN lines))[DOMAIN lines]
BY DEF ReadLines, FoldLeft, MapThenFoldSet, ReadStep, IsRead

(* There is such a function, by induction on the sizes of the sets. *)
LEMMA ReadExists ==
  ASSUME NEW lines, NEW S \in SUBSET Int, IsFiniteSet(S)
  PROVE  \E g : IsRead(lines, g, SUBSET S)
<1>. DEFINE T == {n \in Nat : \E g : IsRead(lines, g, SubsetsUpTo(S, n))}
<1>1. 0 \in T
  <2>. DEFINE g == [s \in SubsetsUpTo(S, 0) |-> <<>>]
  <2>1. \A s \in SubsetsUpTo(S, 0) : ReadStep(lines, g, s) = <<>>
    BY SubsetsUpToFacts DEF ReadStep
  <2>2. IsRead(lines, g, SubsetsUpTo(S, 0))
    BY <2>1 DEF IsRead
  <2>. QED
    BY <2>2
<1>2. ASSUME NEW n \in T PROVE n + 1 \in T
  <2>. DEFINE D == SubsetsUpTo(S, n)
              E == SubsetsUpTo(S, n + 1)
  <2>1. n \in Nat /\ \E g : IsRead(lines, g, D)
    OBVIOUS
  <2>2. PICK g : IsRead(lines, g, D)
    BY <2>1
  <2>. DEFINE h == [s \in E |-> ReadStep(lines, g, s)]
  <2>3. D \subseteq E /\ \A s \in E : s # {} => s \ {Max(s)} \in D
    <3>1. D \subseteq E /\ \A s \in E : \A x \in s : s \ {x} \in D
      BY <2>1, SubsetsUpToFacts
    <3>2. ASSUME NEW s \in E, s # {} PROVE Max(s) \in s
      <4>1. s \in SUBSET Int /\ IsFiniteSet(s)
        BY FS_Subset DEF SubsetsUpTo
      <4>. QED
        BY <3>2, <4>1, MaxExists
    <3>. QED
      BY <3>1, <3>2
  <2>4. \A s \in D : h[s] = g[s]
    BY <2>2, <2>3 DEF IsRead
  <2>. HIDE DEF D, E
  <2>5. \A s \in E : ReadStep(lines, g, s) = ReadStep(lines, h, s)
    <3>. HIDE DEF h
    <3>. QED
      BY <2>3, <2>4 DEF ReadStep
  <2>6. IsRead(lines, h, E)
    BY <2>5 DEF IsRead
  <2>7. \E f : IsRead(lines, f, E)
    <3>. HIDE DEF h
    <3>. QED
      BY <2>6
  <2>. QED
    BY <2>1, <2>7 DEF E
<1>3. T = Nat
  <2>. HIDE DEF T
  <2>1. T \in SUBSET Nat
    BY DEF T
  <2>. QED
    BY <1>1, <1>2, <2>1, NaturalInduction
<1>4. \E g : IsRead(lines, g, SubsetsUpTo(S, Cardinality(S)))
  <2>1. Cardinality(S) \in Nat
    BY SubsetsUpToFacts
  <2>. QED
    BY <1>3, <2>1
<1>5. SubsetsUpTo(S, Cardinality(S)) = SUBSET S
  BY SubsetsUpToFacts
<1>. QED
  BY <1>4, <1>5

(* After the first k lines, each setting has the value of the last of them for it. *)
Latest(lines, k, i) ==
  /\ IsSetting(lines[i])
  /\ \A j \in 1..k : j > i => ~IsSetting(lines[j]) \/ KeyOf(lines[j]) # KeyOf(lines[i])
ReadRight(lines, k, vals) ==
  \A i \in 1..k : Latest(lines, k, i) =>
    KeyOf(lines[i]) \in DOMAIN vals /\ vals[KeyOf(lines[i])] = ValueOf(lines[i])

(* One more line. *)
LEMMA ReadLineIsRight ==
  ASSUME NEW lines, NEW k \in Nat, NEW vals, ReadRight(lines, k, vals)
  PROVE  ReadRight(lines, k + 1, ReadLine(vals, lines[k + 1]))
<1>. DEFINE new == ReadLine(vals, lines[k + 1])
<1>. SUFFICES ASSUME NEW i \in 1 .. k + 1, Latest(lines, k + 1, i)
     PROVE  KeyOf(lines[i]) \in DOMAIN new /\ new[KeyOf(lines[i])] = ValueOf(lines[i])
  BY DEF ReadRight
<1>1. CASE i = k + 1
  BY <1>1 DEF Latest, ReadLine, Assign
<1>2. CASE i # k + 1
  <2>1. i \in 1..k /\ k + 1 > i
    BY <1>2
  <2>2. Latest(lines, k, i)
    BY <2>1 DEF Latest
  <2>3. KeyOf(lines[i]) \in DOMAIN vals /\ vals[KeyOf(lines[i])] = ValueOf(lines[i])
    BY <2>1, <2>2 DEF ReadRight
  <2>4. ~IsSetting(lines[k + 1]) \/ KeyOf(lines[k + 1]) # KeyOf(lines[i])
    BY <2>1 DEF Latest
  <2>. QED
    BY <2>3, <2>4 DEF ReadLine, Assign
<1>. QED
  BY <1>1, <1>2

(* So, by induction on the lines, the whole file. *)
LEMMA ReadLinesIsRight ==
  ASSUME NEW lines, NEW n \in Nat, DOMAIN lines = 1..n
  PROVE  ReadRight(lines, n, ReadLines(lines))
<1>1. PICK g : IsRead(lines, g, SUBSET (1..n)) /\ g = CHOOSE f : IsRead(lines, f, SUBSET (1..n))
  <2>1. 1..n \in SUBSET Int /\ IsFiniteSet(1..n)
    BY FS_Interval
  <2>. QED
    BY <2>1, ReadExists
<1>2. ReadLines(lines) = g[1..n]
  BY <1>1, ReadUnfold
<1>. DEFINE T == {k \in Nat : k <= n => ReadRight(lines, k, g[1..k])}
<1>3. 0 \in T
  BY DEF ReadRight
<1>4. ASSUME NEW k \in T PROVE k + 1 \in T
  <2>. SUFFICES ASSUME k + 1 <= n PROVE ReadRight(lines, k + 1, g[1 .. k + 1])
    OBVIOUS
  <2>1. k \in Nat /\ ReadRight(lines, k, g[1..k])
    OBVIOUS
  <2>2. Max(1 .. k + 1) = k + 1
    <3>1. 1 .. k + 1 \in SUBSET Int /\ k + 1 \in 1 .. k + 1 /\ \A x \in 1 .. k + 1 : x <= k + 1
      BY <2>1
    <3>. QED
      BY <3>1, MaxFact
  <2>3. 1 .. k + 1 \in SUBSET (1..n) /\ 1 .. k + 1 # {} /\ (1 .. k + 1) \ {k + 1} = 1..k
    BY <2>1
  <2>4. g[1 .. k + 1] = ReadStep(lines, g, 1 .. k + 1)
    BY <1>1, <2>3 DEF IsRead
  <2>5. g[1 .. k + 1] = ReadLine(g[1..k], lines[k + 1])
    BY <2>2, <2>3, <2>4 DEF ReadStep
  <2>. QED
    BY <2>1, <2>5, ReadLineIsRight
<1>5. T = Nat
  <2>. HIDE DEF T
  <2>1. T \in SUBSET Nat
    BY DEF T
  <2>. QED
    BY <1>3, <1>4, <2>1, NaturalInduction
<1>. QED
  BY <1>2, <1>5

-----------------------------------------------------------------------------
(* The inductive invariant of main(). *)
THEOREM Invariance == Spec => []IInv
BY InitInvariant, NextPreserves, PTL DEF Spec

(* Every variable keeps its type, and the log is open exactly if it is written to. *)
THEOREM TypeCorrect == Spec => []TypeOK
<1>1. IInv => TypeOK
  BY DEF IInv
<1>. QED
  BY <1>1, Invariance, PTL

(***************************************************************************)
(* A line that was logged is in the log file or in an archive, unless      *)
(* an operation on the files failed or, in a second restart within one day, *)
(* the archive it was in was archived over.                                 *)
(***************************************************************************)
THEOREM LogsAreKept == Spec => []LogIsKept
<1>1. IInv => LogIsKept
  <2>. SUFFICES ASSUME IInv PROVE LogIsKept
    OBVIOUS
  <2>1. sealed \subseteq Days
    BY DEF IInv, TypeOK
  <2>. QED
    BY <2>1 DEF IInv, ArchiveInv, LogIsKept
<1>. QED
  BY <1>1, Invariance, PTL

(* Only a daemon without any log setting writes its log to what it opens next. *)
THEOREM OthersDoNotSpill == Spec => []OnlyDaemonsSpill
<1>1. IInv => OnlyDaemonsSpill
  <2>. SUFFICES ASSUME IInv, fptr = "stdout", fd[1] \notin {"tty", "closed"}
       PROVE  args.d /\ LogName = "" /\ GetValue("log.level") = ""
    BY DEF OnlyDaemonsSpill
  <2>1. UsesStdout /\ pc # "dead"
    BY DEF IInv, SettingsInv
  <2>2. args.d
    BY <2>1 DEF IInv, DescriptorInv
  <2>. QED
    BY <2>1, <2>2 DEF UsesStdout
<1>. QED
  BY <1>1, Invariance, PTL

(* Each setting has the value of the last line for it, of however many lines. *)
THEOREM LastLinesCount == Spec => []LastLineCounts
<1>1. IInv => LastLineCounts
  <2>. SUFFICES ASSUME IInv, pc \in {"logger", "copy", "open", "threads", "running"}, ConfigFound,
                       NEW i \in DOMAIN config, IsSetting(config[i]),
                       \A j \in DOMAIN config :
                         j > i /\ IsSetting(config[j]) => Name(config[j]) # Name(config[i])
       PROVE  GetValue(Name(config[i])) = Meaning(config[i])
    BY DEF LastLineCounts
  <2>1. values = ReadLines(config)
    BY DEF IInv, SettingsInv
  <2>2. config \in Configs
    BY DEF IInv, TypeOK
  <2>3. Len(config) \in Nat /\ DOMAIN config = 1..Len(config)
    <3>1. ASSUME NEW S, NEW q \in Seq(S)
          PROVE  Len(q) \in Nat /\ DOMAIN q = 1..Len(q)
      OBVIOUS
    <3>. QED
      BY <2>2, <3>1, ConfigsAssumption, Zenon
  <2>4. \A j \in DOMAIN config :
          KeyOf(config[j]) = Name(config[j]) /\ ValueOf(config[j]) = Meaning(config[j])
    <3>1. \A j \in DOMAIN config :
            /\ config[j].length \in 0 .. PosLimit - 1
            /\ config[j].equals => config[j].pos \in 0 .. config[j].length - 1
      BY <2>2, ConfigsAssumption, Zenon
    <3>. QED
      BY <3>1, SplitIsRight
  <2>5. Latest(config, Len(config), i)
    BY <2>3, <2>4 DEF Latest
  <2>6. ReadRight(config, Len(config), ReadLines(config))
    BY <2>3, ReadLinesIsRight
  <2>. QED
    BY <2>1, <2>3, <2>4, <2>5, <2>6 DEF ReadRight, GetValue
<1>. QED
  BY <1>1, Invariance, PTL
=============================================================================
