CONSTANTS
  CommandLines <- SomeCommandLines
  Configs <- SomeConfigs
  PropertyFiles <- UserFile
  IsProperty <- IsPropertyValue
  PosLimit = 64
  IOFaults <- AllIOFaults
  LogFile = "/var/log/wctl.log"
  MaxRuns = 4
  MaxDays = 2
  MaxLines = 3
SPECIFICATION Spec
INVARIANTS
  TypeOK
  LastLineCounts
  LogIsKept
  OnlyDaemonsSpill
 
CHECK_DEADLOCK FALSE
