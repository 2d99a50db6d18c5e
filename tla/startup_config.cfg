CONSTANTS
  CommandLines <- Absent
  Configs <- SomeConfigs
  PropertyFiles <- UserFile
  IsProperty <- IsPropertyValue
  PosLimit = 64
  IOFaults <- NoIOFaults
  LogFile = "/var/log/wctl.log"
  MaxRuns = 1
  MaxDays = 1
  MaxLines = 1
SPECIFICATION Spec
INVARIANT MissingConfigIsReported
CHECK_DEADLOCK FALSE
