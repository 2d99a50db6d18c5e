CONSTANTS
  Workers <- OneWorker
  Messages <- Info
  Level0 <- InfoAndStatus
  SignalNames <- Term
  MaxSignals = 1
  MaxLines = 1
SPECIFICATION Spec
PROPERTY TermEndsProcess
CHECK_DEADLOCK FALSE
