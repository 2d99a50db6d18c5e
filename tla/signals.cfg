CONSTANTS
  Workers <- OneWorker
  Messages <- Info
  Level0 <- InfoAndStatus
  SignalNames <- AllSignals
  MaxSignals = 2
  MaxLines = 1
SPECIFICATION Spec
INVARIANTS
  TypeOK
  LinesAreWhole
  LevelsFollowSignals
PROPERTY OnlyHandlersBlock
CHECK_DEADLOCK FALSE
