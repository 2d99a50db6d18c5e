CONSTANTS
  RadioFaults <- AllRadioFaults
  Garbage = Garbage
  MaxFailures = 2
  MaxSent = 4
  MaxRuns = 2
SPECIFICATION Spec
INVARIANTS
  TypeOK
  FeedIsExact
  ReadyMeansPacket
  DeafOnlyAfterFailure
  NothingReceivedIsLost
PROPERTIES
  PacketsAreDrained
  ChannelSpec
CHECK_DEADLOCK FALSE
