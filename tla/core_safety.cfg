CONSTANTS
  Torn = Torn
  Faults <- AllFaults
  Refused <- OneRefused
  PostCycleSeconds = 60
  MaxPackets = 4
  MaxBoots = 2
  WoWSettings <- Posting
SPECIFICATION Spec
INVARIANTS
  TypeOK
  RowsFollowPackets
  RowsInOrder
  TelemetryKeepsUp
  EveryCycleIsTaken
  PostedOnce
  SummariesPartition
PROPERTY LogSpec
CHECK_DEADLOCK FALSE
