CONSTANTS
  Torn = Torn
  Faults <- LiveFaults
  Refused <- NothingRefused
  PostCycleSeconds = 30
  MaxPackets = 3
  MaxBoots = 1
  WoWSettings <- Either
SPECIFICATION Spec
PROPERTIES
  EveryPacketIsRecorded
  EveryHandOverIsTaken
CHECK_DEADLOCK FALSE
