CONSTANTS
  Readings <- OneReading
  SpringForward <- SecondDay
  MaxDays = 2
  MaxReadings = 4
  MaxBoots = 1
SPECIFICATION Spec
INVARIANT FedNightsAreSummarised
CHECK_DEADLOCK FALSE
