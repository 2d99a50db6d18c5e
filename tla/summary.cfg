CONSTANTS
  Readings <- FourReadings
  SpringForward <- SecondDay
  MaxDays = 3
  MaxReadings = 4
  MaxBoots = 2
SPECIFICATION Spec
INVARIANTS
  TypeOK
  SummaryIsExact
  OneSummaryPerNight
  NightSkippedOnlyAsleep
CHECK_DEADLOCK FALSE
