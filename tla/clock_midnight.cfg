CONSTANTS
  Hours = 5
  Minutes = 4
  Offset = 3
  MaxNow = 8
SPECIFICATION Spec
INVARIANT SummaryAtMidnight
CHECK_DEADLOCK FALSE
