CONSTANTS
  Hours = 5
  Minutes = 4
  Offset = 3
  MaxNow = 8
SPECIFICATION Spec
INVARIANTS
  TypeOK
  UndisturbedCallsAreRight
  AnswersAreRecent
CHECK_DEADLOCK FALSE
