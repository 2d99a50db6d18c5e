CONSTANTS
  Statements <- AllStatements
  Accepted <- FittingStatements
  LinkFaults <- AllLinkFaults
  CompensationFactor = 993614
  AnemometerFactor = 6214
  MaxCalls = 3
  MaxRuns = 2
SPECIFICATION Spec
INVARIANTS
  TypeOK
  Promise
  EmptyTextMeansRefused
  OnlyReturnedResultsPileUp
  OnlyExtremesAreRefused
  StoredRowsAreSound
PROPERTY TransactionSpec
CHECK_DEADLOCK FALSE
