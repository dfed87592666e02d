CONSTANTS
  nameA = nameA
  nameB = nameB
  NoName = NoName
  MaxBatches = 2
  RetryLimit = 1
  Extractions <- MCExtractions
  Items <- MCItems
SPECIFICATION Spec
INVARIANTS
  TypeOK
  KeepsTheBest
  DroppedItemsAreTraced
  CompletedIsClean
  FailuresSurface
  NumberingIsContinued
PROPERTIES
  DetectedIsDelivered
\* The run returns or rejects: there is nothing left to do.
CHECK_DEADLOCK FALSE
