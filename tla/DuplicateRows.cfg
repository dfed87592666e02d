CONSTANTS
  nameA = nameA
  nameB = nameB
  NoName = NoName
  MaxBatches = 2
  RetryLimit = 1
  Extractions <- MCExtractions
  Items <- MCItems
SPECIFICATION Spec
INVARIANT DuplicatesAreResolved
CHECK_DEADLOCK FALSE
