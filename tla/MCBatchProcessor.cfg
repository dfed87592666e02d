\* Three retries is the most the ProcessingOptions schema allows.
CONSTANTS
  u1 = u1
  u2 = u2
  u3 = u3
  RetryLimit = 3
  Items <- MCItems
  Warned <- MCWarned
  Extractions <- MCExtractions
  Normalize <- MCNormalize
SPECIFICATION Spec
INVARIANTS
  TypeOK
  OnlyRetryIsRetried
  PublishesWhatWasJudged
PROPERTIES
  KeepsContract
  EveryBatchSettles
\* The call returns: there is nothing left to do.
CHECK_DEADLOCK FALSE
