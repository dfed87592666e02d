CONSTANTS
  Documents <- MCDocuments
  Detections <- MCDetections
  Providers = {"openai", "gemini"}
  BatchSizes = {2, 5}
SPECIFICATION PlanSpec
INVARIANTS
  PlanTypeOK
  EveryLineIsPlanned
  DetectedRangesAreRead
  BatchesFillTheirBounds
\* The plan is made: there is nothing left to do.
CHECK_DEADLOCK FALSE
