CONSTANTS
  NoName = NoName
  Requests = {r1, r2}
  CandidateSegments <- MCCandidateSegments
  BatchSize = 2
  RetryLimit = 1
  FirstProvider = "openai"
  Overrides = {"gemini", "openai"}
  Results <- MCResults
SPECIFICATION Spec
INVARIANTS
  TypeOK
  RecordFollowsBatches
  OneGroupingKeepsEvidence
PROPERTIES
  AloneIsSelective
\* Every request has answered: there is nothing left to do.
CHECK_DEADLOCK FALSE
