CONSTANTS
  NoName = NoName
  Requests = {r1, r2}
  CandidateSegments <- MCCandidateSegments
  BatchSize = 2
  RetryLimit = 1
  FirstProvider = "openai"
  Overrides = {"gemini", "openai"}
  Results <- MCResults
SPECIFICATION Spec
PROPERTY SavesAreSelective
CHECK_DEADLOCK FALSE
