CONSTANTS
    Documents = {1, 2}
    FirstDocuments = {1}
    Items = {"official", "support", "scanned"}
    documentOf <- MCDocumentOf
    canonicalKey <- MCCanonicalKey
    sourceScore <- MCSourceScore
    Priced = {"official"}
    Shown = {"official", "support", "scanned"}
    OfficialSheet = {"official"}
    SupportSheet = {"support"}
    Tolerant = {2}
    Jobs = {1, 2, 3}
    Stage1Jobs = {3}
    Workers = 2
    MaxFailures = 1
    CommitEvery = 1
SPECIFICATION FairSpec
INVARIANTS
    TypeOK
    RerunsNeverDouble
    AnalyzedIsComplete
PROPERTIES
    
    EveryAnalysisSettles
CHECK_DEADLOCK FALSE
