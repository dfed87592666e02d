CONSTANTS
    Documents = {"x", "p", "q", "y", "r"}
    FirstDocuments <- MCFirstDocuments
    fileType <- MCFileType
    StrongAnchors = 1
    extracted <- MCExtracted
    ModelActions <- MCModelActions
    Corrections = {c1, c2}
    MaxIterations = 2
SPECIFICATION Spec
CONSTRAINT OverlapIsBounded
SYMMETRY Symmetry
INVARIANTS
    TypeOK
    HardNoiseNeverShown
    PreferredSourceLeads
    VerdictIsAboutTheRows
    GateAndIssuesAgree
