CONSTANTS
  doc1 = doc1
  doc2 = doc2
  file1 = file1
  file2 = file2
  r1 = r1
  r2 = r2
  s1 = s1
  None = None
  Documents = {doc1, doc2}
  Files = {file1, file2}
  Runs = {r1, r2, s1}
  DocumentOf <- MCDocumentOf
  FileOf <- MCFileOf
  Outputs <- MCOutputs
SPECIFICATION Spec
INVARIANTS TypeOK FinishedIsWhole
PROPERTY PublishesWholeRuns
CHECK_DEADLOCK FALSE
