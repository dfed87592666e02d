----------------------------- MODULE PersistedRun -----------------------------
(***************************************************************************)
(* PersistedDocumentRunner.run over PrismaProcessingRepository: a document *)
(* is registered, its source segments are stored and it is marked as being *)
(* segmented, each in a transaction of its own; then the orchestrator runs *)
(* and its whole outcome is stored in one last transaction, or refused by  *)
(* the constraints of the schema.  The process may stop anywhere, and the  *)
(* answer of a transaction may be lost after it was committed.  Nothing    *)
(* keeps two runs of one document apart.                                   *)
(*                                                                         *)
(* Of a table the model keeps the runs that have rows in it: one run adds  *)
(* all its rows of a table at once, and rows are deleted per document.     *)
(***************************************************************************)
CONSTANTS
  Documents,
  Files,       (* the checksums of uploaded files                           *)
  Runs,        (* the calls of run                                          *)
  None,
  DocumentOf,  (* the document id of each call                              *)
  FileOf,      (* the checksum of the file it was given                     *)
  Outputs      (* the outcomes the orchestrator may return                  *)

(***************************************************************************)
(* The tables of a document.  Those in Keyed have a unique key that two    *)
(* runs of one document would both use.                                    *)
(***************************************************************************)
Tables ==
  {"sourceSegment", "providerTaskConfig", "batch", "batchSourceSegment", "normalizedItem",
   "batchValidation", "documentValidation", "batchAttempt", "promptExecution", "auditLog"}

Keyed == Tables \ {"documentValidation", "promptExecution", "auditLog"}

\* The tables that only the last transaction of a run writes.
ResultTables == Tables \ {"sourceSegment", "batchSourceSegment"}

Finished == {"completed", "completed_with_warnings", "manual_review"}

\* What tells outcomes apart: the status, whether a batch was planned, whether
\* the batches hold fragments of segments or segments as they are, and whether
\* two items of the document were given the same item_uid.
OutputType ==
  [status : Finished, batches : BOOLEAN, fragmented : BOOLEAN,
   items : {"none", "distinct", "repeated"}]

ASSUME ConstantsAssumption ==
  /\ None \notin Runs
  /\ DocumentOf \in [Runs -> Documents]
  /\ FileOf \in [Runs -> Files]
  /\ Outputs \subseteq OutputType

VARIABLES
  at,         (* how far each run has come: see Places                      *)
  output,     (* what the orchestrator returned to it                       *)
  files,      (* the run that last wrote each uploaded file's row           *)
  document,   (* the document rows                                          *)
  rows,       (* of each document and table, the runs that have rows in it  *)
  overlapped  (* history: the documents that two runs had in hand at once   *)

vars == <<at, output, files, document, rows, overlapped>>

UnderWay == {"registered", "segmented", "marked", "ran"}
Places == {"new", "stored", "refused", "failed"} \cup UnderWay

NoDocument == [status |-> "absent", request |-> None, result |-> None]

Init ==
  /\ at = [r \in Runs |-> "new"]
  /\ output = [r \in Runs |-> None]
  /\ files = [f \in Files |-> None]
  /\ document = [d \in Documents |-> NoDocument]
  /\ rows = [d \in Documents |-> [t \in Tables |-> {}]]
  /\ overlapped = {}

\* A transaction was committed: the run goes on, unless the answer is lost.
Committed(r, place) == \E p \in {place, "failed"} : at' = [at EXCEPT ![r] = p]

\* Mutant: the status of a document that is known is kept too.
registerUploadOfKnown(r) ==
  LET d == DocumentOf[r]
      known == document[d].status \in Finished IN
  /\ at[r] = "new"
  /\ files' = [files EXCEPT ![FileOf[r]] = r]
  /\ document' = [document EXCEPT ![d].status = IF known THEN @ ELSE "uploaded", ![d].request = r]
  /\ overlapped' = overlapped
       \cup {e \in {d} : \E q \in Runs : DocumentOf[q] = e /\ at[q] \in UnderWay}
  /\ Committed(r, "registered")
  /\ UNCHANGED <<output, rows>>

\* Registering a document that is known replaces its file, its options and its
\* status, and keeps what an earlier run stored of it.
registerUploadAndDocument(r) ==
  LET d == DocumentOf[r] IN
  /\ at[r] = "new"
  /\ files' = [files EXCEPT ![FileOf[r]] = r]
  /\ document' = [document EXCEPT ![d].status = "uploaded", ![d].request = r]
  /\ overlapped' = overlapped
       \cup {e \in {d} : \E q \in Runs : DocumentOf[q] = e /\ at[q] \in UnderWay}
  /\ Committed(r, "registered")
  /\ UNCHANGED <<output, rows>>

saveSourceSegments(r) ==
  /\ at[r] = "registered"
  /\ rows' = [rows EXCEPT ![DocumentOf[r]]["batchSourceSegment"] = {},
                          ![DocumentOf[r]]["sourceSegment"] = {r}]
  /\ Committed(r, "segmented")
  /\ UNCHANGED <<output, files, document, overlapped>>

markStage(r) ==
  /\ at[r] = "segmented"
  /\ document' = [document EXCEPT ![DocumentOf[r]].status = "segmenting"]
  /\ Committed(r, "marked")
  /\ UNCHANGED <<output, files, rows, overlapped>>

\* Mutant: what the orchestrator throws is caught and the run goes on.
OrchestratorReturnsOrThrows(r) ==
  /\ at[r] = "marked"
  /\ \E o \in Outputs \cup {None} : output' = [output EXCEPT ![r] = o]
  /\ at' = [at EXCEPT ![r] = "ran"]
  /\ UNCHANGED <<files, document, rows, overlapped>>

\* The await of the orchestrator.
OrchestratorReturns(r) ==
  /\ at[r] = "marked"
  /\ \E o \in Outputs : output' = [output EXCEPT ![r] = o]
  /\ at' = [at EXCEPT ![r] = "ran"]
  /\ UNCHANGED <<files, document, rows, overlapped>>

\* The tables in which the snapshot of an outcome has rows.
buildPersistenceSnapshot(o) ==
  {"sourceSegment", "providerTaskConfig", "documentValidation", "promptExecution", "auditLog"}
    \cup (IF o.batches THEN {"batch", "batchSourceSegment", "batchValidation", "batchAttempt"}
                       ELSE {})
    \cup (IF o.items = "none" THEN {} ELSE {"normalizedItem"})

\* The rows of the links name the segments the batches were made of, while the
\* segments stored are those the run was given.
LinksResolve(o) == "batchSourceSegment" \in buildPersistenceSnapshot(o) => ~ o.fragmented

\* Mutant: the tables that do not cascade are forgotten.
DeletedForgetful == Tables \ {"promptExecution"}
Deleted == Tables

Cleared(d) == [t \in Tables |-> IF t \in Deleted THEN {} ELSE rows[d][t]]

\* The constraints of the schema accept the snapshot of a run.
Accepted(r) ==
  LET o == output[r] IN
  /\ LinksResolve(o)
  /\ o.items # "repeated"
  /\ \A t \in Keyed \cap buildPersistenceSnapshot(o) : Cleared(DocumentOf[r])[t] = {}

Inserted(r) ==
  [t \in Tables |-> Cleared(DocumentOf[r])[t]
                      \cup (IF t \in buildPersistenceSnapshot(output[r]) THEN {r} ELSE {})]

persistCompletedRun(r) ==
  LET d == DocumentOf[r] IN
  /\ at[r] = "ran"
  /\ Accepted(r)
  /\ files' = [files EXCEPT ![FileOf[r]] = r]
  /\ document' = [document EXCEPT ![d] = [status |-> output[r].status, request |-> r, result |-> r]]
  /\ rows' = [rows EXCEPT ![d] = Inserted(r)]
  /\ Committed(r, "stored")
  /\ UNCHANGED <<output, overlapped>>

\* The transaction is rolled back and run throws.
RunIsRefused(r) ==
  /\ at[r] = "ran"
  /\ ~ Accepted(r)
  /\ at' = [at EXCEPT ![r] = "refused"]
  /\ UNCHANGED <<output, files, document, rows, overlapped>>

\* The orchestrator throws, a transaction is not committed, the process stops.
RunFails(r) ==
  /\ at[r] \in UnderWay
  /\ at' = [at EXCEPT ![r] = "failed"]
  /\ UNCHANGED <<output, files, document, rows, overlapped>>

Next ==
  \E r \in Runs :
    \/ registerUploadAndDocument(r)
    \/ saveSourceSegments(r)
    \/ markStage(r)
    \/ OrchestratorReturns(r)
    \/ persistCompletedRun(r)
    \/ RunIsRefused(r)
    \/ RunFails(r)

Spec == Init /\ [][Next]_vars
------------------------------------------------------------------------------
(* Types; a run that has come to its outcome has it, and a document's      *)
(* stored result is the outcome of a run of that document.                 *)
TypeOK ==
  /\ at \in [Runs -> Places]
  /\ output \in [Runs -> Outputs \cup {None}]
  /\ files \in [Files -> Runs \cup {None}]
  /\ document \in [Documents -> [status : {"absent", "uploaded", "segmenting"} \cup Finished,
                                 request : Runs \cup {None}, result : Runs \cup {None}]]
  /\ rows \in [Documents -> [Tables -> SUBSET Runs]]
  /\ overlapped \subseteq Documents
  /\ \A r \in Runs : at[r] = "ran" => output[r] \in Outputs
  /\ \A d \in Documents : document[d].result # None =>
       DocumentOf[document[d].result] = d /\ output[document[d].result] \in Outputs

\* The rows that a table holds when the database holds a run's outcome whole.
RowsOf(r, t) == IF r \in Runs /\ t \in buildPersistenceSnapshot(output[r]) THEN {r} ELSE {}

(* A finished status is only shown over the segments, the links, the       *)
(* batches, the items and the audit rows of the run whose result it is, if *)
(* the runs of that document came one after another: a rerun takes the     *)
(* finished status away before it touches the segments, and if it fails    *)
(* half way the mixture it leaves is never shown as finished               *)
(* (persisted-document-runner.ts:30-51).                                   *)
FinishedIsWhole ==
  \A d \in Documents \ overlapped : document[d].status \in Finished =>
    /\ document[d].result # None
    /\ document[d].request = document[d].result
    /\ \A t \in Tables : rows[d][t] = RowsOf(document[d].result, t)

\* The run whose outcome the result tables hold, if one holds all of it.
Held(d) ==
  IF \A t \in ResultTables : rows[d][t] = RowsOf(document[d].result, t)
  THEN document[d].result
  ELSE "torn"

PhaseOf(r) == IF at[r] = "new" THEN "new" ELSE IF at[r] \in UnderWay THEN "open" ELSE "closed"

Abstract == INSTANCE StoredRuns
  WITH held <- [d \in Documents |-> Held(d)], phase <- [r \in Runs |-> PhaseOf(r)]

(* Even when runs of one document overlap, fail or lose an answer, the     *)
(* batches, the items, the validations, the audit and the consolidated     *)
(* result of a document are those of one run, and only the last            *)
(* transaction of a run replaces them, all together                        *)
(* (prisma-processing-repository.ts:297-631).                              *)
PublishesWholeRuns == Abstract!Spec

(* The snapshot of a run that the orchestrator completed can be stored:    *)
(* what the batches were made of and the items' identities satisfy the     *)
(* foreign and unique keys of the tables (write-model.ts:295-302).         *)
CompletedRunsAreStored == \A r \in Runs : at[r] # "refused"
==============================================================================
