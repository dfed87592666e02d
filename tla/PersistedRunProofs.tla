-------------------------- MODULE PersistedRunProofs --------------------------
(***************************************************************************)
(* Proofs about PersistedRun, for any number of documents, files and runs  *)
(* and any outcomes of the orchestrator: the types, that a finished        *)
(* document is whole, and that every step maps to a step of StoredRuns.    *)
(*                                                                         *)
(* FinishedIsWhole is not inductive by itself: what keeps it is that a run *)
(* under way is alone with its document and has taken the finished status  *)
(* away (Alone), and that the outcome of a run which published no longer   *)
(* changes (Published).                                                    *)
(***************************************************************************)
EXTENDS PersistedRun, TLAPS

\* The result tables of a document are those of its result.
Whole ==
  \A d \in Documents : \A t \in ResultTables : rows[d][t] = RowsOf(document[d].result, t)

\* A run whose result is stored is over.
Published ==
  \A d \in Documents : document[d].result # None => at[document[d].result] \in {"stored", "failed"}

\* Where runs did not overlap, a run under way is the only one and the document
\* does not show a finished status.
Alone ==
  \A r \in Runs : at[r] \in UnderWay /\ DocumentOf[r] \notin overlapped =>
    /\ document[DocumentOf[r]].status \in {"uploaded", "segmenting"}
    /\ \A q \in Runs : DocumentOf[q] = DocumentOf[r] /\ at[q] \in UnderWay => q = r

Inductive ==
  /\ TypeOK
  /\ Whole
  /\ Published
  /\ Alone
  /\ FinishedIsWhole

DocumentType ==
  [status : {"absent", "uploaded", "segmenting"} \cup Finished,
   request : Runs \cup {None}, result : Runs \cup {None}]
------------------------------------------------------------------------------
(* Clearing a document empties each of its tables. *)
LEMMA ClearedIsEmpty == \A d, t : t \in Tables => Cleared(d)[t] = {}
BY DEF Cleared, Deleted

LEMMA InitInductive == Init => Inductive
BY ConstantsAssumption
   DEF Init, Inductive, TypeOK, Whole, Published, Alone, FinishedIsWhole, RowsOf, NoDocument,
       ResultTables, Tables, Places, UnderWay, Finished

\* What every committed transaction does to the place of its run.
LEMMA CommittedPlace ==
  ASSUME TypeOK, NEW r \in Runs, NEW place \in Places, Committed(r, place)
  PROVE  /\ at' \in [Runs -> Places]
         /\ at'[r] \in {place, "failed"}
         /\ \A q \in Runs : q # r => at'[q] = at[q]
BY DEF TypeOK, Committed, Places

LEMMA RegisterInductive ==
  ASSUME Inductive, NEW r \in Runs, registerUploadAndDocument(r) PROVE Inductive'
<1> DEFINE d == DocumentOf[r]
<1>1. d \in Documents /\ FileOf[r] \in Files /\ "registered" \in Places
  BY ConstantsAssumption DEF Places, UnderWay
<1>2. /\ at' \in [Runs -> Places] /\ at'[r] \in {"registered", "failed"}
      /\ \A q \in Runs : q # r => at'[q] = at[q]
  BY <1>1, CommittedPlace DEF registerUploadAndDocument, Inductive
<1>3. /\ at[r] = "new" /\ output' = output /\ rows' = rows
      /\ files' = [files EXCEPT ![FileOf[r]] = r]
      /\ overlapped \subseteq overlapped' /\ overlapped' \subseteq overlapped \cup {d}
      /\ d \notin overlapped' => \A q \in Runs : DocumentOf[q] = d => at[q] \notin UnderWay
  BY DEF registerUploadAndDocument
<1>4. /\ document' \in [Documents -> DocumentType]
      /\ \A e \in Documents : document'[e].result = document[e].result
      /\ \A e \in Documents : e # d => document'[e] = document[e]
      /\ document'[d].status = "uploaded"
  <2>1. document' = [document EXCEPT ![d] =
                       [document[d] EXCEPT !.status = "uploaded", !.request = r]]
    BY <1>1 DEF registerUploadAndDocument, Inductive, TypeOK
  <2>2. document \in [Documents -> DocumentType]
    BY DEF Inductive, TypeOK, DocumentType
  <2>3. document[d] \in DocumentType
    BY <1>1, <2>2
  <2>4. [document[d] EXCEPT !.status = "uploaded", !.request = r] \in DocumentType
    BY <2>3 DEF DocumentType
  <2>5. /\ [document[d] EXCEPT !.status = "uploaded", !.request = r].result = document[d].result
        /\ [document[d] EXCEPT !.status = "uploaded", !.request = r].status = "uploaded"
    BY <2>3 DEF DocumentType
  <2>6. QED
    BY <1>1, <2>1, <2>2, <2>4, <2>5
<1>5. TypeOK'
  BY <1>1, <1>2, <1>3, <1>4 DEF Inductive, TypeOK, DocumentType
<1>6. Whole'
  BY <1>3, <1>4 DEF Inductive, Whole, RowsOf
<1>7. Published'
  BY <1>2, <1>3, <1>4 DEF Inductive, Published, TypeOK
<1>8. Alone'
  BY <1>1, <1>2, <1>3, <1>4, ConstantsAssumption DEF Inductive, Alone, TypeOK, UnderWay
<1>9. FinishedIsWhole'
  BY <1>3, <1>4 DEF Inductive, FinishedIsWhole, RowsOf, Finished
<1>10. QED
  BY <1>5, <1>6, <1>7, <1>8, <1>9 DEF Inductive

LEMMA SegmentsInductive ==
  ASSUME Inductive, NEW r \in Runs, saveSourceSegments(r) PROVE Inductive'
<1> DEFINE d == DocumentOf[r]
<1>1. d \in Documents /\ "segmented" \in Places
  BY ConstantsAssumption DEF Places, UnderWay
<1>2. /\ at' \in [Runs -> Places] /\ at'[r] \in {"segmented", "failed"}
      /\ \A q \in Runs : q # r => at'[q] = at[q]
  BY <1>1, CommittedPlace DEF saveSourceSegments, Inductive
<1>3. at[r] = "registered" /\ UNCHANGED <<output, files, document, overlapped>>
  BY DEF saveSourceSegments
<1>4. /\ rows' \in [Documents -> [Tables -> SUBSET Runs]]
      /\ \A e \in Documents : e # d => rows'[e] = rows[e]
      /\ \A e \in Documents : \A t \in ResultTables : rows'[e][t] = rows[e][t]
  <2>1. rows' = [rows EXCEPT ![d] = [rows[d] EXCEPT !["batchSourceSegment"] = {},
                                                    !["sourceSegment"] = {r}]]
    BY <1>1 DEF saveSourceSegments, Inductive, TypeOK
  <2>2. rows \in [Documents -> [Tables -> SUBSET Runs]]
    BY DEF Inductive, TypeOK
  <2>3. [rows[d] EXCEPT !["batchSourceSegment"] = {}, !["sourceSegment"] = {r}]
          \in [Tables -> SUBSET Runs]
    BY <1>1, <2>2
  <2>4. \A t \in ResultTables :
          [rows[d] EXCEPT !["batchSourceSegment"] = {}, !["sourceSegment"] = {r}][t] = rows[d][t]
    BY <1>1, <2>2 DEF ResultTables
  <2>5. QED
    BY <1>1, <2>1, <2>2, <2>3, <2>4
<1>5. TypeOK'
  BY <1>2, <1>3, <1>4 DEF Inductive, TypeOK
<1>6. Whole'
  BY <1>3, <1>4 DEF Inductive, Whole, RowsOf
<1>7. Published'
  BY <1>2, <1>3 DEF Inductive, Published, TypeOK
<1>8. Alone'
  BY <1>2, <1>3 DEF Inductive, Alone, UnderWay
<1>9. FinishedIsWhole'
  BY <1>1, <1>3, <1>4 DEF Inductive, FinishedIsWhole, Alone, RowsOf, UnderWay, Finished
<1>10. QED
  BY <1>5, <1>6, <1>7, <1>8, <1>9 DEF Inductive

LEMMA MarkInductive ==
  ASSUME Inductive, NEW r \in Runs, markStage(r) PROVE Inductive'
<1> DEFINE d == DocumentOf[r]
<1>1. d \in Documents /\ "marked" \in Places
  BY ConstantsAssumption DEF Places, UnderWay
<1>2. /\ at' \in [Runs -> Places] /\ at'[r] \in {"marked", "failed"}
      /\ \A q \in Runs : q # r => at'[q] = at[q]
  BY <1>1, CommittedPlace DEF markStage, Inductive
<1>3. at[r] = "segmented" /\ UNCHANGED <<output, files, rows, overlapped>>
  BY DEF markStage
<1>4. /\ document' \in [Documents -> DocumentType]
      /\ \A e \in Documents : document'[e].result = document[e].result
      /\ \A e \in Documents : e # d => document'[e] = document[e]
      /\ document'[d].status = "segmenting"
  <2>1. document' = [document EXCEPT ![d] = [document[d] EXCEPT !.status = "segmenting"]]
    BY <1>1 DEF markStage, Inductive, TypeOK
  <2>2. document \in [Documents -> DocumentType]
    BY DEF Inductive, TypeOK, DocumentType
  <2>3. document[d] \in DocumentType
    BY <1>1, <2>2
  <2>4. /\ [document[d] EXCEPT !.status = "segmenting"] \in DocumentType
        /\ [document[d] EXCEPT !.status = "segmenting"].result = document[d].result
        /\ [document[d] EXCEPT !.status = "segmenting"].status = "segmenting"
    BY <2>3 DEF DocumentType
  <2>5. QED
    BY <1>1, <2>1, <2>2, <2>4
<1>5. TypeOK'
  BY <1>2, <1>3, <1>4 DEF Inductive, TypeOK, DocumentType
<1>6. Whole'
  BY <1>3, <1>4 DEF Inductive, Whole, RowsOf
<1>7. Published'
  BY <1>2, <1>3, <1>4 DEF Inductive, Published, TypeOK
<1>8. Alone'
  BY <1>1, <1>2, <1>3, <1>4, ConstantsAssumption DEF Inductive, Alone, UnderWay
<1>9. FinishedIsWhole'
  BY <1>3, <1>4 DEF Inductive, FinishedIsWhole, RowsOf, Finished
<1>10. QED
  BY <1>5, <1>6, <1>7, <1>8, <1>9 DEF Inductive

LEMMA ReturnInductive ==
  ASSUME Inductive, NEW r \in Runs, OrchestratorReturns(r) PROVE Inductive'
<1>1. PICK o \in Outputs : output' = [output EXCEPT ![r] = o]
  BY DEF OrchestratorReturns
<1>2. /\ at[r] = "marked" /\ at' = [at EXCEPT ![r] = "ran"]
      /\ UNCHANGED <<files, document, rows, overlapped>>
  BY DEF OrchestratorReturns
<1>3. \A d \in Documents : document[d].result # None =>
        document[d].result \in Runs /\ document[d].result # r
  BY <1>2 DEF Inductive, TypeOK, Published
<1>4. \A d \in Documents, t \in Tables :
        RowsOf(document[d].result, t)' = RowsOf(document[d].result, t)
  BY <1>1, <1>2, <1>3, ConstantsAssumption DEF Inductive, TypeOK, RowsOf
<1>5. TypeOK'
  BY <1>1, <1>2, <1>3 DEF Inductive, TypeOK, Places, UnderWay
<1>6. Whole'
  BY <1>2, <1>4 DEF Inductive, Whole, ResultTables
<1>7. Published'
  BY <1>2, <1>3 DEF Inductive, Published, TypeOK
<1>8. Alone'
  BY <1>2 DEF Inductive, Alone, TypeOK, UnderWay
<1>9. FinishedIsWhole'
  BY <1>2, <1>4 DEF Inductive, FinishedIsWhole
<1>10. QED
  BY <1>5, <1>6, <1>7, <1>8, <1>9 DEF Inductive

\* What persistCompletedRun leaves in the database.
LEMMA PersistEffect ==
  ASSUME Inductive, NEW r \in Runs, persistCompletedRun(r)
  PROVE  /\ at[r] = "ran" /\ output[r] \in Outputs /\ output[r].status \in Finished
         /\ files' = [files EXCEPT ![FileOf[r]] = r]
         /\ document' = [document EXCEPT ![DocumentOf[r]] =
                           [status |-> output[r].status, request |-> r, result |-> r]]
         /\ rows' = [rows EXCEPT ![DocumentOf[r]] = [t \in Tables |-> RowsOf(r, t)]]
         /\ UNCHANGED <<output, overlapped>>
         /\ at' \in [Runs -> Places] /\ at'[r] \in {"stored", "failed"}
         /\ \A q \in Runs : q # r => at'[q] = at[q]
<1>1. at[r] = "ran" /\ output[r] \in Outputs
  BY DEF persistCompletedRun, Inductive, TypeOK
<1>2. output[r].status \in Finished
  BY <1>1, ConstantsAssumption DEF OutputType
<1>3. Inserted(r) = [t \in Tables |-> RowsOf(r, t)]
  BY ClearedIsEmpty DEF Inserted, RowsOf
<1>4. /\ at' \in [Runs -> Places] /\ at'[r] \in {"stored", "failed"}
      /\ \A q \in Runs : q # r => at'[q] = at[q]
  <2>1. "stored" \in Places
    BY DEF Places
  <2>2. QED
    BY <2>1, CommittedPlace DEF persistCompletedRun, Inductive
<1>5. QED
  BY <1>1, <1>2, <1>3, <1>4 DEF persistCompletedRun

LEMMA PersistInductive ==
  ASSUME Inductive, NEW r \in Runs, persistCompletedRun(r) PROVE Inductive'
<1> DEFINE d == DocumentOf[r]
           record == [status |-> output[r].status, request |-> r, result |-> r]
<1>0. /\ at[r] = "ran" /\ output[r] \in Outputs /\ output[r].status \in Finished
      /\ files' = [files EXCEPT ![FileOf[r]] = r]
      /\ document' = [document EXCEPT ![d] = record]
      /\ rows' = [rows EXCEPT ![d] = [t \in Tables |-> RowsOf(r, t)]]
      /\ output' = output /\ overlapped' = overlapped
      /\ at' \in [Runs -> Places] /\ at'[r] \in {"stored", "failed"}
      /\ \A q \in Runs : q # r => at'[q] = at[q]
  BY PersistEffect
<1>1. d \in Documents /\ FileOf[r] \in Files
  BY ConstantsAssumption
<1>2. /\ document'[d] = record
      /\ \A e \in Documents : e # d => document'[e] = document[e]
      /\ rows'[d] = [t \in Tables |-> RowsOf(r, t)]
      /\ \A e \in Documents : e # d => rows'[e] = rows[e]
  BY <1>0, <1>1 DEF Inductive, TypeOK
<1>3. record \in DocumentType /\ [t \in Tables |-> RowsOf(r, t)] \in [Tables -> SUBSET Runs]
  BY <1>0 DEF DocumentType, RowsOf
<1>4. \A q, t : RowsOf(q, t)' = RowsOf(q, t)
  BY <1>0 DEF RowsOf
<1>5. TypeOK'
  <2>1. at' \in [Runs -> Places] /\ output' \in [Runs -> Outputs \cup {None}]
    BY <1>0 DEF Inductive, TypeOK
  <2>2. files' \in [Files -> Runs \cup {None}] /\ overlapped' \subseteq Documents
    BY <1>0, <1>1 DEF Inductive, TypeOK
  <2>3. document' \in [Documents -> DocumentType]
    BY <1>0, <1>1, <1>3 DEF Inductive, TypeOK, DocumentType
  <2>4. rows' \in [Documents -> [Tables -> SUBSET Runs]]
    BY <1>0, <1>1, <1>3 DEF Inductive, TypeOK
  <2>5. \A q \in Runs : at'[q] = "ran" => output'[q] \in Outputs
    BY <1>0 DEF Inductive, TypeOK
  <2>6. \A e \in Documents : document'[e].result # None =>
          DocumentOf[document'[e].result] = e /\ output'[document'[e].result] \in Outputs
    BY <1>0, <1>1, <1>2 DEF Inductive, TypeOK
  <2>7. QED
    BY <2>1, <2>2, <2>3, <2>4, <2>5, <2>6 DEF TypeOK, DocumentType
<1>6. Whole'
  BY <1>0, <1>2, <1>4 DEF Inductive, Whole, ResultTables
<1>7. Published'
  BY <1>0, <1>2 DEF Inductive, Published, TypeOK
<1>8. Alone'
  BY <1>0, <1>1, <1>2, ConstantsAssumption DEF Inductive, Alone, UnderWay
<1>9. FinishedIsWhole'
  BY <1>0, <1>2, <1>4, ConstantsAssumption DEF Inductive, FinishedIsWhole
<1>10. QED
  BY <1>5, <1>6, <1>7, <1>8, <1>9 DEF Inductive

\* A run that ends without a transaction changes nothing but its place.
LEMMA EndsInductive ==
  ASSUME Inductive, NEW r \in Runs, RunIsRefused(r) \/ RunFails(r) PROVE Inductive'
<1>1. PICK p \in {"refused", "failed"} : at' = [at EXCEPT ![r] = p]
  BY DEF RunIsRefused, RunFails
<1>2. at[r] \in UnderWay /\ UNCHANGED <<output, files, document, rows, overlapped>>
  BY DEF RunIsRefused, RunFails, UnderWay
<1>3. TypeOK'
  BY <1>1, <1>2 DEF Inductive, TypeOK, Places, UnderWay
<1>4. Whole' /\ FinishedIsWhole'
  BY <1>2 DEF Inductive, Whole, FinishedIsWhole, RowsOf
<1>5. Published'
  BY <1>1, <1>2 DEF Inductive, Published, TypeOK, UnderWay
<1>6. Alone'
  BY <1>1, <1>2 DEF Inductive, Alone, TypeOK, UnderWay
<1>7. QED
  BY <1>3, <1>4, <1>5, <1>6 DEF Inductive

LEMMA NextInductive == Inductive /\ [Next]_vars => Inductive'
<1> SUFFICES ASSUME Inductive, [Next]_vars PROVE Inductive'
  OBVIOUS
<1>1. CASE Next
  <2>1. PICK r \in Runs :
          \/ registerUploadAndDocument(r) \/ saveSourceSegments(r) \/ markStage(r)
          \/ OrchestratorReturns(r) \/ persistCompletedRun(r) \/ RunIsRefused(r) \/ RunFails(r)
    BY <1>1 DEF Next
  <2>2. QED
    BY <2>1, RegisterInductive, SegmentsInductive, MarkInductive, ReturnInductive,
       PersistInductive, EndsInductive
<1>2. CASE UNCHANGED vars
  BY <1>2 DEF vars, Inductive, TypeOK, Whole, Published, Alone, FinishedIsWhole, RowsOf
<1>3. QED
  BY <1>1, <1>2

LEMMA AlwaysInductive == Spec => []Inductive
BY InitInductive, NextInductive, PTL DEF Spec
------------------------------------------------------------------------------
(* The rows keep their types: a run stores an outcome only after the       *)
(* orchestrator returned one, and under its own document's id.             *)
THEOREM TypesHold == Spec => []TypeOK
<1>1. Inductive => TypeOK
  BY DEF Inductive
<1>2. QED
  BY <1>1, AlwaysInductive, PTL

(* However many runs there are and wherever they stop, a document on which *)
(* no two runs overlapped shows a finished status only over the segments,  *)
(* links, batches, items and audit rows of the run whose result it is.     *)
THEOREM FinishedDocumentsAreWhole == Spec => []FinishedIsWhole
<1>1. Inductive => FinishedIsWhole
  BY DEF Inductive
<1>2. QED
  BY <1>1, AlwaysInductive, PTL

\* Under the invariant, what the mapping says a document holds is its result.
LEMMA HeldIsResult == ASSUME Inductive, NEW d \in Documents PROVE Held(d) = document[d].result
BY DEF Inductive, Whole, Held

(* The database of the runs implements StoredRuns: with overlapping runs,  *)
(* failures and lost answers, the outcome held of a document is replaced   *)
(* only as a whole and only by the last transaction of a run under way.    *)
THEOREM OutcomesAreReplacedWhole == Spec => PublishesWholeRuns
<1>1. Init => Abstract!Init
  <2> SUFFICES ASSUME Init PROVE Abstract!Init
    OBVIOUS
  <2>1. \A d \in Documents : Held(d) = None
    BY InitInductive, HeldIsResult DEF Init, NoDocument
  <2>2. \A r \in Runs : PhaseOf(r) = "new"
    BY DEF Init, PhaseOf
  <2>3. QED
    BY <2>1, <2>2 DEF Abstract!Init
<1>2. Inductive /\ [Next]_vars => [Abstract!Next]_(Abstract!vars)
  <2> SUFFICES ASSUME Inductive, [Next]_vars PROVE [Abstract!Next]_(Abstract!vars)
    OBVIOUS
  <2>1. Inductive'
    BY NextInductive
  <2>2. [d \in Documents |-> Held(d)] = [d \in Documents |-> document[d].result]
    BY HeldIsResult
  <2>3. [d \in Documents |-> Held(d)'] = [d \in Documents |-> document'[d].result]
    <3>1. \A d \in Documents : Held(d)' = document'[d].result
      BY <2>1 DEF Inductive, Whole, Held
    <3>2. QED
      BY <3>1
  <2>4. at \in [Runs -> Places] /\ DocumentOf \in [Runs -> Documents]
    BY ConstantsAssumption DEF Inductive, TypeOK
  <2>5. document \in [Documents -> DocumentType]
    BY DEF Inductive, TypeOK, DocumentType
  <2>6. CASE UNCHANGED vars
    BY <2>2, <2>3, <2>6 DEF vars, PhaseOf, Abstract!vars
  <2>7. ASSUME NEW r \in Runs, registerUploadAndDocument(r) PROVE Abstract!Open(r)
    <3>1. PICK p \in {"registered", "failed"} : at' = [at EXCEPT ![r] = p]
      BY <2>7 DEF registerUploadAndDocument, Committed
    <3>2. at[r] = "new" /\ document' = [document EXCEPT ![DocumentOf[r]].status = "uploaded",
                                                       ![DocumentOf[r]].request = r]
      BY <2>7 DEF registerUploadAndDocument
    <3>3. \A d \in Documents : document'[d].result = document[d].result
      BY <2>4, <2>5, <3>2 DEF DocumentType
    <3>4. [q \in Runs |-> PhaseOf(q)'] =
            [[q \in Runs |-> PhaseOf(q)] EXCEPT ![r] = IF p = "failed" THEN "closed" ELSE "open"]
      BY <2>4, <3>1, <3>2 DEF PhaseOf, UnderWay
    <3>5. QED
      BY <2>2, <2>3, <3>2, <3>3, <3>4 DEF Abstract!Open, PhaseOf
  <2>8. ASSUME NEW r \in Runs, at[r] \in UnderWay, NEW p \in Places \ {"new"},
               at' = [at EXCEPT ![r] = p],
               \A d \in Documents : document'[d].result = document[d].result
        PROVE  Abstract!Abandon(r) \/ UNCHANGED Abstract!vars
    <3>1. [q \in Runs |-> PhaseOf(q)'] =
            [[q \in Runs |-> PhaseOf(q)] EXCEPT ![r] = IF p \in UnderWay THEN "open" ELSE "closed"]
      BY <2>4, <2>8 DEF PhaseOf, UnderWay
    <3>2. PhaseOf(r) = "open"
      BY <2>8 DEF PhaseOf, UnderWay
    <3>3. [d \in Documents |-> Held(d)'] = [d \in Documents |-> Held(d)]
      BY <2>2, <2>3, <2>8
    <3>4. CASE p \in UnderWay
      BY <3>1, <3>2, <3>3, <3>4 DEF Abstract!vars
    <3>5. CASE p \notin UnderWay
      BY <3>1, <3>2, <3>3, <3>5 DEF Abstract!Abandon
    <3>6. QED
      BY <3>4, <3>5
  <2>9. ASSUME NEW r \in Runs,
               \/ saveSourceSegments(r) \/ markStage(r) \/ OrchestratorReturns(r)
               \/ RunIsRefused(r) \/ RunFails(r)
        PROVE  Abstract!Abandon(r) \/ UNCHANGED Abstract!vars
    <3>1. at[r] \in UnderWay
      BY <2>9 DEF saveSourceSegments, markStage, OrchestratorReturns, RunIsRefused, RunFails, UnderWay
    <3>2. PICK p \in Places \ {"new"} : at' = [at EXCEPT ![r] = p]
      BY <2>9 DEF saveSourceSegments, markStage, OrchestratorReturns, RunIsRefused, RunFails,
                  Committed, Places, UnderWay
    <3>3. document' = document \/ document' = [document EXCEPT ![DocumentOf[r]].status = "segmenting"]
      BY <2>9 DEF saveSourceSegments, markStage, OrchestratorReturns, RunIsRefused, RunFails
    <3>4. \A d \in Documents : document'[d].result = document[d].result
      BY <2>4, <2>5, <3>3 DEF DocumentType
    <3>5. QED
      BY <2>8, <3>1, <3>2, <3>4
  <2>10. ASSUME NEW r \in Runs, persistCompletedRun(r) PROVE Abstract!Publish(r)
    <3>1. PICK p \in {"stored", "failed"} : at' = [at EXCEPT ![r] = p]
      BY <2>10 DEF persistCompletedRun, Committed
    <3>2. at[r] = "ran" /\ document' = [document EXCEPT ![DocumentOf[r]] =
                             [status |-> output[r].status, request |-> r, result |-> r]]
      BY <2>10 DEF persistCompletedRun
    <3>3. [d \in Documents |-> document'[d].result] =
            [[d \in Documents |-> document[d].result] EXCEPT ![DocumentOf[r]] = r]
      BY <2>4, <2>5, <3>2
    <3>4. [q \in Runs |-> PhaseOf(q)'] = [[q \in Runs |-> PhaseOf(q)] EXCEPT ![r] = "closed"]
      BY <2>4, <3>1, <3>2 DEF PhaseOf, UnderWay
    <3>5. QED
      BY <2>2, <2>3, <3>2, <3>3, <3>4 DEF Abstract!Publish, PhaseOf, UnderWay
  <2>11. CASE Next
    BY <2>7, <2>9, <2>10, <2>11 DEF Next, Abstract!Next
  <2>12. QED
    BY <2>6, <2>11
<1>3. QED
  BY <1>1, <1>2, AlwaysInductive, PTL DEF Spec, PublishesWholeRuns, Abstract!Spec
==============================================================================
