----------------------------- MODULE DocumentRun -----------------------------
(***************************************************************************)
(* BasicDocumentOrchestrator.run: one document from the detection of its   *)
(* official block to the result record.  The planned batches go through    *)
(* BatchProcessor one after the other; their records are consolidated into *)
(* the review table, whose item numbers are repaired once more, now across *)
(* batches; a last provider call judges the whole.  Which segments the     *)
(* detection selects and how they are batched is BatchPlanning's subject:  *)
(* here the plan is any number of batches, none included (a detected range *)
(* may match no segment).                                                  *)
(***************************************************************************)
EXTENDS Consolidation

CONSTANTS
  MaxBatches,   (* a bound on the number of planned batches                 *)
  RetryLimit,   (* processingOptions.batch_retry_limit                      *)
  Extractions,  (* the item sequences extractItemsBatch can return          *)
  Items         (* their items, and those items renumbered                  *)

ASSUME MaxBatchesAssumption == MaxBatches \in Nat
ASSUME RetryLimitAssumption == RetryLimit \in Nat
ASSUME ItemsAssumption ==
  \A items \in Extractions : normalizeSequentialItemNumbers(items) \in Seq(Items)
ASSUME ItemFieldsAssumption == \A item \in Items : IsItem(item)

VARIABLES
  stage,        (* where run is: see Stages                                *)
  detection,    (* what detection.result warns of                          *)
  remaining,    (* the planned batches not yet processed                   *)
  finalBatches, (* the records of those that were, in order                *)
  batchTraces,  (* trace.batch_traces                                      *)
  consolidation,(* the result of consolidate, its items renumbered: {} before *)
  document      (* the set of results returned: {} until run does          *)

\* The locals of the call of processBatch in progress.
VARIABLES pc, attemptNumber, extractedItems, finalItems, finalRecommendation,
          attempts, batch

processor == <<pc, attemptNumber, extractedItems, finalItems,
               finalRecommendation, attempts, batch>>

run == <<stage, detection, remaining, finalBatches, batchTraces, consolidation, document>>

vars == <<run, processor>>

Processor == INSTANCE BatchProcessor
  WITH Normalize <- [items \in Extractions |-> normalizeSequentialItemNumbers(items)],
       Warned <- {item \in Items : item.warnings # {}}

Recommendations == Processor!Contract!Recommendations

Stages == {"detect", "batches", "validateGlobal", "returned", "rejected"}

\* What the provider may warn of when it detects the block or judges the whole.
AnswerWarnings == SUBSET Processor!Contract!ProviderWarnings

\* What validateGlobal answers, or the run puts in its place when it throws.
GlobalAnswer(recommendation, warnings) ==
  [recommendation |-> recommendation, warnings |-> warnings]

\* Variant with a fault: the failure is put down as a warning only.
GlobalFailureWarned ==
  [recommendation |-> "accept_with_warning", warnings |-> {"global_ai_failed"}]

GlobalFailure == [recommendation |-> "manual_review", warnings |-> {"global_ai_failed"}]

\* Variant with a fault: duplicates do not count as something to look at.
processingStatusIgnoringDuplicates(globalRecommendation, batches, warnings) ==
  LET says(status) == \E i \in 1..Len(batches) : batches[i].validation_status = status
  IN  IF globalRecommendation = "manual_review" \/ says("manual_review")
      THEN "manual_review"
      ELSE IF \/ globalRecommendation \in {"retry", "accept_with_warning"}
              \/ says("retry") \/ says("completed_with_warnings")
      THEN "completed_with_warnings"
      ELSE "completed"

\* The worst of the global judgement, the batches' and the consolidation's.
processingStatus(globalRecommendation, batches, warnings) ==
  LET says(status) == \E i \in 1..Len(batches) : batches[i].validation_status = status
  IN  IF globalRecommendation = "manual_review" \/ says("manual_review")
      THEN "manual_review"
      ELSE IF \/ globalRecommendation \in {"retry", "accept_with_warning"}
              \/ says("retry") \/ says("completed_with_warnings")
              \/ warnings # {}
      THEN "completed_with_warnings"
      ELSE "completed"

\* What the batches count, summed up.
TotalExtracted(batches) == Total([i \in 1..Len(batches) |-> batches[i].extracted_item_count])

TotalValidated(batches) == Total([i \in 1..Len(batches) |-> batches[i].validated_item_count])

\* The document run returns, with what its trace tells of the batches.
DocumentResult(global, c) ==
  [processing_status     |-> processingStatus(global.recommendation, finalBatches, c.warnings),
   global_validation     |-> global.recommendation,
   global_warnings       |-> detection \cup global.warnings \cup c.warnings
                             \cup UNION {finalBatches[i].warnings : i \in 1..Len(finalBatches)},
   total_extracted_items |-> TotalExtracted(finalBatches),
   total_validated_items |-> TotalValidated(finalBatches),
   batches               |-> finalBatches,
   items                 |-> c.items,
   resolutions           |-> c.resolutions,
   accepted_batch_count  |-> c.accepted,
   retried_batch_count   |-> Cardinality({i \in 1..Len(batchTraces) : batchTraces[i].retry_count > 0})]

------------------------------------------------------------------------------
Init ==
  /\ stage = "detect"
  /\ detection = {}
  /\ remaining = 0
  /\ finalBatches = << >>
  /\ batchTraces = << >>
  /\ consolidation = {}
  /\ document = {}
  /\ Processor!Init

(* detectOfficialBlock resolves; selection, fragmentation and planning are *)
(* synchronous and yield the batches.                                      *)
Detect(planned, warnings) ==
  /\ stage = "detect"
  /\ stage' = "batches"
  /\ detection' = warnings
  /\ remaining' = planned
  /\ UNCHANGED <<finalBatches, batchTraces, consolidation, document, processor>>

(* detectOfficialBlock rejects, and with it the run: nobody catches it.    *)
DetectThrows ==
  /\ stage = "detect"
  /\ stage' = "rejected"
  /\ UNCHANGED <<detection, remaining, finalBatches, batchTraces, consolidation, document,
                 processor>>

(* Variant with a fault: one batch more than planned.                      *)
StartBatchOneMore ==
  /\ stage = "batches"
  /\ remaining >= 0
  /\ Processor!Begin
  /\ UNCHANGED run

(* The next planned batch is handed to processBatch.                       *)
StartBatch ==
  /\ stage = "batches"
  /\ remaining > 0
  /\ Processor!Begin
  /\ UNCHANGED run

(* processBatch at work.                                                   *)
ProcessBatch ==
  /\ stage = "batches"
  /\ Processor!Extract \/ Processor!Validate \/ Processor!Assemble
  /\ UNCHANGED run

(* It returned: its record and the audit trace of the batch are kept, and  *)
(* its locals are gone.                                                    *)
CollectBatch ==
  /\ stage = "batches"
  /\ pc = "returned"
  /\ \E b \in batch :
       /\ finalBatches' = Append(finalBatches, b)
       /\ batchTraces' = Append(batchTraces,
            [attempt_count        |-> Len(attempts),
             retry_count          |-> b.retry_count,
             final_recommendation |-> b.recommendation])
  /\ remaining' = remaining - 1
  /\ pc' = "idle"
  /\ attemptNumber' = 0
  /\ extractedItems' = << >>
  /\ finalItems' = << >>
  /\ finalRecommendation' = Processor!NoRecommendation
  /\ attempts' = << >>
  /\ batch' = {}
  /\ UNCHANGED <<stage, detection, consolidation, document>>

(* Variant with a fault: the table is not renumbered across batches.       *)
ConsolidateOnly ==
  /\ stage = "batches"
  /\ remaining = 0
  /\ stage' = "validateGlobal"
  /\ consolidation' = {consolidate(finalBatches)}
  /\ UNCHANGED <<detection, remaining, finalBatches, batchTraces, document, processor>>

(* After the last batch: the table, and its numbers repaired.              *)
Consolidate ==
  /\ stage = "batches"
  /\ remaining = 0
  /\ stage' = "validateGlobal"
  /\ LET merged == consolidate(finalBatches)
     IN  consolidation' =
           {[merged EXCEPT !.items = normalizeSequentialItemNumbers(@)]}
  /\ UNCHANGED <<detection, remaining, finalBatches, batchTraces, document, processor>>

(* Variant with a fault: nobody catches what validateGlobal throws.        *)
FinishUncaught(global) ==
  /\ stage = "validateGlobal"
  /\ stage' = IF global = GlobalFailure THEN "rejected" ELSE "returned"
  /\ UNCHANGED <<detection, remaining, finalBatches, batchTraces, consolidation, document,
                 processor>>

(* The global judgement is in, or its failure stands for it: the result is *)
(* put together and returned.                                              *)
Finish(global) ==
  /\ stage = "validateGlobal"
  /\ stage' = "returned"
  /\ \E c \in consolidation : document' = {DocumentResult(global, c)}
  /\ UNCHANGED <<detection, remaining, finalBatches, batchTraces, consolidation, processor>>

Next ==
  \/ \E planned \in 0..MaxBatches, warnings \in AnswerWarnings : Detect(planned, warnings)
  \/ DetectThrows
  \/ StartBatch
  \/ ProcessBatch
  \/ CollectBatch
  \/ Consolidate
  \/ \E recommendation \in Recommendations, warnings \in AnswerWarnings :
       Finish(GlobalAnswer(recommendation, warnings))
  \/ Finish(GlobalFailure)

\* The steps between stages: by Next, Detect, DetectThrows, Consolidate and
\* Finish are the steps that do this, and can be taken whenever this can.
NextStage ==
  \/ stage = "detect" /\ stage' \in {"batches", "rejected"}
  \/ stage = "batches" /\ remaining = 0 /\ stage' = "validateGlobal"
  \/ stage = "validateGlobal" /\ stage' \in {"returned", "rejected"}

(* Every provider call settles, so every await of run does.  The steps     *)
(* that build a result are named by the stage they lead to, which spares   *)
(* the model checker building it to know that they can be taken.           *)
Fairness ==
  /\ WF_vars(StartBatch \/ ProcessBatch \/ CollectBatch)
  /\ WF_stage(NextStage)

Spec == Init /\ [][Next]_vars /\ Fairness
------------------------------------------------------------------------------
BatchRecords ==
  [output_json: Seq(Items), recommendation: Recommendations,
   extraction_status: Processor!Contract!ExtractionStatuses,
   validation_status: Processor!Contract!ValidationStatuses,
   retry_count: 0..RetryLimit, extracted_item_count: Nat, validated_item_count: Nat,
   warnings: SUBSET Processor!Contract!Warnings]

(* The types of the run's state.                                           *)
TypeOK ==
  /\ stage \in Stages
  /\ detection \in AnswerWarnings
  /\ remaining \in 0..MaxBatches
  /\ finalBatches \in Seq(BatchRecords)
  /\ Len(batchTraces) = Len(finalBatches)
  /\ Cardinality(consolidation) <= 1 /\ Cardinality(document) <= 1
  /\ Processor!TypeOK

\* The items the records of the result hold for review, as they reach the table.
Reviewed(d) == itemsForReviewTable(d.batches)

(* The table has one row per merge key of the consolidated batches, the    *)
(* best of its items (nobody has to review it; then confidence; then the   *)
(* first met), in the order of first mention; repairing the numbers        *)
(* afterwards touches nothing else.                                        *)
KeepsTheBest ==
  \A d \in document :
    Unnumbered(d.items) = Unnumbered(ReferenceTable(Reviewed(d)))

(* No duplicate disappears without a trace: for every merge key met more   *)
(* than once the trace names the item kept and all the items dropped, also *)
(* when the kept one changed on the way.                                   *)
DroppedItemsAreTraced ==
  \A d \in document : d.resolutions = ReferenceResolutions(Reviewed(d))

(* "completed" hides no failure and no loss: every item that was extracted *)
(* is validated and is a row of the table, no attempt failed or ran out,   *)
(* no duplicate was resolved, and the global judgement is a plain          *)
(* "accept".  The status is made from recommendations and not from         *)
(* warnings: those that the provider gives with its answers may well be    *)
(* there, but no other.                                                    *)
CompletedIsClean ==
  \A d \in document : d.processing_status = "completed" =>
    /\ d.total_extracted_items = Len(d.items)
    /\ d.total_validated_items = Len(d.items)
    /\ d.accepted_batch_count = Len(d.batches)
    /\ d.global_warnings \subseteq Processor!Contract!ProviderWarnings
    /\ d.global_validation = "accept"

(* A provider failure anywhere after the detection ends in the hands of a  *)
(* human, and items left out of the table because their batch used up its  *)
(* retries leave a warning.                                                *)
FailuresSurface ==
  \A d \in document :
    /\ d.global_warnings \cap {"ai_failed", "global_ai_failed"} # {} =>
         d.processing_status = "manual_review"
    /\ (\E i \in 1..Len(d.batches) : d.batches[i].recommendation = "retry") =>
         /\ "retry_limit_exhausted" \in d.global_warnings
         /\ d.processing_status # "completed"

(* The numbering runs across batches: no row keeps an OCR-like label that  *)
(* continues the numbered row before it.                                   *)
NumberingIsContinued == \A d \in document : NumbersContinued(d.items)

(* Once the official block is detected, the run returns a document,        *)
(* whatever the provider does afterwards.                                  *)
DetectedIsDelivered == stage = "batches" ~> stage = "returned"

(* The final table holds no two rows of one item (the same number and the  *)
(* same description): what the consolidation resolves stays resolved.      *)
DuplicatesAreResolved ==
  \A d \in document : \A i, j \in 1..Len(d.items) :
    buildMergeKey(d.items[i]) = buildMergeKey(d.items[j]) => i = j
==============================================================================
