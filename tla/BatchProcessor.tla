---------------------------- MODULE BatchProcessor ----------------------------
(***************************************************************************)
(* BatchProcessor.processBatch of the AI-first core: the loop that asks a  *)
(* provider to extract the items of one batch, asks it to validate them,   *)
(* and tries again while the validation says "retry" and attempts are      *)
(* left.  The four ways an attempt can go (the extraction throws, the      *)
(* validation throws, the validation settles, the validation wants a       *)
(* retry) are four actions; each performs everything the code does between *)
(* two awaits.  The provider is the environment: which of its answers      *)
(* arrives is nondeterministic, within Extractions and Recommendations.    *)
(*                                                                         *)
(* finalItems outlives an attempt while extractedItems does not: what is   *)
(* published is finalItems, and the hazard is that it belongs to another   *)
(* attempt than the validation it is published with.                       *)
(***************************************************************************)
EXTENDS Naturals, Sequences

CONSTANTS
  RetryLimit,   (* processingOptions.batch_retry_limit, 0..3 in the schema  *)
  Items,        (* the items a provider may report                          *)
  Warned,       (* those of them that carry warnings                        *)
  Extractions,  (* the item sequences extractItemsBatch can return          *)
  Normalize     (* normalizeSequentialItemNumbers, as a function on them    *)

ASSUME RetryLimitAssumption == RetryLimit \in Nat
ASSUME NormalizeAssumption == Normalize \in [Extractions -> Seq(Items)]

VARIABLES
  pc,                   (* where processBatch is: see Stages               *)
  attemptNumber,
  extractedItems,       (* of the current attempt                          *)
  finalItems,           (* what the batch will publish                     *)
  finalRecommendation,  (* finalValidation.recommendation                  *)
  attempts,             (* the BatchAttemptTrace records, oldest first     *)
  batch                 (* the set of records returned: {} until it does   *)

vars == <<pc, attemptNumber, extractedItems, finalItems, finalRecommendation,
          attempts, batch>>

locals == <<attemptNumber, extractedItems, finalItems, finalRecommendation,
            attempts>>

\* The item sequences an attempt can end up with.
Outputs == {Normalize[items] : items \in Extractions}

\* What the callers of processBatch rely on.
Contract == INSTANCE BatchContract
  WITH called <- (pc # "idle"), outcome <- batch

Stages == {"idle", "extract", "validate", "assemble", "returned"}

NoRecommendation == "none"

\* Variant with a fault: one attempt more than configured.
maxAttemptsPlusOne == 2 + RetryLimit

maxAttempts == 1 + RetryLimit

\* Variant with a fault: a recommendation the schema does not know.
FailedBatchValidationUnknown == [recommendation |-> "error", warnings |-> {"ai_failed"}]

\* buildFailedBatchValidation: an exception becomes a request for human review.
FailedBatchValidation == [recommendation |-> "manual_review", warnings |-> {"ai_failed"}]

\* BatchAttemptTrace, the audit record of one attempt.
AttemptTraces == [attempt_number: Nat,
                  extracted_item_count: Nat,
                  validation_recommendation: Contract!Recommendations,
                  warnings: SUBSET Contract!Warnings]

\* What the extracted items warn of.
itemWarnings(items) ==
  IF \E i \in 1..Len(items) : items[i] \in Warned THEN Contract!ProviderWarnings ELSE {}

\* The trace of the current attempt, with what its items and its validation warn of.
AttemptTrace(items, validation) ==
  [attempt_number            |-> attemptNumber,
   extracted_item_count      |-> Len(items),
   validation_recommendation |-> validation.recommendation,
   warnings                  |-> itemWarnings(items) \cup validation.warnings]

mapRecommendationToStatus(recommendation) ==
  CASE recommendation = "accept"              -> "completed"
    [] recommendation = "accept_with_warning" -> "completed_with_warnings"
    [] recommendation = "manual_review"       -> "manual_review"
    [] OTHER                                  -> "retry"

extractionStatus(recommendation, items) ==
  IF recommendation = "manual_review" /\ Len(items) = 0 THEN "failed"
  ELSE IF Len(items) > 0 THEN "completed"
  ELSE "completed_with_warnings"

------------------------------------------------------------------------------
Init ==
  /\ pc = "idle"
  /\ attemptNumber = 0
  /\ extractedItems = << >>
  /\ finalItems = << >>
  /\ finalRecommendation = NoRecommendation
  /\ attempts = << >>
  /\ batch = {}

(* The call: the locals are created and the first iteration entered.       *)
Begin ==
  /\ pc = "idle"
  /\ pc' = "extract"
  /\ attemptNumber' = 1
  /\ extractedItems' = << >>
  /\ finalItems' = << >>
  /\ finalRecommendation' = NoRecommendation
  /\ attempts' = << >>
  /\ batch' = {}

(* extractItemsBatch resolves; its items are renumbered and become both    *)
(* the attempt's items and the candidate output.                           *)
ExtractReturns(items) ==
  /\ pc = "extract"
  /\ extractedItems' = Normalize[items]
  /\ finalItems' = Normalize[items]
  /\ pc' = "validate"
  /\ UNCHANGED <<attemptNumber, finalRecommendation, attempts, batch>>

(* Variant with a fault: the candidate output of the last attempt is kept. *)
ExtractThrowsKeepingItems ==
  /\ pc = "extract"
  /\ finalRecommendation' = FailedBatchValidation.recommendation
  /\ attempts' = Append(attempts, AttemptTrace(<< >>, FailedBatchValidation))
  /\ pc' = "assemble"
  /\ UNCHANGED <<attemptNumber, extractedItems, finalItems, batch>>

(* extractItemsBatch rejects: the candidate output is emptied, so items of *)
(* an earlier attempt are not published, and the loop is left.             *)
ExtractThrows ==
  /\ pc = "extract"
  /\ finalItems' = << >>
  /\ finalRecommendation' = FailedBatchValidation.recommendation
  /\ attempts' = Append(attempts, AttemptTrace(<< >>, FailedBatchValidation))
  /\ pc' = "assemble"
  /\ UNCHANGED <<attemptNumber, extractedItems, batch>>

\* What validateBatch may warn of.
ValidationWarnings == SUBSET Contract!ProviderWarnings

(* validateBatch resolves with anything but "retry": the loop is left.     *)
ValidationSettles(recommendation, warnings) ==
  /\ pc = "validate"
  /\ recommendation # "retry"
  /\ finalRecommendation' = recommendation
  /\ attempts' = Append(attempts,
       AttemptTrace(extractedItems, [recommendation |-> recommendation, warnings |-> warnings]))
  /\ pc' = "assemble"
  /\ UNCHANGED <<attemptNumber, extractedItems, finalItems, batch>>

(* validateBatch resolves with "retry": the next iteration, with fresh     *)
(* attempt items, if the loop's condition still holds.                     *)
ValidationAsksRetry(warnings) ==
  /\ pc = "validate"
  /\ finalRecommendation' = "retry"
  /\ attempts' = Append(attempts,
       AttemptTrace(extractedItems, [recommendation |-> "retry", warnings |-> warnings]))
  /\ attemptNumber' = attemptNumber + 1
  /\ IF attemptNumber + 1 <= maxAttempts
       THEN pc' = "extract" /\ extractedItems' = << >>
       ELSE pc' = "assemble" /\ UNCHANGED extractedItems
  /\ UNCHANGED <<finalItems, batch>>

(* Variant with a fault: nobody settles the batch when validation throws.  *)
ValidateThrowsUnhandled ==
  /\ pc = "validate"
  /\ attempts' = Append(attempts, AttemptTrace(extractedItems, FailedBatchValidation))
  /\ pc' = "rejected"
  /\ UNCHANGED <<attemptNumber, extractedItems, finalItems, finalRecommendation, batch>>

(* validateBatch rejects: the extracted items are kept for a human.        *)
ValidateThrows ==
  /\ pc = "validate"
  /\ finalItems' = extractedItems
  /\ finalRecommendation' = FailedBatchValidation.recommendation
  /\ attempts' = Append(attempts, AttemptTrace(extractedItems, FailedBatchValidation))
  /\ pc' = "assemble"
  /\ UNCHANGED <<attemptNumber, extractedItems, batch>>

retryCount == Len(attempts) - 1

attemptWarnings == UNION {attempts[i].warnings : i \in 1..Len(attempts)}

\* The warnings of the batch: its attempts', and the exhausted-retries one.
batchWarnings ==
  attemptWarnings
  \cup IF finalRecommendation = "retry" /\ retryCount >= RetryLimit
         THEN {"retry_limit_exhausted"}
         ELSE {}

\* Variant with a fault: every extracted item counts as validated.
acceptedItemsAll == finalItems

acceptedItems ==
  IF finalRecommendation \in Contract!Accepting THEN finalItems ELSE << >>

(* After the loop: the batch record is put together and returned.          *)
Assemble ==
  /\ pc = "assemble"
  /\ batch' = {[output_json          |-> finalItems,
                recommendation       |-> finalRecommendation,
                extraction_status    |-> extractionStatus(finalRecommendation, finalItems),
                validation_status    |-> mapRecommendationToStatus(finalRecommendation),
                retry_count          |-> retryCount,
                extracted_item_count |-> Len(finalItems),
                validated_item_count |-> Len(acceptedItems),
                warnings             |-> batchWarnings]}
  /\ pc' = "returned"
  /\ UNCHANGED locals

Extract ==
  \/ \E items \in Extractions : ExtractReturns(items)
  \/ ExtractThrows

Validate ==
  \/ \E warnings \in ValidationWarnings :
       \/ \E recommendation \in Contract!Recommendations :
            ValidationSettles(recommendation, warnings)
       \/ ValidationAsksRetry(warnings)
  \/ ValidateThrows

Next == Begin \/ Extract \/ Validate \/ Assemble

(* Every provider call settles: postJson aborts it after timeout_ms and    *)
(* the adapter tries at most max_retries + 1 times.                        *)
Spec == Init /\ [][Next]_vars /\ WF_vars(Next)
------------------------------------------------------------------------------
(* The types of the locals and of the attempt traces.                      *)
TypeOK ==
  /\ pc \in Stages
  /\ attemptNumber \in Nat
  /\ extractedItems \in Seq(Items)
  /\ finalItems \in Seq(Items)
  /\ finalRecommendation \in Contract!Recommendations \cup {NoRecommendation}
  /\ attempts \in Seq(AttemptTraces)

(* Another attempt is made only after a validation that asked for one: a   *)
(* provider failure is final, however many retries are left, and the       *)
(* number of attempts never passes 1 + batch_retry_limit.                  *)
OnlyRetryIsRetried ==
  /\ Len(attempts) <= 1 + RetryLimit
  /\ \A i \in 1..Len(attempts) :
       /\ attempts[i].attempt_number = i
       /\ i < Len(attempts) \/ pc \in {"extract", "validate"} =>
            /\ attempts[i].validation_recommendation = "retry"
            /\ "ai_failed" \notin attempts[i].warnings
  /\ pc \in {"extract", "validate"} => attemptNumber = Len(attempts) + 1

(* The items put in the batch are those of the attempt whose validation is *)
(* put beside them: never the leftovers of an attempt judged "retry" when  *)
(* the next extraction throws.                                             *)
PublishesWhatWasJudged ==
  pc \in {"assemble", "returned"} =>
    /\ attempts # << >>
    /\ finalItems = extractedItems
    /\ finalRecommendation = attempts[Len(attempts)].validation_recommendation
    /\ Len(finalItems) = attempts[Len(attempts)].extracted_item_count

(* processBatch keeps the promise its callers rely on: one record, whose   *)
(* statuses, counts and warnings agree with its recommendation, and a      *)
(* "retry" published only when every allowed attempt was used.             *)
KeepsContract == Contract!SafeSpec

(* A batch is never left waiting: whatever the provider answers or throws, *)
(* the call returns.                                                       *)
EveryBatchSettles == Contract!EveryCallSettles

(***************************************************************************)
(* The inductive invariant of the proofs: the four properties above need   *)
(* what the loop knows between two of its steps, that the output is one    *)
(* the normalisation yields, that a batch that still wants a retry has     *)
(* used its attempts, and that only the last attempt can have failed.      *)
(***************************************************************************)
LoopInvariant ==
  /\ pc \in {"extract", "validate"} => attemptNumber <= 1 + RetryLimit
  /\ finalItems \in Outputs \cup {<< >>}
  /\ pc = "validate" => finalItems = extractedItems
  /\ pc = "extract" => extractedItems = << >>
  /\ pc = "assemble" /\ finalRecommendation = "retry" =>
       Len(attempts) = 1 + RetryLimit
  /\ \A i \in 1..Len(attempts) :
       /\ "retry_limit_exhausted" \notin attempts[i].warnings
       /\ "ai_failed" \in attempts[i].warnings =>
            attempts[i].validation_recommendation = "manual_review"
  /\ batch = {} <=> pc # "returned"

Inductive == TypeOK /\ OnlyRetryIsRetried /\ PublishesWhatWasJudged /\ LoopInvariant
==============================================================================
