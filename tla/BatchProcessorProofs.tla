------------------------- MODULE BatchProcessorProofs -------------------------
(***************************************************************************)
(* What the runs of BatchProcessor show for three retries and five         *)
(* extractions, proved for every retry limit, every set of items and every *)
(* extraction.  Inductive is preserved by each action; the properties and  *)
(* the steps of the contract follow from it.                               *)
(***************************************************************************)
EXTENDS BatchProcessor, TLAPS

(* The loop's outcomes are finite enumerations: what the abbreviations of  *)
(* the contract stand for.                                                 *)
LEMMA ContractSets ==
  /\ Contract!Recommendations = {"accept", "accept_with_warning", "retry", "manual_review"}
  /\ Contract!Accepting = {"accept", "accept_with_warning"}
  /\ Contract!Warnings = {"ai_failed", "retry_limit_exhausted", "provider_warnings"}
  /\ Contract!ProviderWarnings = {"provider_warnings"}
BY DEF Contract!Recommendations, Contract!Accepting, Contract!Warnings,
       Contract!ProcessorWarnings, Contract!ProviderWarnings

(* What the normalisation yields is a sequence of items.                   *)
LEMMA NormalizeYields ==
  /\ \A items \in Extractions : Normalize[items] \in Outputs
  /\ Outputs \subseteq Seq(Items)
BY NormalizeAssumption DEF Outputs

(* A trace added at the end: the earlier ones stay where they were.        *)
LEMMA AppendedTrace ==
  ASSUME NEW S, NEW s \in Seq(S), NEW e \in S
  PROVE  /\ Append(s, e) \in Seq(S)
         /\ Len(Append(s, e)) = Len(s) + 1
         /\ Append(s, e)[Len(s) + 1] = e
         /\ \A i \in 1..Len(s) : Append(s, e)[i] = s[i]
         /\ Append(s, e) # << >>
OBVIOUS

(* The initial state has no attempt, so it satisfies the invariant.        *)
LEMMA InitInductive == Init => Inductive
<1> SUFFICES ASSUME Init PROVE Inductive
  OBVIOUS
<1> USE RetryLimitAssumption, ContractSets DEF Init
<1>1. TypeOK
  BY DEF TypeOK, Stages
<1>2. OnlyRetryIsRetried
  BY DEF OnlyRetryIsRetried
<1>3. PublishesWhatWasJudged /\ LoopInvariant
  BY DEF PublishesWhatWasJudged, LoopInvariant
<1> QED
  BY <1>1, <1>2, <1>3 DEF Inductive

(* The call and the empty iteration it enters.                             *)
LEMMA BeginInductive == Inductive /\ Begin => Inductive'
<1> SUFFICES ASSUME Inductive, Begin PROVE Inductive'
  OBVIOUS
<1> USE RetryLimitAssumption, ContractSets DEF Inductive, Begin
<1>1. TypeOK'
  BY DEF TypeOK, Stages
<1>2. OnlyRetryIsRetried'
  BY DEF OnlyRetryIsRetried
<1>3. PublishesWhatWasJudged' /\ LoopInvariant'
  BY DEF PublishesWhatWasJudged, LoopInvariant
<1> QED
  BY <1>1, <1>2, <1>3

(* A successful extraction changes the items and nothing that was judged.  *)
LEMMA ExtractReturnsInductive ==
  ASSUME Inductive, NEW items \in Extractions, ExtractReturns(items)
  PROVE  Inductive'
<1> USE RetryLimitAssumption, ContractSets, NormalizeYields DEF Inductive, ExtractReturns
<1>1. TypeOK'
  BY DEF TypeOK, Stages
<1>2. OnlyRetryIsRetried'
  BY DEF OnlyRetryIsRetried
<1>3. PublishesWhatWasJudged' /\ LoopInvariant'
  BY DEF PublishesWhatWasJudged, LoopInvariant
<1> QED
  BY <1>1, <1>2, <1>3

(* A trace built from well-typed arguments is a trace.                     *)
LEMMA AttemptTraceType ==
  ASSUME TypeOK, NEW items \in Seq(Items),
         NEW rec \in Contract!Recommendations,
         NEW warned \in SUBSET Contract!Warnings
  PROVE  /\ AttemptTrace(items, [recommendation |-> rec, warnings |-> warned]) \in AttemptTraces
         /\ AttemptTrace(items, [recommendation |-> rec, warnings |-> warned])
              = [attempt_number |-> attemptNumber, extracted_item_count |-> Len(items),
                 validation_recommendation |-> rec, warnings |-> itemWarnings(items) \cup warned]
<1>1. itemWarnings(items) \in SUBSET Contract!Warnings
  BY ContractSets DEF itemWarnings
<1> QED
  BY <1>1 DEF AttemptTrace, AttemptTraces, TypeOK

(* What every way of finishing an attempt does to the traces: the new one  *)
(* is the last, says how many items it had and how they were judged, and   *)
(* every earlier attempt ended in a retry.                                 *)
AttemptFinished(items, rec) ==
  /\ attempts' \in Seq(AttemptTraces)
  /\ attempts' # << >>
  /\ Len(attempts') = attemptNumber
  /\ Len(attempts') <= 1 + RetryLimit
  /\ attempts'[Len(attempts')].validation_recommendation = rec
  /\ attempts'[Len(attempts')].extracted_item_count = Len(items)
  /\ \A i \in 1..Len(attempts') :
       /\ attempts'[i].attempt_number = i
       /\ "retry_limit_exhausted" \notin attempts'[i].warnings
       /\ "ai_failed" \in attempts'[i].warnings =>
            attempts'[i].validation_recommendation = "manual_review"
       /\ i < Len(attempts') =>
            /\ attempts'[i].validation_recommendation = "retry"
            /\ "ai_failed" \notin attempts'[i].warnings

(* It holds whichever way the attempt is finished.                         *)
LEMMA FinishedAttempt ==
  ASSUME Inductive, pc \in {"extract", "validate"},
         NEW items \in Seq(Items),
         NEW rec \in Contract!Recommendations,
         NEW warned \in SUBSET {"ai_failed", "provider_warnings"},
         "ai_failed" \in warned => rec = "manual_review",
         attempts' = Append(attempts,
           AttemptTrace(items, [recommendation |-> rec, warnings |-> warned]))
  PROVE  /\ AttemptFinished(items, rec)
         /\ "ai_failed" \in attempts'[Len(attempts')].warnings => "ai_failed" \in warned
<1> DEFINE trace == [attempt_number |-> attemptNumber,
                     extracted_item_count |-> Len(items),
                     validation_recommendation |-> rec,
                     warnings |-> itemWarnings(items) \cup warned]
<1>1. /\ trace \in AttemptTraces
      /\ attempts' = Append(attempts, trace)
      /\ attempts \in Seq(AttemptTraces)
  <2>1. TypeOK /\ warned \in SUBSET Contract!Warnings
    BY ContractSets DEF Inductive
  <2>2. attempts \in Seq(AttemptTraces)
    BY <2>1 DEF TypeOK, AttemptTraces
  <2>3. QED
    BY <2>1, <2>2, AttemptTraceType
<1> HIDE DEF trace
<1>2. /\ attempts' \in Seq(AttemptTraces)
      /\ Len(attempts') = Len(attempts) + 1
      /\ attempts'[Len(attempts) + 1] = trace
      /\ \A i \in 1..Len(attempts) : attempts'[i] = attempts[i]
      /\ attempts' # << >>
  BY <1>1, AppendedTrace
<1>3. /\ Len(attempts) \in Nat
      /\ attemptNumber = Len(attempts) + 1
      /\ attemptNumber <= 1 + RetryLimit
      /\ \A i \in 1..Len(attempts) :
           /\ attempts[i].attempt_number = i
           /\ attempts[i].validation_recommendation = "retry"
           /\ attempts[i].warnings \cap {"ai_failed", "retry_limit_exhausted"} = {}
  BY <1>1 DEF Inductive, OnlyRetryIsRetried, LoopInvariant
<1>4. /\ trace.attempt_number = attemptNumber
      /\ trace.extracted_item_count = Len(items)
      /\ trace.validation_recommendation = rec
      /\ trace.warnings = itemWarnings(items) \cup warned
  BY DEF trace
<1>5. \A i \in 1..Len(attempts') :
        i = Len(attempts) + 1 \/ i \in 1..Len(attempts)
  BY <1>2, <1>3
<1>6. /\ "retry_limit_exhausted" \notin trace.warnings
      /\ "ai_failed" \in trace.warnings => "ai_failed" \in warned
  BY <1>4, ContractSets DEF itemWarnings
<1> QED
  BY <1>2, <1>3, <1>4, <1>5, <1>6, RetryLimitAssumption DEF AttemptFinished

(* The extraction throws: the attempt is finished with no items, reviewed. *)
LEMMA ExtractThrowsInductive == Inductive /\ ExtractThrows => Inductive'
<1> SUFFICES ASSUME Inductive, ExtractThrows PROVE Inductive'
  OBVIOUS
<1> USE RetryLimitAssumption, ContractSets
<1>1. /\ << >> \in Seq(Items)
      /\ "manual_review" \in Contract!Recommendations
      /\ pc \in {"extract", "validate"}
      /\ attempts' = Append(attempts,
           AttemptTrace(<< >>, [recommendation |-> "manual_review", warnings |-> {"ai_failed"}]))
  BY DEF ExtractThrows, FailedBatchValidation
<1>2. AttemptFinished(<< >>, "manual_review")
  BY <1>1, FinishedAttempt
<1>3. TypeOK'
  BY <1>2 DEF Inductive, TypeOK, Stages, ExtractThrows, FailedBatchValidation, AttemptFinished
<1>4. OnlyRetryIsRetried'
  BY <1>2 DEF Inductive, OnlyRetryIsRetried, ExtractThrows, AttemptFinished
<1>5. PublishesWhatWasJudged' /\ LoopInvariant'
  BY <1>2 DEF Inductive, PublishesWhatWasJudged, LoopInvariant, ExtractThrows,
              FailedBatchValidation, AttemptFinished
<1> QED
  BY <1>3, <1>4, <1>5 DEF Inductive

(* A validation that answers finishes the attempt with the items it judged *)
(* and no failure.                                                         *)
LEMMA JudgedAttempt ==
  ASSUME Inductive, pc = "validate",
         NEW rec \in Contract!Recommendations, NEW warned \in ValidationWarnings,
         attempts' = Append(attempts,
           AttemptTrace(extractedItems, [recommendation |-> rec, warnings |-> warned]))
  PROVE  /\ AttemptFinished(extractedItems, rec)
         /\ "ai_failed" \notin attempts'[Len(attempts')].warnings
<1>1. extractedItems \in Seq(Items) /\ pc \in {"extract", "validate"}
  BY DEF Inductive, TypeOK
<1>2. warned \in SUBSET {"ai_failed", "provider_warnings"} /\ "ai_failed" \notin warned
  BY ContractSets DEF ValidationWarnings
<1> QED
  BY <1>1, <1>2, FinishedAttempt

(* The validation settles: the loop ends with the items it judged.         *)
LEMMA ValidationSettlesInductive ==
  ASSUME Inductive, NEW rec \in Contract!Recommendations, NEW warned \in ValidationWarnings,
         ValidationSettles(rec, warned)
  PROVE  Inductive'
<1> USE RetryLimitAssumption, ContractSets
<1>1. AttemptFinished(extractedItems, rec)
  BY JudgedAttempt DEF ValidationSettles
<1>2. TypeOK'
  BY <1>1 DEF Inductive, TypeOK, Stages, ValidationSettles, AttemptFinished
<1>3. OnlyRetryIsRetried'
  BY <1>1 DEF Inductive, OnlyRetryIsRetried, ValidationSettles, AttemptFinished
<1>4. PublishesWhatWasJudged' /\ LoopInvariant'
  BY <1>1 DEF Inductive, PublishesWhatWasJudged, LoopInvariant, ValidationSettles,
              AttemptFinished
<1> QED
  BY <1>2, <1>3, <1>4 DEF Inductive

(* The validation wants a retry: either a new attempt is entered, every    *)
(* trace saying "retry", or the last one allowed has been used.            *)
LEMMA ValidationAsksRetryInductive ==
  ASSUME Inductive, NEW warned \in ValidationWarnings, ValidationAsksRetry(warned)
  PROVE  Inductive'
<1> USE RetryLimitAssumption, ContractSets
<1>1. /\ AttemptFinished(extractedItems, "retry")
      /\ "ai_failed" \notin attempts'[Len(attempts')].warnings
  BY JudgedAttempt DEF ValidationAsksRetry
<1>2. /\ pc = "validate"
      /\ finalItems = extractedItems
      /\ attemptNumber \in Nat
      /\ attemptNumber <= 1 + RetryLimit
  BY DEF Inductive, TypeOK, LoopInvariant, ValidationAsksRetry
<1>3. /\ \/ pc' = "extract" /\ attemptNumber + 1 <= 1 + RetryLimit /\ extractedItems' = << >>
         \/ pc' = "assemble" /\ attemptNumber = 1 + RetryLimit /\ extractedItems' = extractedItems
      /\ attemptNumber' = attemptNumber + 1
      /\ finalRecommendation' = "retry"
      /\ finalItems' = finalItems
      /\ batch' = batch
  BY <1>2 DEF ValidationAsksRetry, maxAttempts
<1>4. TypeOK'
  <2>1. extractedItems \in Seq(Items) /\ << >> \in Seq(Items) /\ finalItems \in Seq(Items)
    BY DEF Inductive, TypeOK
  <2>2. extractedItems' \in Seq(Items) /\ pc' \in Stages
    BY <1>3, <2>1 DEF Stages
  <2> QED
    BY <1>1, <1>2, <1>3, <2>1, <2>2 DEF TypeOK, AttemptFinished
<1>5. OnlyRetryIsRetried'
  BY <1>1, <1>2, <1>3 DEF OnlyRetryIsRetried, AttemptFinished
<1>6. PublishesWhatWasJudged' /\ LoopInvariant'
  BY <1>1, <1>2, <1>3 DEF Inductive, PublishesWhatWasJudged, LoopInvariant, AttemptFinished
<1> QED
  BY <1>4, <1>5, <1>6 DEF Inductive

(* The validation throws: the items are kept for a human.                  *)
LEMMA ValidateThrowsInductive == Inductive /\ ValidateThrows => Inductive'
<1> SUFFICES ASSUME Inductive, ValidateThrows PROVE Inductive'
  OBVIOUS
<1> USE RetryLimitAssumption, ContractSets
<1>1. /\ extractedItems \in Seq(Items)
      /\ "manual_review" \in Contract!Recommendations
      /\ pc \in {"extract", "validate"}
      /\ attempts' = Append(attempts,
           AttemptTrace(extractedItems,
             [recommendation |-> "manual_review", warnings |-> {"ai_failed"}]))
  BY DEF ValidateThrows, FailedBatchValidation, Inductive, TypeOK
<1>2. AttemptFinished(extractedItems, "manual_review")
  BY <1>1, FinishedAttempt
<1>3. TypeOK'
  BY <1>2 DEF Inductive, TypeOK, Stages, ValidateThrows, FailedBatchValidation, AttemptFinished
<1>4. OnlyRetryIsRetried'
  BY <1>2 DEF Inductive, OnlyRetryIsRetried, ValidateThrows, AttemptFinished
<1>5. PublishesWhatWasJudged' /\ LoopInvariant'
  BY <1>2 DEF Inductive, PublishesWhatWasJudged, LoopInvariant, ValidateThrows,
              FailedBatchValidation, AttemptFinished
<1> QED
  BY <1>3, <1>4, <1>5 DEF Inductive

(* Assembling the record changes none of what it is made from.             *)
LEMMA AssembleInductive == Inductive /\ Assemble => Inductive'
<1> SUFFICES ASSUME Inductive, Assemble PROVE Inductive'
  OBVIOUS
<1>1. /\ pc = "assemble"
      /\ pc' = "returned"
      /\ batch' # {}
      /\ UNCHANGED locals
  BY DEF Assemble
<1> USE <1>1 DEF Inductive, locals
<1>2. TypeOK'
  BY DEF TypeOK, Stages
<1>3. OnlyRetryIsRetried'
  BY DEF OnlyRetryIsRetried
<1>4. PublishesWhatWasJudged' /\ LoopInvariant'
  BY DEF PublishesWhatWasJudged, LoopInvariant
<1> QED
  BY <1>2, <1>3, <1>4

(* Every step, stuttering included, preserves the invariant.               *)
LEMMA NextInductive == Inductive /\ [Next]_vars => Inductive'
<1> SUFFICES ASSUME Inductive, [Next]_vars PROVE Inductive'
  OBVIOUS
<1>1. CASE Begin
  BY <1>1, BeginInductive
<1>2. CASE Extract
  BY <1>2, ExtractReturnsInductive, ExtractThrowsInductive DEF Extract
<1>3. CASE Validate
  BY <1>3, ValidationSettlesInductive, ValidationAsksRetryInductive,
     ValidateThrowsInductive DEF Validate
<1>4. CASE Assemble
  BY <1>4, AssembleInductive
<1>5. CASE UNCHANGED vars
  BY <1>5 DEF Inductive, TypeOK, OnlyRetryIsRetried, PublishesWhatWasJudged,
              LoopInvariant, vars
<1> QED
  BY <1>1, <1>2, <1>3, <1>4, <1>5 DEF Next

(* The invariant holds in every reachable state.                           *)
LEMMA AlwaysInductive == Spec => []Inductive
<1>1. Init => Inductive
  BY InitInductive
<1>2. Inductive /\ [Next]_vars => Inductive'
  BY NextInductive
<1> QED
  BY <1>1, <1>2, PTL DEF Spec

(* The locals and the traces of processBatch always have their types.      *)
THEOREM TypesHold == Spec => []TypeOK
<1>1. Inductive => TypeOK
  BY DEF Inductive
<1> QED
  BY <1>1, AlwaysInductive, PTL

(* No attempt follows anything but a "retry", and there are at most        *)
(* 1 + batch_retry_limit of them, whatever the limit.                      *)
THEOREM RetriesAreAsked == Spec => []OnlyRetryIsRetried
<1>1. Inductive => OnlyRetryIsRetried
  BY DEF Inductive
<1> QED
  BY <1>1, AlwaysInductive, PTL

(* The published items are those of the attempt whose judgement is         *)
(* published with them, whatever was extracted by earlier attempts.        *)
THEOREM OutputWasJudged == Spec => []PublishesWhatWasJudged
<1>1. Inductive => PublishesWhatWasJudged
  BY DEF Inductive
<1> QED
  BY <1>1, AlwaysInductive, PTL

(* The record Assemble builds is one the contract promises.                *)
LEMMA AssembleSettles == Inductive /\ Assemble => Contract!Settle
<1> SUFFICES ASSUME Inductive, Assemble PROVE Contract!Settle
  OBVIOUS
<1> USE RetryLimitAssumption, ContractSets
<1> DEFINE b == [output_json          |-> finalItems,
                 recommendation       |-> finalRecommendation,
                 extraction_status    |-> extractionStatus(finalRecommendation, finalItems),
                 validation_status    |-> mapRecommendationToStatus(finalRecommendation),
                 retry_count          |-> retryCount,
                 extracted_item_count |-> Len(finalItems),
                 validated_item_count |-> Len(acceptedItems),
                 warnings             |-> batchWarnings]
<1>1. /\ pc = "assemble"
      /\ pc' = "returned"
      /\ batch = {}
      /\ batch' = {b}
  BY DEF Assemble, Inductive, LoopInvariant
<1>2. /\ attempts \in Seq(AttemptTraces)
      /\ Len(attempts) \in 1..(1 + RetryLimit)
      /\ finalRecommendation = attempts[Len(attempts)].validation_recommendation
  BY <1>1 DEF Inductive, TypeOK, OnlyRetryIsRetried, PublishesWhatWasJudged
<1>3. finalRecommendation \in Contract!Recommendations
  <2>1. attempts[Len(attempts)] \in AttemptTraces
    BY <1>2
  <2> QED
    BY <1>2, <2>1 DEF AttemptTraces
<1>4. finalItems \in Outputs \cup {<< >>} /\ Len(finalItems) \in Nat
      /\ (finalItems = << >> <=> Len(finalItems) = 0)
  BY DEF Inductive, LoopInvariant, TypeOK
<1>5. /\ retryCount \in 0..RetryLimit
      /\ finalRecommendation = "retry" => retryCount = RetryLimit
  BY <1>1, <1>2 DEF retryCount, Inductive, LoopInvariant
<1>6. \A w : w \in batchWarnings <=>
        \/ \E i \in 1..Len(attempts) : w \in attempts[i].warnings
        \/ /\ finalRecommendation = "retry" /\ retryCount >= RetryLimit
           /\ w = "retry_limit_exhausted"
  <2>1. \A w : w \in attemptWarnings
                <=> \E i \in 1..Len(attempts) : w \in attempts[i].warnings
    BY Zenon DEF attemptWarnings
  <2> QED
    BY <2>1 DEF batchWarnings
<1>7. \A i \in 1..Len(attempts) : attempts[i].warnings \subseteq Contract!Warnings
  <2>1. \A i \in 1..Len(attempts) : attempts[i] \in AttemptTraces
    BY <1>2
  <2> QED
    BY <2>1 DEF AttemptTraces
<1>8. /\ batchWarnings \subseteq Contract!Warnings
      /\ finalRecommendation = "retry" => "retry_limit_exhausted" \in batchWarnings
      /\ finalRecommendation # "retry" => "retry_limit_exhausted" \notin batchWarnings
  <2>1. "retry_limit_exhausted" \in Contract!Warnings
    OBVIOUS
  <2>2. batchWarnings \subseteq Contract!Warnings
    <3> SUFFICES ASSUME NEW w \in batchWarnings PROVE w \in Contract!Warnings
      OBVIOUS
    <3> HIDE ContractSets
    <3> QED
      BY <1>6, <1>7, <2>1
  <2>3. \A i \in 1..Len(attempts) : "retry_limit_exhausted" \notin attempts[i].warnings
    BY DEF Inductive, LoopInvariant
  <2> QED
    BY <1>5, <1>6, <2>2, <2>3
<1>9. "ai_failed" \in batchWarnings => finalRecommendation = "manual_review"
  <2> SUFFICES ASSUME "ai_failed" \in batchWarnings
      PROVE finalRecommendation = "manual_review"
    OBVIOUS
  <2>1. PICK i \in 1..Len(attempts) : "ai_failed" \in attempts[i].warnings
    BY <1>6
  <2>2. attempts[i].validation_recommendation = "manual_review"
    BY <2>1 DEF Inductive, LoopInvariant
  <2>3. i = Len(attempts)
    BY <1>2, <2>2 DEF Inductive, OnlyRetryIsRetried
  <2> QED
    BY <1>2, <2>2, <2>3
<1>10. Len(acceptedItems) =
         IF finalRecommendation \in Contract!Accepting THEN Len(finalItems) ELSE 0
  BY DEF acceptedItems
<1>11. Contract!Promised(b)
  <2>1. /\ extractionStatus(finalRecommendation, finalItems) = "failed"
             <=> finalRecommendation = "manual_review" /\ finalItems = << >>
        /\ extractionStatus(finalRecommendation, finalItems) = "completed"
             <=> finalItems # << >>
    BY <1>4 DEF extractionStatus
  <2>2. /\ mapRecommendationToStatus(finalRecommendation) \in Contract!ValidationStatuses
        /\ mapRecommendationToStatus(finalRecommendation) = "manual_review"
             <=> finalRecommendation = "manual_review"
        /\ mapRecommendationToStatus(finalRecommendation) = "retry"
             <=> finalRecommendation = "retry"
    BY <1>3 DEF mapRecommendationToStatus, Contract!ValidationStatuses
  <2> QED
    BY <1>3, <1>4, <1>5, <1>8, <1>9, <1>10, <2>1, <2>2 DEF Contract!Promised
<1> HIDE DEF b
<1> QED
  BY <1>1, <1>11 DEF Contract!Settle

(* Every step of the loop is a step of the contract or leaves the caller's *)
(* view alone.                                                             *)
LEMMA StepsKeepContract ==
  Inductive /\ [Next]_vars => [Contract!Next]_(Contract!vars)
<1> SUFFICES ASSUME Inductive, [Next]_vars PROVE [Contract!Next]_(Contract!vars)
  OBVIOUS
<1> USE DEF Contract!vars
<1>1. CASE Begin
  BY <1>1 DEF Begin, Contract!Next, Contract!Call, Inductive, LoopInvariant
<1>2. CASE Extract
  BY <1>2 DEF Extract, ExtractReturns, ExtractThrows
<1>3. CASE Validate
  BY <1>3 DEF Validate, ValidationSettles, ValidationAsksRetry, ValidateThrows
<1>4. CASE Assemble
  BY <1>4, AssembleSettles DEF Contract!Next
<1>5. CASE UNCHANGED vars
  BY <1>5 DEF vars
<1> QED
  BY <1>1, <1>2, <1>3, <1>4, <1>5 DEF Next

(* processBatch implements what its callers rely on: the record it returns *)
(* is one the contract promises, and it is returned once.                  *)
THEOREM ProcessorKeepsContract == Spec => KeepsContract
<1>1. Init => Contract!Init
  BY DEF Init, Contract!Init
<1>2. Inductive /\ [Next]_vars => [Contract!Next]_(Contract!vars)
  BY StepsKeepContract
<1> QED
  BY <1>1, <1>2, AlwaysInductive, PTL DEF Spec, KeepsContract, Contract!SafeSpec
==============================================================================
