---------------------------- MODULE BatchContract ----------------------------
(***************************************************************************)
(* What a caller of BatchProcessor.processBatch may rely on, and nothing   *)
(* about how it is obtained: one call settles once, with one batch record  *)
(* whose fields agree with each other.  The document orchestrator and the  *)
(* selective reprocessing of the local service are written against it;     *)
(* BatchProcessor.tla implements it.                                       *)
(*                                                                         *)
(* A batch record keeps the fields of the Batch schema that the rest of    *)
(* the system branches on or reports.  Scores, timestamps, usage and the   *)
(* wording of warnings are abstracted: a warning is a tag, and those that  *)
(* came with an answer of a provider (of an extracted item, of a           *)
(* validation) are one tag.                                                *)
(***************************************************************************)
EXTENDS Naturals, Sequences

CONSTANTS
  RetryLimit,  (* processingOptions.batch_retry_limit                      *)
  Outputs      (* the item sequences an extraction can end up publishing   *)

VARIABLES
  called,      (* the call was made                                        *)
  outcome      (* the set of records it returned: {} until it settles      *)

Recommendations == {"accept", "accept_with_warning", "retry", "manual_review"}

\* The two recommendations whose items count as validated.
Accepting == {"accept", "accept_with_warning"}

ExtractionStatuses == {"completed", "completed_with_warnings", "failed"}

ValidationStatuses ==
  {"completed", "completed_with_warnings", "retry", "manual_review"}

\* Those the processor itself adds.
ProcessorWarnings == {"ai_failed", "retry_limit_exhausted"}

ProviderWarnings == {"provider_warnings"}

Warnings == ProcessorWarnings \cup ProviderWarnings

(***************************************************************************)
(* The records a caller may receive.  A batch that still asks for a retry  *)
(* has used every attempt it was allowed; only items of an accepted batch  *)
(* count as validated; "failed" means reviewed by hand with nothing to     *)
(* show; and a provider failure is never hidden behind an acceptance.      *)
(***************************************************************************)
Promised(b) ==
  /\ b.output_json \in Outputs \cup {<< >>}
  /\ b.recommendation \in Recommendations
  /\ b.retry_count \in 0..RetryLimit
  /\ b.validation_status \in ValidationStatuses
  /\ b.warnings \subseteq Warnings
  /\ b.recommendation = "retry" =>
       /\ b.retry_count = RetryLimit
       /\ "retry_limit_exhausted" \in b.warnings
  /\ b.recommendation # "retry" => "retry_limit_exhausted" \notin b.warnings
  /\ b.extracted_item_count = Len(b.output_json)
  /\ b.validated_item_count =
       IF b.recommendation \in Accepting THEN Len(b.output_json) ELSE 0
  /\ (b.validation_status = "manual_review") <=> (b.recommendation = "manual_review")
  /\ (b.validation_status = "retry") <=> (b.recommendation = "retry")
  /\ b.extraction_status = "failed" <=>
       b.recommendation = "manual_review" /\ b.output_json = << >>
  /\ b.extraction_status = "completed" <=> b.output_json # << >>
  /\ "ai_failed" \in b.warnings => b.recommendation = "manual_review"

Init ==
  /\ called = FALSE
  /\ outcome = {}

Call ==
  /\ ~called
  /\ called' = TRUE
  /\ UNCHANGED outcome

(* The one answer.                                                         *)
Settle ==
  /\ called
  /\ outcome = {}
  /\ \E b \in outcome' : outcome' = {b} /\ Promised(b)
  /\ UNCHANGED called

Next == Call \/ Settle

vars == <<called, outcome>>

SafeSpec == Init /\ [][Next]_vars

\* Every call settles: no provider can leave a batch, or its document, waiting.
EveryCallSettles == called ~> outcome # {}

Spec == SafeSpec /\ EveryCallSettles
==============================================================================
