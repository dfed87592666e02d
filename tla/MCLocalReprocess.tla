--------------------------- MODULE MCLocalReprocess ---------------------------
(***************************************************************************)
(* An instance of LocalReprocess for TLC: two requests on a document of    *)
(* four fragments, the last of which repeats the item of the first.  With  *)
(* a batch size of two they are two batches; grouped for Gemini they are   *)
(* three, because the first is long.                                       *)
(***************************************************************************)
EXTENDS LocalReprocess

Fragment(i, chars) ==
  [segment_id |-> i, segment_index |-> i - 1,
   lines |-> <<[at |-> <<i, 1>>, kind |-> "start", chars |-> chars]>>]

MCCandidateSegments ==
  <<Fragment(1, 600), Fragment(2, 200), Fragment(3, 200), Fragment(4, 200)>>

\* The labels read in the fragments: the third is an S, for a 5.
LabelOf == <<Plain(1), Plain(4), [form |-> "ocr", value |-> 5], Plain(1)>>

\* The item of a fragment: the fourth repeats the first with more confidence.
ItemOf(segment) ==
  LET i == segment.segment_id
  IN  [uid |-> i, number |-> LabelOf[i], name |-> IF i = 4 THEN 1 ELSE i,
       confidence |-> i, warnings |-> {}]

Result(items, recommendation, retries, extraction, validation, warnings) ==
  [output_json |-> items, recommendation |-> recommendation, retry_count |-> retries,
   extraction_status |-> extraction, validation_status |-> validation,
   extracted_item_count |-> Len(items),
   validated_item_count |-> IF recommendation = "accept" THEN Len(items) ELSE 0,
   warnings |-> warnings]

\* Accepted at once; reviewed by hand; out of retries; provider failure.
MCResults(planned) ==
  LET items == normalizeSequentialItemNumbers(
                 [k \in 1..Len(planned.segments) |-> ItemOf(planned.segments[k])])
  IN  {Result(items, "accept", 0, "completed", "completed", {}),
       Result(items, "manual_review", 1, "completed", "manual_review", {}),
       Result(items, "retry", RetryLimit, "completed", "retry", {"retry_limit_exhausted"}),
       Result(<< >>, "manual_review", 0, "failed", "manual_review", {"ai_failed"})}
==============================================================================
