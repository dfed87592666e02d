---------------------------- MODULE LocalReprocess ----------------------------
(***************************************************************************)
(* LocalProcessingService.reprocessBatch: requests to run one batch of a   *)
(* stored document again, perhaps with another provider.  A request reads  *)
(* the record, plans the batches anew, awaits processBatch for the one it  *)
(* names, awaits validateGlobal and writes the record it made of what it   *)
(* read; nothing locks the record in between, so requests interleave at    *)
(* the two awaits.  The store reads and writes a whole record at a time.   *)
(*                                                                         *)
(* The plan is a function of the stored segments and of the provider of    *)
(* the extraction, and the provider a request asks for stays in the record *)
(* for the requests after it.                                              *)
(***************************************************************************)
EXTENDS Consolidation, BatchPlanning

CONSTANTS
  Requests,      (* the reprocess requests                                  *)
  CandidateSegments,  (* candidates(...) of the stored source segments      *)
  BatchSize,     (* the stored processingOptions.batch_size                 *)
  RetryLimit,    (* the stored processingOptions.batch_retry_limit          *)
  FirstProvider, (* of the extraction, when the document was processed      *)
  Overrides,     (* the providers a request may ask for                     *)
  Results(_)     (* the records processBatch may return for a planned batch *)

NoOverride == "none"

AllProviders == {FirstProvider} \cup Overrides

\* The batches planned for the document with a provider.
plannedBatches(provider) == buildBatches(CandidateSegments, provider, BatchSize)

PlannedBatches == UNION {Range(plannedBatches(p)) : p \in AllProviders}

Contract == INSTANCE BatchContract
  WITH Outputs <- UNION {{b.output_json : b \in Results(p)} : p \in PlannedBatches},
       called <- TRUE, outcome <- {}

\* The items that extractions of the document may publish.
Items == UNION {UNION {Range(b.output_json) : b \in Results(p)} : p \in PlannedBatches}

ASSUME SegmentsAssumption ==
  CandidateSegments \in Seq(Range(CandidateSegments)) /\ BatchSize \in Int

ASSUME ResultsAssumption ==
  \A planned \in PlannedBatches : \A b \in Results(planned) :
    Contract!Promised(b) /\ b.output_json \in Seq(Items)

ASSUME ItemFieldsAssumption == \A item \in Items : IsItem(item)

VARIABLES
  store,     (* the record of the document                                 *)
  at,        (* where each request is: see Places                          *)
  ask,       (* the batch and the provider it asked for                    *)
  existing,  (* the set of records it read: {} before                      *)
  processed  (* the set of results of its batch: {} before                 *)

vars == <<store, at, ask, existing, processed>>

Places == {"new", "processing", "validating", "saved", "failed"}

\* A batch of the record: what was planned with what came of it.
BatchOf(planned, result) ==
  [batch_id |-> planned.batch_id, provider |-> planned.provider,
   segments |-> planned.segments,
   output_json |-> result.output_json, recommendation |-> result.recommendation,
   retry_count |-> result.retry_count, validation_status |-> result.validation_status]

computeProcessingStatus(globalRecommendation, batches, warnings) ==
  LET statuses == {batches[i].validation_status : i \in 1..Len(batches)}
  IN  IF globalRecommendation = "manual_review" \/ "manual_review" \in statuses
      THEN "manual_review"
      ELSE IF \/ globalRecommendation \in {"retry", "accept_with_warning"}
              \/ statuses \cap {"retry", "completed_with_warnings"} # {}
              \/ warnings # {}
      THEN "completed_with_warnings"
      ELSE "completed"

SegmentIds(segments) == [k \in 1..Len(segments) |-> segments[k].segment_id]

\* The trace that a run of the document writes for a batch.
TraceOf(batch) ==
  [batch_id |-> batch.batch_id, source_segment_ids |-> SegmentIds(batch.segments),
   retry_count |-> batch.retry_count, final_recommendation |-> batch.recommendation]

\* The record made of batches and traces, with this table; its status and its
\* counters are computed.
RecordOf(provider, batches, traces, table, globalRecommendation) ==
  LET c == consolidate(batches)
  IN  [provider             |-> provider,
       batches              |-> batches,
       batch_traces         |-> traces,
       items                |-> table,
       processing_status    |-> computeProcessingStatus(globalRecommendation, batches, c.warnings),
       accepted_batch_count |-> c.accepted,
       retried_batch_count  |-> Cardinality({n \in 1..Len(traces) : traces[n].retry_count > 0})]

\* The record DocumentRun leaves behind for these batches, the numbers of its
\* table repaired across batches.
FirstRecord(batches) ==
  RecordOf(FirstProvider, batches, [n \in 1..Len(batches) |-> TraceOf(batches[n])],
           normalizeSequentialItemNumbers(consolidate(batches).items), "accept")

\* Variant with a fault: a batch the record does not have is added to it.
updatedBatchesUpsert(record, batch) ==
  LET others == Keeping(record.batches, {b \in Range(record.batches) : b.batch_id # batch.batch_id})
  IN  SubSeq(others, 1, batch.batch_id - 1) \o <<batch>>
      \o SubSeq(others, batch.batch_id, Len(others))

\* The batches of the record with the processed one in its place, if it has one.
updatedBatches(record, batch) ==
  [n \in 1..Len(record.batches) |->
    IF record.batches[n].batch_id = batch.batch_id THEN batch ELSE record.batches[n]]

\* Variant with a fault: the trace of the batch is left as it was.
updatedTracesStale(record, batch) == record.batch_traces

\* What the trace of a batch said of an earlier result is overwritten; the ids
\* of its segments are carried over from the run of the document.
Overwritten(trace, batch) ==
  [batch_id |-> trace.batch_id, source_segment_ids |-> trace.source_segment_ids,
   retry_count |-> batch.retry_count, final_recommendation |-> batch.recommendation]

updatedTraces(record, batch) ==
  [n \in 1..Len(record.batch_traces) |->
    IF record.batch_traces[n].batch_id = batch.batch_id
    THEN Overwritten(record.batch_traces[n], batch) ELSE record.batch_traces[n]]

\* What a request writes, made from the record it read: the table as it is
\* consolidated, without a repair of its numbers.
updatedRecord(record, batch, globalRecommendation) ==
  LET batches == updatedBatches(record, batch)
  IN  RecordOf(batch.provider, batches, updatedTraces(record, batch),
               consolidate(batches).items, globalRecommendation)

------------------------------------------------------------------------------
\* LocalRunStore: one row for a document, with its record in columns of JSON
\* text; a save replaces every column but the time of creation.
Got == store

SaveRecord(record) == store' = record

Init ==
  /\ LET planned == plannedBatches(FirstProvider)
     IN  store \in {FirstRecord([n \in 1..Len(planned) |-> BatchOf(planned[n], results[n])]) :
                      results \in {f \in [1..Len(planned) -> UNION {Results(p) : p \in PlannedBatches}] :
                                     \A n \in 1..Len(planned) : f[n] \in Results(planned[n])}}
  /\ at = [r \in Requests |-> "new"]
  /\ ask = [r \in Requests |-> {}]
  /\ existing = [r \in Requests |-> {}]
  /\ processed = [r \in Requests |-> {}]

\* Variant with a fault: the default batch size instead of the document's own.
replannedBatchesDefaultSize(record, override) ==
  buildBatches(CandidateSegments, record.provider, 10)

\* The batches planned anew for a request on this record: the provider it asks
\* for decides how they are grouped.
replannedBatches(record, override) ==
  plannedBatches(IF override = NoOverride THEN record.provider ELSE override)

\* Variant with a fault: a batch that the plan does not have is not noticed.
ReadUnchecked(r, batchId, override) ==
  /\ at[r] = "new"
  /\ at' = [at EXCEPT ![r] = "processing"]
  /\ ask' = [ask EXCEPT ![r] = {b \in Range(replannedBatches(Got, override)) : b.batch_id = batchId}]
  /\ existing' = [existing EXCEPT ![r] = IF ask'[r] = {} THEN {} ELSE {Got}]
  /\ UNCHANGED <<store, processed>>

(* The request reads the record and plans; a batch that the plan does not  *)
(* have is an error.                                                       *)
Read(r, batchId, override) ==
  LET found == {b \in Range(replannedBatches(Got, override)) : b.batch_id = batchId}
  IN  /\ at[r] = "new"
      /\ at' = [at EXCEPT ![r] = IF found = {} THEN "failed" ELSE "processing"]
      /\ ask' = [ask EXCEPT ![r] = found]
      /\ existing' = [existing EXCEPT ![r] = IF found = {} THEN {} ELSE {Got}]
      /\ UNCHANGED <<store, processed>>

(* processBatch, which never rejects, returns.                             *)
Processed(r) ==
  /\ at[r] = "processing"
  /\ at' = [at EXCEPT ![r] = "validating"]
  /\ \E planned \in ask[r] : \E result \in Results(planned) :
       processed' = [processed EXCEPT ![r] = {BatchOf(planned, result)}]
  /\ UNCHANGED <<store, ask, existing>>

\* The locals of a request are gone when it answers.
Forget(r) ==
  /\ ask' = [ask EXCEPT ![r] = {}]
  /\ existing' = [existing EXCEPT ![r] = {}]
  /\ processed' = [processed EXCEPT ![r] = {}]

(* validateGlobal resolves: the record made from what was read is written. *)
Save(r, globalRecommendation) ==
  /\ at[r] = "validating"
  /\ at' = [at EXCEPT ![r] = "saved"]
  /\ \E record \in existing[r], batch \in processed[r] :
       SaveRecord(updatedRecord(record, batch, globalRecommendation))
  /\ Forget(r)

(* validateGlobal rejects: nobody catches it, nothing is written.          *)
GlobalThrows(r) ==
  /\ at[r] = "validating"
  /\ at' = [at EXCEPT ![r] = "failed"]
  /\ UNCHANGED store
  /\ Forget(r)

Next ==
  \E r \in Requests :
    \/ \E batchId \in {b.batch_id : b \in PlannedBatches}, o \in Overrides \cup {NoOverride} :
         Read(r, batchId, o)
    \/ Processed(r)
    \/ \E rec \in Contract!Recommendations : Save(r, rec)
    \/ GlobalThrows(r)

Spec == Init /\ [][Next]_vars
------------------------------------------------------------------------------
SegmentsOf(batches) == FlattenSeq([n \in 1..Len(batches) |-> batches[n].segments])

(* The types of the service's state.                                       *)
TypeOK ==
  /\ at \in [Requests -> Places]
  /\ store.provider \in AllProviders
  /\ \A r \in Requests :
       /\ ask[r] \subseteq PlannedBatches
       /\ Cardinality(existing[r]) <= 1 /\ Cardinality(processed[r]) <= 1
       /\ existing[r] # {} <=> at[r] \in {"processing", "validating"}

(* However the requests interleave, the record stored is one picture: the  *)
(* table is that of the batches stored with it, their numbers apart, each  *)
(* item at its best and those of batches that ran out of retries missing,  *)
(* and then the status says so; and the audit trace tells the retries and  *)
(* the recommendation of the same batches, with the counter of the run's   *)
(* metrics.  It names the segments that the items of a batch were read     *)
(* from only while the batch is grouped as in the run of the document:     *)
(* after a provider that groups otherwise the old names stay.              *)
TableFollowsBatches ==
  LET recommendations == {store.batches[n].recommendation : n \in 1..Len(store.batches)}
  IN  /\ Unnumbered(store.items) = Unnumbered(ReferenceTable(itemsForReviewTable(store.batches)))
      /\ "manual_review" \in recommendations => store.processing_status = "manual_review"
      /\ "retry" \in recommendations => store.processing_status # "completed"

TraceFollowsBatches ==
  LET retried == {n \in 1..Len(store.batches) : store.batches[n].retry_count > 0}
  IN  /\ Len(store.batch_traces) = Len(store.batches)
      /\ \A n \in 1..Len(store.batches) :
           LET trace == store.batch_traces[n]
               batch == store.batches[n]
           IN  /\ trace.batch_id = batch.batch_id
               /\ trace.retry_count = batch.retry_count
               /\ trace.final_recommendation = batch.recommendation
               /\ (batch.provider = "gemini" <=> FirstProvider = "gemini") =>
                    trace.source_segment_ids = SegmentIds(batch.segments)
      /\ store.retried_batch_count = Cardinality(retried)

RecordFollowsBatches == TableFollowsBatches /\ TraceFollowsBatches

(* A request whose record nobody wrote meanwhile is selective: no batch    *)
(* but the one it names changes, and none appears or disappears.           *)
AloneIsSelective ==
  [][\A r \in Requests :
       at'[r] = "saved" /\ existing[r] = {store} =>
         /\ Len(store'.batches) = Len(store.batches)
         /\ \A n \in 1..Len(store.batches) :
              \/ store'.batches[n] = store.batches[n]
              \/ \E planned \in ask[r] :
                   n = planned.batch_id /\ store'.batches[n] \in processed[r]]_vars

(* As long as all batches are grouped one way (Gemini's or the others'),   *)
(* any sequence of requests leaves every candidate segment in exactly one  *)
(* batch: the re-planning meets the boundaries of the first plan.          *)
OneGroupingKeepsEvidence ==
  (\A n \in 1..Len(store.batches) :
      store.batches[n].provider = "gemini" <=> FirstProvider = "gemini")
    => SegmentsOf(store.batches) = CandidateSegments

(* Selective reprocessing: a save changes no batch that its request did    *)
(* not name.                                                               *)
SavesAreSelective ==
  [][\A r \in Requests : at'[r] = "saved" /\ at[r] # "saved" =>
       \A n \in 1..Len(store.batches) :
         n \in {planned.batch_id : planned \in ask[r]} \/ store'.batches[n] = store.batches[n]]_vars
==============================================================================
