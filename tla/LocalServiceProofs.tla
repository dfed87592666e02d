------------------------- MODULE LocalServiceProofs -------------------------
(***************************************************************************)
(* The two services of the local web application that keep a JSON file and *)
(* interleave at the await of a provider.                                  *)
(*                                                                         *)
(* What reprocessing promises of the stored record, for any number of      *)
(* requests, any document, any providers and any results of processBatch   *)
(* that keep its contract.  The inductive invariant (Inductive) says of    *)
(* every record what the properties say of the one stored: the records     *)
(* that requests hold were the stored one once, and one of them is written *)
(* back, changed in a single batch.                                        *)
(*                                                                         *)
(* What the market analysis promises of the file of runs, for any uploads, *)
(* any file of an earlier version and any limits.  Its inductive invariant *)
(* (MarketInductive) says of the file that it is one the code can number   *)
(* (IsFile); that, once codes were shown, it is numbered and its next code *)
(* is above all of these (Agrees); and that the runs of uploads in it are  *)
(* those of uploads that are done, traceable, in a file of MaxRuns at most *)
(* (Sound).                                                                *)
(***************************************************************************)
EXTENDS LocalReprocess, MarketAnalysis, OperatorLemmas

Segments == Range(CandidateSegments)

GroupsOf(provider) == segmentGroups(CandidateSegments, provider, BatchSize)

\* The batches a record may hold: something planned, with what came of it.
StoredBatches == UNION {{BatchOf(planned, result) : result \in Results(planned)} : planned \in PlannedBatches}

\* The trace of the n-th batch after any number of requests: what it says is of
\* the batch, the segments it names are those of the first plan.
RecordedTrace(n, batch) ==
  [batch_id |-> batch.batch_id, source_segment_ids |-> SegmentIds(GroupsOf(FirstProvider)[n]),
   retry_count |-> batch.retry_count, final_recommendation |-> batch.recommendation]

TracesOf(batches) == [n \in 1..Len(batches) |-> RecordedTrace(n, batches[n])]

\* What is known of every record that was ever stored.
Whole(record) ==
  /\ record.provider \in AllProviders
  /\ record.batches \in Seq(StoredBatches)
  /\ Len(record.batches) = Len(GroupsOf(FirstProvider))
  /\ \A n \in 1..Len(record.batches) : record.batches[n].batch_id = n
  /\ record.batch_traces = TracesOf(record.batches)
  /\ record.retried_batch_count =
       Cardinality({n \in 1..Len(record.batches) : record.batches[n].retry_count > 0})
  /\ Unnumbered(record.items) = Unnumbered(ReferenceTable(itemsForReviewTable(record.batches)))
  /\ \A n \in 1..Len(record.batches) :
       /\ record.batches[n].recommendation = "manual_review" =>
            record.processing_status = "manual_review"
       /\ record.batches[n].recommendation = "retry" =>
            record.processing_status # "completed"

\* A request holds at most a record that was stored and a result of its batch.
InRequest(r) ==
  /\ at[r] \in Places
  /\ ask[r] \subseteq PlannedBatches
  /\ existing[r] = {} \/ \E record \in existing[r] : existing[r] = {record} /\ Whole(record)
  /\ \/ processed[r] = {}
     \/ \E planned \in ask[r] : \E result \in Results(planned) :
          processed[r] = {BatchOf(planned, result)}
  /\ existing[r] # {} <=> at[r] \in {"processing", "validating"}
  /\ processed[r] # {} => at[r] = "validating"

Inductive ==
  /\ Whole(store)
  /\ DOMAIN at = Requests /\ at = [r \in Requests |-> at[r]]
  /\ DOMAIN ask = Requests /\ DOMAIN existing = Requests /\ DOMAIN processed = Requests
  /\ \A r \in Requests : InRequest(r)

------------------------------------------------------------------------------
(* The plans.                                                              *)

(* Whoever the provider, its batches are numbered through and hold every   *)
(* candidate segment once and in order.                                    *)
LEMMA PlanIsComplete ==
  ASSUME NEW provider
  PROVE  /\ GroupsOf(provider) \in Seq(Seq(Segments))
         /\ FlattenSeq(GroupsOf(provider)) = CandidateSegments
         /\ plannedBatches(provider) =
              [n \in 1..Len(GroupsOf(provider)) |->
                [batch_id |-> n, provider |-> provider, segments |-> GroupsOf(provider)[n]]]
<1>1. CandidateSegments \in Seq(Segments) /\ BatchSize \in Int
  BY SegmentsAssumption DEF Segments
<1>2. GroupsOf(provider) \in Seq(Seq(Segments)) /\ FlattenSeq(GroupsOf(provider)) = CandidateSegments
  BY <1>1, GroupingIsComplete DEF GroupsOf
<1> QED
  BY <1>2 DEF plannedBatches, buildBatches, GroupsOf

(* What is planned is a group of some provider, under its number.          *)
LEMMA PlannedIsGroup ==
  ASSUME NEW planned \in PlannedBatches
  PROVE  /\ planned.provider \in AllProviders
         /\ planned.batch_id \in 1..Len(GroupsOf(planned.provider))
         /\ planned.segments = GroupsOf(planned.provider)[planned.batch_id]
<1>1. PICK p \in AllProviders : planned \in Range(plannedBatches(p))
  BY DEF PlannedBatches
<1>2. PICK n \in 1..Len(GroupsOf(p)) :
        planned = [batch_id |-> n, provider |-> p, segments |-> GroupsOf(p)[n]]
  BY <1>1, PlanIsComplete DEF Range
<1> QED
  BY <1>2

(* All providers but Gemini group alike.                                   *)
LEMMA GroupsAlike ==
  ASSUME NEW p, NEW q, p = "gemini" <=> q = "gemini"
  PROVE  GroupsOf(p) = GroupsOf(q)
BY DEF GroupsOf, segmentGroups, resolveEffectiveBatchSize

(* A batch of a record is what was planned with what came of it.           *)
LEMMA BatchFields ==
  ASSUME NEW b \in StoredBatches
  PROVE  /\ b.provider \in AllProviders
         /\ b.segments = GroupsOf(b.provider)[b.batch_id]
         /\ b.output_json \in Seq(Items)
         /\ b.validation_status = "manual_review" <=> b.recommendation = "manual_review"
         /\ b.validation_status = "retry" <=> b.recommendation = "retry"
<1>1. PICK planned \in PlannedBatches : \E result \in Results(planned) : b = BatchOf(planned, result)
  BY DEF StoredBatches
<1>2. PICK result \in Results(planned) : b = BatchOf(planned, result)
  BY <1>1
<1>3. Contract!Promised(result) /\ result.output_json \in Seq(Items)
  BY ResultsAssumption
<1>4. /\ b.provider = planned.provider /\ b.batch_id = planned.batch_id
      /\ b.segments = planned.segments /\ b.output_json = result.output_json
      /\ b.validation_status = result.validation_status /\ b.recommendation = result.recommendation
  BY <1>2 DEF BatchOf
<1>5. /\ result.validation_status = "manual_review" <=> result.recommendation = "manual_review"
      /\ result.validation_status = "retry" <=> result.recommendation = "retry"
  BY <1>3 DEF Contract!Promised
<1> QED
  BY <1>3, <1>4, <1>5, PlannedIsGroup

(* Batches of one grouping hold the candidate segments.                    *)
LEMMA OneGroupingIsComplete ==
  ASSUME NEW record, Whole(record),
         \A n \in 1..Len(record.batches) :
           record.batches[n].provider = "gemini" <=> FirstProvider = "gemini"
  PROVE  SegmentsOf(record.batches) = CandidateSegments
<1> DEFINE b == record.batches
           G == GroupsOf(FirstProvider)
<1>1. b \in Seq(StoredBatches) /\ Len(b) = Len(G) /\ G \in Seq(Seq(Segments))
  BY PlanIsComplete DEF Whole
<1>2. ASSUME NEW n \in 1..Len(b) PROVE b[n].segments = G[n]
  <2>1. b[n] \in StoredBatches /\ b[n].batch_id = n
    BY <1>1 DEF Whole
  <2>2. b[n].segments = GroupsOf(b[n].provider)[n]
    BY <2>1, BatchFields
  <2>3. GroupsOf(b[n].provider) = G
    BY GroupsAlike
  <2> QED
    BY <2>2, <2>3
<1> HIDE DEF b, G
<1>3. [n \in 1..Len(b) |-> b[n].segments] = G
  <2>1. [n \in 1..Len(b) |-> b[n].segments] = [n \in 1..Len(G) |-> G[n]]
    BY <1>1, <1>2
  <2> QED
    BY <2>1, <1>1
<1> QED
  BY <1>3, PlanIsComplete DEF SegmentsOf, b, G

------------------------------------------------------------------------------
(* The records.                                                            *)

(* The table is that of its batches, with or without a repair of numbers.  *)
LEMMA TableOfBatches ==
  ASSUME NEW batches \in Seq(StoredBatches)
  PROVE  LET items == consolidate(batches).items
             table == Unnumbered(ReferenceTable(itemsForReviewTable(batches)))
         IN  Unnumbered(items) = table /\ Unnumbered(normalizeSequentialItemNumbers(items)) = table
<1>1. Itemised(Items) /\ Published(Items, StoredBatches)
  BY ItemFieldsAssumption, BatchFields DEF Itemised, Published
<1>2. /\ consolidate(batches).items \in Seq(Reviewable(Items))
      /\ consolidate(batches).items = ReferenceTable(itemsForReviewTable(batches))
  BY <1>1, ConsolidateIsReference
<1>3. Itemised(Reviewable(Items))
  BY <1>1, ReviewableType
<1>4. Unnumbered(normalizeSequentialItemNumbers(consolidate(batches).items))
        = Unnumbered(consolidate(batches).items)
  BY <1>2, <1>3, RepairOnlyNumbers
<1> QED
  BY <1>2, <1>4

(* A record made of batches, of their traces and of their table is whole.  *)
LEMMA RecordIsWhole ==
  ASSUME NEW provider \in AllProviders, NEW batches \in Seq(StoredBatches),
         Len(batches) = Len(GroupsOf(FirstProvider)),
         \A n \in 1..Len(batches) : batches[n].batch_id = n,
         NEW traces, traces = TracesOf(batches),
         NEW table, Unnumbered(table) = Unnumbered(ReferenceTable(itemsForReviewTable(batches))),
         NEW recommendation
  PROVE  Whole(RecordOf(provider, batches, traces, table, recommendation))
<1> DEFINE record == RecordOf(provider, batches, traces, table, recommendation)
           warnings == consolidate(batches).warnings
           counted == {n \in 1..Len(batches) : batches[n].retry_count > 0}
<1>1. Len(batches) \in Nat /\ \A n \in 1..Len(batches) : batches[n] \in StoredBatches
  OBVIOUS
<1>2. /\ record.provider = provider /\ record.batches = batches /\ record.batch_traces = traces
      /\ record.items = table
      /\ record.processing_status = computeProcessingStatus(recommendation, batches, warnings)
      /\ record.retried_batch_count = Cardinality({n \in 1..Len(traces) : traces[n].retry_count > 0})
  BY DEF RecordOf
<1>3. {n \in 1..Len(traces) : traces[n].retry_count > 0} = counted
  <2>1. Len(traces) = Len(batches)
    BY <1>1 DEF TracesOf
  <2>2. \A n \in 1..Len(batches) : traces[n].retry_count = batches[n].retry_count
    BY DEF TracesOf, RecordedTrace
  <2> QED
    BY <2>1, <2>2
<1>4. ASSUME NEW n \in 1..Len(batches)
      PROVE  /\ batches[n].recommendation = "manual_review" => record.processing_status = "manual_review"
             /\ batches[n].recommendation = "retry" => record.processing_status # "completed"
  <2>1. /\ batches[n].validation_status = "manual_review" <=> batches[n].recommendation = "manual_review"
        /\ batches[n].validation_status = "retry" <=> batches[n].recommendation = "retry"
    BY <1>1, BatchFields
  <2>2. batches[n].validation_status \in {batches[i].validation_status : i \in 1..Len(batches)}
    OBVIOUS
  <2> HIDE DEF warnings, record
  <2> QED
    BY <1>2, <2>1, <2>2 DEF computeProcessingStatus
<1> HIDE DEF record
<1>5. record.retried_batch_count =
        Cardinality({n \in 1..Len(record.batches) : record.batches[n].retry_count > 0})
  BY <1>2, <1>3
<1>6. Unnumbered(record.items) = Unnumbered(ReferenceTable(itemsForReviewTable(record.batches)))
  BY <1>2
<1>7. record.batch_traces = TracesOf(record.batches)
  BY <1>2
<1>8. \A n \in 1..Len(record.batches) :
        /\ record.batches[n].recommendation = "manual_review" =>
             record.processing_status = "manual_review"
        /\ record.batches[n].recommendation = "retry" =>
             record.processing_status # "completed"
  BY <1>2, <1>4
<1>9. Whole(record)
  BY <1>2, <1>5, <1>6, <1>7, <1>8 DEF Whole
<1> QED
  BY <1>9 DEF record

(* The record a document begins with.                                      *)
LEMMA FirstIsWhole ==
  ASSUME NEW batches \in Seq(StoredBatches),
         Len(batches) = Len(GroupsOf(FirstProvider)),
         \A n \in 1..Len(batches) : batches[n].batch_id = n /\ batches[n].provider = FirstProvider
  PROVE  Whole(FirstRecord(batches))
<1> DEFINE traces == [n \in 1..Len(batches) |-> TraceOf(batches[n])]
           table == normalizeSequentialItemNumbers(consolidate(batches).items)
<1>1. Unnumbered(table) = Unnumbered(ReferenceTable(itemsForReviewTable(batches)))
  BY TableOfBatches
<1>2. FirstProvider \in AllProviders
  BY DEF AllProviders
<1>3. FirstRecord(batches) = RecordOf(FirstProvider, batches, traces, table, "accept")
  BY DEF FirstRecord
<1>4. traces = TracesOf(batches)
  <2>1. ASSUME NEW n \in 1..Len(batches) PROVE TraceOf(batches[n]) = RecordedTrace(n, batches[n])
    <3>1. batches[n] \in StoredBatches
      OBVIOUS
    <3>2. batches[n].segments = GroupsOf(FirstProvider)[n]
      BY <3>1, BatchFields
    <3> QED
      BY <3>2 DEF TraceOf, RecordedTrace
  <2> QED
    BY <2>1 DEF TracesOf
<1> HIDE DEF table, traces
<1> QED
  BY <1>1, <1>2, <1>3, <1>4, RecordIsWhole

(* A batch put into a record takes its place and no other, and the record  *)
(* that is made of it is whole.                                            *)
LEMMA UpdateIsWhole ==
  ASSUME NEW record, Whole(record), NEW batch \in StoredBatches, NEW recommendation
  PROVE  LET updated == updatedRecord(record, batch, recommendation)
         IN  /\ Whole(updated)
             /\ Len(updated.batches) = Len(record.batches)
             /\ \A n \in 1..Len(record.batches) :
                  updated.batches[n] = IF n = batch.batch_id THEN batch ELSE record.batches[n]
<1> DEFINE old == record.batches
           new == updatedBatches(record, batch)
           traces == updatedTraces(record, batch)
           table == consolidate(new).items
<1>1. /\ old \in Seq(StoredBatches) /\ Len(old) = Len(GroupsOf(FirstProvider))
      /\ \A n \in 1..Len(old) : old[n].batch_id = n /\ old[n] \in StoredBatches
      /\ record.batch_traces = TracesOf(old)
      /\ Len(old) \in Nat
  BY DEF Whole
<1>2. new = [n \in 1..Len(old) |-> IF old[n].batch_id = batch.batch_id THEN batch ELSE old[n]]
  BY DEF updatedBatches
<1> HIDE DEF old, new
<1>3. /\ new \in Seq(StoredBatches) /\ Len(new) = Len(old)
      /\ \A n \in 1..Len(old) : /\ new[n] = IF n = batch.batch_id THEN batch ELSE old[n]
                                /\ new[n].batch_id = n
  BY <1>1, <1>2
<1>4. traces = TracesOf(new)
  <2> DEFINE t == record.batch_traces
             Put(n) == IF t[n].batch_id = batch.batch_id THEN Overwritten(t[n], batch) ELSE t[n]
  <2>1. Len(t) = Len(old) /\ \A n \in 1..Len(old) : t[n] = RecordedTrace(n, old[n])
    BY <1>1 DEF TracesOf
  <2>2. traces = [n \in 1..Len(t) |-> Put(n)]
    BY DEF updatedTraces
  <2> HIDE DEF t, traces
  <2>3. ASSUME NEW n \in 1..Len(old) PROVE Put(n) = RecordedTrace(n, new[n])
    <3>1. t[n] = RecordedTrace(n, old[n]) /\ t[n].batch_id = n
      BY <2>1, <1>1 DEF RecordedTrace
    <3>2. CASE n = batch.batch_id
      <4>1. new[n] = batch /\ Put(n) = Overwritten(RecordedTrace(n, old[n]), batch)
        BY <3>1, <3>2, <1>3
      <4>2. Overwritten(RecordedTrace(n, old[n]), batch) = RecordedTrace(n, batch)
        BY <1>1, <3>2 DEF Overwritten, RecordedTrace
      <4> QED
        BY <4>1, <4>2
    <3>3. CASE n # batch.batch_id
      BY <3>1, <3>3, <1>3
    <3> QED
      BY <3>2, <3>3
  <2> QED
    BY <2>1, <2>2, <2>3, <1>3 DEF TracesOf
<1>5. Unnumbered(table) = Unnumbered(ReferenceTable(itemsForReviewTable(new)))
  BY <1>3, TableOfBatches
<1>6. batch.provider \in AllProviders
  BY BatchFields
<1>7. updatedRecord(record, batch, recommendation)
        = RecordOf(batch.provider, new, traces, table, recommendation)
  BY DEF updatedRecord, new
<1> HIDE DEF traces, table
<1>8. Whole(RecordOf(batch.provider, new, traces, table, recommendation))
  <2>1. Len(new) = Len(GroupsOf(FirstProvider)) /\ \A n \in 1..Len(new) : new[n].batch_id = n
    BY <1>1, <1>3
  <2> QED
    BY <2>1, <1>3, <1>4, <1>5, <1>6, RecordIsWhole
<1>9. RecordOf(batch.provider, new, traces, table, recommendation).batches = new
  BY DEF RecordOf
<1> QED
  BY <1>3, <1>7, <1>8, <1>9 DEF old

------------------------------------------------------------------------------
(* The requests.                                                           *)

(* A document begins with a result for every batch planned.                *)
LEMMA InitInductive == Init => Inductive
<1> SUFFICES ASSUME Init PROVE Inductive
  OBVIOUS
<1> DEFINE planned == plannedBatches(FirstProvider)
           count == Len(GroupsOf(FirstProvider))
<1>1. PICK results \in [1..Len(planned) -> UNION {Results(p) : p \in PlannedBatches}] :
        /\ \A n \in 1..Len(planned) : results[n] \in Results(planned[n])
        /\ store = FirstRecord([n \in 1..Len(planned) |-> BatchOf(planned[n], results[n])])
  BY DEF Init
<1> DEFINE batches == [n \in 1..Len(planned) |-> BatchOf(planned[n], results[n])]
<1>2. /\ count \in Nat /\ Len(planned) = count
      /\ \A n \in 1..count : planned[n].batch_id = n /\ planned[n].provider = FirstProvider
  BY PlanIsComplete
<1>3. ASSUME NEW n \in 1..count
      PROVE  /\ batches[n] \in StoredBatches
             /\ batches[n].batch_id = n /\ batches[n].provider = FirstProvider
  <2>1. planned[n] \in PlannedBatches
    <3>1. planned[n] \in Range(planned)
      BY <1>2, PlanIsComplete DEF Range
    <3>2. FirstProvider \in AllProviders
      BY DEF AllProviders
    <3> QED
      BY <3>1, <3>2 DEF PlannedBatches
  <2>2. batches[n] = BatchOf(planned[n], results[n]) /\ results[n] \in Results(planned[n])
    BY <1>1, <1>2
  <2> HIDE DEF batches, planned
  <2>3. batches[n] \in StoredBatches
    BY <2>1, <2>2 DEF StoredBatches
  <2>4. batches[n].batch_id = n /\ batches[n].provider = FirstProvider
    BY <2>2, <1>2 DEF BatchOf
  <2> QED
    BY <2>3, <2>4
<1>4. batches \in Seq(StoredBatches) /\ Len(batches) = count
  BY <1>2, <1>3
<1>5. Whole(store)
  <2> HIDE DEF batches, planned
  <2>1. Whole(FirstRecord(batches))
    BY <1>2, <1>3, <1>4, FirstIsWhole
  <2> QED
    BY <2>1, <1>1 DEF batches
<1>6. ASSUME NEW r \in Requests PROVE InRequest(r)
  BY DEF Init, InRequest, Places
<1> QED
  BY <1>5, <1>6 DEF Init, Inductive

\* The other requests are where they were.
Elsewhere(r) ==
  \A q \in Requests \ {r} :
    /\ at'[q] = at[q] /\ ask'[q] = ask[q]
    /\ existing'[q] = existing[q] /\ processed'[q] = processed[q]

(* One request at a time.                                                  *)
LEMMA OthersStay ==
  ASSUME Inductive, NEW r \in Requests, Elsewhere(r), InRequest(r)'
  PROVE  \A q \in Requests : InRequest(q)'
<1> SUFFICES ASSUME NEW q \in Requests PROVE InRequest(q)'
  OBVIOUS
<1>1. CASE q = r
  BY <1>1
<1>2. CASE q # r
  <2>1. /\ at'[q] = at[q] /\ ask'[q] = ask[q]
        /\ existing'[q] = existing[q] /\ processed'[q] = processed[q]
    BY <1>2 DEF Elsewhere
  <2>2. InRequest(q)
    BY DEF Inductive
  <2> QED
    BY <2>1, <2>2 DEF InRequest
<1> QED
  BY <1>1, <1>2

(* A read keeps a record that is whole, and batches that are planned.      *)
LEMMA ReadInductive ==
  ASSUME Inductive, NEW r \in Requests, NEW batchId, NEW o \in Overrides \cup {NoOverride},
         Read(r, batchId, o)
  PROVE  Inductive'
<1> DEFINE found == {b \in Range(replannedBatches(Got, o)) : b.batch_id = batchId}
<1>1. /\ at' = [at EXCEPT ![r] = IF found = {} THEN "failed" ELSE "processing"]
      /\ ask' = [ask EXCEPT ![r] = found]
      /\ existing' = [existing EXCEPT ![r] = IF found = {} THEN {} ELSE {store}]
      /\ store' = store /\ processed' = processed
      /\ at[r] = "new"
  BY DEF Read, Got
<1>2. found \subseteq PlannedBatches
  <2>1. \E p \in AllProviders : replannedBatches(Got, o) = plannedBatches(p)
    BY DEF replannedBatches, Got, Inductive, Whole, AllProviders, NoOverride
  <2> QED
    BY <2>1 DEF PlannedBatches
<1> HIDE DEF found
<1>3. /\ at'[r] = IF found = {} THEN "failed" ELSE "processing"
      /\ ask'[r] = found /\ existing'[r] = IF found = {} THEN {} ELSE {store}
      /\ processed'[r] = processed[r]
      /\ Elsewhere(r)
  BY <1>1 DEF Inductive, Elsewhere
<1>4. existing[r] = {} /\ processed[r] = {}
  BY <1>1 DEF Inductive, InRequest
<1>5. Whole(store)'
  BY <1>1 DEF Inductive
<1>6. InRequest(r)'
  BY <1>2, <1>3, <1>4, <1>5, <1>1 DEF InRequest, Places
<1>7. \A q \in Requests : InRequest(q)'
  BY <1>3, <1>6, OthersStay
<1> QED
  BY <1>1, <1>5, <1>7 DEF Inductive

(* processBatch returns a result of the batch that was asked for.          *)
LEMMA ProcessedInductive ==
  ASSUME Inductive, NEW r \in Requests, Processed(r)
  PROVE  Inductive'
<1>1. PICK planned \in ask[r] : \E result \in Results(planned) :
        processed' = [processed EXCEPT ![r] = {BatchOf(planned, result)}]
  BY DEF Processed
<1>2. PICK result \in Results(planned) :
        processed' = [processed EXCEPT ![r] = {BatchOf(planned, result)}]
  BY <1>1
<1>3. /\ at' = [at EXCEPT ![r] = "validating"] /\ at[r] = "processing"
      /\ store' = store /\ ask' = ask /\ existing' = existing
  BY DEF Processed
<1>4. /\ at'[r] = "validating" /\ processed'[r] = {BatchOf(planned, result)}
      /\ Elsewhere(r)
  BY <1>2, <1>3 DEF Inductive, Elsewhere
<1>5. InRequest(r)
  BY DEF Inductive
<1>6. InRequest(r)'
  BY <1>3, <1>4, <1>5 DEF InRequest, Places
<1>7. \A q \in Requests : InRequest(q)'
  BY <1>4, <1>6, OthersStay
<1> QED
  BY <1>2, <1>3, <1>7 DEF Inductive

(* A request that ends holds nothing.                                      *)
LEMMA EndInductive ==
  ASSUME Inductive, NEW r \in Requests, NEW end \in {"saved", "failed"},
         at' = [at EXCEPT ![r] = end], Forget(r), Whole(store)'
  PROVE  Inductive'
<1>1. /\ at'[r] = end /\ ask'[r] = {} /\ existing'[r] = {} /\ processed'[r] = {}
      /\ Elsewhere(r)
  BY DEF Inductive, Elsewhere, Forget
<1>2. InRequest(r)'
  BY <1>1 DEF InRequest, Places
<1>3. \A q \in Requests : InRequest(q)'
  BY <1>1, <1>2, OthersStay
<1> QED
  BY <1>3 DEF Inductive, Forget

(* What a save writes: a whole record that was read, with a result of the  *)
(* batch asked for in its place.                                           *)
LEMMA SaveWrites ==
  ASSUME Inductive, NEW r \in Requests, NEW recommendation, Save(r, recommendation)
  PROVE  \E record, planned, batch :
           /\ existing[r] = {record} /\ processed[r] = {batch}
           /\ planned \in ask[r] /\ batch.batch_id = planned.batch_id
           /\ Whole(store')
           /\ Len(store'.batches) = Len(record.batches)
           /\ \A n \in 1..Len(record.batches) :
                store'.batches[n] = IF n = batch.batch_id THEN batch ELSE record.batches[n]
<1>1. PICK record \in existing[r], batch \in processed[r] :
        store' = updatedRecord(record, batch, recommendation)
  BY DEF Save, SaveRecord
<1>2. InRequest(r)
  BY DEF Inductive
<1>3. existing[r] = {record} /\ Whole(record)
  BY <1>2 DEF InRequest
<1>4. PICK planned \in ask[r] : \E result \in Results(planned) :
        processed[r] = {BatchOf(planned, result)}
  BY <1>2 DEF InRequest
<1>5. PICK result \in Results(planned) : processed[r] = {BatchOf(planned, result)}
  BY <1>4
<1>6. planned \in PlannedBatches /\ batch = BatchOf(planned, result)
  BY <1>2, <1>5 DEF InRequest
<1>7. batch \in StoredBatches
  BY <1>6 DEF StoredBatches
<1>8. batch.batch_id = planned.batch_id
  BY <1>6 DEF BatchOf
<1>9. /\ Whole(store')
      /\ Len(store'.batches) = Len(record.batches)
      /\ \A n \in 1..Len(record.batches) :
           store'.batches[n] = IF n = batch.batch_id THEN batch ELSE record.batches[n]
  BY <1>1, <1>3, <1>7, UpdateIsWhole
<1>10. processed[r] = {batch}
  BY <1>5, <1>6
<1> QED
  BY <1>3, <1>8, <1>9, <1>10

(* Every step of every request keeps the invariant.                        *)
LEMMA NextInductive == Inductive /\ [Next]_vars => Inductive'
<1> SUFFICES ASSUME Inductive, [Next]_vars PROVE Inductive'
  OBVIOUS
<1>1. ASSUME NEW r \in Requests, NEW batchId, NEW o \in Overrides \cup {NoOverride}, Read(r, batchId, o)
      PROVE  Inductive'
  BY <1>1, ReadInductive
<1>2. ASSUME NEW r \in Requests, Processed(r) PROVE Inductive'
  BY <1>2, ProcessedInductive
<1>3. ASSUME NEW r \in Requests, NEW recommendation, Save(r, recommendation) PROVE Inductive'
  <2>1. Whole(store)'
    BY <1>3, SaveWrites
  <2>2. at' = [at EXCEPT ![r] = "saved"] /\ Forget(r)
    BY <1>3 DEF Save
  <2> QED
    BY <2>1, <2>2, EndInductive
<1>4. ASSUME NEW r \in Requests, GlobalThrows(r) PROVE Inductive'
  <2>1. at' = [at EXCEPT ![r] = "failed"] /\ Forget(r) /\ store' = store
    BY <1>4 DEF GlobalThrows
  <2>2. Whole(store)'
    BY <2>1 DEF Inductive
  <2> QED
    BY <2>1, <2>2, EndInductive
<1>5. CASE UNCHANGED vars
  BY <1>5 DEF vars, Inductive, InRequest
<1> QED
  BY <1>1, <1>2, <1>3, <1>4, <1>5 DEF Next

(* So it holds in every reachable state.                                   *)
LEMMA AlwaysInductive == Spec => []Inductive
<1>1. Init => Inductive
  BY InitInductive
<1>2. Inductive /\ [Next]_vars => Inductive'
  BY NextInductive
<1> QED
  BY <1>1, <1>2, PTL DEF Spec

------------------------------------------------------------------------------
(* The theorems.                                                           *)

(* The state of the service keeps its types: for any requests, a request   *)
(* holds at most one record and one result, and a record exactly while it  *)
(* awaits a provider.                                                      *)
THEOREM TypesHold == Spec => []TypeOK
<1>1. Inductive => TypeOK
  <2> SUFFICES ASSUME Inductive PROVE TypeOK
    OBVIOUS
  <2>1. ASSUME NEW r \in Requests
        PROVE  /\ ask[r] \subseteq PlannedBatches
               /\ Cardinality(existing[r]) <= 1 /\ Cardinality(processed[r]) <= 1
               /\ existing[r] # {} <=> at[r] \in {"processing", "validating"}
    <3>1. InRequest(r)
      BY DEF Inductive
    <3>2. existing[r] = {} \/ \E x : existing[r] = {x}
      BY <3>1 DEF InRequest
    <3>3. processed[r] = {} \/ \E x : processed[r] = {x}
      BY <3>1 DEF InRequest
    <3>4. Cardinality({}) = 0 /\ \A x : Cardinality({x}) = 1
      BY FS_EmptySet, FS_Singleton
    <3>5. Cardinality(existing[r]) = 0 \/ Cardinality(existing[r]) = 1
      BY <3>2, <3>4, Zenon
    <3>6. Cardinality(processed[r]) = 0 \/ Cardinality(processed[r]) = 1
      BY <3>3, <3>4, Zenon
    <3>7. Cardinality(existing[r]) <= 1 /\ Cardinality(processed[r]) <= 1
      BY <3>5, <3>6
    <3> QED
      BY <3>1, <3>7 DEF InRequest
  <2>2. at \in [Requests -> Places]
    BY DEF Inductive, InRequest
  <2>3. store.provider \in AllProviders
    BY DEF Inductive, Whole
  <2> QED
    BY <2>1, <2>2, <2>3 DEF TypeOK
<1> QED
  BY <1>1, AlwaysInductive, PTL

(* However many requests interleave, the record stored is one picture: its *)
(* table is the one its batches give (ReferenceTable), the status owns up  *)
(* to batches to be reviewed or out of retries, and the audit trace tells  *)
(* the retries and the recommendation of the same batches, and their       *)
(* segments while they are grouped as in the run of the document.          *)
THEOREM RecordIsOnePicture == Spec => []RecordFollowsBatches
<1>1. Inductive => RecordFollowsBatches
  <2> SUFFICES ASSUME Whole(store) PROVE RecordFollowsBatches
    BY DEF Inductive
  <2>1. Len(store.batches) \in Nat
    BY DEF Whole
  <2>2. TableFollowsBatches
    <3>1. Unnumbered(store.items) = Unnumbered(ReferenceTable(itemsForReviewTable(store.batches)))
      BY DEF Whole
    <3>2. \A n \in 1..Len(store.batches) :
            /\ store.batches[n].recommendation = "manual_review" =>
                 store.processing_status = "manual_review"
            /\ store.batches[n].recommendation = "retry" =>
                 store.processing_status # "completed"
      BY DEF Whole
    <3> QED
      BY <3>1, <3>2 DEF TableFollowsBatches
  <2>3. TraceFollowsBatches
    <3>1. store.batch_traces = TracesOf(store.batches)
      BY DEF Whole
    <3>2. store.retried_batch_count =
            Cardinality({n \in 1..Len(store.batches) : store.batches[n].retry_count > 0})
      BY DEF Whole
    <3>3. Len(store.batch_traces) = Len(store.batches)
      BY <2>1, <3>1 DEF TracesOf
    <3>4. ASSUME NEW n \in 1..Len(store.batches)
          PROVE  LET trace == store.batch_traces[n]
                     batch == store.batches[n]
                 IN  /\ trace.batch_id = batch.batch_id
                     /\ trace.retry_count = batch.retry_count
                     /\ trace.final_recommendation = batch.recommendation
                     /\ (batch.provider = "gemini" <=> FirstProvider = "gemini") =>
                          trace.source_segment_ids = SegmentIds(batch.segments)
      <4> DEFINE batch == store.batches[n]
      <4>1. store.batch_traces[n] = RecordedTrace(n, batch)
        BY <3>1 DEF TracesOf
      <4>2. batch \in StoredBatches /\ batch.batch_id = n
        BY DEF Whole
      <4>3. batch.segments = GroupsOf(batch.provider)[n]
        BY <4>2, BatchFields
      <4>4. ASSUME batch.provider = "gemini" <=> FirstProvider = "gemini"
            PROVE  GroupsOf(batch.provider) = GroupsOf(FirstProvider)
        BY <4>4, GroupsAlike
      <4> HIDE DEF batch
      <4>5. (batch.provider = "gemini" <=> FirstProvider = "gemini") =>
              SegmentIds(GroupsOf(FirstProvider)[n]) = SegmentIds(batch.segments)
        BY <4>3, <4>4
      <4> QED
        BY <4>1, <4>5 DEF RecordedTrace, batch
    <3> QED
      BY <3>2, <3>3, <3>4 DEF TraceFollowsBatches
  <2> QED
    BY <2>2, <2>3 DEF RecordFollowsBatches
<1> QED
  BY <1>1, AlwaysInductive, PTL

(* Any sequence of requests that keeps to one grouping, Gemini's or the    *)
(* others', leaves every candidate segment in exactly one batch, in order, *)
(* for any document, batch size and providers.                             *)
THEOREM EvidenceIsKept == Spec => []OneGroupingKeepsEvidence
<1>1. Inductive => OneGroupingKeepsEvidence
  BY OneGroupingIsComplete DEF Inductive, OneGroupingKeepsEvidence
<1> QED
  BY <1>1, AlwaysInductive, PTL

\* Of a request that saves what it read from the store as it still is.
Selective(r) ==
  at'[r] = "saved" /\ existing[r] = {store} =>
    /\ Len(store'.batches) = Len(store.batches)
    /\ \A n \in 1..Len(store.batches) :
         \/ store'.batches[n] = store.batches[n]
         \/ \E planned \in ask[r] :
              n = planned.batch_id /\ store'.batches[n] \in processed[r]

(* A request whose record nobody wrote meanwhile changes no batch but the  *)
(* one it names.                                                           *)
THEOREM AloneChangesOneBatch == Spec => AloneIsSelective
<1>1. Inductive /\ [Next]_vars => [\A r \in Requests : Selective(r)]_vars
  <2> SUFFICES ASSUME Inductive, Next, NEW r \in Requests, at'[r] = "saved", existing[r] = {store}
               PROVE  /\ Len(store'.batches) = Len(store.batches)
                      /\ \A n \in 1..Len(store.batches) :
                           \/ store'.batches[n] = store.batches[n]
                           \/ \E planned \in ask[r] :
                                n = planned.batch_id /\ store'.batches[n] \in processed[r]
    BY DEF Selective
  <2>1. at[r] # "saved" /\ DOMAIN at = Requests
    BY DEF Inductive, InRequest
  <2>2. PICK recommendation : Save(r, recommendation)
    BY <2>1 DEF Next, Read, Processed, Save, GlobalThrows
  <2>3. PICK record, planned, batch :
           /\ existing[r] = {record} /\ processed[r] = {batch}
           /\ planned \in ask[r] /\ batch.batch_id = planned.batch_id
           /\ Whole(store')
           /\ Len(store'.batches) = Len(record.batches)
           /\ \A n \in 1..Len(record.batches) :
                store'.batches[n] = IF n = batch.batch_id THEN batch ELSE record.batches[n]
    BY <2>2, SaveWrites
  <2>4. record = store
    BY <2>3
  <2> QED
    BY <2>3, <2>4
<1> QED
  BY <1>1, AlwaysInductive, PTL DEF AloneIsSelective, Selective, Spec

------------------------------------------------------------------------------
(* The market analysis: what normalizeStore makes of the entries of a file. *)

\* The runs of a store have different ids, as the entries of the file have.
Distinct(runs) == \A i, j \in 1..Len(runs) : runs[i].id = runs[j].id => i = j

\* The codes of a store are in use: below the next one, and each for one run.
Coded(runs, next) ==
  /\ \A i \in 1..Len(runs) : runs[i].code \in 1..(next - 1)
  /\ \A i, j \in 1..Len(runs) : runs[i].code = runs[j].code => i = j

(* The codes of some entries, and 0, have a greatest one, which Max finds. *)
LEMMA HighestCode ==
  ASSUME NEW runs \in Seq(RunRecords), NEW kept \in SUBSET (1..Len(runs))
  PROVE  LET codes == {runs[i].code : i \in kept} \cup {0}
         IN  Max(codes) \in codes /\ \A c \in codes : Max(codes) >= c
<1> DEFINE n == Len(runs)
           codes == {runs[i].code : i \in kept} \cup {0}
           UnderABound == {k \in 0..n : \E b \in Nat : \A i \in 1..k : runs[i].code <= b}
<1>0. n \in Nat /\ \A i \in 1..n : runs[i] \in RunRecords
  OBVIOUS
<1>1. n \in Nat /\ \A i \in 1..n : runs[i].code \in Nat
  BY <1>0 DEF RunRecords
<1>2. 0 \in UnderABound
  BY <1>1
<1>3. ASSUME NEW k \in 0..(n - 1), k \in UnderABound PROVE k + 1 \in UnderABound
  <2>1. PICK b \in Nat : \A i \in 1..k : runs[i].code <= b
    BY <1>3
  <2>2. k + 1 \in 1..n
    BY <1>1
  <2> DEFINE new == runs[k + 1].code
             higher == IF new > b THEN new ELSE b
  <2>3. new \in Nat
    BY <1>1, <2>2
  <2>4. higher \in Nat /\ higher >= b /\ higher >= new
    BY <2>3
  <2>5. \A i \in 1..(k + 1) : i \in 1..k \/ i = k + 1
    OBVIOUS
  <2>6. \A i \in 1..k : runs[i].code \in Nat
    BY <1>1
  <2> HIDE DEF higher, n
  <2>7. \A i \in 1..(k + 1) : runs[i].code <= higher
    BY <2>1, <2>3, <2>4, <2>5, <2>6
  <2>8. \E b1 \in Nat : \A i \in 1..(k + 1) : runs[i].code <= b1
    BY <2>4, <2>7, Zenon
  <2>9. k + 1 \in 0..n
    BY <2>2, <1>1
  <2> QED
    BY <2>8, <2>9, Zenon
<1> HIDE DEF UnderABound
<1>4. \A k \in 0..n : k \in UnderABound
  BY <1>1, <1>2, <1>3, UpTo
<1>5. n \in UnderABound
  BY <1>1, <1>4
<1>6. PICK b \in Nat : \A i \in 1..n : runs[i].code <= b
  BY <1>5 DEF UnderABound
<1> DEFINE Bounds == {m \in Nat : \A c \in codes : c <= m}
<1>7. codes \in SUBSET Nat /\ codes # {}
  BY <1>1
<1>8. b \in Bounds
  BY <1>1, <1>6
<1> HIDE DEF codes
<1>9. PICK m \in Bounds : \A other \in Bounds : m <= other
  BY <1>8, LeastNumber
<1>10. m \in codes
  <2> SUFFICES ASSUME m \notin codes PROVE FALSE
    OBVIOUS
  <2>1. PICK c \in codes : TRUE
    BY <1>7
  <2>2. c \in Nat /\ m >= c /\ m # c
    BY <1>7, <1>9
  <2>3. m - 1 \in Nat
    BY <2>2
  <2>4. \A d \in codes : d <= m - 1
    BY <1>7, <1>9
  <2>5. m - 1 \in Bounds
    BY <2>3, <2>4
  <2> QED
    BY <2>5, <1>9
<1> QED
  BY <1>7, <1>9, <1>10 DEF Max, codes

(* The order of creation is strict, and total on runs with different ids.  *)
LEMMA EarlierIsOrder ==
  /\ \A x, y, z \in RunRecords : Earlier(x, y) /\ Earlier(y, z) => Earlier(x, z)
  /\ \A x \in RunRecords : ~ Earlier(x, x)
  /\ \A x, y \in RunRecords : x.id # y.id => Earlier(x, y) \/ Earlier(y, x)
<1>1. \A x \in RunRecords : x.createdAt \in Int /\ IdOrder[x.id] \in Int /\ x.id \in DOMAIN IdOrder
  BY IdsAssumption DEF RunRecords
<1>2. \A x, y \in RunRecords : IdOrder[x.id] = IdOrder[y.id] => x.id = y.id
  BY <1>1, IdsAssumption
<1> QED
  BY <1>1, <1>2 DEF Earlier

\* What normalizeStore makes of the entries: the names of its parts.
KeptCodes(runs) == {i \in 1..Len(runs) : KeepsCode(runs, i)}
HighestKept(runs) == Max({runs[i].code : i \in KeptCodes(runs)} \cup {0})
FirstNew(runs, next) == Max({next, HighestKept(runs) + 1})
Recoded(runs) == (1..Len(runs)) \ KeptCodes(runs)
RecodedBefore(runs, i) == {j \in Recoded(runs) : Earlier(runs[j], runs[i])}
CodeAfter(runs, next, i) ==
  IF i \in KeptCodes(runs) THEN runs[i].code
  ELSE FirstNew(runs, next) + Cardinality(RecodedBefore(runs, i))

(* The first new code is above those that stay.                            *)
LEMMA FirstNewIsAbove ==
  ASSUME NEW runs \in Seq(RunRecords), NEW next \in Nat
  PROVE  /\ FirstNew(runs, next) \in Nat /\ FirstNew(runs, next) >= 1 /\ FirstNew(runs, next) >= next
         /\ \A i \in KeptCodes(runs) : runs[i].code \in 1..(FirstNew(runs, next) - 1)
         /\ next >= 1 /\ (\A i \in KeptCodes(runs) : runs[i].code < next) => FirstNew(runs, next) = next
<1> DEFINE kept == KeptCodes(runs)
           highest == HighestKept(runs)
           first == FirstNew(runs, next)
<1>0. kept \in SUBSET (1..Len(runs)) /\ \A i \in kept : runs[i] \in RunRecords
  BY DEF KeptCodes
<1>1. \A i \in kept : runs[i].code \in Nat /\ runs[i].code # 0
  BY <1>0 DEF KeptCodes, KeepsCode, RunRecords
<1> HIDE DEF kept
<1>2. /\ highest \in {runs[i].code : i \in kept} \cup {0}
      /\ \A c \in {runs[i].code : i \in kept} \cup {0} : highest >= c
  BY <1>0, HighestCode DEF HighestKept, kept
<1>3. highest \in Nat /\ \A i \in kept : highest >= runs[i].code
  BY <1>1, <1>2
<1> HIDE DEF highest
<1>4. first = Max({next, highest + 1})
  BY DEF FirstNew, highest
<1>5. first = IF next >= highest + 1 THEN next ELSE highest + 1
  BY <1>3, <1>4 DEF Max
<1> HIDE DEF first
<1>6. first \in Nat /\ first >= 1 /\ first >= next /\ first > highest
  BY <1>3, <1>5
<1>7. \A i \in kept : runs[i].code \in 1..(first - 1)
  BY <1>1, <1>3, <1>6
<1>8. next >= 1 /\ (\A i \in kept : runs[i].code < next) => first = next
  BY <1>1, <1>2, <1>3, <1>5
<1> QED
  BY <1>6, <1>7, <1>8 DEF first, kept

(* Of two runs that are given new codes, the earlier one's is lower, and   *)
(* all are below the next.                                                 *)
LEMMA NewCodesDiffer ==
  ASSUME NEW runs \in Seq(RunRecords), Distinct(runs)
  PROVE  /\ Cardinality(Recoded(runs)) \in Nat
         /\ \A i \in Recoded(runs) :
              /\ Cardinality(RecodedBefore(runs, i)) \in Nat
              /\ Cardinality(RecodedBefore(runs, i)) < Cardinality(Recoded(runs))
         /\ \A i, j \in Recoded(runs) :
              Cardinality(RecodedBefore(runs, i)) = Cardinality(RecodedBefore(runs, j)) => i = j
<1> DEFINE R == Recoded(runs)
<1>1. IsFiniteSet(R) /\ Cardinality(R) \in Nat
  <2>1. IsFiniteSet(1..Len(runs)) /\ R \in SUBSET (1..Len(runs))
    BY FS_Interval DEF Recoded
  <2> QED
    BY <2>1, FS_Subset, FS_CardinalityType
<1>2. \A i \in R : runs[i] \in RunRecords
  BY DEF Recoded
<1> HIDE DEF R
<1>3. ASSUME NEW i \in R
      PROVE  /\ RecodedBefore(runs, i) \in SUBSET R /\ i \notin RecodedBefore(runs, i)
             /\ IsFiniteSet(RecodedBefore(runs, i)) /\ Cardinality(RecodedBefore(runs, i)) \in Nat
  <2>1. RecodedBefore(runs, i) \in SUBSET R
    BY DEF RecodedBefore, R
  <2>2. i \notin RecodedBefore(runs, i)
    BY <1>2, EarlierIsOrder DEF RecodedBefore
  <2> QED
    BY <1>1, <2>1, <2>2, FS_Subset, FS_CardinalityType
<1>4. ASSUME NEW i \in R
      PROVE  Cardinality(RecodedBefore(runs, i)) < Cardinality(R)
  <2> DEFINE B == RecodedBefore(runs, i)
  <2>1. B \in SUBSET R /\ B # R /\ Cardinality(B) \in Nat
    BY <1>3
  <2> HIDE DEF B
  <2>2. Cardinality(B) <= Cardinality(R) /\ Cardinality(R) # Cardinality(B)
    BY <1>1, <2>1, FS_Subset
  <2>3. Cardinality(B) < Cardinality(R)
    BY <1>1, <2>1, <2>2
  <2> QED
    BY <2>3 DEF B
<1>5. ASSUME NEW i \in R, NEW j \in R, Earlier(runs[i], runs[j])
      PROVE  Cardinality(RecodedBefore(runs, i)) # Cardinality(RecodedBefore(runs, j))
  <2> DEFINE B == RecodedBefore(runs, i)
             C == RecodedBefore(runs, j)
  <2>1. i \in C /\ i \notin B
    BY <1>3, <1>5 DEF RecodedBefore, R
  <2>2. B \in SUBSET C
    BY <1>2, <1>5, EarlierIsOrder DEF RecodedBefore, R
  <2>3. IsFiniteSet(C)
    BY <1>3
  <2> HIDE DEF B, C
  <2>4. Cardinality(C) # Cardinality(B)
    BY <2>1, <2>2, <2>3, FS_Subset
  <2> QED
    BY <2>4 DEF B, C
<1>6. ASSUME NEW i \in R, NEW j \in R,
             Cardinality(RecodedBefore(runs, i)) = Cardinality(RecodedBefore(runs, j))
      PROVE  i = j
  <2> SUFFICES ASSUME i # j PROVE FALSE
    OBVIOUS
  <2>1. runs[i].id # runs[j].id
    BY DEF Distinct, R, Recoded
  <2>2. Earlier(runs[i], runs[j]) \/ Earlier(runs[j], runs[i])
    BY <1>2, <2>1, EarlierIsOrder
  <2> QED
    BY <1>5, <1>6, <2>2
<1> QED
  BY <1>1, <1>3, <1>4, <1>6 DEF R

(* Runs with different ids are numbered: each is left as it is but for its *)
(* code, and the codes are those of CodeAfter.                             *)
LEMMA NormalizeNumbers ==
  ASSUME NEW runs \in Seq(RunRecords), Distinct(runs), NEW next \in Nat
  PROVE  LET held == normalizeStore(runs, next)
         IN  /\ held.state = "held" /\ held.next \in Nat /\ held.next >= 1
             /\ held.runs \in Seq(RunRecords) /\ Len(held.runs) = Len(runs)
             /\ \A i \in 1..Len(runs) : held.runs[i] = [runs[i] EXCEPT !.code = held.runs[i].code]
             /\ Coded(held.runs, held.next)
<1> DEFINE n == Len(runs)
           codes == [i \in 1..n |-> CodeAfter(runs, next, i)]
           first == FirstNew(runs, next)
           after == first + Cardinality(Recoded(runs))
           held == normalizeStore(runs, next)
           coded == [i \in 1..n |-> IF i \in KeptCodes(runs) THEN runs[i]
                      ELSE [runs[i] EXCEPT !.code = first + Cardinality(RecodedBefore(runs, i))]]
<1>1. held = [state |-> "held", runs |-> coded, next |-> after]
  BY Zenon DEF normalizeStore, KeptCodes, HighestKept, FirstNew, Recoded, RecodedBefore
<1>2. /\ n \in Nat /\ \A i \in 1..n : runs[i] \in RunRecords
      /\ KeptCodes(runs) \in SUBSET (1..n) /\ Recoded(runs) = (1..n) \ KeptCodes(runs)
  BY DEF KeptCodes, Recoded
<1>3. /\ first \in Nat /\ first >= 1
      /\ \A i \in KeptCodes(runs) : runs[i].code \in 1..(first - 1)
  BY FirstNewIsAbove
<1>4. /\ Cardinality(Recoded(runs)) \in Nat
      /\ \A i \in Recoded(runs) :
           /\ Cardinality(RecodedBefore(runs, i)) \in Nat
           /\ Cardinality(RecodedBefore(runs, i)) < Cardinality(Recoded(runs))
      /\ \A i, j \in Recoded(runs) :
           Cardinality(RecodedBefore(runs, i)) = Cardinality(RecodedBefore(runs, j)) => i = j
  BY NewCodesDiffer
<1> HIDE DEF first
<1>5. after \in Nat /\ after >= 1 /\ after >= first
  BY <1>3, <1>4
<1>6. \A i \in 1..n : codes[i] \in 1..(after - 1)
  <2> SUFFICES ASSUME NEW i \in 1..n PROVE codes[i] \in 1..(after - 1)
    OBVIOUS
  <2>1. CASE i \in KeptCodes(runs)
    BY <2>1, <1>3, <1>4, <1>5 DEF CodeAfter, first
  <2>2. CASE i \notin KeptCodes(runs)
    <3>1. i \in Recoded(runs)
      BY <2>2, <1>2
    <3>2. codes[i] = first + Cardinality(RecodedBefore(runs, i))
      BY <2>2 DEF CodeAfter, first
    <3> QED
      BY <3>1, <3>2, <1>3, <1>4
  <2> QED
    BY <2>1, <2>2
<1>7. ASSUME NEW i \in 1..n, NEW j \in 1..n, codes[i] = codes[j], i # j PROVE FALSE
  <2>1. CASE i \in KeptCodes(runs) /\ j \in KeptCodes(runs)
    <3>1. runs[i].code = runs[j].code
      BY <2>1, <1>7 DEF CodeAfter
    <3>2. Earlier(runs[i], runs[j]) /\ Earlier(runs[j], runs[i])
      BY <2>1, <3>1, <1>7 DEF KeptCodes, KeepsCode
    <3> QED
      BY <3>2, <1>2, EarlierIsOrder
  <2>2. CASE i \in Recoded(runs) /\ j \in Recoded(runs)
    <3>1. /\ codes[i] = first + Cardinality(RecodedBefore(runs, i))
          /\ codes[j] = first + Cardinality(RecodedBefore(runs, j))
      BY <2>2 DEF CodeAfter, Recoded, first
    <3> QED
      BY <3>1, <2>2, <1>3, <1>4, <1>7
  <2>3. ASSUME NEW k \in KeptCodes(runs), NEW r \in Recoded(runs) PROVE codes[k] # codes[r]
    <3>1. codes[k] = runs[k].code /\ codes[r] = first + Cardinality(RecodedBefore(runs, r))
      BY <1>2 DEF CodeAfter, Recoded, first
    <3> QED
      BY <3>1, <1>3, <1>4
  <2> QED
    BY <2>1, <2>2, <2>3, <1>2, <1>7
<1>8. ASSUME NEW i \in 1..n
      PROVE  /\ coded[i] \in RunRecords /\ coded[i].code = codes[i]
             /\ coded[i] = [runs[i] EXCEPT !.code = coded[i].code]
  <2> DEFINE r == runs[i]
             c == codes[i]
             e == [r EXCEPT !.code = c]
  <2>1. r \in RunRecords /\ c \in Nat
    BY <1>2, <1>5, <1>6
  <2>2. coded[i] = IF i \in KeptCodes(runs) THEN r ELSE [r EXCEPT !.code = c]
    BY DEF CodeAfter, first
  <2>3. i \in KeptCodes(runs) => c = r.code
    BY DEF CodeAfter
  <2> HIDE DEF r, c, coded
  <2>4. e \in RunRecords /\ e.code = c /\ [r EXCEPT !.code = r.code] = r
    BY <2>1 DEF RunRecords
  <2>5. coded[i] = e
    BY <2>2, <2>3, <2>4
  <2>6. coded[i] \in RunRecords /\ coded[i].code = c
    BY <2>4, <2>5
  <2>7. coded[i] = [r EXCEPT !.code = coded[i].code]
    BY <2>5, <2>6
  <2> QED
    BY <2>6, <2>7 DEF r, c
<1>9. coded = [i \in 1..n |-> coded[i]]
  OBVIOUS
<1> HIDE DEF coded, codes, held, after
<1>10. coded \in Seq(RunRecords) /\ Len(coded) = n
  BY <1>2, <1>8, <1>9
<1>11. Coded(coded, after)
  <2>1. \A i \in 1..n : coded[i].code = codes[i]
    BY <1>8, Zenon
  <2>2. \A i \in 1..Len(coded) : coded[i].code \in 1..(after - 1)
    BY <1>6, <1>10, <2>1
  <2>3. \A i, j \in 1..n : codes[i] = codes[j] => i = j
    BY <1>7, Zenon
  <2> HIDE DEF n
  <2>4. \A i, j \in 1..Len(coded) : coded[i].code = coded[j].code => i = j
    BY <1>10, <2>1, <2>3
  <2> QED
    BY <2>2, <2>4 DEF Coded
<1>12. held.state = "held" /\ held.runs = coded /\ held.next = after
  BY <1>1
<1> QED
  BY <1>5, <1>8, <1>10, <1>11, <1>12 DEF held

(* Runs whose codes are in use are left as they are, with the next code.   *)
LEMMA NormalizeKeeps ==
  ASSUME NEW runs \in Seq(RunRecords), NEW next \in Nat, next >= 1, Coded(runs, next)
  PROVE  normalizeStore(runs, next) = [state |-> "held", runs |-> runs, next |-> next]
<1> DEFINE n == Len(runs)
           first == FirstNew(runs, next)
<1>1. n \in Nat /\ \A i \in 1..n : runs[i].code \in 1..(next - 1)
  BY DEF Coded
<1>2. KeptCodes(runs) = 1..n
  BY <1>1 DEF KeptCodes, KeepsCode, Coded
<1>3. Recoded(runs) = {}
  BY <1>2 DEF Recoded
<1>4. first = next
  <2>1. \A i \in KeptCodes(runs) : runs[i].code < next
    BY <1>1, <1>2
  <2> QED
    BY <2>1, FirstNewIsAbove
<1>5. first + Cardinality(Recoded(runs)) = next
  BY <1>3, <1>4, FS_EmptySet
<1> DEFINE coded == [i \in 1..n |-> IF i \in KeptCodes(runs) THEN runs[i]
                      ELSE [runs[i] EXCEPT !.code = first + Cardinality(RecodedBefore(runs, i))]]
<1>6. normalizeStore(runs, next)
        = [state |-> "held", runs |-> coded, next |-> first + Cardinality(Recoded(runs))]
  BY Zenon DEF normalizeStore, KeptCodes, HighestKept, FirstNew, Recoded, RecodedBefore
<1>7. coded = runs
  BY <1>2
<1> HIDE DEF coded, first
<1> QED
  BY <1>5, <1>6, <1>7

------------------------------------------------------------------------------
\* What the code knows of a store it has read: its runs differ in their ids, and
\* their codes are in use.
IsStore(s) ==
  /\ s.state = "held" /\ s.runs \in Seq(RunRecords) /\ s.next \in Nat /\ s.next >= 1
  /\ Distinct(s.runs) /\ Coded(s.runs, s.next)

\* The file: of an earlier version, as the code left it, or lost.
IsFile(f) ==
  IF f.state = "held" THEN f.runs \in Seq(RunRecords) /\ f.next \in Nat /\ Distinct(f.runs)
  ELSE f.runs = << >>

\* Codes that identify runs.
Identify(codes) == \A x, y \in codes : x.id = y.id <=> x.code = y.code

\* The file agrees with the codes shown so far.
Agrees(f, known) ==
  known # {} =>
    /\ IsStore(f)
    /\ \A x \in known : x.code \in 1..(f.next - 1)
    /\ Identify(known \cup CodesOf(f))

\* What a stored run of an upload tells.
Traceable(run) == run.mode = "plain_schema" /\ run.priced => run.grounded

\* The runs of uploads in the file are those of the uploads that are done.
Sound(f, done) ==
  \A i \in 1..Len(f.runs) : f.runs[i].id \in Uploads =>
    f.runs[i].id \in done /\ Len(f.runs) <= MaxRuns /\ Traceable(f.runs[i])

\* All together, of a file, the codes shown and the uploads that are done.
Good(f, known, done) ==
  /\ IsFile(f) /\ Agrees(f, known) /\ Sound(f, done)
  /\ \A x \in known : x.id \in Uploads => x.id \in done

(* The codes of a store are those of its runs.                             *)
LEMMA CodesOfRuns ==
  ASSUME NEW s, s.runs \in Seq(RunRecords), NEW x \in CodesOf(s)
  PROVE  \E i \in 1..Len(s.runs) : x.id = s.runs[i].id /\ x.code = s.runs[i].code
<1>1. PICK run \in Range(s.runs) : x = [id |-> run.id, code |-> run.code]
  BY DEF CodesOf
<1>2. PICK i \in 1..Len(s.runs) : run = s.runs[i]
  BY DEF Range
<1> QED
  BY <1>1, <1>2

(* The codes of a store that agrees are known ones or new ones.            *)
LEMMA StoreIdentifies ==
  ASSUME NEW s, IsStore(s), NEW known, Agrees(s, known)
  PROVE  /\ Identify(known \cup CodesOf(s))
         /\ \A x \in known \cup CodesOf(s) : x.code \in 1..(s.next - 1)
<1>1. \A x \in CodesOf(s) : \E i \in 1..Len(s.runs) : x.id = s.runs[i].id /\ x.code = s.runs[i].code
  BY CodesOfRuns DEF IsStore
<1>2. \A i \in 1..Len(s.runs) : s.runs[i].code \in 1..(s.next - 1)
  BY DEF IsStore, Coded
<1>3. \A x \in CodesOf(s) : x.code \in 1..(s.next - 1)
  BY <1>1, <1>2
<1>4. \A i, j \in 1..Len(s.runs) : s.runs[i].id = s.runs[j].id <=> s.runs[i].code = s.runs[j].code
  BY DEF IsStore, Distinct, Coded
<1>5. Identify(CodesOf(s))
  BY <1>1, <1>4 DEF Identify
<1>6. CASE known = {}
  <2>1. known \cup CodesOf(s) = CodesOf(s)
    BY <1>6
  <2> QED
    BY <2>1, <1>3, <1>5
<1>7. CASE known # {}
  BY <1>7, <1>3 DEF Agrees
<1> QED
  BY <1>6, <1>7

(* A filter keeps no more than there was.                                  *)
LEMMA KeepingIsShorter ==
  ASSUME NEW E, NEW S
  PROVE  \A seq \in Seq(E) : Len(Keeping(seq, S)) <= Len(seq)
<1> DEFINE P == {seq \in Seq(E) : Len(Keeping(seq, S)) <= Len(seq)}
<1>1. << >> \in P
  BY KeepingNothing
<1>2. ASSUME NEW s \in Seq(E), NEW e \in E, s \in P PROVE Append(s, e) \in P
  <2>1. Keeping(Append(s, e), S) = IF e \in S THEN Append(Keeping(s, S), e) ELSE Keeping(s, S)
    BY KeepingAppend
  <2>2. Keeping(s, S) \in Seq(E)
    BY KeepingPicks
  <2>3. Len(Keeping(Append(s, e), S)) <= Len(Keeping(s, S)) + 1
    BY <2>1, <2>2
  <2>4. Len(Append(s, e)) = Len(s) + 1 /\ Append(s, e) \in Seq(E)
    OBVIOUS
  <2>5. Len(Keeping(s, S)) <= Len(s)
    BY <1>2
  <2>6. Len(Keeping(Append(s, e), S)) \in Nat /\ Len(Keeping(s, S)) \in Nat /\ Len(s) \in Nat
    BY <2>2, <2>4, KeepingPicks
  <2> QED
    BY <2>3, <2>4, <2>5, <2>6
<1> HIDE DEF P
<1>3. \A seq \in Seq(E) : seq \in P
  BY <1>1, <1>2, EntryByEntry
<1> QED
  BY <1>3 DEF P

(* What is read of a file that is there: its valid entries, numbered.      *)
LEMMA ReadOfHeld ==
  ASSUME NEW f, f.state = "held", NEW known, NEW done, Good(f, known, done)
  PROVE  IsStore(readStore(f)) /\ Good(readStore(f), known, done)
<1> DEFINE S == {run \in Range(f.runs) : Parses(run)}
           kept == Keeping(f.runs, S)
           s == readStore(f)
<1>1. f.runs \in Seq(RunRecords) /\ f.next \in Nat /\ Distinct(f.runs)
  BY DEF Good, IsFile
<1>2. s = normalizeStore(kept, f.next)
  BY DEF readStore
<1> HIDE DEF S
<1>3. kept \in Seq(RunRecords) /\ (\E from : Picks(from, kept, f.runs, S, Len(f.runs)))
  BY <1>1, KeepingPicks
<1>4. Len(kept) <= Len(f.runs)
  BY <1>1, KeepingIsShorter
<1> HIDE DEF kept, s
<1>5. PICK from : Picks(from, kept, f.runs, S, Len(f.runs))
  BY <1>3
<1>6. \A m \in 1..Len(kept) : from[m] \in 1..Len(f.runs) /\ kept[m] = f.runs[from[m]]
  BY <1>5 DEF Picks
<1>7. \A m, p \in 1..Len(kept) : from[m] = from[p] => m = p
  <2>1. \A m, p \in 1..Len(kept) : m < p => from[m] < from[p]
    BY <1>5 DEF Picks
  <2>2. Len(kept) \in Nat /\ Len(f.runs) \in Nat
    BY <1>1, <1>3
  <2> QED
    BY <1>6, <2>1, <2>2
<1>8. Distinct(kept)
  <2> SUFFICES ASSUME NEW m \in 1..Len(kept), NEW p \in 1..Len(kept), kept[m].id = kept[p].id
               PROVE  m = p
    BY DEF Distinct
  <2>1. /\ from[m] \in 1..Len(f.runs) /\ from[p] \in 1..Len(f.runs)
        /\ f.runs[from[m]].id = f.runs[from[p]].id
    BY <1>6
  <2>2. from[m] = from[p]
    BY <2>1, <1>1 DEF Distinct
  <2> QED
    BY <2>2, <1>7
<1>9. /\ s.state = "held" /\ s.next \in Nat /\ s.next >= 1
      /\ s.runs \in Seq(RunRecords) /\ Len(s.runs) = Len(kept)
      /\ \A i \in 1..Len(kept) : s.runs[i] = [kept[i] EXCEPT !.code = s.runs[i].code]
      /\ Coded(s.runs, s.next)
  BY <1>1, <1>2, <1>3, <1>8, NormalizeNumbers
<1>10. ASSUME NEW i \in 1..Len(kept)
       PROVE  /\ s.runs[i].id = kept[i].id /\ s.runs[i].mode = kept[i].mode
              /\ s.runs[i].grounded = kept[i].grounded /\ s.runs[i].priced = kept[i].priced
  <2> DEFINE old == kept[i]
             new == s.runs[i]
             c == new.code
  <2>1. old \in RunRecords /\ new = [old EXCEPT !.code = c]
    BY <1>3, <1>9
  <2> HIDE DEF old, new, c
  <2>2. new.id = old.id /\ new.mode = old.mode /\ new.grounded = old.grounded /\ new.priced = old.priced
    BY <2>1 DEF RunRecords
  <2> QED
    BY <2>2 DEF old, new
<1>11. Distinct(s.runs)
  BY <1>8, <1>9, <1>10 DEF Distinct
<1>12. IsStore(s)
  BY <1>9, <1>11 DEF IsStore
<1>13. Sound(s, done)
  <2> SUFFICES ASSUME NEW i \in 1..Len(s.runs), s.runs[i].id \in Uploads
               PROVE  s.runs[i].id \in done /\ Len(s.runs) <= MaxRuns /\ Traceable(s.runs[i])
    BY DEF Sound
  <2>1. i \in 1..Len(kept) /\ from[i] \in 1..Len(f.runs) /\ kept[i] = f.runs[from[i]]
    BY <1>6, <1>9
  <2>2. kept[i].id \in Uploads /\ Sound(f, done)
    BY <1>10, <2>1 DEF Good
  <2>3. kept[i].id \in done /\ Len(f.runs) <= MaxRuns /\ Traceable(kept[i])
    BY <2>1, <2>2 DEF Sound
  <2>4. Traceable(s.runs[i]) /\ s.runs[i].id \in done
    BY <1>10, <2>1, <2>3 DEF Traceable
  <2>5. Len(f.runs) \in Nat /\ Len(kept) \in Nat /\ MaxRuns \in Nat
    BY <1>1, <1>3, LimitsAssumption
  <2> QED
    BY <1>4, <1>9, <2>3, <2>4, <2>5
<1>14. Agrees(s, known)
  <2> SUFFICES ASSUME known # {}
               PROVE  (\A x \in known : x.code \in 1..(s.next - 1)) /\ Identify(known \cup CodesOf(s))
    BY <1>12 DEF Agrees
  <2>1. /\ IsStore(f) /\ Identify(known \cup CodesOf(f))
        /\ \A x \in known : x.code \in 1..(f.next - 1)
    BY DEF Good, Agrees
  <2>2. f.next >= 1 /\ Coded(f.runs, f.next)
    BY <2>1 DEF IsStore
  <2>3. Coded(kept, f.next)
    <3>1. \A m \in 1..Len(kept) : kept[m].code \in 1..(f.next - 1)
      BY <2>2, <1>6 DEF Coded
    <3>2. ASSUME NEW m \in 1..Len(kept), NEW p \in 1..Len(kept), kept[m].code = kept[p].code
          PROVE  m = p
      <4>1. /\ from[m] \in 1..Len(f.runs) /\ from[p] \in 1..Len(f.runs)
            /\ f.runs[from[m]].code = f.runs[from[p]].code
        BY <3>2, <1>6
      <4>2. from[m] = from[p]
        BY <4>1, <2>2 DEF Coded
      <4> QED
        BY <4>2, <1>7
    <3> QED
      BY <3>1, <3>2 DEF Coded
  <2>4. s = [state |-> "held", runs |-> kept, next |-> f.next]
    BY <1>1, <1>2, <1>3, <2>2, <2>3, NormalizeKeeps
  <2>5. s.runs = kept /\ s.next = f.next
    BY <2>4
  <2>6. CodesOf(s) \subseteq CodesOf(f)
    <3>1. \A run \in Range(kept) : run \in Range(f.runs)
      BY <1>1, <1>3, <1>6 DEF Range
    <3> QED
      BY <2>5, <3>1 DEF CodesOf
  <2> QED
    BY <2>1, <2>5, <2>6 DEF Identify
<1>15. IsFile(s)
  BY <1>12 DEF IsFile, IsStore
<1> QED
  BY <1>12, <1>13, <1>14, <1>15 DEF Good, s

(* A file that is not there is read as an empty store.                     *)
LEMMA ReadOfLost ==
  ASSUME NEW done
  PROVE  IsStore(Empty) /\ Good(Empty, {}, done)
<1>1. Empty.state = "held" /\ Empty.runs = << >> /\ Empty.next = 1 /\ Len(<< >>) = 0
  BY DEF Empty
<1>2. IsStore(Empty)
  BY <1>1 DEF IsStore, Distinct, Coded
<1> QED
  BY <1>1, <1>2 DEF Good, IsFile, IsStore, Sound, Agrees

(* Whatever a read returns and leaves in the file is good.                 *)
LEMMA ReadIsGood ==
  ASSUME NEW f, NEW known, NEW done, Good(f, known, done)
  PROVE  /\ IsStore(readStore(f)) /\ Good(readStore(f), known, done)
         /\ Good(FileAfterRead(f), known, done)
<1>1. CASE f.state = "held"
  BY <1>1, ReadOfHeld DEF FileAfterRead
<1>2. CASE f.state # "held"
  <2>1. known = {}
    BY <1>2 DEF Good, Agrees, IsStore
  <2>2. readStore(f) = Empty /\ FileAfterRead(f) = f
    BY <1>2 DEF readStore, FileAfterRead
  <2> QED
    BY <2>1, <2>2, ReadOfLost
<1> QED
  BY <1>1, <1>2

\* A run that is saved: of an upload, and traceable.
OfUpload(run) == run \in RunRecords /\ run.id \in Uploads /\ Traceable(run)

(* The runs with a new one in front: it is given the next code.            *)
LEMMA FrontRun ==
  ASSUME NEW s, IsStore(s), NEW run \in RunRecords,
         \A i \in 1..Len(s.runs) : s.runs[i].id # run.id
  PROVE  LET w == WithRun(s, run)
         IN  /\ w.state = "held" /\ w.next = s.next + 1
             /\ w.runs \in Seq(RunRecords) /\ Len(w.runs) <= MaxRuns /\ Len(w.runs) >= 1
             /\ w.runs[1] = [run EXCEPT !.code = s.next]
             /\ \A i \in 2..Len(w.runs) : i - 1 \in 1..Len(s.runs) /\ w.runs[i] = s.runs[i - 1]
<1> DEFINE ids == {other \in Range(s.runs) : other.id # run.id}
           others == Keeping(s.runs, ids)
           new == [run EXCEPT !.code = s.next]
           front == <<new>>
           all == front \o others
           w == WithRun(s, run)
<1>1. s.runs \in Seq(RunRecords) /\ s.next \in Nat
  BY DEF IsStore
<1>2. {other \in Range(s.runs) : other.id = run.id} = {}
  BY <1>1 DEF Range
<1>3. others = s.runs
  <2>1. \A i \in 1..Len(s.runs) : s.runs[i] \in ids
    BY <1>1 DEF Range
  <2> HIDE DEF ids
  <2> QED
    BY <1>1, <2>1, KeepingAll
<1>4. new \in RunRecords
  BY <1>1 DEF RunRecords
<1>5. w = [state |-> "held", runs |-> Kept(all), next |-> s.next + 1]
  BY <1>2, Zenon DEF WithRun
<1> HIDE DEF ids, others, new, w
<1>6. front \in Seq(RunRecords) /\ Len(front) = 1 /\ front[1] = new
  BY <1>4
<1> HIDE DEF front
<1>7. /\ all \in Seq(RunRecords) /\ Len(all) = 1 + Len(s.runs)
      /\ \A i \in 1..(1 + Len(s.runs)) : all[i] = IF i <= 1 THEN new ELSE s.runs[i - 1]
  <2>1. /\ all \in Seq(RunRecords) /\ Len(all) = Len(front) + Len(s.runs)
        /\ \A i \in 1..(Len(front) + Len(s.runs)) :
             all[i] = IF i <= Len(front) THEN front[i] ELSE s.runs[i - Len(front)]
    BY <1>1, <1>3, <1>6, ConcatProperties
  <2>2. Len(s.runs) \in Nat
    BY <1>1
  <2> HIDE DEF all
  <2> QED
    BY <2>1, <2>2, <1>6
<1> HIDE DEF all
<1> DEFINE size == IF Len(all) > MaxRuns THEN MaxRuns ELSE Len(all)
<1>8. MaxRuns \in Nat /\ MaxRuns >= 1 /\ Len(s.runs) \in Nat
  BY <1>1, LimitsAssumption
<1>9. size \in 1..Len(all) /\ size <= MaxRuns
  BY <1>7, <1>8
<1>10. Kept(all) = SubSeq(all, 1, size)
  BY DEF Kept
<1> HIDE DEF size
<1>11. /\ Kept(all) \in Seq(RunRecords) /\ Len(Kept(all)) = size
       /\ \A i \in 1..size : Kept(all)[i] = all[i]
  <2>1. size \in Int /\ 1 \in Int /\ \A i \in 1..size : all[i] \in RunRecords
    BY <1>7, <1>8, <1>9
  <2>2. /\ SubSeq(all, 1, size) \in Seq(RunRecords)
        /\ Len(SubSeq(all, 1, size)) = IF 1 <= size THEN size - 1 + 1 ELSE 0
        /\ \A i \in 1..(size - 1 + 1) : SubSeq(all, 1, size)[i] = all[1 + i - 1]
    BY <2>1, SubSeqProperties
  <2> HIDE DEF all
  <2> QED
    BY <2>2, <1>9, <1>10
<1> DEFINE kept == Kept(all)
<1>12. w.state = "held" /\ w.next = s.next + 1 /\ w.runs = kept
  BY <1>5
<1> HIDE DEF kept
<1>13. kept \in Seq(RunRecords) /\ Len(kept) = size /\ \A i \in 1..size : kept[i] = all[i]
  BY <1>11 DEF kept
<1>14. kept[1] = new /\ \A i \in 2..size : i - 1 \in 1..Len(s.runs) /\ kept[i] = s.runs[i - 1]
  <2>1. size \in Nat /\ size >= 1 /\ size <= 1 + Len(s.runs)
    BY <1>7, <1>8, <1>9
  <2>2. \A i \in 1..size : i \in 1..(1 + Len(s.runs)) /\ kept[i] = IF i <= 1 THEN new ELSE s.runs[i - 1]
    <3> SUFFICES ASSUME NEW i \in 1..size
                 PROVE  i \in 1..(1 + Len(s.runs)) /\ kept[i] = IF i <= 1 THEN new ELSE s.runs[i - 1]
      OBVIOUS
    <3>1. i \in 1..(1 + Len(s.runs))
      BY <2>1, <1>8
    <3>2. all[i] = IF i <= 1 THEN new ELSE s.runs[i - 1]
      BY <3>1, <1>7
    <3> QED
      BY <3>1, <3>2, <1>13
  <2>3. 1 \in 1..size /\ 1 <= 1
    BY <2>1
  <2>4. \A i \in 2..size : i \in 1..size /\ ~ (i <= 1) /\ i - 1 \in 1..Len(s.runs)
    BY <2>1, <1>8
  <2> QED
    BY <2>2, <2>3, <2>4
<1>15. size >= 1 /\ size <= MaxRuns
  BY <1>8, <1>9
<1> QED
  BY <1>12, <1>13, <1>14, <1>15 DEF w, new

(* A store stays good when the run of another upload is put in front.      *)
LEMMA SaveIsGood ==
  ASSUME NEW s, IsStore(s), NEW known, NEW done, Good(s, known, done),
         NEW run, OfUpload(run), run.id \notin done
  PROVE  Good(WithRun(s, run), known \cup CodesOf(WithRun(s, run)), done \cup {run.id})
<1> DEFINE w == WithRun(s, run)
           c == s.next
           new == [run EXCEPT !.code = c]
           codes == known \cup CodesOf(w)
           after == done \cup {run.id}
<1>1. run \in RunRecords /\ run.id \in Uploads /\ Traceable(run)
  BY DEF OfUpload
<1>2. s.runs \in Seq(RunRecords) /\ c \in Nat /\ c >= 1 /\ Distinct(s.runs) /\ Coded(s.runs, c)
  BY DEF IsStore
<1>3. \A i \in 1..Len(s.runs) : s.runs[i].id # run.id
  BY <1>1 DEF Good, Sound
<1>4. /\ w.state = "held" /\ w.next = c + 1
      /\ w.runs \in Seq(RunRecords) /\ Len(w.runs) <= MaxRuns /\ Len(w.runs) >= 1
      /\ w.runs[1] = new
      /\ \A i \in 2..Len(w.runs) : i - 1 \in 1..Len(s.runs) /\ w.runs[i] = s.runs[i - 1]
  BY <1>1, <1>3, FrontRun
<1> HIDE DEF c
<1>5. new.id = run.id /\ new.code = c /\ Traceable(new)
  BY <1>1, <1>2 DEF RunRecords, Traceable
<1> HIDE DEF w, new
<1>6. \A i \in 1..Len(w.runs) : i = 1 \/ i \in 2..Len(w.runs)
  BY <1>4
<1>7. Distinct(w.runs)
  <2>1. \A i \in 2..Len(w.runs) : w.runs[i].id # run.id
    BY <1>3, <1>4
  <2>2. ASSUME NEW i \in 2..Len(w.runs), NEW j \in 2..Len(w.runs), w.runs[i].id = w.runs[j].id
        PROVE  i = j
    <3>1. /\ i - 1 \in 1..Len(s.runs) /\ j - 1 \in 1..Len(s.runs)
          /\ s.runs[i - 1].id = s.runs[j - 1].id
      BY <2>2, <1>4
    <3>2. i - 1 = j - 1
      BY <3>1, <1>2 DEF Distinct
    <3> QED
      BY <3>2
  <2> QED
    BY <2>1, <2>2, <1>4, <1>5, <1>6 DEF Distinct
<1>8. \A i \in 2..Len(w.runs) : w.runs[i].code \in 1..(c - 1)
  BY <1>2, <1>4 DEF Coded
<1>9. Coded(w.runs, c + 1)
  <2>1. \A i \in 1..Len(w.runs) : w.runs[i].code \in 1..((c + 1) - 1)
    <3>1. (c + 1) - 1 = c /\ c \in 1..c /\ \A k \in 1..(c - 1) : k \in 1..c
      BY <1>2
    <3>2. \A i \in 1..Len(w.runs) : w.runs[i].code \in 1..c
      BY <1>4, <1>5, <1>6, <1>8, <3>1
    <3> QED
      BY <3>1, <3>2
  <2>2. ASSUME NEW i \in 2..Len(w.runs), NEW j \in 2..Len(w.runs), w.runs[i].code = w.runs[j].code
        PROVE  i = j
    <3>1. /\ i - 1 \in 1..Len(s.runs) /\ j - 1 \in 1..Len(s.runs)
          /\ s.runs[i - 1].code = s.runs[j - 1].code
      BY <2>2, <1>4
    <3>2. i - 1 = j - 1
      BY <3>1, <1>2 DEF Coded
    <3> QED
      BY <3>2
  <2>3. \A i \in 2..Len(w.runs) : w.runs[i].code # c
    BY <1>2, <1>8
  <2> QED
    BY <2>1, <2>2, <2>3, <1>4, <1>5, <1>6 DEF Coded
<1>10. IsStore(w)
  BY <1>2, <1>4, <1>7, <1>9 DEF IsStore
<1>11. ASSUME NEW x \in CodesOf(w)
       PROVE  \/ x.id = run.id /\ x.code = c
              \/ \E y \in CodesOf(s) : x.id = y.id /\ x.code = y.code
  <2>1. PICK i \in 1..Len(w.runs) : x.id = w.runs[i].id /\ x.code = w.runs[i].code
    BY <1>4, <1>11, CodesOfRuns
  <2>2. CASE i = 1
    BY <2>1, <2>2, <1>4, <1>5
  <2>3. CASE i \in 2..Len(w.runs)
    <3> DEFINE r == s.runs[i - 1]
               y == [id |-> r.id, code |-> r.code]
    <3>1. r \in Range(s.runs) /\ w.runs[i] = r
      BY <2>3, <1>2, <1>4 DEF Range
    <3>2. y \in CodesOf(s) /\ x.id = y.id /\ x.code = y.code
      BY <2>1, <3>1 DEF CodesOf
    <3> QED
      BY <3>2
  <2> QED
    BY <2>2, <2>3, <1>6
<1>12. /\ Identify(known \cup CodesOf(s))
       /\ \A x \in known \cup CodesOf(s) : x.code \in 1..(c - 1)
  BY StoreIdentifies DEF Good, c
<1>13. \A x \in known \cup CodesOf(s) : x.id # run.id
  <2>1. \A x \in known : x.id # run.id
    BY <1>1 DEF Good
  <2>2. \A x \in CodesOf(s) : x.id # run.id
    BY <1>2, <1>3, CodesOfRuns
  <2> QED
    BY <2>1, <2>2
<1>14. \A x \in codes :
         \/ x.id = run.id /\ x.code = c
         \/ \E y \in known \cup CodesOf(s) : x.id = y.id /\ x.code = y.code
  BY <1>11
<1>15. Identify(codes)
  <2>1. \A y \in known \cup CodesOf(s) : y.code # c
    BY <1>2, <1>12
  <2> HIDE DEF codes
  <2> QED
    BY <2>1, <1>12, <1>13, <1>14 DEF Identify
<1>16. \A x \in codes : x.code \in 1..((c + 1) - 1)
  <2> HIDE DEF codes
  <2> QED
    BY <1>2, <1>12, <1>14
<1>17. codes \cup CodesOf(w) = codes
  OBVIOUS
<1>18. Agrees(w, codes)
  BY <1>4, <1>10, <1>15, <1>16, <1>17 DEF Agrees
<1>19. Sound(w, after)
  <2> SUFFICES ASSUME NEW i \in 1..Len(w.runs), w.runs[i].id \in Uploads
               PROVE  w.runs[i].id \in after /\ Traceable(w.runs[i])
    BY <1>4 DEF Sound
  <2>1. CASE i = 1
    BY <2>1, <1>4, <1>5
  <2>2. CASE i \in 2..Len(w.runs)
    BY <2>2, <1>4 DEF Good, Sound
  <2> QED
    BY <2>1, <2>2, <1>6
<1>20. \A x \in codes : x.id \in Uploads => x.id \in after
  <2>1. \A x \in known : x.id \in Uploads => x.id \in after
    BY DEF Good
  <2>2. \A x \in CodesOf(s) : x.id \in Uploads => x.id \in after
    BY <1>2, CodesOfRuns DEF Good, Sound
  <2> HIDE DEF codes, after
  <2>3. run.id \in after
    BY DEF after
  <2> QED
    BY <2>1, <2>2, <2>3, <1>14
<1>21. IsFile(w)
  BY <1>2, <1>4, <1>7 DEF IsFile
<1> HIDE DEF codes, after
<1>22. Good(w, codes, after)
  BY <1>18, <1>19, <1>20, <1>21 DEF Good
<1> QED
  BY <1>22 DEF w, codes, after

------------------------------------------------------------------------------
\* The uploads whose run was saved.
Recorded == {u \in Uploads : place[u] = "recorded"}

\* What a request is made of.
Asked ==
  [provider : {"none"} \cup {c.provider : c \in Connections}, mode : Modes \cup {"none"}, start : Int]

MarketInductive ==
  /\ Good(file, issued, Recorded)
  /\ place \in [Uploads -> UploadPlaces] /\ asked \in [Uploads -> Asked]
  /\ \A u \in Uploads : IF place[u] = "asking" THEN asked[u].mode \in Modes \ {"mock"}
                                            ELSE asked[u] = NotAsked
  /\ connection \in Connections /\ mock \in SUBSET MockFlags /\ clock \in Int

(* A file that is lost is good, with no code known.                        *)
LEMMA LostIsGood ==
  ASSUME NEW done, NEW state \in {"absent", "broken"}
  PROVE  Good(Unreadable(state), {}, done)
<1>1. /\ Unreadable(state).state # "held" /\ Unreadable(state).runs = << >> /\ Len(<< >>) = 0
  BY DEF Unreadable
<1> QED
  BY <1>1 DEF Good, IsFile, Agrees, Sound

(* What a save leaves is good, with its upload done.                       *)
LEMMA SaveLeavesGood ==
  ASSUME NEW f, NEW known, NEW done, Good(f, known, done), NEW run, OfUpload(run), run.id \notin done,
         NEW outcome \in save(f, known, run)
  PROVE  Good(outcome.file, outcome.issued, done \cup {run.id})
<1>1. PICK read \in Reads(f, known) :
        outcome = [file |-> WithRun(read.store, run),
                   issued |-> read.issued \cup CodesOf(WithRun(read.store, run))]
  BY DEF save
<1>2. IsStore(read.store) /\ Good(read.store, read.issued, done)
  <2>1. \/ read = [store |-> readStore(f), issued |-> known]
        \/ read = [store |-> Empty, issued |-> {}]
    BY DEF Reads
  <2>2. CASE read = [store |-> readStore(f), issued |-> known]
    <3>1. read.store = readStore(f) /\ read.issued = known
      BY <2>2
    <3> QED
      BY <3>1, ReadIsGood
  <2>3. CASE read = [store |-> Empty, issued |-> {}]
    <3>1. read.store = Empty /\ read.issued = {}
      BY <2>3
    <3> QED
      BY <3>1, ReadOfLost
  <2> QED
    BY <2>1, <2>2, <2>3
<1>3. Good(WithRun(read.store, run), read.issued \cup CodesOf(WithRun(read.store, run)), done \cup {run.id})
  BY <1>2, SaveIsGood
<1>4. /\ outcome.file = WithRun(read.store, run)
      /\ outcome.issued = read.issued \cup CodesOf(WithRun(read.store, run))
  BY <1>1
<1> QED
  BY <1>3, <1>4

(* What a save that throws leaves is good, with the same uploads done.     *)
LEMMA FailureLeavesGood ==
  ASSUME NEW f, NEW known, NEW done, Good(f, known, done), NEW outcome \in FailedSave(f, known)
  PROVE  Good(outcome.file, outcome.issued, done)
<1>1. \/ outcome.file = f /\ outcome.issued = known
      \/ outcome.file = FileAfterRead(f) /\ outcome.issued = known
      \/ outcome.file = Unreadable("broken") /\ outcome.issued = {}
  BY DEF FailedSave
<1> QED
  BY <1>1, ReadIsGood, LostIsGood

\* An upload ends: with its run in the file, or without.
Ends(u) ==
  /\ Good(file', issued', Recorded')
  /\ \E end \in {"recorded", "rejected"} : place' = [place EXCEPT ![u] = end]

(* Who is done when an upload ends.                                        *)
LEMMA RecordedAfter ==
  ASSUME place \in [Uploads -> UploadPlaces], NEW u \in Uploads
  PROVE  /\ place' = [place EXCEPT ![u] = "recorded"] => Recorded' = Recorded \cup {u}
         /\ \A end \in UploadPlaces :
              place[u] # "recorded" /\ end # "recorded" /\ place' = [place EXCEPT ![u] = end]
                => Recorded' = Recorded
BY DEF Recorded

(* The run of an upload, as it is saved.                                   *)
LEMMA RunIsTyped ==
  ASSUME NEW u \in Uploads, NEW request, request.mode \in Modes, request.start \in Int,
         NEW status \in {"completed", "failed"}, NEW result \in [grounded : BOOLEAN, priced : BOOLEAN],
         request.mode = "plain_schema" /\ result.priced => result.grounded
  PROVE  OfUpload(Run(u, request, status, result)) /\ Run(u, request, status, result).id = u
<1> DEFINE run == Run(u, request, status, result)
<1>1. run = [id |-> u, code |-> 0, createdAt |-> request.start, valid |-> TRUE, status |-> status,
             mode |-> request.mode, grounded |-> result.grounded, priced |-> result.priced]
  BY DEF Run
<1>2. u \in DOMAIN IdOrder /\ result.grounded \in BOOLEAN /\ result.priced \in BOOLEAN
  BY IdsAssumption
<1>3. run \in RunRecords
  BY <1>1, <1>2 DEF RunRecords
<1>4. run.id = u /\ run.mode = request.mode /\ run.grounded = result.grounded /\ run.priced = result.priced
  BY <1>1
<1> HIDE DEF run
<1>5. Traceable(run)
  BY <1>4 DEF Traceable
<1>6. OfUpload(run)
  BY <1>3, <1>4, <1>5 DEF OfUpload
<1> QED
  BY <1>4, <1>6 DEF run

(* A failed upload leaves a good file.                                     *)
LEMMA SaveFailedEnds ==
  ASSUME place \in [Uploads -> UploadPlaces], NEW u \in Uploads, place[u] # "recorded",
         NEW f, NEW known, Good(f, known, Recorded),
         NEW request, request.mode \in Modes, request.start \in Int,
         SaveFailed(u, request, f, known)
  PROVE  Ends(u)
<1> DEFINE run == Run(u, request, "failed", NoResult)
<1>1. OfUpload(run) /\ run.id = u
  <2>1. NoResult \in [grounded : BOOLEAN, priced : BOOLEAN] /\ ~ NoResult.priced
    BY DEF NoResult
  <2> QED
    BY <2>1, RunIsTyped
<1>2. run.id \notin Recorded
  BY <1>1 DEF Recorded
<1> HIDE DEF run
<1>3. ASSUME NEW outcome \in save(f, known, run), Leaves(outcome),
             place' = [place EXCEPT ![u] = "recorded"]
      PROVE  Ends(u)
  <2>1. Good(outcome.file, outcome.issued, Recorded \cup {u})
    BY <1>1, <1>2, SaveLeavesGood
  <2>2. file' = outcome.file /\ issued' = outcome.issued /\ Recorded' = Recorded \cup {u}
    BY <1>3, RecordedAfter DEF Leaves
  <2> QED
    BY <2>1, <2>2, <1>3 DEF Ends
<1>4. ASSUME NEW outcome \in FailedSave(f, known), Leaves(outcome),
             place' = [place EXCEPT ![u] = "rejected"]
      PROVE  Ends(u)
  <2>1. Good(outcome.file, outcome.issued, Recorded)
    BY FailureLeavesGood
  <2>2. file' = outcome.file /\ issued' = outcome.issued /\ Recorded' = Recorded
    BY <1>4, RecordedAfter DEF Leaves, UploadPlaces
  <2> QED
    BY <2>1, <2>2, <1>4 DEF Ends
<1> QED
  BY <1>3, <1>4 DEF SaveFailed, run

(* So does one that is completed, or whose record could not be written.    *)
LEMMA SaveCompletedEnds ==
  ASSUME place \in [Uploads -> UploadPlaces], NEW u \in Uploads, place[u] # "recorded",
         Good(file, issued, Recorded),
         NEW request, request.mode \in Modes, request.start \in Int,
         NEW result \in [grounded : BOOLEAN, priced : BOOLEAN],
         request.mode = "plain_schema" /\ result.priced => result.grounded,
         SaveCompleted(u, request, result)
  PROVE  Ends(u)
<1> DEFINE run == Run(u, request, "completed", result)
<1>1. OfUpload(run) /\ run.id = u
  BY RunIsTyped
<1>2. run.id \notin Recorded
  BY <1>1 DEF Recorded
<1> HIDE DEF run
<1>3. ASSUME NEW outcome \in save(file, issued, run), Leaves(outcome),
             place' = [place EXCEPT ![u] = "recorded"]
      PROVE  Ends(u)
  <2>1. Good(outcome.file, outcome.issued, Recorded \cup {u})
    BY <1>1, <1>2, SaveLeavesGood
  <2>2. file' = outcome.file /\ issued' = outcome.issued /\ Recorded' = Recorded \cup {u}
    BY <1>3, RecordedAfter DEF Leaves
  <2> QED
    BY <2>1, <2>2, <1>3 DEF Ends
<1>4. ASSUME NEW outcome \in FailedSave(file, issued),
             SaveFailed(u, request, outcome.file, outcome.issued)
      PROVE  Ends(u)
  <2>1. Good(outcome.file, outcome.issued, Recorded)
    BY FailureLeavesGood
  <2> QED
    BY <2>1, <1>4, SaveFailedEnds
<1> QED
  BY <1>3, <1>4 DEF SaveCompleted, run

(* The uploads keep their types when one of them ends, its request with it. *)
LEMMA EndKeeps ==
  ASSUME MarketInductive, NEW u \in Uploads, Ends(u),
         asked' = [asked EXCEPT ![u] = NotAsked],
         UNCHANGED <<connection, mock>>, clock' \in Int
  PROVE  MarketInductive'
<1>1. PICK end \in {"recorded", "rejected"} : place' = [place EXCEPT ![u] = end]
  BY DEF Ends
<1>2. end \in UploadPlaces /\ end # "asking" /\ NotAsked \in Asked
  BY LimitsAssumption DEF UploadPlaces, NotAsked, Asked
<1>3. place' \in [Uploads -> UploadPlaces] /\ asked' \in [Uploads -> Asked]
  BY <1>1, <1>2 DEF MarketInductive
<1>4. ASSUME NEW v \in Uploads
      PROVE  IF place'[v] = "asking" THEN asked'[v].mode \in Modes \ {"mock"} ELSE asked'[v] = NotAsked
  <2>1. CASE v = u
    BY <2>1, <1>1, <1>2 DEF MarketInductive
  <2>2. CASE v # u
    <3>1. place'[v] = place[v] /\ asked'[v] = asked[v]
      BY <2>2, <1>1 DEF MarketInductive
    <3> QED
      BY <3>1 DEF MarketInductive
  <2> QED
    BY <2>1, <2>2
<1> QED
  BY <1>3, <1>4 DEF MarketInductive, Ends

(* An upload that begins asks a provider, or ends at once.                 *)
LEMMA UploadInductive ==
  ASSUME MarketInductive, NEW u \in Uploads, processUpload(u)
  PROVE  MarketInductive'
<1> DEFINE request == [provider |-> connection.provider, start |-> clock',
                       mode |-> FirstMode(connection.provider)]
<1>1. /\ place[u] = "new" /\ clock' = clock + 1 /\ clock' \in Int
      /\ UNCHANGED <<connection, mock, stops>>
  BY DEF processUpload, MarketInductive
<1>2. connection.provider \in {c.provider : c \in Connections}
  BY DEF MarketInductive
<1>3. /\ FirstMode(connection.provider) \in Modes
      /\ mock = {} => FirstMode(connection.provider) # "mock"
  BY DEF FirstMode, Modes
<1>4. request.mode \in Modes /\ request.start \in Int /\ request \in Asked
  BY <1>1, <1>2, <1>3 DEF Asked
<1>5. request.mode = FirstMode(connection.provider)
  OBVIOUS
<1>6. asked[u] = NotAsked
  BY <1>1 DEF MarketInductive
<1>7. \/ mock # {} /\ SaveCompleted(u, request, NoResult) /\ asked' = asked
      \/ mock = {} /\ SaveFailed(u, request, file, issued) /\ asked' = asked
      \/ /\ mock = {} /\ place' = [place EXCEPT ![u] = "asking"]
         /\ asked' = [asked EXCEPT ![u] = request]
         /\ UNCHANGED <<file, issued>>
  BY DEF processUpload
<1> HIDE DEF request
<1>8. ASSUME asked' = asked PROVE asked' = [asked EXCEPT ![u] = NotAsked]
  BY <1>6, <1>8 DEF MarketInductive
<1>9. CASE mock # {} /\ SaveCompleted(u, request, NoResult) /\ asked' = asked
  <2>1. NoResult \in [grounded : BOOLEAN, priced : BOOLEAN] /\ ~ NoResult.priced
    BY DEF NoResult
  <2>2. Ends(u)
    BY <2>1, <1>1, <1>4, <1>9, SaveCompletedEnds DEF MarketInductive
  <2> QED
    BY <2>2, <1>1, <1>8, <1>9, EndKeeps
<1>10. CASE mock = {} /\ SaveFailed(u, request, file, issued) /\ asked' = asked
  <2>1. Ends(u)
    BY <1>1, <1>4, <1>10, SaveFailedEnds DEF MarketInductive
  <2> QED
    BY <2>1, <1>1, <1>8, <1>10, EndKeeps
<1>11. CASE /\ mock = {} /\ place' = [place EXCEPT ![u] = "asking"]
            /\ asked' = [asked EXCEPT ![u] = request]
            /\ UNCHANGED <<file, issued>>
  <2>1. Recorded' = Recorded
    BY <1>1, <1>11, RecordedAfter DEF MarketInductive, UploadPlaces
  <2>2. Good(file, issued, Recorded)'
    BY <2>1, <1>11 DEF MarketInductive
  <2>3. place' \in [Uploads -> UploadPlaces] /\ asked' \in [Uploads -> Asked]
    BY <1>4, <1>11 DEF MarketInductive, UploadPlaces
  <2>4. ASSUME NEW v \in Uploads
        PROVE  IF place'[v] = "asking" THEN asked'[v].mode \in Modes \ {"mock"} ELSE asked'[v] = NotAsked
    <3>1. CASE v = u
      BY <3>1, <1>3, <1>4, <1>5, <1>11 DEF MarketInductive
    <3>2. CASE v # u
      <4>1. place'[v] = place[v] /\ asked'[v] = asked[v]
        BY <3>2, <1>11 DEF MarketInductive
      <4> QED
        BY <4>1 DEF MarketInductive
    <3> QED
      BY <3>1, <3>2
  <2> QED
    BY <2>2, <2>3, <2>4, <1>1 DEF MarketInductive
<1> QED
  BY <1>7, <1>9, <1>10, <1>11

(* So does one that cannot be segmented.                                   *)
LEMMA SegmentationInductive ==
  ASSUME MarketInductive, NEW u \in Uploads, SegmentationFails(u)
  PROVE  MarketInductive'
<1>1. /\ place[u] = "new" /\ place' = [place EXCEPT ![u] = "rejected"]
      /\ UNCHANGED <<file, asked, connection, mock, clock, stops, issued>>
  BY DEF SegmentationFails
<1>2. Recorded' = Recorded
  BY <1>1, RecordedAfter DEF MarketInductive, UploadPlaces
<1>3. Ends(u)
  <2>1. Good(file', issued', Recorded')
    BY <1>1, <1>2 DEF MarketInductive
  <2> QED
    BY <2>1, <1>1 DEF Ends
<1>4. asked' = [asked EXCEPT ![u] = NotAsked] /\ clock' \in Int
  BY <1>1 DEF MarketInductive
<1> QED
  BY <1>1, <1>3, <1>4, EndKeeps

(* A refused mode is followed by another, none of them the mock.           *)
LEMMA RefusalInductive ==
  ASSUME MarketInductive, NEW u \in Uploads, GeminiRefusesMode(u)
  PROVE  MarketInductive'
<1>1. /\ place[u] = "asking" /\ asked[u].mode \in DOMAIN NextMode
      /\ asked' = [asked EXCEPT ![u].mode = NextMode[@]]
      /\ UNCHANGED <<file, place, connection, mock, clock, stops, issued>>
  BY DEF GeminiRefusesMode
<1> DEFINE old == asked[u]
           mode == NextMode[old.mode]
           new == [old EXCEPT !.mode = mode]
<1>2. mode \in Modes \ {"mock"}
  BY <1>1 DEF NextMode, Modes
<1>3. old \in Asked
  BY DEF MarketInductive
<1>4. asked' = [asked EXCEPT ![u] = new]
  BY <1>1
<1> HIDE DEF old, mode
<1>5. new \in Asked /\ new.mode = mode
  BY <1>2, <1>3 DEF Asked
<1> HIDE DEF new
<1>6. asked' \in [Uploads -> Asked]
  BY <1>4, <1>5 DEF MarketInductive
<1>7. ASSUME NEW v \in Uploads
      PROVE  IF place'[v] = "asking" THEN asked'[v].mode \in Modes \ {"mock"} ELSE asked'[v] = NotAsked
  <2>1. CASE v = u
    BY <2>1, <1>1, <1>2, <1>4, <1>5 DEF MarketInductive
  <2>2. CASE v # u
    <3>1. place'[v] = place[v] /\ asked'[v] = asked[v]
      BY <2>2, <1>1, <1>4 DEF MarketInductive
    <3> QED
      BY <3>1 DEF MarketInductive
  <2> QED
    BY <2>1, <2>2
<1>8. Recorded' = Recorded
  BY <1>1 DEF Recorded
<1> QED
  BY <1>1, <1>6, <1>7, <1>8 DEF MarketInductive

(* An answer ends an upload; without a search and a source it shows no price. *)
LEMMA AnswerInductive ==
  ASSUME MarketInductive, NEW u \in Uploads, ProviderAnswers(u)
  PROVE  MarketInductive'
<1> DEFINE Answers == [grounded : BOOLEAN, priced : BOOLEAN]
           request == asked[u]
<1>1. PICK answer \in Answers : SaveCompleted(u, request, sanitized(request.mode, answer))
  <2>1. PICK answer \in [grounded : IF request.provider = "gemini" THEN BOOLEAN ELSE {FALSE},
                         priced : BOOLEAN] :
               SaveCompleted(u, request, sanitized(request.mode, answer))
    BY DEF ProviderAnswers
  <2>2. answer \in Answers
    BY <2>1
  <2> QED
    BY <2>1, <2>2
<1>2. /\ place[u] = "asking" /\ asked' = [asked EXCEPT ![u] = NotAsked]
      /\ UNCHANGED <<connection, mock, clock, stops>>
  BY DEF ProviderAnswers
<1>3. request \in Asked /\ request.mode \in Modes
  BY <1>2 DEF MarketInductive
<1>4. request.start \in Int
  BY <1>3 DEF Asked
<1> HIDE DEF request
<1> DEFINE result == sanitized(request.mode, answer)
<1>5. /\ result \in Answers
      /\ request.mode = "plain_schema" /\ result.priced => result.grounded
  <2>1. CASE request.mode = "plain_schema" /\ ~ answer.grounded
    <3>1. result = [answer EXCEPT !.priced = FALSE]
      BY <2>1 DEF sanitized
    <3>2. result = [grounded |-> answer.grounded, priced |-> FALSE]
      BY <3>1
    <3>3. result.priced = FALSE /\ result \in Answers
      BY <3>2
    <3> QED
      BY <3>3
  <2>2. CASE ~ (request.mode = "plain_schema" /\ ~ answer.grounded)
    <3>1. result = answer
      BY <2>2 DEF sanitized
    <3> QED
      BY <3>1, <2>2
  <2> QED
    BY <2>1, <2>2
<1> HIDE DEF result
<1>6. SaveCompleted(u, request, result)
  BY <1>1 DEF result
<1>7. Ends(u)
  BY <1>2, <1>3, <1>4, <1>5, <1>6, SaveCompletedEnds DEF MarketInductive
<1>8. clock' \in Int
  BY <1>2 DEF MarketInductive
<1> QED
  BY <1>2, <1>7, <1>8, EndKeeps

(* So does a request that fails.                                           *)
LEMMA FailureInductive ==
  ASSUME MarketInductive, NEW u \in Uploads, ProviderFails(u)
  PROVE  MarketInductive'
<1> DEFINE request == asked[u]
<1>1. /\ place[u] = "asking" /\ asked' = [asked EXCEPT ![u] = NotAsked]
      /\ UNCHANGED <<connection, mock, clock, stops>>
      /\ SaveFailed(u, request, file, issued)
  BY DEF ProviderFails
<1>2. request \in Asked /\ request.mode \in Modes
  BY <1>1 DEF MarketInductive
<1>3. request.start \in Int
  BY <1>2 DEF Asked
<1> HIDE DEF request
<1>4. Ends(u)
  BY <1>1, <1>2, <1>3, SaveFailedEnds DEF MarketInductive
<1>5. clock' \in Int
  BY <1>1 DEF MarketInductive
<1> QED
  BY <1>1, <1>4, <1>5, EndKeeps

(* A list shows the codes that the file then has, if it can be written.    *)
LEMMA ListInductive ==
  ASSUME MarketInductive, listRuns
  PROVE  MarketInductive'
<1>1. UNCHANGED <<place, asked, connection, mock, clock, stops>>
  BY DEF listRuns
<1>2. Recorded' = Recorded
  BY <1>1 DEF Recorded
<1>3. Good(file', issued', Recorded)
  <2>1. CASE file' = FileAfterRead(file) /\ issued' = issued \cup CodesOf(readStore(file))
    <3> DEFINE s == readStore(file)
               codes == issued \cup CodesOf(s)
    <3>1. IsStore(s) /\ Good(s, issued, Recorded) /\ Good(file', issued, Recorded)
      BY <2>1, ReadIsGood DEF MarketInductive
    <3>2. Identify(codes) /\ \A x \in codes : x.code \in 1..(s.next - 1)
      BY <3>1, StoreIdentifies DEF Good
    <3>3. \A x \in codes : x.id \in Uploads => x.id \in Recorded
      <4>1. s.runs \in Seq(RunRecords) /\ Sound(s, Recorded)
        BY <3>1 DEF IsStore, Good
      <4>2. \A x \in CodesOf(s) : x.id \in Uploads => x.id \in Recorded
        BY <4>1, CodesOfRuns DEF Sound
      <4> QED
        BY <4>2, <3>1 DEF Good
    <3>4. CASE file.state = "held"
      <4>1. file' = s
        BY <2>1, <3>4 DEF FileAfterRead
      <4>2. codes \cup CodesOf(s) = codes
        OBVIOUS
      <4>3. Agrees(s, codes)
        BY <4>2, <3>1, <3>2 DEF Agrees
      <4> HIDE DEF s, codes
      <4>4. Good(s, codes, Recorded)
        BY <4>3, <3>1, <3>3 DEF Good
      <4> QED
        BY <4>1, <4>4, <2>1 DEF codes, s
    <3>5. CASE file.state # "held"
      <4>1. s.runs = << >>
        BY <3>5 DEF readStore, Empty
      <4>2. codes = issued
        BY <4>1 DEF CodesOf, Range
      <4> QED
        BY <4>2, <3>1, <2>1
    <3> QED
      BY <3>4, <3>5
  <2>2. CASE \E outcome \in FailedSave(file, issued) : Leaves(outcome)
    <3>1. PICK outcome \in FailedSave(file, issued) : Leaves(outcome)
      BY <2>2
    <3> QED
      BY <3>1, FailureLeavesGood DEF Leaves, MarketInductive
  <2> QED
    BY <2>1, <2>2 DEF listRuns
<1> QED
  BY <1>1, <1>2, <1>3 DEF MarketInductive

(* A stop forgets the requests, and may lose the file.                     *)
LEMMA StopInductive ==
  ASSUME MarketInductive, Stop
  PROVE  MarketInductive'
<1>1. /\ place' = [u \in Uploads |-> IF place[u] = "asking" THEN "lost" ELSE place[u]]
      /\ asked' = [u \in Uploads |-> NotAsked]
      /\ mock' \in SUBSET MockFlags /\ UNCHANGED <<connection, clock>>
  BY DEF Stop
<1>2. Recorded' = Recorded
  BY <1>1 DEF Recorded
<1>3. Good(file', issued', Recorded)
  <2>1. CASE UNCHANGED <<file, issued>>
    BY <2>1 DEF MarketInductive
  <2>2. CASE file' = Unreadable("broken") /\ issued' = {}
    BY <2>2, LostIsGood
  <2> QED
    BY <2>1, <2>2 DEF Stop
<1>4. place' \in [Uploads -> UploadPlaces] /\ \A u \in Uploads : place'[u] # "asking"
  BY <1>1 DEF MarketInductive, UploadPlaces
<1>5. asked' \in [Uploads -> Asked] /\ \A u \in Uploads : asked'[u] = NotAsked
  BY <1>1, LimitsAssumption DEF NotAsked, Asked
<1> QED
  BY <1>1, <1>2, <1>3, <1>4, <1>5 DEF MarketInductive

(* It holds of the file of an earlier version, and where there is none.    *)
LEMMA MarketInitInductive == MarketInit => MarketInductive
<1> SUFFICES ASSUME MarketInit PROVE MarketInductive
  OBVIOUS
<1>1. Recorded = {} /\ issued = {}
  BY DEF MarketInit, Recorded
<1>2. Good(file, {}, {})
  <2>1. CASE file \in LegacyFiles
    <3>1. /\ file.state = "held" /\ file.runs \in Seq(RunRecords) /\ file.next \in Nat
          /\ \A i \in 1..Len(file.runs) : file.runs[i].id \notin Uploads
          /\ Distinct(file.runs)
      BY <2>1, LegacyFilesAssumption DEF Distinct
    <3> QED
      BY <3>1 DEF Good, IsFile, Agrees, Sound
  <2>2. CASE file = Unreadable("absent")
    BY <2>2, LostIsGood
  <2> QED
    BY <2>1, <2>2 DEF MarketInit
<1>3. NotAsked \in Asked /\ Start \in Int
  BY LimitsAssumption DEF NotAsked, Asked
<1> QED
  BY <1>1, <1>2, <1>3 DEF MarketInit, MarketInductive, UploadPlaces

(* Every step keeps it.                                                    *)
LEMMA MarketNextInductive == MarketInductive /\ [MarketNext]_marketVars => MarketInductive'
<1> SUFFICES ASSUME MarketInductive, [MarketNext]_marketVars PROVE MarketInductive'
  OBVIOUS
<1>1. CASE \E u \in Uploads : \/ processUpload(u) \/ SegmentationFails(u) \/ GeminiRefusesMode(u)
                             \/ ProviderAnswers(u) \/ ProviderFails(u)
  BY <1>1, UploadInductive, SegmentationInductive, RefusalInductive, AnswerInductive, FailureInductive
<1>2. CASE listRuns
  BY <1>2, ListInductive
<1>3. CASE saveProviderConnection
  BY <1>3 DEF saveProviderConnection, MarketInductive, Recorded
<1>4. CASE applyStoredProviderSettingsToProcessEnv
  BY <1>4 DEF applyStoredProviderSettingsToProcessEnv, MarketInductive, Recorded
<1>5. CASE Stop
  BY <1>5, StopInductive
<1>6. CASE UNCHANGED marketVars
  BY <1>6 DEF marketVars, MarketInductive, Recorded
<1> QED
  BY <1>1, <1>2, <1>3, <1>4, <1>5, <1>6 DEF MarketNext

(* So it holds in every reachable state.                                   *)
LEMMA MarketAlwaysInductive == MarketSpec => []MarketInductive
<1>1. MarketInit => MarketInductive
  BY MarketInitInductive
<1>2. MarketInductive /\ [MarketNext]_marketVars => MarketInductive'
  BY MarketNextInductive
<1> QED
  BY <1>1, <1>2, PTL DEF MarketSpec

(* The runs of a file are those at its positions.                          *)
LEMMA FileIsRead ==
  ASSUME MarketInductive, NEW run \in Range(file.runs)
  PROVE  \E i \in 1..Len(file.runs) : run = file.runs[i]
<1>1. file.runs \in Seq(RunRecords) \/ file.runs = << >>
  BY DEF MarketInductive, Good, IsFile
<1> QED
  BY <1>1 DEF Range

(* The state of the market analysis keeps its types, for any uploads, any  *)
(* file of an earlier version and any limits: a request is under way only  *)
(* in a mode of its provider, a stored run is of an upload that is done,   *)
(* and the file holds no more runs than it should once one was saved.      *)
THEOREM MarketTypesHold == MarketSpec => []MarketTypeOK
<1>1. MarketInductive => MarketTypeOK
  <2> SUFFICES ASSUME MarketInductive PROVE MarketTypeOK
    OBVIOUS
  <2>1. ASSUME NEW run \in Range(file.runs), run.id \in Uploads
        PROVE  place[run.id] = "recorded" /\ Len(file.runs) <= MaxRuns
    <3>1. PICK i \in 1..Len(file.runs) : run = file.runs[i]
      BY FileIsRead
    <3> QED
      BY <3>1, <2>1 DEF MarketInductive, Good, Sound, Recorded
  <2> QED
    BY <2>1 DEF MarketInductive, MarketTypeOK
<1> QED
  BY <1>1, MarketAlwaysInductive, PTL

(* As long as the file is not lost, a project code names one run and a run *)
(* keeps its code, whatever codes the file of an earlier version lacks or  *)
(* repeats and however uploads, lists, repairs, failed writes and stops    *)
(* follow each other.                                                      *)
THEOREM CodesAreStable == MarketSpec => []CodesIdentifyRuns
<1>1. MarketInductive => CodesIdentifyRuns
  BY DEF MarketInductive, Good, Agrees, Identify, CodesIdentifyRuns
<1> QED
  BY <1>1, MarketAlwaysInductive, PTL

(* A stored run that was answered without search shows no market prices    *)
(* unless it names its sources, for any answers and any order of refusals. *)
THEOREM PricesAreTraceable == MarketSpec => []BenchmarkIsTraceable
<1>1. MarketInductive => BenchmarkIsTraceable
  <2> SUFFICES ASSUME MarketInductive, NEW run \in Range(file.runs),
                      run.id \in Uploads, run.mode = "plain_schema" /\ run.priced
               PROVE  run.grounded
    BY DEF BenchmarkIsTraceable
  <2>1. PICK i \in 1..Len(file.runs) : run = file.runs[i]
    BY FileIsRead
  <2> QED
    BY <2>1 DEF MarketInductive, Good, Sound, Traceable
<1> QED
  BY <1>1, MarketAlwaysInductive, PTL
===============================================================================
