----------------------------- MODULE DocumentPlan -----------------------------
(***************************************************************************)
(* The synchronous part of a document run between the detection and the    *)
(* first batch (orchestrator.run): select, fragment, batch.  The same      *)
(* three steps are taken again, on the stored segments, when a batch is    *)
(* reprocessed.  Documents, ranges, providers and batch sizes are chosen   *)
(* in the initial state; the properties relate the batches to them.  Names *)
(* that every specification has bear the prefix Plan, for the modules that *)
(* extend this one and another.                                            *)
(***************************************************************************)
EXTENDS BatchPlanning

CONSTANTS
  Documents,   (* the segment sequences a document may be cut into          *)
  Detections,  (* the sets of ranges detectOfficialBlock may select         *)
  Providers,   (* of the extraction task                                    *)
  BatchSizes   (* processingOptions.batch_size                              *)

ASSUME ProvidersAssumption == Providers \subseteq {"openai", "gemini", "anthropic", "deepseek"}
ASSUME BatchSizesAssumption == BatchSizes \subseteq Int

\* A line is at its place in the document: no two lines are equal.
ASSUME DocumentsAssumption ==
  \A document \in Documents :
    /\ document \in Seq(Range(document))
    /\ \A i \in 1..Len(document) :
         /\ document[i].segment_index \in Int
         /\ document[i].lines \in Seq(Range(document[i].lines))
         /\ \A line \in Range(document[i].lines) : line.chars \in Int
    /\ \A i, j \in 1..Len(document) :
         \A k \in 1..Len(document[i].lines), l \in 1..Len(document[j].lines) :
           document[i].lines[k] = document[j].lines[l] => i = j /\ k = l

ASSUME DetectionsAssumption ==
  \A detected \in Detections : \A r \in detected : r.start \in Int /\ r.end \in Int

VARIABLES
  segments, ranges, provider, batchSize,  (* the inputs                    *)
  step,                                   (* what was done last            *)
  selected, fragmentation, batches        (* the results, once computed    *)

inputs == <<segments, ranges, provider, batchSize>>

planVars == <<inputs, step, selected, fragmentation, batches>>

NoFragmentation == [candidateSegments |-> << >>, discardedLines |-> << >>]

PlanInit ==
  /\ segments \in Documents
  /\ ranges \in Detections
  /\ provider \in Providers
  /\ batchSize \in BatchSizes
  /\ step = "detected"
  /\ selected = << >>
  /\ fragmentation = NoFragmentation
  /\ batches = << >>

Select ==
  /\ step = "detected"
  /\ step' = "selected"
  /\ selected' = selectSegments(segments, ranges)
  /\ UNCHANGED <<inputs, fragmentation, batches>>

Fragment ==
  /\ step = "selected"
  /\ step' = "fragmented"
  /\ fragmentation' = fragment(selected)
  /\ UNCHANGED <<inputs, selected, batches>>

Build ==
  /\ step = "fragmented"
  /\ step' = "planned"
  /\ batches' = buildBatches(candidates(selected, fragmentation), provider, batchSize)
  /\ UNCHANGED <<inputs, selected, fragmentation>>

PlanNext == Select \/ Fragment \/ Build

PlanSpec == PlanInit /\ [][PlanNext]_planVars
------------------------------------------------------------------------------
\* The segment that what is batched was cut from, or is.
parentOf(s) == IF fragmentation.candidateSegments # << >> THEN s.segment_id[1] ELSE s.segment_id

\* The lines that the batches send to a provider, in the order they are sent.
SentLines ==
  LET sent == FlattenSeq([n \in 1..Len(batches) |-> batches[n].segments])
  IN  FlattenSeq([i \in 1..Len(sent) |-> Entries(parentOf(sent[i]), sent[i].lines)])

SelectedLines == DocumentLines(selected)

(* The types of the results.                                               *)
PlanTypeOK ==
  /\ step \in {"detected", "selected", "fragmented", "planned"}
  /\ segments \in Documents /\ ranges \in Detections
  /\ \A i \in 1..Len(fragmentation.candidateSegments) :
       fragmentation.candidateSegments[i].segment_index = i - 1
  /\ \A n \in 1..Len(batches) : batches[n].batch_id = n

(* No line of the selected ranges is lost, sent twice or moved: what the   *)
(* batches send is, in document order, every line that is not blank and    *)
(* not traced as discarded; and the whole of the selected segments when    *)
(* the fragmenter recognised no item in them.                              *)
EveryLineIsPlanned ==
  step = "planned" =>
    IF fragmentation.candidateSegments = << >>
    THEN SentLines = SelectedLines
    ELSE LET discarded == {d.line : d \in Range(fragmentation.discardedLines)}
         IN  SentLines = Keeping(SelectedLines, {entry \in Range(SelectedLines) :
               entry[2].kind # "blank" /\ entry[2] \notin discarded})

(* The detected ranges decide what is read, and only they do: every        *)
(* segment that lies in one is sent, both ends of a range included, and    *)
(* the first line of an item in it is never discarded.                     *)
DetectedRangesAreRead ==
  step = "planned" => \A i \in 1..Len(segments) : \A k \in 1..Len(segments[i].lines) :
    LET s == segments[i]
        line == s.lines[k]
        detected == ranges = {} \/ \E r \in ranges : s.segment_index \in r.start..r.end
    IN  line.kind = "start" =>
          (<<s.segment_id, line>> \in Range(SentLines) <=> detected)

(* No batch passes the limits of its provider, its number of segments and, *)
(* for Gemini, the characters of a batch of several; and none is smaller   *)
(* than it must be: the first segment of the next one would not have       *)
(* fitted.  Every batch costs two provider calls.                          *)
BatchesFillTheirBounds ==
  LET size == resolveEffectiveBatchSize(provider, batchSize)
      long(s) == Chars(s) >= GEMINI_LONG_SEGMENT_THRESHOLD
  IN  /\ \A n \in 1..Len(batches) :
           LET b == batches[n].segments
           IN  /\ Len(b) \in 1..size
               /\ provider = "gemini" /\ Len(b) > 1 => AllChars(b) <= GEMINI_BATCH_CHAR_BUDGET
      /\ \A n \in 1..(Len(batches) - 1) :
           LET b == batches[n].segments
               following == batches[n + 1].segments[1]
           IN  \/ Len(b) = size
               \/ /\ provider = "gemini"
                  /\ \/ long(following) \/ long(b[1])
                     \/ AllChars(b) + Chars(following) > GEMINI_BATCH_CHAR_BUDGET
==============================================================================
