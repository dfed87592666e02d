---------------------------- MODULE BatchPlanning ----------------------------
(***************************************************************************)
(* From the segments of a document to the batches its provider calls are   *)
(* made of: BasicBatchPlanner and PhysicalSegmentFragmenter, which have no *)
(* state of their own.  A segment is a record [segment_id, segment_index,  *)
(* lines]; a line is a record [at, kind, chars], kind being the branch the *)
(* fragmenter takes for it: "header", "note", "start" (of an item),        *)
(* "other" or "blank".                                                     *)
(***************************************************************************)
EXTENDS Arrays

GEMINI_EFFECTIVE_BATCH_CAP == 4
GEMINI_BATCH_CHAR_BUDGET == 1300
GEMINI_LONG_SEGMENT_THRESHOLD == 550

\* The largest batch_size the planner heeds.
MaxRequestedSize == 20

\* raw_text.length: the lines and the line breaks between them.
Chars(segment) ==
  Len(segment.lines) - 1 + Total([k \in 1..Len(segment.lines) |-> segment.lines[k].chars])

AllChars(segments) == Total([i \in 1..Len(segments) |-> Chars(segments[i])])

boundedSize(requested) ==
  LET atLeastOne == IF requested < 1 THEN 1 ELSE requested
  IN  IF atLeastOne > MaxRequestedSize THEN MaxRequestedSize ELSE atLeastOne

resolveEffectiveBatchSize(provider, requested) ==
  IF provider = "gemini" /\ boundedSize(requested) > GEMINI_EFFECTIVE_BATCH_CAP
  THEN GEMINI_EFFECTIVE_BATCH_CAP
  ELSE boundedSize(requested)

------------------------------------------------------------------------------
\* Variant with a fault: the end of a range is not part of it.
selectSegmentsOpenEnd(segments, ranges) ==
  IF ranges = {} THEN segments
  ELSE Keeping(segments, {s \in Range(segments) :
         \E r \in ranges : r.start <= s.segment_index /\ s.segment_index < r.end})

\* The segments in any of the detected ranges, once each and in order; all of
\* them when nothing was detected.
selectSegments(segments, ranges) ==
  IF ranges = {} THEN segments
  ELSE Keeping(segments, {s \in Range(segments) :
         \E r \in ranges : r.start <= s.segment_index /\ s.segment_index <= r.end})

flushBuffer(acc) ==
  IF acc.buffer = << >> THEN acc
  ELSE [acc EXCEPT !.fragments = Append(@, acc.buffer), !.buffer = << >>]

discard(acc, line, reason) ==
  [acc EXCEPT !.discarded = Append(@, [line |-> line, reason |-> reason])]

\* Variant with a fault: a line that starts no item replaces the buffer.
fragmentLineNoFlush(acc, line) ==
  CASE line.kind = "blank" -> acc
    [] line.kind \in {"header", "note"} -> discard(flushBuffer(acc), line, line.kind)
    [] line.kind = "start" -> [acc EXCEPT !.buffer = <<line>>]
    [] OTHER -> IF acc.buffer # << >> THEN [acc EXCEPT !.buffer = Append(@, line)]
                                     ELSE discard(acc, line, "unclassified")

\* One line of a segment: the start of an item opens a fragment, a header or a
\* note closes it, any other line continues the open one or is discarded.
fragmentLine(acc, line) ==
  CASE line.kind = "blank" -> acc
    [] line.kind \in {"header", "note"} -> discard(flushBuffer(acc), line, line.kind)
    [] line.kind = "start" -> [flushBuffer(acc) EXCEPT !.buffer = <<line>>]
    [] OTHER -> IF acc.buffer # << >> THEN [acc EXCEPT !.buffer = Append(@, line)]
                                     ELSE discard(acc, line, "unclassified")

fragmentSegment(parent) ==
  flushBuffer(FoldLeft(fragmentLine,
    [fragments |-> << >>, buffer |-> << >>, discarded |-> << >>], parent.lines))

\* The fragments of all segments, numbered through, and the discarded lines.
fragment(segments) ==
  LET cut == [i \in 1..Len(segments) |-> fragmentSegment(segments[i])]
      named(i) == [k \in 1..Len(cut[i].fragments) |->
                    [segment_id |-> <<segments[i].segment_id, k>>, lines |-> cut[i].fragments[k]]]
      all == FlattenSeq([i \in 1..Len(segments) |-> named(i)])
  IN  [candidateSegments |->
         [n \in 1..Len(all) |->
           [segment_id |-> all[n].segment_id, segment_index |-> n - 1, lines |-> all[n].lines]],
       discardedLines |-> FlattenSeq([i \in 1..Len(segments) |-> cut[i].discarded])]

\* What is batched: the fragments, or the segments themselves when no line
\* of them looks like the start of an item.
candidates(selected, fragmentation) ==
  IF fragmentation.candidateSegments # << >> THEN fragmentation.candidateSegments
                                             ELSE selected

------------------------------------------------------------------------------
chunk(segments, size) ==
  [n \in 1..((Len(segments) + size - 1) \div size) |->
    SubSeq(segments, (n - 1) * size + 1, IF n * size < Len(segments) THEN n * size ELSE Len(segments))]

flushCurrentGroup(acc) ==
  IF acc.current = << >> THEN acc
  ELSE [groups |-> Append(acc.groups, acc.current), current |-> << >>]

\* Variant with a fault: the segment that overflows the budget still goes in.
isFullLate(group, segment, size) ==
  Len(group) >= size \/ AllChars(group) > GEMINI_BATCH_CHAR_BUDGET

\* The open group cannot take the segment.
isFull(group, segment, size) ==
  \/ Len(group) >= size
  \/ group # << >> /\ AllChars(group) + Chars(segment) > GEMINI_BATCH_CHAR_BUDGET

\* One segment of the Gemini grouping: a long one is a group of its own, any
\* other joins the open group unless that is full or would pass the budget.
groupSegment(acc, segment, size) ==
  IF Chars(segment) >= GEMINI_LONG_SEGMENT_THRESHOLD
  THEN LET flushed == flushCurrentGroup(acc)
       IN  [flushed EXCEPT !.groups = Append(@, <<segment>>)]
  ELSE LET open == IF isFull(acc.current, segment, size) THEN flushCurrentGroup(acc) ELSE acc
       IN  [open EXCEPT !.current = Append(@, segment)]

buildGeminiSegmentGroups(segments, requested) ==
  LET size == resolveEffectiveBatchSize("gemini", requested)
  IN  flushCurrentGroup(FoldLeft(LAMBDA acc, s : groupSegment(acc, s, size),
                                 [groups |-> << >>, current |-> << >>], segments)).groups

segmentGroups(segments, provider, requested) ==
  IF provider = "gemini" THEN buildGeminiSegmentGroups(segments, requested)
  ELSE chunk(segments, resolveEffectiveBatchSize(provider, requested))

\* Variant with a fault: the index of a batch is taken for its number.
buildBatchesFromZero(segments, provider, requested) ==
  LET groups == segmentGroups(segments, provider, requested)
  IN  [n \in 1..Len(groups) |->
        [batch_id |-> n - 1, provider |-> provider, segments |-> groups[n]]]

\* The batches: their number is their id (document:batch-n), their segments
\* are their source range.
buildBatches(segments, provider, requested) ==
  LET groups == segmentGroups(segments, provider, requested)
  IN  [n \in 1..Len(groups) |->
        [batch_id |-> n, provider |-> provider, segments |-> groups[n]]]

------------------------------------------------------------------------------
\* For the properties of a plan: the lines of a segment, each with its id.
Entries(parent, lines) == [k \in 1..Len(lines) |-> <<parent, lines[k]>>]

\* And those of all segments of a document.
DocumentLines(segments) ==
  FlattenSeq([i \in 1..Len(segments) |-> Entries(segments[i].segment_id, segments[i].lines)])
==============================================================================
