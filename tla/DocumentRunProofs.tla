-------------------------- MODULE DocumentRunProofs --------------------------
(***************************************************************************)
(* What a document run promises, proved for every document, every provider *)
(* and batch size, every number of batches, every retry limit and every    *)
(* extraction.  First the plan (DocumentPlan): what is sent to a provider. *)
(* Then the run (DocumentRun): what comes of the answers.  The latter      *)
(* composes: of a batch it uses only that the loop of processBatch is      *)
(* inductive and that the record it settles with keeps the contract, both  *)
(* proved once in BatchProcessorProofs and instantiated here.              *)
(***************************************************************************)
EXTENDS DocumentRun, DocumentPlan, OperatorLemmas

\* The plan: the ids and the lines of a document.
IdsOf(source) == {source[i].segment_id : i \in 1..Len(source)}
LinesOf(source) == UNION {Range(source[i].lines) : i \in 1..Len(source)}

(* The inductive invariant of the plan: each result is what its step makes *)
(* of the inputs, and no step is taken before the one it builds on.        *)
PlanInductive ==
  /\ segments \in Documents
  /\ ranges \in Detections
  /\ provider \in Providers
  /\ batchSize \in BatchSizes
  /\ step \in {"detected", "selected", "fragmented", "planned"}
  /\ step # "detected" => selected = selectSegments(segments, ranges)
  /\ fragmentation = IF step \in {"fragmented", "planned"} THEN fragment(selected)
                                                           ELSE NoFragmentation
  /\ batches = IF step = "planned"
               THEN buildBatches(candidates(selected, fragmentation), provider, batchSize)
               ELSE << >>

LEMMA PlanAlwaysInductive == PlanSpec => []PlanInductive
<1>1. PlanInit => PlanInductive
  BY DEF PlanInit, PlanInductive
<1>2. PlanInductive /\ [PlanNext]_planVars => PlanInductive'
  <2> SUFFICES ASSUME PlanInductive, [PlanNext]_planVars PROVE PlanInductive'
    OBVIOUS
  <2>1. CASE Select
    BY <2>1 DEF Select, PlanInductive, inputs
  <2>2. CASE Fragment
    BY <2>2 DEF Fragment, PlanInductive, inputs
  <2>3. CASE Build
    BY <2>3 DEF Build, PlanInductive, inputs
  <2>4. CASE UNCHANGED planVars
    BY <2>4 DEF planVars, inputs, PlanInductive
  <2> QED
    BY <2>1, <2>2, <2>3, <2>4 DEF PlanNext
<1> QED
  BY <1>1, <1>2, PTL DEF PlanSpec

(* A document can be read, and its lines have lengths.                     *)
LEMMA DocumentIsReadable ==
  ASSUME NEW source \in Documents
  PROVE  /\ source \in Seq(Range(source))
         /\ Readable(source, IdsOf(source), LinesOf(source))
         /\ \A line \in LinesOf(source) : line.chars \in Int
<1> DEFINE n == Len(source)
           L == LinesOf(source)
           lines(i) == source[i].lines
<1>1. /\ source \in Seq(Range(source))
      /\ \A i \in 1..n : lines(i) \in Seq(Range(lines(i)))
                         /\ \A line \in Range(lines(i)) : line.chars \in Int
      /\ \A i, j \in 1..n : \A k \in 1..Len(lines(i)), l \in 1..Len(lines(j)) :
           lines(i)[k] = lines(j)[l] => i = j /\ k = l
  BY DocumentsAssumption
<1>2. \A i \in 1..n : Range(lines(i)) \subseteq L
  BY DEF LinesOf
<1> HIDE DEF L
<1>3. \A i \in 1..n : lines(i) \in Seq(L)
  BY <1>1, <1>2
<1>4. \A i \in 1..n : source[i].segment_id \in IdsOf(source)
  BY DEF IdsOf
<1>5. \A i \in 1..n : AllDifferent(lines(i))
  BY <1>1 DEF AllDifferent
<1>6. ASSUME NEW i \in 1..n, NEW j \in 1..n, i # j
      PROVE  Range(lines(i)) \cap Range(lines(j)) = {}
  <2> DEFINE a == lines(i)
             b == lines(j)
             A == Range(a)
             B == Range(b)
  <2>1. /\ a \in Seq(A) /\ b \in Seq(B)
        /\ \A k \in 1..Len(a), l \in 1..Len(b) : a[k] # b[l]
    BY <1>1, <1>6
  <2>2. A = Range(a) /\ B = Range(b)
    OBVIOUS
  <2> HIDE DEF a, b, A, B
  <2>3. A = {a[k] : k \in 1..Len(a)} /\ B = {b[l] : l \in 1..Len(b)}
    BY <2>1, <2>2, RangeEquality
  <2>4. A \cap B = {}
    BY <2>1, <2>3
  <2> QED
    BY <2>4 DEF a, b, A, B
<1>7. Readable(source, IdsOf(source), L)
  BY <1>3, <1>4, <1>5, <1>6 DEF Readable
<1>8. \A line \in LinesOf(source) : line.chars \in Int
  BY <1>1 DEF LinesOf
<1> QED
  BY <1>1, <1>7, <1>8 DEF L

(* And so can what is picked of it.                                        *)
LEMMA PickedIsReadable ==
  ASSUME NEW Ids, NEW L, NEW E, NEW source \in Seq(E), Readable(source, Ids, L), NEW S
  PROVE  Readable(Keeping(source, S), Ids, L)
<1> DEFINE kept == Keeping(source, S)
<1>1. kept \in Seq(E) /\ \E from : Picks(from, kept, source, S, Len(source))
  BY KeepingPicks
<1> HIDE DEF kept
<1>2. PICK from : Picks(from, kept, source, S, Len(source))
  BY <1>1
<1>3. \A m \in 1..Len(kept) : from[m] \in 1..Len(source) /\ kept[m] = source[from[m]]
  BY <1>2 DEF Picks
<1>4. \A m, p \in 1..Len(kept) : m # p => from[m] # from[p]
  <2>1. \A m, p \in 1..Len(kept) : m < p => from[m] < from[p]
    BY <1>2 DEF Picks
  <2>2. \A m, p \in 1..Len(kept) : m # p => m < p \/ p < m
    BY <1>1
  <2> QED
    BY <1>3, <2>1, <2>2
<1>5. Readable(kept, Ids, L)
  BY <1>3, <1>4 DEF Readable
<1> QED
  BY <1>5 DEF kept

(* What was selected is of the document and can be read.                   *)
LEMMA SelectedIsReadable ==
  ASSUME PlanInductive, step # "detected"
  PROVE  /\ selected \in Seq(Range(segments))
         /\ Readable(selected, IdsOf(segments), LinesOf(segments))
         /\ \A s : s \in Range(selected) <=>
              /\ s \in Range(segments)
              /\ ranges = {} \/ \E r \in ranges : r.start <= s.segment_index /\ s.segment_index <= r.end
<1> DEFINE S == {s \in Range(segments) :
                  \E r \in ranges : r.start <= s.segment_index /\ s.segment_index <= r.end}
           E == Range(segments)
<1>1. segments \in Documents /\ selected = IF ranges = {} THEN segments ELSE Keeping(segments, S)
  BY DEF PlanInductive, selectSegments
<1>2. segments \in Seq(E) /\ Readable(segments, IdsOf(segments), LinesOf(segments))
  BY <1>1, DocumentIsReadable
<1>3. CASE ranges = {}
  BY <1>1, <1>2, <1>3
<1>4. CASE ranges # {}
  <2>1. \A s : s \in S <=> s \in E /\ \E r \in ranges : r.start <= s.segment_index /\ s.segment_index <= r.end
    OBVIOUS
  <2> HIDE DEF S, E
  <2>2. selected = Keeping(segments, S)
    BY <1>1, <1>4
  <2>3. selected \in Seq(E)
    BY <1>2, <2>2, KeepingPicks
  <2>4. Readable(selected, IdsOf(segments), LinesOf(segments))
    BY <1>2, <2>2, PickedIsReadable
  <2>5. Range(selected) = Range(segments) \cap S
    BY <1>2, <2>2, KeepingRange
  <2>6. \A s : s \in Range(selected) <=>
          s \in E /\ \E r \in ranges : r.start <= s.segment_index /\ s.segment_index <= r.end
    BY <2>1, <2>5 DEF E
  <2> QED
    BY <1>4, <2>3, <2>4, <2>6 DEF E
<1> QED
  BY <1>3, <1>4

(* What is batched are segments with lengths.                              *)
LEMMA CandidatesAreMeasured ==
  ASSUME PlanInductive, step \in {"fragmented", "planned"}
  PROVE  \E E : candidates(selected, fragmentation) \in Seq(E) /\ Measured(E)
<1> DEFINE Ids == IdsOf(segments)
           L == LinesOf(segments)
<1>1. /\ segments \in Documents /\ selected \in Seq(Range(segments))
      /\ Readable(selected, Ids, L)
      /\ fragmentation = fragment(selected)
  BY SelectedIsReadable DEF PlanInductive
<1>2. /\ \A line \in L : line.chars \in Int
      /\ segments \in Seq(Range(segments)) /\ Readable(segments, Ids, L)
  BY <1>1, DocumentIsReadable
<1> HIDE DEF Ids, L
<1>3. Measured(Range(segments))
  <2> SUFFICES ASSUME NEW s \in Range(segments) PROVE Chars(s) \in Int
    BY DEF Measured
  <2>1. PICK i \in 1..Len(segments) : s = segments[i]
    BY <1>2, RangeEquality
  <2>2. s.lines \in Seq(L)
    BY <1>2, <2>1 DEF Readable
  <2> QED
    BY <1>2, <2>2, CharsType
<1>4. Measured(Candidates(Ids, L))
  <2> SUFFICES ASSUME NEW s \in Candidates(Ids, L) PROVE Chars(s) \in Int
    BY DEF Measured
  <2>1. s.lines \in Seq(L)
    BY DEF Candidates
  <2> QED
    BY <1>2, <2>1, CharsType
<1>5. fragmentation.candidateSegments \in Seq(Candidates(Ids, L))
  BY <1>1, FragmentsAreNumbered
<1> QED
  BY <1>1, <1>3, <1>4, <1>5 DEF candidates

(* The batches of a plan are the groups of its candidates.                 *)
LEMMA BatchesAreGroups ==
  ASSUME PlanInductive, step = "planned"
  PROVE  LET candidate == candidates(selected, fragmentation)
             groups == segmentGroups(candidate, provider, batchSize)
         IN  /\ batches = [n \in 1..Len(groups) |->
                            [batch_id |-> n, provider |-> provider, segments |-> groups[n]]]
             /\ Len(groups) \in Nat /\ Len(batches) = Len(groups)
             /\ FlattenSeq([n \in 1..Len(batches) |-> batches[n].segments]) = candidate
<1> DEFINE candidate == candidates(selected, fragmentation)
           groups == segmentGroups(candidate, provider, batchSize)
<1>1. PICK E : candidate \in Seq(E) /\ Measured(E)
  BY CandidatesAreMeasured
<1>2. batchSize \in Int
  BY BatchSizesAssumption DEF PlanInductive
<1>3. batches = [n \in 1..Len(groups) |->
                  [batch_id |-> n, provider |-> provider, segments |-> groups[n]]]
  BY DEF PlanInductive, buildBatches
<1> HIDE DEF candidate
<1>4. groups \in Seq(Seq(E)) /\ FlattenSeq(groups) = candidate
  BY <1>1, <1>2, GroupingIsComplete
<1> HIDE DEF groups
<1>5. Len(groups) \in Nat /\ Len(batches) = Len(groups)
  BY <1>3, <1>4
<1>6. [n \in 1..Len(batches) |-> batches[n].segments] = groups
  <2>1. [n \in 1..Len(batches) |-> batches[n].segments] = [n \in 1..Len(groups) |-> groups[n]]
    BY <1>3, <1>5
  <2> DEFINE X == Seq(E)
  <2>2. groups \in Seq(X)
    BY <1>4
  <2> HIDE DEF X
  <2>3. groups = [n \in 1..Len(groups) |-> groups[n]]
    BY <2>2
  <2> QED
    BY <2>1, <2>3
<1> QED
  BY <1>3, <1>4, <1>5, <1>6 DEF candidate, groups

(* What the entries of a segment are.                                      *)
LEMMA EntryIsLine ==
  ASSUME NEW L, NEW lines \in Seq(L), NEW parent, NEW id, NEW line
  PROVE  <<id, line>> \in Range(Entries(parent, lines)) <=>
           parent = id /\ \E l \in 1..Len(lines) : lines[l] = line
<1>1. Len(lines) \in Nat
  OBVIOUS
<1>2. DOMAIN Entries(parent, lines) = 1..Len(lines)
      /\ \A l \in 1..Len(lines) : Entries(parent, lines)[l] = <<parent, lines[l]>>
  BY <1>1 DEF Entries
<1> QED
  BY <1>2 DEF Range

(* Where a line of the selection is.                                       *)
LEMMA SelectedLine ==
  ASSUME PlanInductive, step = "planned", NEW i \in 1..Len(segments),
         NEW k \in 1..Len(segments[i].lines)
  PROVE  <<segments[i].segment_id, segments[i].lines[k]>> \in Range(SelectedLines)
           <=> ranges = {} \/ \E r \in ranges : segments[i].segment_index \in r.start..r.end
<1> DEFINE E == Range(segments)
           Ids == IdsOf(segments)
           L == LinesOf(segments)
           F == Ids \X L
           parts == [j \in 1..Len(selected) |-> Entries(selected[j].segment_id, selected[j].lines)]
           s == segments[i]
           entry == <<s.segment_id, s.lines[k]>>
           Detected(x) == \/ ranges = {}
                          \/ \E r \in ranges : r.start <= x.segment_index /\ x.segment_index <= r.end
<1>1. /\ segments \in Documents /\ ranges \in Detections
      /\ selected \in Seq(E) /\ Readable(selected, Ids, L)
      /\ \A x : x \in Range(selected) <=> x \in E /\ Detected(x)
  BY SelectedIsReadable DEF PlanInductive
<1>2. /\ segments \in Seq(E)
      /\ s.segment_index \in Int
      /\ \A j \in 1..Len(segments) : \A l \in 1..Len(segments[j].lines) :
           segments[j].lines[l] = s.lines[k] => j = i
  BY <1>1, DocumentsAssumption
<1>3. Detected(s) <=> ranges = {} \/ \E r \in ranges : s.segment_index \in r.start..r.end
  <2>1. \A r \in ranges : r.start \in Int /\ r.end \in Int
    BY <1>1, DetectionsAssumption
  <2> QED
    BY <1>2, <2>1
<1>4. s \in E /\ E = {segments[m] : m \in 1..Len(segments)}
  <2> DEFINE A == Range(segments)
  <2>1. segments \in Seq(A) /\ A = Range(segments)
    BY <1>2
  <2> HIDE DEF A
  <2>2. A = {segments[m] : m \in 1..Len(segments)}
    BY <2>1, RangeEquality
  <2> QED
    BY <2>1, <2>2
<1> HIDE DEF Detected, Ids, L
<1>5. \A j \in 1..Len(selected) :
        selected[j].segment_id \in Ids /\ selected[j].lines \in Seq(L) /\ selected[j] \in E
  BY <1>1 DEF Readable
<1>6. parts \in Seq(Seq(F)) /\ Len(parts) = Len(selected)
      /\ \A j \in 1..Len(selected) : parts[j] = Entries(selected[j].segment_id, selected[j].lines)
  <2> DEFINE X == Seq(F)
  <2>1. ASSUME NEW j \in 1..Len(selected)
        PROVE  Entries(selected[j].segment_id, selected[j].lines) \in X
    <3> DEFINE parent == selected[j].segment_id
               lines == selected[j].lines
    <3>1. parent \in Ids /\ lines \in Seq(L)
      BY <1>5
    <3> HIDE DEF parent, lines
    <3>2. Len(lines) \in Nat /\ \A l \in 1..Len(lines) : lines[l] \in L
      BY <3>1
    <3>3. Entries(parent, lines) \in Seq(F)
      BY <3>1, <3>2 DEF Entries
    <3> QED
      BY <3>3 DEF parent, lines
  <2>2. Len(selected) \in Nat
    BY <1>1
  <2> HIDE DEF X
  <2>3. parts \in Seq(X) /\ Len(parts) = Len(selected)
    BY <2>1, <2>2
  <2> QED
    BY <2>3 DEF X
<1>7. SelectedLines = FlattenSeq(parts)
  BY DEF SelectedLines, DocumentLines
<1> HIDE DEF parts, F
<1>8. entry \in Range(SelectedLines) <=> \E j \in 1..Len(parts) : entry \in Range(parts[j])
  BY <1>6, <1>7, FlattenRange
<1>9. ASSUME NEW j \in 1..Len(selected)
      PROVE  entry \in Range(parts[j]) <=>
               /\ selected[j].segment_id = s.segment_id
               /\ \E l \in 1..Len(selected[j].lines) : selected[j].lines[l] = s.lines[k]
  <2> DEFINE parent == selected[j].segment_id
             lines == selected[j].lines
             id == s.segment_id
             line == s.lines[k]
  <2>1. lines \in Seq(L) /\ parts[j] = Entries(parent, lines)
    BY <1>5, <1>6
  <2> HIDE DEF parent, lines, id, line
  <2>2. <<id, line>> \in Range(Entries(parent, lines)) <=>
          parent = id /\ \E l \in 1..Len(lines) : lines[l] = line
    BY <2>1, EntryIsLine
  <2> QED
    BY <2>1, <2>2 DEF parent, lines, id, line
<1>10. s \in Range(selected) => entry \in Range(SelectedLines)
  <2> SUFFICES ASSUME s \in Range(selected) PROVE entry \in Range(SelectedLines)
    OBVIOUS
  <2>1. PICK j \in 1..Len(selected) : selected[j] = s
    BY <1>1, RangeEquality
  <2> QED
    BY <1>6, <1>8, <1>9, <2>1
<1>11. entry \in Range(SelectedLines) => s \in Range(selected)
  <2> SUFFICES ASSUME entry \in Range(SelectedLines) PROVE s \in Range(selected)
    OBVIOUS
  <2>1. PICK j \in 1..Len(selected) :
          \E l \in 1..Len(selected[j].lines) : selected[j].lines[l] = s.lines[k]
    BY <1>6, <1>8, <1>9
  <2>2. PICK m \in 1..Len(segments) : segments[m] = selected[j]
    BY <1>4, <1>5
  <2>3. segments[m] = s
    BY <1>2, <2>1, <2>2
  <2> QED
    BY <1>1, <2>2, <2>3, RangeEquality
<1>12. s \in Range(selected) <=> Detected(s)
  BY <1>1, <1>4
<1> QED
  BY <1>3, <1>10, <1>11, <1>12

(* What the batches send.                                                  *)
LEMMA PlanIsRead ==
  ASSUME PlanInductive, step = "planned"
  PROVE  /\ fragmentation.candidateSegments = << >> => SentLines = SelectedLines
         /\ fragmentation.candidateSegments # << >> =>
              LET dropped == Dropped(fragmentation.discardedLines)
              IN  /\ SentLines = Keeping(SelectedLines, ToSend(SelectedLines, dropped))
                  /\ \A line \in dropped : line.kind # "start"
                  /\ SelectedLines \in Seq(IdsOf(segments) \X LinesOf(segments))
<1> DEFINE candidate == candidates(selected, fragmentation)
           sent == FlattenSeq([n \in 1..Len(batches) |-> batches[n].segments])
<1>1. sent = candidate
  BY BatchesAreGroups
<1>2. SentLines = FlattenSeq([i \in 1..Len(candidate) |->
                               Entries(parentOf(candidate[i]), candidate[i].lines)])
  <2> HIDE DEF candidate
  <2> QED
    BY <1>1 DEF SentLines
<1>3. fragmentation = fragment(selected)
  BY DEF PlanInductive
<1>4. CASE fragmentation.candidateSegments = << >>
  <2>1. candidate = selected
    BY <1>4 DEF candidates
  <2> HIDE DEF candidate
  <2>2. SentLines = FlattenSeq([i \in 1..Len(selected) |->
                                 Entries(selected[i].segment_id, selected[i].lines)])
    BY <1>2, <1>4, <2>1 DEF parentOf
  <2> QED
    BY <1>4, <2>2 DEF SelectedLines, DocumentLines
<1>5. CASE fragmentation.candidateSegments # << >>
  <2> DEFINE fragments == fragment(selected).candidateSegments
             dropped == Dropped(fragment(selected).discardedLines)
             whole == DocumentLines(selected)
  <2>1. candidate = fragments
    BY <1>3, <1>5 DEF candidates
  <2>2. SentLines = FlattenSeq([i \in 1..Len(fragments) |->
                                 Entries(fragments[i].segment_id[1], fragments[i].lines)])
    <3> HIDE DEF candidate, fragments
    <3> QED
      BY <1>2, <1>5, <2>1 DEF parentOf
  <2>3. selected \in Seq(Range(segments)) /\ Readable(selected, IdsOf(segments), LinesOf(segments))
    BY SelectedIsReadable
  <2>4. /\ whole \in Seq(IdsOf(segments) \X LinesOf(segments))
        /\ FlattenSeq([n \in 1..Len(fragments) |->
                        Entries(fragments[n].segment_id[1], fragments[n].lines)])
             = Keeping(whole, ToSend(whole, dropped))
        /\ \A line \in dropped : line.kind \notin {"blank", "start"}
    BY <2>3, DocumentIsRead
  <2>5. whole = SelectedLines /\ dropped = Dropped(fragmentation.discardedLines)
    BY <1>3 DEF SelectedLines
  <2> HIDE DEF whole, dropped, fragments
  <2> QED
    BY <1>5, <2>2, <2>4, <2>5
<1> QED
  BY <1>4, <1>5

(* The state of a plan keeps its types, and both fragments and batches are *)
(* numbered through.                                                       *)
THEOREM PlanTypesHold == PlanSpec => []PlanTypeOK
<1>1. PlanInductive => PlanTypeOK
  <2> SUFFICES ASSUME PlanInductive PROVE PlanTypeOK
    OBVIOUS
  <2>1. \A i \in 1..Len(fragmentation.candidateSegments) :
          fragmentation.candidateSegments[i].segment_index = i - 1
    <3>1. CASE step \in {"fragmented", "planned"}
      <4>1. selected \in Seq(Range(segments)) /\ Readable(selected, IdsOf(segments), LinesOf(segments))
        BY <3>1, SelectedIsReadable
      <4>2. fragmentation = fragment(selected)
        BY <3>1 DEF PlanInductive
      <4>3. /\ Len(fragment(selected).candidateSegments) = Len(FlattenSeq(AllNamed(selected)))
            /\ \A i \in 1..Len(FlattenSeq(AllNamed(selected))) :
                 fragment(selected).candidateSegments[i].segment_index = i - 1
        BY <4>1, FragmentsAreNumbered
      <4> QED
        BY <4>2, <4>3
    <3>2. CASE step \notin {"fragmented", "planned"}
      BY <3>2 DEF PlanInductive, NoFragmentation
    <3> QED
      BY <3>1, <3>2
  <2>2. \A n \in 1..Len(batches) : batches[n].batch_id = n
    <3>1. CASE step = "planned"
      <4> DEFINE groups == segmentGroups(candidates(selected, fragmentation), provider, batchSize)
      <4>1. /\ batches = [n \in 1..Len(groups) |->
                            [batch_id |-> n, provider |-> provider, segments |-> groups[n]]]
            /\ Len(batches) = Len(groups)
        BY <3>1, BatchesAreGroups
      <4> HIDE DEF groups
      <4> QED
        BY <4>1
    <3>2. CASE step # "planned"
      BY <3>2 DEF PlanInductive
    <3> QED
      BY <3>1, <3>2
  <2> QED
    BY <2>1, <2>2 DEF PlanInductive, PlanTypeOK
<1> QED
  BY <1>1, PlanAlwaysInductive, PTL

(* Whatever the document, the ranges, the provider and the batch size: no  *)
(* line is lost, sent twice or moved between selection and batches.        *)
THEOREM NoLineIsLost == PlanSpec => []EveryLineIsPlanned
<1>1. PlanInductive => EveryLineIsPlanned
  BY PlanIsRead DEF EveryLineIsPlanned, Dropped, ToSend
<1> QED
  BY <1>1, PlanAlwaysInductive, PTL

(* What is sent are the segments in the detected ranges, both ends of a    *)
(* range included, with the first line of every item in them.              *)
THEOREM DetectionDecides == PlanSpec => []DetectedRangesAreRead
<1>1. PlanInductive => DetectedRangesAreRead
  <2> SUFFICES ASSUME PlanInductive, step = "planned",
                      NEW i \in 1..Len(segments), NEW k \in 1..Len(segments[i].lines),
                      segments[i].lines[k].kind = "start"
               PROVE  <<segments[i].segment_id, segments[i].lines[k]>> \in Range(SentLines) <=>
                        ranges = {} \/ \E r \in ranges : segments[i].segment_index \in r.start..r.end
    BY DEF DetectedRangesAreRead
  <2> DEFINE entry == <<segments[i].segment_id, segments[i].lines[k]>>
             dropped == Dropped(fragmentation.discardedLines)
             whole == SelectedLines
             S == ToSend(whole, dropped)
  <2>1. entry \in Range(SentLines) <=> entry \in Range(whole)
    <3>1. CASE fragmentation.candidateSegments = << >>
      BY <3>1, PlanIsRead
    <3>2. CASE fragmentation.candidateSegments # << >>
      <4>1. /\ SentLines = Keeping(whole, S)
            /\ \A line \in dropped : line.kind # "start"
            /\ whole \in Seq(IdsOf(segments) \X LinesOf(segments))
        BY <3>2, PlanIsRead
      <4>2. entry[2].kind = "start" /\ entry[2] \notin dropped
        BY <4>1
      <4>3. entry \in S <=> entry \in Range(whole)
        BY <4>2 DEF ToSend
      <4> HIDE DEF S, whole
      <4>4. Range(SentLines) = Range(whole) \cap S
        BY <4>1, KeepingRange
      <4> QED
        BY <4>3, <4>4
    <3> QED
      BY <3>1, <3>2
  <2> QED
    BY <2>1, SelectedLine
<1> QED
  BY <1>1, PlanAlwaysInductive, PTL

(* No batch passes a limit of its provider, and none is closed before its  *)
(* limits close it: no document takes more provider calls than it must.    *)
THEOREM BatchesAreFull == PlanSpec => []BatchesFillTheirBounds
<1>1. PlanInductive => BatchesFillTheirBounds
  <2> SUFFICES ASSUME PlanInductive PROVE BatchesFillTheirBounds
    OBVIOUS
  <2> DEFINE candidate == candidates(selected, fragmentation)
             size == resolveEffectiveBatchSize(provider, batchSize)
             groups == segmentGroups(candidate, provider, batchSize)
  <2>1. CASE step # "planned"
    BY <2>1 DEF PlanInductive, BatchesFillTheirBounds
  <2>2. CASE step = "planned"
    <3>1. PICK E : candidate \in Seq(E) /\ Measured(E)
      BY <2>2, CandidatesAreMeasured
    <3>2. batchSize \in Int
      BY BatchSizesAssumption DEF PlanInductive
    <3>3. size \in Nat \ {0}
      BY <3>2 DEF resolveEffectiveBatchSize, boundedSize, MaxRequestedSize, GEMINI_EFFECTIVE_BATCH_CAP
    <3>4. /\ \A n \in 1..Len(groups) :
               /\ Len(groups[n]) \in 1..size
               /\ provider = "gemini" /\ Len(groups[n]) > 1 =>
                    AllChars(groups[n]) <= GEMINI_BATCH_CHAR_BUDGET
          /\ \A n \in 1..(Len(groups) - 1) :
               \/ Len(groups[n]) = size
               \/ /\ provider = "gemini"
                  /\ Closed(groups[n], groups[n + 1][1], size)
      <4>1. CASE provider = "gemini"
        <5>1. groups = buildGeminiSegmentGroups(candidate, batchSize)
              /\ size = resolveEffectiveBatchSize("gemini", batchSize)
          BY <4>1 DEF segmentGroups
        <5> HIDE DEF candidate, size, groups
        <5>2. FitsAll(groups, size)
          BY <3>1, <3>3, <5>1, GeminiGroupsFit
        <5> QED
          BY <4>1, <5>2 DEF FitsAll, Fits
      <4>2. CASE provider # "gemini"
        <5>1. groups = chunk(candidate, size)
          BY <4>2 DEF segmentGroups
        <5>2. size \in Nat /\ size # 0
          BY <3>3
        <5> HIDE DEF candidate, size, groups
        <5>3. /\ \A n \in 1..Len(groups) : Len(groups[n]) \in 1..size
              /\ \A n \in 1..(Len(groups) - 1) : Len(groups[n]) = size
          BY <3>1, <5>1, <5>2, ChunksFit
        <5> QED
          BY <4>2, <5>3
      <4> QED
        BY <4>1, <4>2
    <3>5. /\ batches = [n \in 1..Len(groups) |->
                          [batch_id |-> n, provider |-> provider, segments |-> groups[n]]]
          /\ Len(groups) \in Nat /\ Len(batches) = Len(groups)
      BY <2>2, BatchesAreGroups
    <3> HIDE DEF candidate, size, groups
    <3>6. \A n \in 1..Len(batches) : batches[n].segments = groups[n]
      BY <3>5
    <3>7. \A n \in 1..(Len(batches) - 1) : n \in 1..Len(batches) /\ n + 1 \in 1..Len(batches)
      BY <3>5
    <3>8. /\ \A n \in 1..Len(batches) :
               /\ Len(batches[n].segments) \in 1..size
               /\ provider = "gemini" /\ Len(batches[n].segments) > 1 =>
                    AllChars(batches[n].segments) <= GEMINI_BATCH_CHAR_BUDGET
          /\ \A n \in 1..(Len(batches) - 1) :
               \/ Len(batches[n].segments) = size
               \/ /\ provider = "gemini"
                  /\ Closed(batches[n].segments, batches[n + 1].segments[1], size)
      BY <3>4, <3>5, <3>6, <3>7
    <3> QED
      BY <3>8 DEF BatchesFillTheirBounds, size, Closed, IsLong
  <2> QED
    BY <2>1, <2>2
<1> QED
  BY <1>1, PlanAlwaysInductive, PTL

------------------------------------------------------------------------------
\* The run: the loop of each of its batches.
Batch == INSTANCE BatchProcessorProofs
  WITH Normalize <- [items \in Extractions |-> normalizeSequentialItemNumbers(items)],
       Warned <- {item \in Items : item.warnings # {}}

(* What is known of a record between processBatch and the result.          *)
Kept(b) == b \in BatchRecords /\ Batch!Contract!Promised(b)

(* A call of processBatch is in a state its loop can be in.                *)
InCall ==
  /\ Batch!Inductive
  /\ Cardinality(batch) <= 1
  /\ \A b \in batch : Kept(b)

(* What the calls before it left behind.                                   *)
Collected ==
  /\ finalBatches \in Seq(BatchRecords)
  /\ \A i \in 1..Len(finalBatches) : Kept(finalBatches[i])
  /\ batchTraces \in Seq([attempt_count: Nat, retry_count: 0..RetryLimit,
                          final_recommendation: Recommendations])
  /\ Len(batchTraces) = Len(finalBatches)

(* A call is in progress only while a planned batch is left; detection and *)
(* consolidation warn of nothing a failure could be mistaken for.          *)
Inductive ==
  /\ InCall
  /\ Collected
  /\ stage \in Stages
  /\ detection \in AnswerWarnings
  /\ remaining \in 0..MaxBatches
  /\ pc # "idle" => stage = "batches" /\ remaining > 0
  /\ Cardinality(consolidation) <= 1
  /\ \A c \in consolidation :
       c.warnings \subseteq {"duplicates_resolved", "manual_batches_included"}
  /\ Cardinality(document) <= 1
  /\ FailuresSurface

(* The assumptions of the processor hold in its instance.                  *)
LEMMA InstanceAssumptions == Batch!RetryLimitAssumption /\ Batch!NormalizeAssumption
BY RetryLimitAssumption, ItemsAssumption DEF Batch!RetryLimitAssumption, Batch!NormalizeAssumption

(* A call that has not begun satisfies the invariant of processBatch.      *)
LEMMA CallStarts == Batch!Init => Batch!Inductive
BY InstanceAssumptions, Batch!InitInductive DEF Batch!InitInductive

(* Every step of the call keeps it.                                        *)
LEMMA CallGoesOn == Batch!Inductive /\ [Batch!Next]_(Batch!vars) => Batch!Inductive'
BY InstanceAssumptions, Batch!NextInductive DEF Batch!NextInductive

(* The record the call settles with is one the contract promises.          *)
LEMMA CallSettles == Batch!Inductive /\ Batch!Assemble => Batch!Contract!Settle
BY InstanceAssumptions, Batch!AssembleSettles DEF Batch!AssembleSettles

(* The model's instance and that of the proofs are the same processor.     *)
LEMMA SameProcessor ==
  /\ Processor!Init <=> Batch!Init
  /\ Processor!Begin <=> Batch!Begin
  /\ Processor!Extract <=> Batch!Extract
  /\ Processor!Validate <=> Batch!Validate
  /\ Processor!Assemble <=> Batch!Assemble
  /\ Batch!TypeOK <=> Processor!TypeOK
<1>1. /\ Processor!Init <=> Batch!Init
      /\ Processor!Begin <=> Batch!Begin
  BY DEF Processor!Init, Batch!Init, Processor!Begin, Batch!Begin,
         Processor!NoRecommendation, Batch!NoRecommendation
<1>2. \A items, v : Processor!AttemptTrace(items, v) = Batch!AttemptTrace(items, v)
  BY DEF Processor!AttemptTrace, Batch!AttemptTrace, Processor!itemWarnings, Batch!itemWarnings,
         Processor!Contract!ProviderWarnings, Batch!Contract!ProviderWarnings
<1>3. /\ Processor!FailedBatchValidation = Batch!FailedBatchValidation
      /\ Processor!maxAttempts = Batch!maxAttempts
      /\ Processor!Contract!Recommendations = Batch!Contract!Recommendations
      /\ Processor!Contract!Accepting = Batch!Contract!Accepting
      /\ Processor!Contract!Warnings = Batch!Contract!Warnings
      /\ Processor!ValidationWarnings = Batch!ValidationWarnings
  BY DEF Processor!FailedBatchValidation, Batch!FailedBatchValidation,
         Processor!maxAttempts, Batch!maxAttempts,
         Processor!Contract!Recommendations, Batch!Contract!Recommendations,
         Processor!Contract!Accepting, Batch!Contract!Accepting,
         Processor!Contract!Warnings, Batch!Contract!Warnings,
         Processor!Contract!ProcessorWarnings, Batch!Contract!ProcessorWarnings,
         Processor!Contract!ProviderWarnings, Batch!Contract!ProviderWarnings,
         Processor!ValidationWarnings, Batch!ValidationWarnings
<1>4. Processor!Extract <=> Batch!Extract
  BY <1>2, <1>3 DEF Processor!Extract, Batch!Extract, Processor!ExtractReturns,
     Batch!ExtractReturns, Processor!ExtractThrows, Batch!ExtractThrows
<1>5. Processor!Validate <=> Batch!Validate
  BY <1>2, <1>3 DEF Processor!Validate, Batch!Validate, Processor!ValidationSettles,
     Batch!ValidationSettles, Processor!ValidationAsksRetry, Batch!ValidationAsksRetry,
     Processor!ValidateThrows, Batch!ValidateThrows
<1>6. Processor!batchWarnings = Batch!batchWarnings
  BY DEF Processor!batchWarnings, Batch!batchWarnings, Processor!attemptWarnings,
         Batch!attemptWarnings, Processor!retryCount, Batch!retryCount
<1>7. Processor!Assemble <=> Batch!Assemble
  BY <1>3, <1>6 DEF Processor!Assemble, Batch!Assemble, Processor!locals, Batch!locals,
     Processor!extractionStatus, Batch!extractionStatus,
     Processor!mapRecommendationToStatus, Batch!mapRecommendationToStatus,
     Processor!acceptedItems, Batch!acceptedItems, Processor!retryCount, Batch!retryCount
<1>8. Batch!TypeOK <=> Processor!TypeOK
  BY <1>3 DEF Processor!TypeOK, Batch!TypeOK, Processor!Stages, Batch!Stages,
     Processor!NoRecommendation, Batch!NoRecommendation,
     Processor!AttemptTraces, Batch!AttemptTraces
<1> QED
  BY <1>1, <1>4, <1>5, <1>7, <1>8

(* The record a call settles with, as run will keep it.                    *)
LEMMA Settled ==
  ASSUME Batch!Inductive, Processor!Assemble
  PROVE  Cardinality(batch') <= 1 /\ \A b \in batch' : Kept(b)
<1>1. PICK b \in batch' : batch' = {b} /\ Batch!Contract!Promised(b)
  BY CallSettles, SameProcessor DEF Batch!Contract!Settle
<1>2. b \in BatchRecords
  <2>1. /\ b.output_json \in Batch!Outputs \cup {<< >>}
        /\ b.recommendation \in Recommendations
        /\ b.retry_count \in 0..RetryLimit
        /\ b.validation_status \in Processor!Contract!ValidationStatuses
        /\ b.warnings \in SUBSET Processor!Contract!Warnings
        /\ b.extracted_item_count = Len(b.output_json)
        /\ b.validated_item_count \in {Len(b.output_json), 0}
    BY <1>1 DEF Batch!Contract!Promised, Recommendations,
       Batch!Contract!Recommendations, Processor!Contract!Recommendations,
       Batch!Contract!ValidationStatuses, Processor!Contract!ValidationStatuses,
       Batch!Contract!Warnings, Processor!Contract!Warnings,
       Batch!Contract!ProcessorWarnings, Processor!Contract!ProcessorWarnings,
       Batch!Contract!ProviderWarnings, Processor!Contract!ProviderWarnings
  <2>2. b.output_json \in Seq(Items)
    <3>1. Batch!Outputs \subseteq Seq(Items)
      BY ItemsAssumption DEF Batch!Outputs
    <3>2. << >> \in Seq(Items)
      OBVIOUS
    <3> QED
      BY <2>1, <3>1, <3>2, Zenon
  <2>3. /\ b = [output_json          |-> b.output_json,
                recommendation       |-> b.recommendation,
                extraction_status    |-> b.extraction_status,
                validation_status    |-> b.validation_status,
                retry_count          |-> b.retry_count,
                extracted_item_count |-> b.extracted_item_count,
                validated_item_count |-> b.validated_item_count,
                warnings             |-> b.warnings]
        /\ b.extraction_status \in Processor!Contract!ExtractionStatuses
    BY <1>1 DEF Processor!Assemble, Processor!extractionStatus,
       Processor!Contract!ExtractionStatuses
  <2> QED
    BY <2>1, <2>2, <2>3 DEF BatchRecords
<1>3. Cardinality(batch') <= 1
  BY <1>1, FS_Singleton
<1> QED
  BY <1>1, <1>2, <1>3 DEF Kept

(* Kept is about the record alone.                                         *)
LEMMA KeptIsRigid == \A b : Kept(b)' <=> Kept(b)
BY DEF Kept, BatchRecords, Recommendations, Processor!Contract!Recommendations,
   Processor!Contract!ExtractionStatuses, Processor!Contract!ValidationStatuses,
   Processor!Contract!Warnings, Processor!Contract!ProcessorWarnings,
   Processor!Contract!ProviderWarnings, Batch!Contract!Promised, Batch!Outputs,
   Batch!Contract!Recommendations, Batch!Contract!ValidationStatuses,
   Batch!Contract!Warnings, Batch!Contract!ProcessorWarnings,
   Batch!Contract!ProviderWarnings, Batch!Contract!Accepting

(* A run begins with nothing.                                              *)
LEMMA InitInductive == Init => Inductive
<1> SUFFICES ASSUME Init PROVE Inductive
  OBVIOUS
<1>1. Batch!Inductive /\ pc = "idle" /\ batch = {}
  BY SameProcessor, CallStarts DEF Init, Processor!Init
<1>2. Cardinality({}) = 0
  BY FS_EmptySet
<1> QED
  BY <1>1, <1>2, MaxBatchesAssumption
     DEF Init, Inductive, InCall, Collected, Stages, FailuresSurface, AnswerWarnings,
         Processor!Contract!ProviderWarnings

(* A step that leaves the processor alone leaves its call as it was.       *)
LEMMA CallWaits == ASSUME InCall, UNCHANGED processor PROVE InCall'
<1>1. [Batch!Next]_(Batch!vars)
  BY DEF Batch!vars, processor
<1>2. Batch!Inductive'
  BY <1>1, CallGoesOn DEF InCall
<1>3. batch' = batch
  BY DEF processor
<1> QED
  BY <1>2, <1>3, KeptIsRigid DEF InCall

(* A step that collects nothing leaves the records as they were.           *)
LEMMA NothingCollected ==
  ASSUME Collected, UNCHANGED <<finalBatches, batchTraces>> PROVE Collected'
<1>1. /\ finalBatches' \in Seq(BatchRecords)
      /\ batchTraces' \in Seq([attempt_count: Nat, retry_count: 0..RetryLimit,
                               final_recommendation: Recommendations])
      /\ \A i \in 1..Len(finalBatches') : Kept(finalBatches'[i])
      /\ Len(batchTraces') = Len(finalBatches')
  BY DEF Collected
<1> QED
  BY <1>1, KeptIsRigid DEF Collected, BatchRecords, Recommendations,
     Processor!Contract!Recommendations, Processor!Contract!ExtractionStatuses,
     Processor!Contract!ValidationStatuses, Processor!Contract!Warnings,
     Processor!Contract!ProcessorWarnings, Processor!Contract!ProviderWarnings

(* A step towards the next stage: no call is in progress, and none begins. *)
LEMMA StageInductive ==
  ASSUME Inductive,
         \/ \E planned \in 0..MaxBatches, warnings \in AnswerWarnings : Detect(planned, warnings)
         \/ DetectThrows
         \/ Consolidate
  PROVE  Inductive'
<1>1. /\ InCall' /\ Collected'
      /\ pc' = pc /\ document' = document
  BY CallWaits, NothingCollected DEF Inductive, Detect, DetectThrows, Consolidate, processor
<1>2. /\ stage' \in Stages /\ remaining' \in 0..MaxBatches
      /\ detection' \in AnswerWarnings
      /\ pc' # "idle" => stage' = "batches" /\ remaining' > 0
  BY <1>1 DEF Inductive, Stages, Detect, DetectThrows, Consolidate, AnswerWarnings,
              Processor!Contract!ProviderWarnings
<1>3. /\ Cardinality(consolidation') <= 1
      /\ \A c \in consolidation' :
           c.warnings \subseteq {"duplicates_resolved", "manual_batches_included"}
  <2>1. CASE Consolidate
    <3> DEFINE merged == consolidate(finalBatches)
               renumbered == [merged EXCEPT !.items = normalizeSequentialItemNumbers(@)]
    <3>1. consolidation' = {renumbered}
      BY <2>1 DEF Consolidate
    <3>2. renumbered.warnings = merged.warnings
      BY DEF consolidate
    <3>3. merged.warnings \subseteq {"duplicates_resolved", "manual_batches_included"}
      BY DEF consolidate
    <3> HIDE DEF renumbered, merged
    <3> QED
      BY <3>1, <3>2, <3>3, FS_Singleton
  <2>2. CASE ~Consolidate
    BY <2>2 DEF Inductive, Detect, DetectThrows
  <2> QED
    BY <2>1, <2>2
<1> QED
  BY <1>1, <1>2, <1>3 DEF Inductive, FailuresSurface

(* A step of the call in progress; the record it may settle with is kept.  *)
LEMMA ProcessInductive == ASSUME Inductive, StartBatch \/ ProcessBatch PROVE Inductive'
<1>1. /\ [Batch!Next]_(Batch!vars)
      /\ UNCHANGED run
      /\ stage = "batches"
  BY SameProcessor DEF StartBatch, ProcessBatch, Batch!Next
<1>2. remaining > 0
  <2>1. CASE StartBatch
    BY <2>1 DEF StartBatch
  <2>2. CASE ProcessBatch
    BY <2>2 DEF ProcessBatch, Inductive, Processor!Extract, Processor!Validate,
       Processor!Assemble, Processor!ExtractReturns, Processor!ExtractThrows,
       Processor!ValidationSettles, Processor!ValidationAsksRetry, Processor!ValidateThrows
  <2> QED
    BY <2>1, <2>2
<1>3. InCall'
  <2>1. Batch!Inductive'
    BY <1>1, CallGoesOn DEF Inductive, InCall
  <2>2. Cardinality(batch') <= 1 /\ \A b \in batch' : Kept(b)
    <3>1. CASE Processor!Assemble
      BY <3>1, Settled DEF Inductive, InCall
    <3>2. CASE Processor!Begin
      BY <3>2, FS_EmptySet DEF Processor!Begin
    <3>3. CASE Processor!Extract \/ Processor!Validate
      <4>1. batch' = batch
        BY <3>3 DEF Processor!Extract, Processor!Validate,
           Processor!ExtractReturns, Processor!ExtractThrows,
           Processor!ValidationSettles, Processor!ValidationAsksRetry, Processor!ValidateThrows
      <4> QED
        BY <4>1 DEF Inductive, InCall
    <3> QED
      BY <3>1, <3>2, <3>3 DEF StartBatch, ProcessBatch
  <2> QED
    BY <2>1, <2>2, KeptIsRigid DEF InCall
<1>4. Collected'
  BY <1>1, NothingCollected DEF Inductive, run
<1> QED
  BY <1>1, <1>2, <1>3, <1>4 DEF Inductive, run, FailuresSurface, AnswerWarnings,
     Processor!Contract!ProviderWarnings

(* The record joins those before it, and the locals of the call are gone.  *)
LEMMA CollectInductive == ASSUME Inductive, CollectBatch PROVE Inductive'
<1>1. PICK b \in batch :
        /\ finalBatches' = Append(finalBatches, b)
        /\ batchTraces' = Append(batchTraces,
             [attempt_count        |-> Len(attempts),
              retry_count          |-> b.retry_count,
              final_recommendation |-> b.recommendation])
  BY DEF CollectBatch
<1>2. Kept(b)
  BY DEF Inductive, InCall
<1>3. Collected'
  <2>1. /\ Len(attempts) \in Nat
        /\ b \in BatchRecords
        /\ b.retry_count \in 0..RetryLimit /\ b.recommendation \in Recommendations
    BY <1>2 DEF Kept, BatchRecords, Inductive, InCall, Batch!Inductive, Batch!TypeOK
  <2> DEFINE trace == [attempt_count        |-> Len(attempts),
                       retry_count          |-> b.retry_count,
                       final_recommendation |-> b.recommendation]
             AuditTraces == [attempt_count: Nat, retry_count: 0..RetryLimit,
                             final_recommendation: Recommendations]
  <2>2. trace \in AuditTraces
    BY <2>1
  <2>3. batchTraces \in Seq(AuditTraces) /\ batchTraces' = Append(batchTraces, trace)
    BY <1>1 DEF Inductive, Collected
  <2> HIDE DEF trace, AuditTraces
  <2>4. /\ finalBatches' \in Seq(BatchRecords)
        /\ batchTraces' \in Seq(AuditTraces)
        /\ Len(batchTraces') = Len(finalBatches')
    BY <1>1, <2>1, <2>2, <2>3 DEF Inductive, Collected
  <2>5. \A i \in 1..Len(finalBatches') : Kept(finalBatches'[i])
    BY <1>1, <1>2, <2>1 DEF Inductive, Collected
  <2> QED
    BY <2>4, <2>5, KeptIsRigid DEF Collected, AuditTraces, BatchRecords, Recommendations,
       Processor!Contract!Recommendations, Processor!Contract!ExtractionStatuses,
       Processor!Contract!ValidationStatuses, Processor!Contract!Warnings,
       Processor!Contract!ProcessorWarnings, Processor!Contract!ProviderWarnings
<1>4. InCall'
  <2>1. Batch!Init'
    BY DEF CollectBatch, Batch!Init, Processor!NoRecommendation, Batch!NoRecommendation
  <2>2. Batch!Init' => Batch!Inductive'
    BY CallStarts, PTL
  <2>3. batch' = {}
    BY DEF CollectBatch
  <2> QED
    BY <2>1, <2>2, <2>3, FS_EmptySet DEF InCall
<1>5. remaining > 0 /\ remaining' = remaining - 1 /\ pc' = "idle"
  BY DEF CollectBatch, Inductive
<1>6. UNCHANGED <<stage, detection, consolidation, document>>
  BY DEF CollectBatch
<1> QED
  BY <1>3, <1>4, <1>5, <1>6, MaxBatchesAssumption DEF Inductive, FailuresSurface

(* The result: a failure any record tells of is in it, and in its status.  *)
LEMMA FinishInductive ==
  ASSUME Inductive, NEW global,
         \/ global = GlobalFailure
         \/ \E r \in Recommendations, w \in AnswerWarnings : global = GlobalAnswer(r, w),
         Finish(global)
  PROVE  Inductive'
<1> DEFINE status(c) == processingStatus(global.recommendation, finalBatches, c.warnings)
           warned(c) == detection \cup global.warnings \cup c.warnings
                        \cup UNION {finalBatches[i].warnings : i \in 1..Len(finalBatches)}
<1>1. /\ stage = "validateGlobal" /\ stage' = "returned"
      /\ UNCHANGED <<detection, remaining, finalBatches, batchTraces, consolidation, processor>>
  BY DEF Finish
<1>2. PICK c \in consolidation : document' = {DocumentResult(global, c)}
  BY DEF Finish
<1>3. /\ Cardinality(document') <= 1
       /\ \A d \in document' :
            /\ d.batches = finalBatches
            /\ d.processing_status = status(c)
            /\ d.global_warnings = warned(c)
  <2>1. /\ DocumentResult(global, c).batches = finalBatches
        /\ DocumentResult(global, c).processing_status = status(c)
        /\ DocumentResult(global, c).global_warnings = warned(c)
    BY DEF DocumentResult
  <2> HIDE DEF status, warned
  <2>2. Cardinality(document') <= 1
    <3>1. PICK d : document' = {d}
      BY <1>2
    <3>2. Cardinality({d}) = 1
      BY FS_Singleton
    <3> QED
      BY <3>1, <3>2
  <2> QED
    BY <1>2, <2>1, <2>2
<1>4. /\ \A i \in 1..Len(finalBatches) : Batch!Contract!Promised(finalBatches[i])
      /\ c.warnings \subseteq {"duplicates_resolved", "manual_batches_included"}
  BY DEF Inductive, Collected, Kept
<1>5. /\ global.warnings \subseteq {"global_ai_failed", "provider_warnings"}
      /\ "global_ai_failed" \in global.warnings => global.recommendation = "manual_review"
      /\ detection \subseteq {"provider_warnings"}
  BY DEF GlobalFailure, GlobalAnswer, Inductive, AnswerWarnings, Processor!Contract!ProviderWarnings
<1>6. "ai_failed" \in warned(c) \/ "global_ai_failed" \in warned(c) => status(c) = "manual_review"
  <2>1. CASE "global_ai_failed" \in warned(c)
    <3>1. \A i \in 1..Len(finalBatches) : "global_ai_failed" \notin finalBatches[i].warnings
      BY <1>4 DEF Batch!Contract!Promised, Batch!Contract!Warnings,
         Batch!Contract!ProcessorWarnings, Batch!Contract!ProviderWarnings
    <3>2. "global_ai_failed" \in global.warnings
      BY <2>1, <3>1, <1>4, <1>5
    <3> QED
      BY <3>2, <1>5 DEF processingStatus
  <2>2. CASE "ai_failed" \in warned(c)
    <3>1. PICK i \in 1..Len(finalBatches) : "ai_failed" \in finalBatches[i].warnings
      BY <2>2, <1>4, <1>5
    <3>2. finalBatches[i].validation_status = "manual_review"
      BY <3>1, <1>4 DEF Batch!Contract!Promised
    <3> QED
      BY <3>2 DEF processingStatus
  <2> QED
    BY <2>1, <2>2
<1>7. ASSUME NEW i \in 1..Len(finalBatches), finalBatches[i].recommendation = "retry"
      PROVE  "retry_limit_exhausted" \in warned(c) /\ status(c) # "completed"
  <2>1. /\ "retry_limit_exhausted" \in finalBatches[i].warnings
        /\ finalBatches[i].validation_status = "retry"
    BY <1>4, <1>7 DEF Batch!Contract!Promised
  <2> QED
    BY <2>1 DEF processingStatus
<1> HIDE DEF status, warned
<1>8. FailuresSurface'
  BY <1>1, <1>3, <1>6, <1>7 DEF FailuresSurface
<1>9. InCall' /\ Collected' /\ pc' = "idle"
  <2>1. InCall' /\ Collected'
    BY <1>1, CallWaits, NothingCollected DEF Inductive
  <2> QED
    BY <1>1, <2>1 DEF Inductive, processor
<1>10. /\ stage' \in Stages /\ remaining' \in 0..MaxBatches /\ detection' \in AnswerWarnings
      /\ Cardinality(consolidation') <= 1 /\ Cardinality(document') <= 1
      /\ \A e \in consolidation' :
           e.warnings \subseteq {"duplicates_resolved", "manual_batches_included"}
  BY <1>1, <1>3 DEF Inductive, Stages, AnswerWarnings, Processor!Contract!ProviderWarnings
<1> QED
  BY <1>8, <1>9, <1>10 DEF Inductive

(* Every step, stuttering included, preserves the invariant.               *)
LEMMA NextInductive == Inductive /\ [Next]_vars => Inductive'
<1> SUFFICES ASSUME Inductive, [Next]_vars PROVE Inductive'
  OBVIOUS
<1>1. CASE \/ \E planned \in 0..MaxBatches, warnings \in AnswerWarnings : Detect(planned, warnings)
           \/ DetectThrows
           \/ Consolidate
  BY <1>1, StageInductive
<1>2. CASE StartBatch \/ ProcessBatch
  BY <1>2, ProcessInductive
<1>3. CASE CollectBatch
  BY <1>3, CollectInductive
<1>4. CASE \E recommendation \in Recommendations, warnings \in AnswerWarnings :
             Finish(GlobalAnswer(recommendation, warnings))
  BY <1>4, FinishInductive
<1>5. CASE Finish(GlobalFailure)
  BY <1>5, FinishInductive
<1>6. CASE UNCHANGED vars
  <2>1. InCall' /\ Collected'
    BY <1>6, CallWaits, NothingCollected DEF Inductive, vars, run
  <2> QED
    BY <1>6, <2>1 DEF Inductive, vars, run, processor, FailuresSurface, AnswerWarnings,
       Processor!Contract!ProviderWarnings
<1> QED
  BY <1>1, <1>2, <1>3, <1>4, <1>5, <1>6 DEF Next

(* The invariant holds in every reachable state.                           *)
LEMMA AlwaysInductive == Spec => []Inductive
<1>1. Init => Inductive
  BY InitInductive
<1>2. Inductive /\ [Next]_vars => Inductive'
  BY NextInductive
<1> QED
  BY <1>1, <1>2, PTL DEF Spec

(* The state of run and the records it collects always have their types.   *)
THEOREM TypesHold == Spec => []TypeOK
<1>1. Inductive => TypeOK
  <2>1. Batch!Inductive => Processor!TypeOK
    BY SameProcessor DEF Batch!Inductive
  <2> QED
    BY <2>1 DEF Inductive, InCall, Collected, TypeOK
<1> QED
  BY <1>1, AlwaysInductive, PTL

(* However many batches a document has, a provider failure in any of them, *)
(* or in the global validation, ends in the hands of a human, and retries  *)
(* that ran out are told.                                                  *)
THEOREM FailuresAlwaysSurface == Spec => []FailuresSurface
<1>1. Inductive => FailuresSurface
  BY DEF Inductive
<1> QED
  BY <1>1, AlwaysInductive, PTL
------------------------------------------------------------------------------
(* The result of consolidate with its numbers repaired.                    *)
Repaired(records) ==
  [consolidate(records) EXCEPT !.items = normalizeSequentialItemNumbers(@)]

(* What is known of the table from the moment it is made: it is that of    *)
(* the records collected, and those do not change any more.                *)
Tabled ==
  \A c \in consolidation :
    /\ stage \in {"validateGlobal", "returned"}
    /\ c = Repaired(finalBatches)

Delivered ==
  /\ Tabled
  /\ KeepsTheBest
  /\ DroppedItemsAreTraced
  /\ CompletedIsClean
  /\ NumberingIsContinued

(* The records collected publish items.                                    *)
LEMMA RecordsPublish == Itemised(Items) /\ Published(Items, BatchRecords)
BY ItemFieldsAssumption DEF Itemised, Published, BatchRecords

(* What the table and its trace are, whatever the records.                 *)
LEMMA RepairedTable ==
  ASSUME NEW records \in Seq(BatchRecords)
  PROVE  LET c == Repaired(records)
             r == itemsForReviewTable(records)
         IN  /\ Unnumbered(c.items) = Unnumbered(ReferenceTable(r))
             /\ c.resolutions = ReferenceResolutions(r)
             /\ NumbersContinued(c.items)
             /\ c.resolutions = {} => Len(c.items) = Len(r)
<1> DEFINE c == consolidate(records)
           r == itemsForReviewTable(records)
           I == Reviewable(Items)
<1>1. /\ Repaired(records).items = normalizeSequentialItemNumbers(c.items)
      /\ Repaired(records).resolutions = c.resolutions
  BY DEF Repaired, consolidate
<1>2. c.items \in Seq(I) /\ c.items = ReferenceTable(r) /\ c.resolutions = ReferenceResolutions(r)
  BY RecordsPublish, ConsolidateIsReference
<1>3. Itemised(I) /\ r \in Seq(I)
  BY RecordsPublish, ReviewableType, ReviewTableType
<1> HIDE DEF c, r, I
<1>4. /\ Len(normalizeSequentialItemNumbers(c.items)) = Len(c.items)
      /\ Unnumbered(normalizeSequentialItemNumbers(c.items)) = Unnumbered(c.items)
      /\ NumbersContinued(normalizeSequentialItemNumbers(c.items))
  BY <1>2, <1>3, RepairOnlyNumbers, RepairContinues
<1>5. c.resolutions = {} => Len(c.items) = Len(r)
  BY <1>2, <1>3, NothingDropped
<1> QED
  BY <1>1, <1>2, <1>4, <1>5 DEF r

(* Records that promise what they count are summed up to their items.      *)
LEMMA TotalsCountItems ==
  ASSUME NEW records \in Seq(BatchRecords),
         \A i \in 1..Len(records) : IsAccepted(records[i]) /\ Batch!Contract!Promised(records[i])
  PROVE  /\ acceptedBatches(records) = records
         /\ TotalExtracted(records) = Len(itemsForReviewTable(records))
         /\ TotalValidated(records) = Len(itemsForReviewTable(records))
<1> DEFINE numbers == [i \in 1..Len(records) |-> Len(records[i].output_json)]
<1>1. /\ acceptedBatches(records) = records
      /\ Len(itemsForReviewTable(records)) = Total(numbers)
  BY RecordsPublish, AllAccepted
<1>2. \A i \in 1..Len(records) :
        /\ records[i].extracted_item_count = Len(records[i].output_json)
        /\ records[i].validated_item_count = Len(records[i].output_json)
  BY DEF Batch!Contract!Promised, Batch!Contract!Accepting, IsAccepted
<1>3. /\ [i \in 1..Len(records) |-> records[i].extracted_item_count] = numbers
      /\ [i \in 1..Len(records) |-> records[i].validated_item_count] = numbers
  BY <1>2
<1> HIDE DEF numbers
<1> QED
  BY <1>1, <1>3 DEF TotalExtracted, TotalValidated

(* "completed" is said only of records that are all accepted and carry no  *)
(* warnings but the provider's, after a plain acceptance.                  *)
LEMMA CompletedMeans ==
  ASSUME NEW records, \A i \in 1..Len(records) : Batch!Contract!Promised(records[i]),
         NEW recommendation \in Recommendations, NEW warnings,
         processingStatus(recommendation, records, warnings) = "completed"
  PROVE  /\ recommendation = "accept"
         /\ warnings = {}
         /\ \A i \in 1..Len(records) :
              IsAccepted(records[i]) /\ records[i].warnings \subseteq {"provider_warnings"}
<1>1. /\ recommendation = "accept" /\ warnings = {}
      /\ \A i \in 1..Len(records) : records[i].validation_status \notin {"manual_review", "retry"}
  BY DEF processingStatus, Recommendations, Processor!Contract!Recommendations
<1>2. ASSUME NEW i \in 1..Len(records)
      PROVE  IsAccepted(records[i]) /\ records[i].warnings \subseteq {"provider_warnings"}
  <2>1. /\ records[i].recommendation \in {"accept", "accept_with_warning"}
        /\ records[i].warnings \subseteq {"ai_failed", "retry_limit_exhausted", "provider_warnings"}
        /\ "ai_failed" \notin records[i].warnings
        /\ "retry_limit_exhausted" \notin records[i].warnings
    BY <1>1 DEF Batch!Contract!Promised, Batch!Contract!Recommendations,
       Batch!Contract!Warnings, Batch!Contract!ProcessorWarnings, Batch!Contract!ProviderWarnings
  <2> QED
    BY <2>1 DEF IsAccepted
<1> QED
  BY <1>1, <1>2

(* The document a run returns has the table of its records.                *)
LEMMA FinishDelivers ==
  ASSUME Inductive, Delivered, NEW global,
         \/ global = GlobalFailure
         \/ \E r \in Recommendations, w \in AnswerWarnings : global = GlobalAnswer(r, w),
         Finish(global)
  PROVE  Delivered'
<1>1. PICK c \in consolidation : document' = {DocumentResult(global, c)}
  BY DEF Finish
<1>2. /\ stage' = "returned" /\ finalBatches' = finalBatches /\ consolidation' = consolidation
      /\ c = Repaired(finalBatches)
  BY DEF Finish, Delivered, Tabled
<1>3. /\ finalBatches \in Seq(BatchRecords)
      /\ \A i \in 1..Len(finalBatches) : Batch!Contract!Promised(finalBatches[i])
  BY DEF Inductive, Collected, Kept
<1> DEFINE d == DocumentResult(global, c)
           r == itemsForReviewTable(finalBatches)
           warned == detection \cup global.warnings \cup c.warnings
                     \cup UNION {finalBatches[i].warnings : i \in 1..Len(finalBatches)}
<1>4. /\ Unnumbered(c.items) = Unnumbered(ReferenceTable(r))
      /\ c.resolutions = ReferenceResolutions(r)
      /\ NumbersContinued(c.items)
      /\ c.resolutions = {} => Len(c.items) = Len(r)
  BY <1>2, <1>3, RepairedTable
<1>5. /\ d.batches = finalBatches /\ d.items = c.items /\ d.resolutions = c.resolutions
      /\ d.processing_status = processingStatus(global.recommendation, finalBatches, c.warnings)
      /\ d.global_validation = global.recommendation
      /\ d.global_warnings = warned
      /\ d.total_extracted_items = TotalExtracted(finalBatches)
      /\ d.total_validated_items = TotalValidated(finalBatches)
      /\ d.accepted_batch_count = c.accepted
  BY DEF DocumentResult
<1>6. /\ c.accepted = Len(acceptedBatches(finalBatches))
      /\ c.warnings = {} => c.resolutions = {}
  BY <1>2 DEF Repaired, consolidate
<1> HIDE DEF d, r, warned
<1>7. ASSUME d.processing_status = "completed"
      PROVE  /\ d.total_extracted_items = Len(d.items)
             /\ d.total_validated_items = Len(d.items)
             /\ d.accepted_batch_count = Len(d.batches)
             /\ d.global_warnings \subseteq {"provider_warnings"}
             /\ d.global_validation = "accept"
  <2>1. /\ global.recommendation \in Recommendations
        /\ global.warnings \subseteq {"provider_warnings"} \/ global.recommendation = "manual_review"
    <3>1. CASE global = GlobalFailure
      BY <3>1 DEF GlobalFailure, Recommendations, Processor!Contract!Recommendations
    <3>2. CASE \E g \in Recommendations, w \in AnswerWarnings : global = GlobalAnswer(g, w)
      <4>1. PICK g \in Recommendations, w \in AnswerWarnings : global = GlobalAnswer(g, w)
        BY <3>2
      <4>2. global.recommendation = g /\ global.warnings = w
        BY <4>1 DEF GlobalAnswer
      <4>3. w \subseteq {"provider_warnings"}
        BY DEF AnswerWarnings, Processor!Contract!ProviderWarnings
      <4> QED
        BY <4>2, <4>3
    <3> QED
      BY <3>1, <3>2
  <2>2. /\ global.recommendation = "accept" /\ c.warnings = {}
        /\ \A i \in 1..Len(finalBatches) :
             IsAccepted(finalBatches[i]) /\ finalBatches[i].warnings \subseteq {"provider_warnings"}
    <3>1. processingStatus(global.recommendation, finalBatches, c.warnings) = "completed"
      BY <1>5, <1>7
    <3>2. global.recommendation \in Recommendations
      BY <2>1
    <3>3. \A i \in 1..Len(finalBatches) : Batch!Contract!Promised(finalBatches[i])
      BY <1>3
    <3> QED
      BY <3>1, <3>2, <3>3, CompletedMeans, Zenon
  <2>3. /\ acceptedBatches(finalBatches) = finalBatches
        /\ TotalExtracted(finalBatches) = Len(r) /\ TotalValidated(finalBatches) = Len(r)
    BY <1>3, <2>2, TotalsCountItems DEF r
  <2>4. Len(c.items) = Len(r)
    BY <1>4, <1>6, <2>2
  <2>5. warned \subseteq {"provider_warnings"}
    <3>1. detection \subseteq {"provider_warnings"}
      BY DEF Inductive, AnswerWarnings, Processor!Contract!ProviderWarnings
    <3> QED
      BY <3>1, <2>1, <2>2 DEF warned
  <2> QED
    BY <1>5, <1>6, <2>2, <2>3, <2>4, <2>5
<1>8. document' = {d}
  BY <1>1 DEF d
<1>9. KeepsTheBest' /\ DroppedItemsAreTraced' /\ NumberingIsContinued'
  BY <1>4, <1>5, <1>8 DEF KeepsTheBest, DroppedItemsAreTraced, NumberingIsContinued, Reviewed, r
<1>10. CompletedIsClean'
  BY <1>7, <1>8 DEF CompletedIsClean, Processor!Contract!ProviderWarnings
<1>11. Tabled'
  BY <1>2 DEF Tabled, Delivered
<1> QED
  BY <1>9, <1>10, <1>11 DEF Delivered

(* No other step returns a document, and none changes a table made or the  *)
(* records it was made of.                                                 *)
LEMMA NextDelivers == Inductive /\ Delivered /\ [Next]_vars => Delivered'
<1> SUFFICES ASSUME Inductive, Delivered, [Next]_vars PROVE Delivered'
  OBVIOUS
<1>1. ASSUME document' = document, Tabled' PROVE Delivered'
  BY <1>1 DEF Delivered, KeepsTheBest, DroppedItemsAreTraced, CompletedIsClean,
     NumberingIsContinued, Reviewed, Processor!Contract!ProviderWarnings
<1>2. CASE \E planned \in 0..MaxBatches, warnings \in AnswerWarnings : Detect(planned, warnings)
  BY <1>1, <1>2 DEF Detect, Delivered, Tabled
<1>3. CASE DetectThrows
  BY <1>1, <1>3 DEF DetectThrows, Delivered, Tabled
<1>4. CASE StartBatch \/ ProcessBatch
  BY <1>1, <1>4 DEF StartBatch, ProcessBatch, run, Delivered, Tabled
<1>5. CASE CollectBatch
  BY <1>1, <1>5 DEF CollectBatch, Delivered, Tabled
<1>6. CASE Consolidate
  BY <1>1, <1>6 DEF Consolidate, Tabled, Repaired
<1>7. CASE \E recommendation \in Recommendations, warnings \in AnswerWarnings :
             Finish(GlobalAnswer(recommendation, warnings))
  BY <1>7, FinishDelivers
<1>8. CASE Finish(GlobalFailure)
  BY <1>8, FinishDelivers
<1>9. CASE UNCHANGED vars
  BY <1>1, <1>9 DEF vars, run, Delivered, Tabled
<1> QED
  BY <1>2, <1>3, <1>4, <1>5, <1>6, <1>7, <1>8, <1>9 DEF Next

(* Every document returned has the table, the trace, the status and the    *)
(* numbering that the properties ask for.                                  *)
LEMMA AlwaysDelivered == Spec => []Delivered
<1>1. Init => Delivered
  BY DEF Init, Delivered, Tabled, KeepsTheBest, DroppedItemsAreTraced, CompletedIsClean,
     NumberingIsContinued
<1>2. Inductive /\ Delivered /\ [Next]_vars => Delivered'
  BY NextDelivers
<1> QED
  BY <1>1, <1>2, AlwaysInductive, PTL DEF Spec

(* Whatever the provider extracts, and in however many batches, the table  *)
(* has one row per merge key, the best of its items, in the order of first *)
(* mention.                                                                *)
THEOREM TheBestIsKept == Spec => []KeepsTheBest
<1>1. Delivered => KeepsTheBest
  BY DEF Delivered
<1> QED
  BY <1>1, AlwaysDelivered, PTL

(* And the trace names, for every merge key met more than once, the item   *)
(* that was kept and all those that were dropped for it.                   *)
THEOREM EveryDropIsTraced == Spec => []DroppedItemsAreTraced
<1>1. Delivered => DroppedItemsAreTraced
  BY DEF Delivered
<1> QED
  BY <1>1, AlwaysDelivered, PTL

(* "completed" hides no failure and no loss: no item extracted is missing  *)
(* from the table, none was dropped, nothing failed or ran out, whatever   *)
(* the provider warns of in its answers.                                   *)
THEOREM CompletedHidesNothing == Spec => []CompletedIsClean
<1>1. Delivered => CompletedIsClean
  BY DEF Delivered
<1> QED
  BY <1>1, AlwaysDelivered, PTL

(* The repair of the numbers is carried across batches: no row keeps an    *)
(* OCR-like label that continues the numbered row before it.               *)
THEOREM NumbersRunThrough == Spec => []NumberingIsContinued
<1>1. Delivered => NumberingIsContinued
  BY DEF Delivered
<1> QED
  BY <1>1, AlwaysDelivered, PTL
==============================================================================
