---------------------------- MODULE Consolidation ----------------------------
(***************************************************************************)
(* FinalResultConsolidator.consolidate: the review table of a document,    *)
(* made from the batches the processor returned.  An item is a record      *)
(* that IsItem describes; its name stands for its normalised description   *)
(* (NoName when null), and of its warnings only the tags the code asks     *)
(* about are kept.                                                         *)
(***************************************************************************)
EXTENDS ItemLabels

CONSTANT NoName  (* the description of an item that has none              *)

IsItem(x) ==
  /\ x = [uid |-> x.uid, number |-> x.number, name |-> x.name,
          confidence |-> x.confidence, warnings |-> x.warnings]
  /\ x.number \in Labels
  /\ x.confidence \in Int

\* The two recommendations whose batches are consolidated without a remark.
IsAccepted(batch) == batch.recommendation \in {"accept", "accept_with_warning"}

IsManualReview(batch) == batch.recommendation = "manual_review"

isManualReviewItem(item) == "manual_review" \in item.warnings

\* Items with the same number and description are one item; an item that
\* lacks either is known by its uid, which is the provider's to choose.
buildMergeKey(item) ==
  IF item.number # NoLabel /\ item.name # NoName
  THEN <<item.number, item.name>>
  ELSE <<item.uid>>

\* The items of a batch as they enter the table.
effectiveItems(batch) ==
  [i \in 1..Len(batch.output_json) |->
    IF IsManualReview(batch)
    THEN [batch.output_json[i] EXCEPT !.warnings = @ \cup {"manual_review"}]
    ELSE batch.output_json[i]]

acceptedBatches(batches) == Keeping(batches, {b \in Range(batches) : IsAccepted(b)})

manualReviewBatches(batches) ==
  Keeping(batches, {b \in Range(batches) : IsManualReview(b) /\ b.output_json # << >>})

\* Every item that reaches the table, in the order the code meets them.
itemsForReviewTable(batches) ==
  LET reviewed == acceptedBatches(batches) \o manualReviewBatches(batches)
  IN  FlattenSeq([i \in 1..Len(reviewed) |-> effectiveItems(reviewed[i])])

\* Variant with a fault: the later of two items is kept.
keepCurrentLatest(existing, item) == ~isManualReviewItem(item) \/ isManualReviewItem(existing)

\* An item nobody has to review beats one somebody has to; else confidence.
keepCurrent(existing, item) ==
  \/ isManualReviewItem(existing) /\ ~isManualReviewItem(item)
  \/ /\ isManualReviewItem(existing) <=> isManualReviewItem(item)
     /\ item.confidence > existing.confidence

\* Variant with a fault: the trace forgets the items dropped before.
resolutionForgetful(resolutions, key, kept, dropped) ==
  {r \in resolutions : r.merge_key # key}
  \cup {[merge_key |-> key, kept_item_uid |-> kept.uid, dropped_item_uids |-> {dropped.uid}]}

\* The duplicate trace after one more duplicate of this key.
resolution(resolutions, key, kept, dropped) ==
  LET earlier == {r \in resolutions : r.merge_key = key}
  IN  (resolutions \ earlier)
      \cup {[merge_key         |-> key,
             kept_item_uid     |-> kept.uid,
             dropped_item_uids |-> {dropped.uid} \cup UNION {r.dropped_item_uids : r \in earlier}]}

\* One turn of the loop: keptByKey is an insertion-ordered map, so a kept item
\* that is replaced leaves its place to the one that replaces it.
mergeItem(acc, item) ==
  LET key  == buildMergeKey(item)
      held == {i \in 1..Len(acc.items) : buildMergeKey(acc.items[i]) = key}
  IN  IF held = {}
      THEN [acc EXCEPT !.items = Append(@, item)]
      ELSE LET i       == Min(held)
               current == keepCurrent(acc.items[i], item)
               kept    == IF current THEN item ELSE acc.items[i]
               dropped == IF current THEN acc.items[i] ELSE item
           IN  [items       |-> [acc.items EXCEPT ![i] = kept],
                resolutions |-> resolution(acc.resolutions, key, kept, dropped)]

\* The table, the duplicate trace and the consolidation warnings.
consolidate(batches) ==
  LET merged == FoldLeft(mergeItem, [items |-> << >>, resolutions |-> {}],
                         itemsForReviewTable(batches))
  IN  [items       |-> merged.items,
       resolutions |-> merged.resolutions,
       warnings    |->
         (IF merged.resolutions # {} THEN {"duplicates_resolved"} ELSE {})
         \cup (IF manualReviewBatches(batches) # << >> THEN {"manual_batches_included"} ELSE {}),
       accepted    |-> Len(acceptedBatches(batches))]
------------------------------------------------------------------------------
(***************************************************************************)
(* What the table must be, said without the order in which it is filled:   *)
(* of the items with one merge key, the first among the best is kept and   *)
(* all others are traced as dropped.                                       *)
(***************************************************************************)
\* The rows without what the repair of the numbers changes in them.
Unnumbered(rows) ==
  [i \in 1..Len(rows) |->
    [rows[i] EXCEPT !.number = NoLabel, !.warnings = @ \ {"renumbered"}]]

Better(a, b) ==
  \/ ~isManualReviewItem(a) /\ isManualReviewItem(b)
  \/ /\ isManualReviewItem(a) <=> isManualReviewItem(b)
     /\ a.confidence > b.confidence

\* The positions in reviewed of the items that share the merge key of position i.
Duplicates(reviewed, i) ==
  {j \in 1..Len(reviewed) : buildMergeKey(reviewed[j]) = buildMergeKey(reviewed[i])}

\* The position of the item to keep of a group of positions.
BestOf(reviewed, group) ==
  Min({j \in group : \A k \in group : ~Better(reviewed[k], reviewed[j])})

\* One row per merge key, the best of its items, in the order of first mention.
ReferenceTable(reviewed) ==
  LET firsts == Keeping([i \in 1..Len(reviewed) |-> i],
                        {i \in 1..Len(reviewed) : Min(Duplicates(reviewed, i)) = i})
  IN  [n \in 1..Len(firsts) |-> reviewed[BestOf(reviewed, Duplicates(reviewed, firsts[n]))]]

\* One resolution per merge key that several items share.
ReferenceResolutions(reviewed) ==
  {LET group == Duplicates(reviewed, i)
       best  == BestOf(reviewed, group)
   IN  [merge_key         |-> buildMergeKey(reviewed[i]),
        kept_item_uid     |-> reviewed[best].uid,
        dropped_item_uids |-> {reviewed[j].uid : j \in group \ {best}}] :
   i \in {i \in 1..Len(reviewed) : Duplicates(reviewed, i) # {i}}}
==============================================================================
