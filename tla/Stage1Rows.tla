----------------------------- MODULE Stage1Rows -----------------------------
(* What stage 1 computes from the extracted rows of a procurement process:    *)
(* normalisation, choice of primary sources, quality review, validation, and  *)
(* the summary that decides whether the stage is ready.                       *)
(*                                                                            *)
(* A cell is a number or one of three stand-ins for text. Confidence is in    *)
(* percent. Two rows with the same text are similar descriptions.             *)
EXTENDS Integers, FiniteSets

CONSTANTS
    fileType,       \* the type of each document
    StrongAnchors   \* anchors that make a strong set (5 in the code)

Nothing == -1       \* an empty cell
Words == -2         \* text that is not a number
Repeat == -3        \* the row's description again
NoPriority == -1    \* no stage1_priority_override

Points(condition, points) == IF condition THEN points ELSE 0
Larger(a, b) == IF a >= b THEN a ELSE b
Smaller(a, b) == IF a <= b THEN a ELSE b
Read(cell) == cell # Nothing

-----------------------------------------------------------------------------
(* Normalisation: a price or a total is derived from the other. *)

parse_decimal(cell) == IF cell >= 0 THEN cell ELSE Nothing

normalize_raw_item(row) ==
    LET quantity == parse_decimal(row.quantity)
        readPrice == parse_decimal(row.price)
        readTotal == parse_decimal(row.total)
        price == IF ~Read(readPrice) /\ quantity > 0 /\ Read(readTotal)
                 THEN readTotal \div quantity ELSE readPrice
        total == IF ~Read(readTotal) /\ Read(quantity) /\ Read(price)
                 THEN quantity * price ELSE readTotal
    IN [quantity |-> quantity, price |-> price, total |-> total]

HasQuantity(row) == Read(normalize_raw_item(row).quantity)
HasPrice(row) == Read(normalize_raw_item(row).price)
HasTotal(row) == Read(normalize_raw_item(row).total)
Numbered(row) == row.number # 0
canonical_item_key(row) ==
    IF Numbered(row) THEN <<"item", row.number>> ELSE <<"desc", row.text>>
Siblings(rows, row) == {s \in rows : canonical_item_key(s) = canonical_item_key(row)}

-----------------------------------------------------------------------------
(* Choice of the primary sources, given the settings of the documents. *)

FILE_TYPE_PRIORITY == [excel |-> 400, pdf |-> 300, word |-> 250, image |-> 150, other |-> 100]

(* Mutant: the priority is read under a name that nobody writes. *)
priority_override_unread(setting) == 0
priority_override(setting) == Points(setting.priority # NoPriority, setting.priority)
normalized_item_source_score(row, settings) ==
    FILE_TYPE_PRIORITY[fileType[row.document]]
    + 120 + Points(Numbered(row), 220) + Points(HasQuantity(row), 80)
    + Points(Read(row.unit), 40) + Points(HasPrice(row), 200) + Points(HasTotal(row), 180)
    + row.confidence
    - Points(settings[row.document].supportOnly = "yes", 500)
    - Points(row.sheet = "support", 700)
    - Points(row.role = "support_item", 180)
    - Points(row.role = "note", 260)
    + priority_override(settings[row.document])

HasOfficialRows(rows, d) ==
    \E r \in rows : r.document = d /\ r.sheet = "official" /\ r.role = "official_item"
IsSupportGroup(rows, leader) ==
    HasOfficialRows(rows, leader.document) /\ leader.sheet = "support"

(* Rows of equal score lead a group in any order. *)
Leaders(rows, settings) ==
    {P \in SUBSET rows : \A r \in rows :
        \E best \in Siblings(rows, r) :
            /\ P \cap Siblings(rows, r) = {best}
            /\ \A s \in Siblings(rows, r) :
                  normalized_item_source_score(s, settings)
                    <= normalized_item_source_score(best, settings)}
_mark_primary_sources(rows, settings) ==
    {{r \in P : ~IsSupportGroup(rows, r)} : P \in Leaders(rows, settings)}

-----------------------------------------------------------------------------
(* The review of the rows before they are shown. *)

IsExcel(row) == fileType[row.document] = "excel"
_is_anchor(row) ==
    Numbered(row) /\ HasQuantity(row) /\ HasPrice(row) /\ HasTotal(row) /\ IsExcel(row)
Anchors(rows) == {r \in rows : _is_anchor(r)}
_is_priced_catalog_row(row) ==
    Numbered(row) /\ HasPrice(row) /\ ~Read(row.total) /\ Read(row.quantity)

_collect_flags(rows, primary, row) ==
    LET strong == Cardinality(Anchors(rows)) >= StrongAnchors
        catalog == _is_priced_catalog_row(row)
        raised ==
            [missing_item_number_with_anchor_set |-> strong /\ ~Numbered(row) /\ ~IsExcel(row),
             missing_quantity |-> ~HasQuantity(row) /\ ~catalog,
             missing_unit_price |-> ~HasPrice(row),
             missing_total |-> ~HasTotal(row) /\ ~catalog,
             unit_repeats_description |-> row.unit = Repeat,
             unit_price_repeats_description |-> row.price = Repeat,
             total_repeats_description |-> row.total = Repeat,
             non_structured_primary_row |-> ~IsExcel(row) /\ row \in primary /\ ~Numbered(row),
             narrative_fragment_without_structure |->
                 row.long /\ ~Numbered(row) /\ ~HasQuantity(row),
             possible_duplicate_of_numbered_item |->
                 ~Numbered(row) /\ \E a \in Anchors(rows) : a.text = row.text]
    IN {flag \in DOMAIN raised : raised[flag]}

_is_hard_exclusion(flags) ==
    \/ flags \cap {"unit_repeats_description", "unit_price_repeats_description",
                   "total_repeats_description"} # {}
    \/ {"missing_item_number_with_anchor_set", "missing_quantity",
        "possible_duplicate_of_numbered_item"} \subseteq flags

HardExclusions(rows, primary) ==
    {r \in rows : _is_hard_exclusion(_collect_flags(rows, primary, r))}
Candidates(rows, primary) ==
    {r \in rows : Cardinality(_collect_flags(rows, primary, r)) >= 2} \cup HardExclusions(rows, primary)

(* A model, if one is configured and answers, is shown the candidates and the *)
(* anchors; its word counts for every row it names but the hard exclusions.   *)
_apply_llm_review(rows, primary) ==
    SUBSET ((Candidates(rows, primary) \cup Anchors(rows)) \ HardExclusions(rows, primary))

(* What may be hidden in the end.                                             *)
(* Mutant: the model's word counts for the hard exclusions too. *)
ReviewedTrusting(rows, primary) == SUBSET HardExclusions(rows, primary)
Reviewed(rows, primary) ==
    IF Candidates(rows, primary) = {} THEN {{}}
    ELSE {HardExclusions(rows, primary) \cup H : H \in _apply_llm_review(rows, primary)}

-----------------------------------------------------------------------------
(* Validation: the issues a human has to look at. *)

IsComplete(row) == HasQuantity(row) /\ Read(row.unit) /\ HasPrice(row) /\ HasTotal(row)
_has_complete_primary_sibling(rows, primary, row) ==
    \E s \in Siblings(rows, row) \ {row} : s \in primary /\ IsComplete(s)
(* Mutant: a catalogue row need not say a quantity. *)
IsPricedCatalogIssueLoose(row) == Numbered(row) /\ HasPrice(row) /\ ~HasTotal(row)
IsPricedCatalogIssue(row) ==
    Numbered(row) /\ HasPrice(row) /\ ~HasTotal(row) /\ Read(row.quantity)

low_confidence(row) == row.confidence < 70
missing_required_fields(rows, primary, row) ==
    \/ ~IsPricedCatalogIssue(row) /\ (~HasQuantity(row) \/ ~Read(row.unit))
    \/ ~HasPrice(row) /\ ~HasTotal(row)
         /\ ~(row \notin primary /\ _has_complete_primary_sibling(rows, primary, row))
ambiguous_unit(row) == ~IsPricedCatalogIssue(row) /\ ~Read(row.unit)
arithmetic_mismatch(row) ==
    LET n == normalize_raw_item(row)
        difference == n.quantity * n.price - n.total
    IN /\ HasQuantity(row) /\ HasPrice(row) /\ HasTotal(row)
       /\ Larger(difference, -difference) > Larger(100, n.total \div 50)
duplicate_identity(rows, row) ==
    \E s \in Siblings(rows, row) \ {row} : s.document = row.document /\ s.sheet = row.sheet
contradiction(rows, row) ==
    \E s \in Siblings(rows, row) :
        HasPrice(s) /\ HasPrice(row) /\ normalize_raw_item(s).price # normalize_raw_item(row).price

evaluate_process(rows, primary) ==
    {r \in rows : \/ low_confidence(r) \/ missing_required_fields(rows, primary, r)
                  \/ ambiguous_unit(r) \/ arithmetic_mismatch(r)
                  \/ duplicate_identity(rows, r) \/ contradiction(rows, r)}

-----------------------------------------------------------------------------
(* The summary of stage 1: what it counts, its score and its status. *)

_has_stage_1_financial_basis(row) ==
    LET hasQuantity == Read(row.quantity)
        hasPrice == Read(row.price) \/ HasPrice(row)
        hasTotal == Read(row.total) \/ HasTotal(row)
    IN hasQuantity /\ hasPrice /\ (Numbered(row) \/ (Read(row.unit) /\ hasTotal))
IsNoise(row) ==
    \/ row.unit = Repeat \/ row.total = Repeat
    \/ ~Numbered(row) /\ ~Read(row.quantity) /\ ~Read(row.price)

(* Without a primary row, every row is taken for one. *)
PrimaryRows(rows, primary) == IF primary = {} THEN rows ELSE primary
VisibleRows(rows, primary, hidden) == PrimaryRows(rows, primary) \ hidden

minimum_expected_rows(documents) ==
    IF Cardinality(documents) <= 2 THEN 1 ELSE Smaller(3, Cardinality(documents))
_stage_1_missing_financial_limit(count) == IF count <= 3 THEN 1 ELSE Larger(2, count \div 10)

Metrics(documents, rows, primary, hidden) ==
    LET visible == VisibleRows(rows, primary, hidden)
    IN [raw_items |-> Cardinality(rows),
        visible |-> Cardinality(visible),
        low_confidence |-> Cardinality({r \in visible : r.confidence < 65}),
        missing_financial |-> Cardinality({r \in visible : ~_has_stage_1_financial_basis(r)}),
        missing_number |-> Cardinality({r \in visible : ~Numbered(r)}),
        noise |-> Cardinality({r \in visible : IsNoise(r)}),
        excluded |-> Cardinality(PrimaryRows(rows, primary)) - Cardinality(visible),
        lostExcel |-> /\ \E d \in documents : fileType[d] = "excel"
                      /\ \A r \in PrimaryRows(rows, primary) : ~IsExcel(r),
        expected |-> minimum_expected_rows(documents)]

_stage_1_consistency_score(m) ==
    Larger(0, 100 - Points(m.visible = 0, 70)
                  - Points(m.visible # 0 /\ m.visible < m.expected, 24)
                  - Smaller(30, m.low_confidence * 12) - Smaller(34, m.missing_financial * 7)
                  - Smaller(24, m.missing_number * 8) - Smaller(36, m.noise * 18)
                  - Smaller(35, m.excluded * 25) - Points(m.lostExcel, 20))

stage_1_needs_review(m, verdict) ==
    \/ m.visible < m.expected \/ m.low_confidence > 0 \/ m.noise > 0 \/ m.excluded > 0
    \/ m.missing_financial >= _stage_1_missing_financial_limit(m.visible)
    \/ verdict = "review_required"
=============================================================================
