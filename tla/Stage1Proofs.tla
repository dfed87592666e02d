---------------------------- MODULE Stage1Proofs ----------------------------
(* Proofs about Stage1, for any number of documents, rows and iterations and  *)
(* any answers of the model: what is stored is what the rules compute from    *)
(* the extracted rows, so no shifted row is shown, the preferred source leads *)
(* and the two rule sets agree; and an approval was deserved by what it       *)
(* judged, which is what it is stored beside unless it was overtaken.         *)
EXTENDS Stage1, FiniteSetTheorems, TLAPS

(* What the properties need to know of rows and settings. *)
Rows == UNION {extracted[d][b] : d \in Documents, b \in BOOLEAN}
Usable(settings) ==
    \A d \in Documents : "priority" \in DOMAIN settings[d] /\ settings[d].priority \in Int

(* An approval is of deserving rows, which s stores unless it is overtaken. *)
About(verdict, s) ==
    /\ verdict.decision \in {"none", "proceed", "review_required"}
    /\ verdict.decision = "proceed" =>
          /\ verdict = [decision |-> verdict.decision, judged |-> verdict.judged,
                        overtaken |-> verdict.overtaken]
          /\ Deserving(verdict.judged)
          /\ ~verdict.overtaken => verdict.judged = Judged(s)

(* What is stored was computed from the rows that its basis gives. *)
Computed(s) ==
    /\ s = [settings |-> s.settings, basis |-> s.basis, rows |-> s.rows, primary |-> s.primary,
            hidden |-> s.hidden, issues |-> s.issues, verdict |-> s.verdict]
    /\ s.rows \in SUBSET Rows /\ IsFiniteSet(s.rows)
    /\ \A r \in s.rows : r \in extracted[r.document][ReadOtherwise(r.document, s.basis[r.document])]
    /\ s.primary \in _mark_primary_sources(s.rows, s.basis)
    /\ s.hidden \in Reviewed(s.rows, s.primary)
    /\ s.issues = evaluate_process(s.rows, s.primary)
    /\ Usable(s.settings) /\ Usable(s.basis) /\ About(s.verdict, s)

(* What a correction has loaded is what is stored, until it is overtaken. *)
Fits(detail, overtaken, s) ==
    /\ Usable(detail.settings)
    /\ detail.ready => Deserving(Judged(detail))
    /\ ~overtaken => Judged(detail) = Judged(s)
Correcting(j, s) ==
    /\ j.pc \in {"idle", "plan", "judge", "close"}
    /\ j.pc \in {"plan", "judge"} => j.iteration \in 1 .. MaxIterations
    /\ j.pc = "plan" =>
          /\ j = [pc |-> "plan", overtaken |-> j.overtaken, ai |-> j.ai, iteration |-> j.iteration,
                  detail |-> j.detail]
          /\ Fits(j.detail, j.overtaken, s)
    /\ j.pc = "close" => j = [pc |-> "close", verdict |-> j.verdict] /\ About(j.verdict, s)

Inductive ==
    /\ documents \subseteq Documents
    /\ Computed(stored) /\ \A c \in Corrections : Correcting(job[c], stored)
    /\ job = [c \in Corrections |-> job[c]]

-----------------------------------------------------------------------------
(* Rows. *)

(* The cells of an extracted row. *)
LEMMA RowsHaveTypes ==
    ASSUME NEW r \in Rows
    PROVE  /\ r.document \in Documents /\ r.confidence \in 0 .. 100
           /\ r.quantity \in Int /\ r.price \in Int /\ r.total \in Int
BY ExtractedAssumption DEF Rows

(* What the code derives from two cells: a total, or a unit price. *)
LEMMA DerivedCells ==
    ASSUME NEW q \in Nat, NEW p \in Nat
    PROVE  q * p \in Nat /\ (q > 0 => p \div q \in Nat)
OBVIOUS

(* Only stored rows are primary. *)
LEMMA PrimaryIsStored ==
    ASSUME NEW rows, NEW settings, NEW P \in _mark_primary_sources(rows, settings)
    PROVE  P \subseteq rows
BY DEF _mark_primary_sources, Leaders

(* The review hides every hard exclusion, and only rows. *)
LEMMA ReviewHides ==
    ASSUME NEW rows, NEW primary, NEW H \in Reviewed(rows, primary)
    PROVE  HardExclusions(rows, primary) \subseteq H
BY DEF Reviewed, Candidates

(* The review hides nothing else. *)
LEMMA ReviewHidesRows ==
    ASSUME NEW rows, NEW primary, NEW H \in Reviewed(rows, primary)
    PROVE  H \subseteq rows
BY DEF Reviewed, _apply_llm_review, Candidates, HardExclusions, Anchors

(* A row whose cells repeat the description is a hard exclusion. *)
LEMMA ShiftedIsExcluded ==
    ASSUME NEW rows, NEW primary, NEW r \in rows, Repeat \in {r.unit, r.price, r.total}
    PROVE  r \in HardExclusions(rows, primary)
<1>1. _collect_flags(rows, primary, r) \cap
        {"unit_repeats_description", "unit_price_repeats_description", "total_repeats_description"} # {}
  BY DEF _collect_flags
<1> QED
  BY <1>1 DEF HardExclusions, _is_hard_exclusion

(* A row that is taken for primary has no other complete row in its place. *)
LEMMA IncompleteIsAnIssue ==
    ASSUME NEW rows, NEW primary, NEW r \in Rows, r \in PrimaryRows(rows, primary), r \in rows,
           ~_has_stage_1_financial_basis(r), r.quantity # 0
    PROVE  r \in evaluate_process(rows, primary)
<1> DEFINE q == parse_decimal(r.quantity)
           p == parse_decimal(r.price)
           t == parse_decimal(r.total)
<1>1. q \in Nat \cup {Nothing} /\ p \in Nat \cup {Nothing} /\ t \in Nat \cup {Nothing}
      /\ (q = 0 => r.quantity = 0) /\ (Read(q) => Read(r.quantity)) /\ (Read(p) => Read(r.price))
  BY RowsHaveTypes DEF parse_decimal, Nothing, Read
<1>2. /\ HasQuantity(r) <=> Read(q)
      /\ HasPrice(r) <=> Read(p) \/ (Read(q) /\ Read(t))
      /\ HasTotal(r) <=> Read(t) \/ (Read(q) /\ HasPrice(r))
  BY <1>1 DEF HasQuantity, HasPrice, HasTotal, normalize_raw_item, Read, Nothing
<1>3. r \notin primary => primary = {}
  BY DEF PrimaryRows
<1>4. missing_required_fields(rows, primary, r) \/ ambiguous_unit(r)
  BY <1>1, <1>2, <1>3
     DEF missing_required_fields, ambiguous_unit, IsPricedCatalogIssue,
         _has_complete_primary_sibling, _has_stage_1_financial_basis
<1> QED
  BY <1>4 DEF evaluate_process

(* An official row of an Excel document with the priority that the correction *)
(* gives outweighs every row of a document without one.                       *)
LEMMA PriorityOutweighs ==
    ASSUME NEW settings, Usable(settings), NEW r \in Rows, NEW s \in Rows,
           IsExcel(r), r.sheet = "official", r.role = "official_item",
           settings[r.document].priority = 900, settings[r.document].supportOnly # "yes",
           canonical_item_key(s) = canonical_item_key(r), settings[s.document].priority <= 0
    PROVE  /\ normalized_item_source_score(s, settings) \in Int
           /\ normalized_item_source_score(r, settings) \in Int
           /\ normalized_item_source_score(s, settings) < normalized_item_source_score(r, settings)
<1>1. Numbered(r) <=> Numbered(s)
  BY DEF canonical_item_key
<1>2. /\ FILE_TYPE_PRIORITY[fileType[r.document]] = 400
      /\ FILE_TYPE_PRIORITY[fileType[s.document]] \in 0 .. 400
  <2>1. fileType[s.document] \in {"excel", "pdf", "word", "image", "other"}
    BY RowsHaveTypes, DocumentsAssumption DEF FILE_TYPE_PRIORITY
  <2> QED
    BY <2>1 DEF FILE_TYPE_PRIORITY, IsExcel
<1>3. \A condition, n : Points(condition, n) \in {0, n}
  BY DEF Points
<1>4. priority_override(settings[r.document]) = 900
      /\ priority_override(settings[s.document]) \in Int
      /\ priority_override(settings[s.document]) <= 0
  BY RowsHaveTypes DEF Usable, priority_override, Points, NoPriority
<1>5. r.confidence \in 0 .. 100 /\ s.confidence \in 0 .. 100
  BY RowsHaveTypes
<1>6. Points(Numbered(r), 220) = Points(Numbered(s), 220)
  BY <1>1 DEF Points
<1>7. /\ Points(settings[r.document].supportOnly = "yes", 500) = 0
      /\ Points(r.sheet = "support", 700) = 0 /\ Points(r.role = "support_item", 180) = 0
      /\ Points(r.role = "note", 260) = 0
  BY DEF Points
<1>8. /\ normalized_item_source_score(r, settings) \in Int
      /\ normalized_item_source_score(r, settings) >= 1420 + Points(Numbered(r), 220)
  BY <1>2, <1>3, <1>4, <1>5, <1>7 DEF normalized_item_source_score
<1>9. /\ normalized_item_source_score(s, settings) \in Int
      /\ normalized_item_source_score(s, settings) <= 1120 + Points(Numbered(s), 220)
  <2> DEFINE type == FILE_TYPE_PRIORITY[fileType[s.document]]
             number == Points(Numbered(s), 220)
             quantity == Points(HasQuantity(s), 80)
             unit == Points(Read(s.unit), 40)
             price == Points(HasPrice(s), 200)
             total == Points(HasTotal(s), 180)
             only == Points(settings[s.document].supportOnly = "yes", 500)
             sheet == Points(s.sheet = "support", 700)
             role == Points(s.role = "support_item", 180)
             note == Points(s.role = "note", 260)
             override == priority_override(settings[s.document])
  <2>1. number \in Nat /\ quantity \in 0 .. 80 /\ unit \in 0 .. 40 /\ price \in 0 .. 200
        /\ total \in 0 .. 180 /\ only \in Nat /\ sheet \in Nat /\ role \in Nat /\ note \in Nat
    BY DEF Points
  <2>2. type \in 0 .. 400 /\ override \in Int /\ override <= 0
    BY <1>2, <1>4
  <2>3. normalized_item_source_score(s, settings) =
          type + 120 + number + quantity + unit + price + total + s.confidence
            - only - sheet - role - note + override
    BY DEF normalized_item_source_score
  <2> HIDE DEF type, number, quantity, unit, price, total, only, sheet, role, note, override
  <2> DEFINE confidence == s.confidence
             gains == type + 120 + number + quantity + unit + price + total + confidence
  <2>4. confidence \in 0 .. 100
    BY <1>5
  <2> HIDE DEF confidence
  <2>5. gains \in Int /\ gains <= 1120 + number
    BY <2>1, <2>2, <2>4
  <2>6. normalized_item_source_score(s, settings) = gains - only - sheet - role - note + override
    BY <2>1, <2>2, <2>3, <2>4 DEF confidence
  <2> HIDE DEF gains
  <2>7. /\ normalized_item_source_score(s, settings) \in Int
        /\ normalized_item_source_score(s, settings) <= 1120 + number
    BY <2>1, <2>2, <2>5, <2>6
  <2> QED
    BY <2>7 DEF number
<1>10. Points(Numbered(r), 220) \in Int
  BY DEF Points
<1> QED
  BY <1>6, <1>8, <1>9, <1>10

(* With the preferred source among its siblings no other source leads a row. *)
LEMMA PreferredIsPrimary ==
    ASSUME NEW rows \in SUBSET Rows, NEW settings, Usable(settings),
           NEW P \in _mark_primary_sources(rows, settings),
           NEW r \in rows, IsExcel(r), r.sheet = "official", r.role = "official_item",
           settings[r.document].priority = 900, settings[r.document].supportOnly # "yes",
           NEW s \in Siblings(rows, r), settings[s.document].priority <= 0
    PROVE  s \notin P
<1> SUFFICES ASSUME s \in P PROVE FALSE
  OBVIOUS
<1>1. PICK Q \in Leaders(rows, settings) : P \subseteq Q
  BY DEF _mark_primary_sources
<1>2. PICK best \in Siblings(rows, r) :
          /\ Q \cap Siblings(rows, r) = {best}
          /\ \A t \in Siblings(rows, r) :
                normalized_item_source_score(t, settings) <= normalized_item_source_score(best, settings)
  BY DEF Leaders
<1>3. s = best /\ r \in Siblings(rows, r) /\ s \in rows
      /\ canonical_item_key(s) = canonical_item_key(r)
  BY <1>1, <1>2 DEF Siblings
<1>4. normalized_item_source_score(r, settings) <= normalized_item_source_score(s, settings)
  BY <1>2, <1>3
<1> QED
  BY <1>3, <1>4, PriorityOutweighs

-----------------------------------------------------------------------------
(* What a run of stage 1 stores is computed. *)
LEMMA RunIsComputed ==
    ASSUME documents \subseteq Documents, NEW basis, Usable(basis), NEW settings, Usable(settings),
           NEW s \in RunOutcomes(basis, settings)
    PROVE  Computed(s)
<1> DEFINE rows == Extracted(basis)
<1>1. PICK P \in _mark_primary_sources(rows, basis) :
          \E H \in Reviewed(rows, P) :
              s = [settings |-> settings, basis |-> basis, rows |-> rows, primary |-> P, hidden |-> H,
                   issues |-> evaluate_process(rows, P), verdict |-> VerdictAfterRun]
  BY DEF RunOutcomes
<1>2. \A d \in documents : ReadOtherwise(d, basis[d]) \in BOOLEAN
  BY DEF ReadOtherwise
<1>3. rows \in SUBSET Rows
  BY <1>2 DEF Extracted, Rows
<1>4. \A r \in rows : r \in extracted[r.document][ReadOtherwise(r.document, basis[r.document])]
  BY <1>2, ExtractedAssumption DEF Extracted
<1>5. IsFiniteSet(rows)
  <2>1. IsFiniteSet(documents)
    BY DocumentsAssumption, FS_Subset
  <2> DEFINE given == {extracted[d][ReadOtherwise(d, basis[d])] : d \in documents}
  <2>2. IsFiniteSet(given)
    <3> DEFINE f == [d \in documents |-> extracted[d][ReadOtherwise(d, basis[d])]]
    <3>1. f \in Surjection(documents, given)
      BY DEF Surjection
    <3> QED
      BY <2>1, <3>1, FS_Surjection
  <2>3. \A S \in given : IsFiniteSet(S)
    BY <1>2, ExtractedAssumption
  <2> QED
    BY <2>2, <2>3, FS_UNION DEF Extracted
<1>6. About(VerdictAfterRun, s)
  BY DEF VerdictAfterRun, NoVerdict, About
<1> HIDE DEF rows
<1> QED
  BY <1>1, <1>3, <1>4, <1>5, <1>6 DEF Computed

-----------------------------------------------------------------------------
(* What a request loads, and the verdict on it. *)
LEMMA NoneCounted ==
    ASSUME NEW S, IsFiniteSet(S), NEW T \in SUBSET S, ~ (Cardinality(T) > 0)
    PROVE  T = {}
<1>1. IsFiniteSet(T)
  BY FS_Subset
<1>2. Cardinality(T) \in Nat
  BY <1>1, FS_CardinalityType
<1> QED
  BY <1>1, <1>2, FS_EmptySet

(* The rows of a detail that the rules call ready deserve a "proceed". *)
LEMMA ReadyIsDeserving ==
    ASSUME Inductive, Loaded.ready
    PROVE  Deserving(Judged(Loaded))
<1> DEFINE P == PrimaryRows(stored.rows, stored.primary)
           V == VisibleRows(stored.rows, stored.primary, stored.hidden)
           m == Metrics(documents, stored.rows, stored.primary, stored.hidden)
           low == {r \in V : r.confidence < 65}
           noise == {r \in V : IsNoise(r)}
<1>1. stored.primary \subseteq stored.rows /\ IsFiniteSet(stored.rows) /\ stored.rows \in SUBSET Rows
  BY PrimaryIsStored DEF Inductive, Computed
<1>2. P \subseteq stored.rows /\ V = P \ stored.hidden
  BY <1>1 DEF PrimaryRows, VisibleRows
<1>3. IsFiniteSet(P) /\ IsFiniteSet(V)
  BY <1>1, <1>2, FS_Subset
<1>4. ~stage_1_needs_review(m, stored.verdict.decision)
  BY DEF Loaded
<1>5. /\ m.visible = Cardinality(V) /\ m.low_confidence = Cardinality(low)
      /\ m.noise = Cardinality(noise) /\ m.excluded = Cardinality(P) - Cardinality(V)
      /\ m.expected = minimum_expected_rows(documents)
  BY DEF Metrics
<1> HIDE DEF m
<1>6. /\ ~ (Cardinality(V) < minimum_expected_rows(documents)) /\ ~ (Cardinality(low) > 0)
      /\ ~ (Cardinality(noise) > 0) /\ ~ (Cardinality(P) - Cardinality(V) > 0)
  BY <1>4, <1>5 DEF stage_1_needs_review
<1>7. low = {} /\ noise = {}
  BY <1>3, <1>6, NoneCounted
<1>8. V = P
  <2>1. Cardinality(P) \in Nat /\ Cardinality(V) \in Nat /\ Cardinality(V) <= Cardinality(P)
    BY <1>2, <1>3, FS_CardinalityType, FS_Subset
  <2>2. Cardinality(P) = Cardinality(V)
    BY <1>6, <2>1
  <2> QED
    BY <1>2, <1>3, <2>2, FS_Subset
<1>9. V # {}
  <2>1. Cardinality(documents) \in Nat
    BY DocumentsAssumption, FS_Subset, FS_CardinalityType DEF Inductive
  <2>2. minimum_expected_rows(documents) \in Nat /\ minimum_expected_rows(documents) >= 1
    BY <2>1 DEF minimum_expected_rows, Smaller
  <2>3. Cardinality({}) = 0
    BY FS_EmptySet
  <2> QED
    BY <1>6, <2>2, <2>3
<1>10. ASSUME NEW r \in P PROVE r \notin stored.hidden /\ r.confidence >= 65 /\ ~IsNoise(r)
  <2>1. r \in V /\ r \in Rows
    BY <1>1, <1>2, <1>8
  <2>2. r.confidence \in Int
    BY <2>1, RowsHaveTypes
  <2> QED
    BY <1>2, <1>7, <2>1, <2>2
<1>11. /\ Judged(Loaded).rows = stored.rows /\ Judged(Loaded).primary = stored.primary
       /\ Judged(Loaded).hidden = stored.hidden
  BY DEF Loaded, Judged
<1> QED
  BY <1>9, <1>10, <1>11 DEF Deserving

(* What a correction loads is what is stored. *)
LEMMA LoadedFits == ASSUME Inductive PROVE Fits(Loaded, FALSE, stored)
<1>1. Judged(Loaded) = Judged(stored) /\ Loaded.settings = stored.settings
  BY DEF Loaded, Judged
<1> QED
  BY <1>1, ReadyIsDeserving DEF Fits, Inductive, Computed

(* The model can refuse, never approve, what the rules decide. *)
LEMMA VerdictIsAbout ==
    ASSUME NEW detail, NEW overtaken, Fits(detail, overtaken, stored),
           NEW ai, NEW decision \in evaluate(detail, ai)
    PROVE  About(Verdict(detail, decision, overtaken), stored)
<1>1. decision \in {"proceed", "review_required"} /\ (decision = "proceed" => detail.ready)
  BY DEF evaluate, _rule_gate
<1>2. CASE decision = "proceed"
  BY <1>1, <1>2 DEF About, Verdict, Fits
<1>3. CASE decision = "review_required"
  BY <1>3 DEF About, Verdict
<1> QED
  BY <1>1, <1>2, <1>3

(* The settings that a plan asks for are settings. *)
LEMMA PlannedSettings ==
    ASSUME NEW detail, NEW ai, NEW plan \in plan_actions(detail, ai),
           NEW actions, actions = filter_effective_actions(detail, plan),
           NEW settings, Usable(settings)
    PROVE  Usable(apply_actions(settings, actions))
<1>1. \A a \in actions : a.setting = "priority" => a.value \in Int
  <2>1. \A a \in _rule_actions(detail) : a.setting = "priority" => a.value \in Int
    BY DEF _rule_actions, Action
  <2>2. PICK answers \in SUBSET ModelActions : plan = _merge_actions(_rule_actions(detail), answers)
    BY DEF plan_actions, _llm_actions, _sanitize_llm_actions
  <2>3. \A a \in plan : a \in _rule_actions(detail) \/ a \in ModelActions
    BY <2>2 DEF _merge_actions
  <2> QED
    BY <2>1, <2>3, ActionsAssumption DEF filter_effective_actions
<1>2. ASSUME NEW d \in Documents
      PROVE  /\ "priority" \in DOMAIN apply_actions(settings, actions)[d]
             /\ apply_actions(settings, actions)[d].priority \in Int
  <2> DEFINE chosen == {a \in actions : a.document = d /\ a.setting = "priority"}
  <2>1. "priority" \in DOMAIN settings[d] /\ settings[d].priority \in Int
    BY DEF Usable
  <2>2. chosen # {} => (CHOOSE a \in chosen : TRUE).value \in Int
    BY <1>1
  <2>3. apply_actions(settings, actions)[d].priority =
          IF chosen = {} THEN settings[d].priority ELSE (CHOOSE a \in chosen : TRUE).value
    BY <2>1 DEF apply_actions
  <2>4. "priority" \in DOMAIN apply_actions(settings, actions)[d]
    BY <2>1 DEF apply_actions
  <2> QED
    BY <2>1, <2>2, <2>3, <2>4
<1> QED
  BY <1>2 DEF Usable

(* Settings of two sources are settings. *)
LEMMA InsteadUsable ==
    ASSUME Usable(stored.settings), NEW settings, Usable(settings), NEW chosen
    PROVE  Usable(Instead(chosen, settings))
BY DEF Instead, Usable

(* What a rerun of a correction stores is computed, whatever its session held. *)
LEMMA ReplacementIsComputed ==
    ASSUME Inductive, NEW detail, Usable(detail.settings), NEW ai, NEW plan \in plan_actions(detail, ai),
           NEW actions, actions = filter_effective_actions(detail, plan),
           NEW s \in Replacements(detail, actions)
    PROVE  Computed(s)
<1> DEFINE Basis(held) == apply_actions(Instead(held, detail.settings), actions)
           Settings(held, written) == Instead({a.document : a \in actions} \cup written, Basis(held))
           Outcomes(held, written) == RunOutcomes(Basis(held), Settings(held, written))
<1>1. Replacements(detail, actions) =
        UNION {UNION {Outcomes(held, written) : written \in SUBSET held}
               : held \in SUBSET Differing(detail.settings)}
  BY DEF Replacements
<1> HIDE DEF Outcomes
<1>2. PICK held \in SUBSET Differing(detail.settings) :
          s \in UNION {Outcomes(held, written) : written \in SUBSET held}
  BY <1>1
<1>3. PICK written \in SUBSET held : s \in Outcomes(held, written)
  BY <1>2
<1> DEFINE basis == Basis(held)
           settings == Settings(held, written)
<1>4. Usable(stored.settings) /\ documents \subseteq Documents
  BY DEF Inductive, Computed
<1>5. Usable(Instead(held, detail.settings))
  BY <1>4, InsteadUsable
<1>6. Usable(basis)
  BY <1>5, PlannedSettings
<1>7. s \in RunOutcomes(basis, settings)
  BY <1>3 DEF Outcomes
<1>8. Usable(settings)
  BY <1>4, <1>6, InsteadUsable
<1> HIDE DEF basis, settings
<1> QED
  BY <1>4, <1>6, <1>7, <1>8, RunIsComputed

-----------------------------------------------------------------------------
(* The invariant and the steps. *)
LEMMA InitInductive == Init => Inductive
<1> SUFFICES ASSUME Init PROVE Inductive
  OBVIOUS
<1>1. documents \subseteq Documents
  BY DocumentsAssumption DEF Init
<1>2. /\ \A c \in Corrections : Correcting(job[c], stored)
      /\ job = [c \in Corrections |-> job[c]]
  BY DEF Init, NoJob, Correcting
<1>3. stored = [settings |-> [d \in Documents |-> NoSettings],
                basis |-> [d \in Documents |-> NoSettings], rows |-> {},
                primary |-> {}, hidden |-> {}, issues |-> {}, verdict |-> NoVerdict]
  BY DEF Init
<1>4. {} \in _mark_primary_sources({}, stored.basis)
  <2>1. {} \in Leaders({}, stored.basis)
    BY DEF Leaders
  <2> QED
    BY <2>1 DEF _mark_primary_sources
<1>5. {} \in Reviewed({}, {})
  BY DEF Reviewed, Candidates, HardExclusions
<1>6. evaluate_process({}, {}) = {}
  BY DEF evaluate_process
<1>7. Usable(stored.settings) /\ Usable(stored.basis) /\ About(stored.verdict, stored)
  BY <1>3 DEF Usable, NoSettings, NoPriority, About, NoVerdict
<1>8. Computed(stored)
  BY <1>3, <1>4, <1>5, <1>6, <1>7, FS_EmptySet DEF Computed
<1> QED
  BY <1>1, <1>2, <1>8 DEF Inductive

(* A step of one correction that stores nothing. *)
LEMMA JobStep ==
    ASSUME Inductive, UNCHANGED <<documents, stored>>, NEW c \in Corrections, NEW there,
           Goto(c, there), Correcting(there, stored)
    PROVE  Inductive'
<1>1. Computed(stored') /\ stored' = stored
  BY DEF Inductive
<1>2. /\ job' = [k \in Corrections |-> job'[k]]
      /\ \A k \in Corrections : job'[k] = IF k = c THEN there ELSE job[k]
  BY DEF Goto, Inductive
<1>3. \A k \in Corrections : Correcting(job'[k], stored')
  BY <1>1, <1>2 DEF Inductive
<1> QED
  BY <1>1, <1>2, <1>3 DEF Inductive

(* The end of a correction, with a verdict about what it loaded. *)
LEMMA CloseStep ==
    ASSUME Inductive, UNCHANGED <<documents, stored>>, NEW c \in Corrections, NEW detail,
           NEW overtaken, Fits(detail, overtaken, stored), NEW ai,
           NEW decision \in evaluate(detail, ai), Close(c, detail, decision, overtaken)
    PROVE  Inductive'
<1> DEFINE verdict == Verdict(detail, decision, overtaken)
<1>1. About(verdict, stored)
  BY VerdictIsAbout
<1> HIDE DEF verdict
<1>2. Correcting([pc |-> "close", verdict |-> verdict], stored)
  BY <1>1 DEF Correcting
<1>3. Goto(c, [pc |-> "close", verdict |-> verdict])
  BY DEF Close, verdict
<1> QED
  BY <1>2, <1>3, JobStep

(* The next plan, from what is stored. *)
LEMMA PlanNextStep ==
    ASSUME Inductive, UNCHANGED <<documents, stored>>, NEW c \in Corrections, NEW ai,
           NEW iteration \in 1 .. MaxIterations, PlanNext(c, ai, iteration)
    PROVE  Inductive'
<1> DEFINE there == [pc |-> "plan", overtaken |-> FALSE, ai |-> ai, iteration |-> iteration,
                     detail |-> Loaded]
<1>1. Correcting(there, stored)
  BY LoadedFits DEF Correcting
<1>2. Goto(c, there)
  BY DEF PlanNext
<1> QED
  BY <1>1, <1>2, JobStep

LEMMA BeginInductive ==
    ASSUME Inductive, NEW c \in Corrections, NEW ai \in BOOLEAN, Begin(c, ai) PROVE Inductive'
<1>1. UNCHANGED <<documents, stored>> /\ Fits(Loaded, FALSE, stored)
  BY LoadedFits DEF Begin
<1>2. PICK decision \in evaluate(Loaded, ai) :
          IF decision = "proceed" THEN Close(c, Loaded, decision, FALSE) ELSE PlanNext(c, ai, 1)
  BY DEF Begin
<1>3. CASE decision = "proceed"
  BY <1>1, <1>2, <1>3, CloseStep
<1>4. CASE decision # "proceed"
  BY <1>1, <1>2, <1>4, PlanNextStep, IterationsAssumption
<1> QED
  BY <1>3, <1>4

LEMMA GiveUpInductive == ASSUME Inductive, NEW c \in Corrections, GiveUp(c) PROVE Inductive'
<1>1. UNCHANGED <<documents, stored>> /\ Fits(job[c].detail, job[c].overtaken, stored)
  BY DEF GiveUp, Inductive, Correcting
<1>2. PICK decision \in evaluate(job[c].detail, job[c].ai) :
          Close(c, job[c].detail, decision, job[c].overtaken)
  BY DEF GiveUp
<1> QED
  BY <1>1, <1>2, CloseStep

LEMMA JudgeInductive == ASSUME Inductive, NEW c \in Corrections, Judge(c) PROVE Inductive'
<1>1. /\ UNCHANGED <<documents, stored>> /\ Fits(Loaded, FALSE, stored)
      /\ job[c].iteration \in 1 .. MaxIterations
  BY LoadedFits DEF Judge, Inductive, Correcting
<1>2. CASE \E decision \in evaluate(Loaded, job[c].ai) : Close(c, Loaded, decision, FALSE)
  BY <1>1, <1>2, CloseStep
<1>3. CASE MoreIterations(c) /\ PlanNext(c, job[c].ai, job[c].iteration + 1)
  <2>1. job[c].iteration + 1 \in 1 .. MaxIterations
    BY <1>1, <1>3, IterationsAssumption DEF MoreIterations
  <2> QED
    BY <1>1, <1>3, <2>1, PlanNextStep
<1> QED
  BY <1>2, <1>3 DEF Judge

(* A run overtakes what the corrections have loaded: nothing is left to claim *)
(* but that what an approval judged deserved it.                              *)
LEMMA OvertakenFits ==
    ASSUME Inductive, NEW c \in Corrections, NEW s
    PROVE  Correcting(Overtaken(c), s)
<1>1. Correcting(job[c], stored)
  BY DEF Inductive
<1>2. CASE job[c].pc = "plan"
  <2>1. Overtaken(c) = [pc |-> "plan", overtaken |-> TRUE, ai |-> job[c].ai,
                        iteration |-> job[c].iteration, detail |-> job[c].detail]
    BY <1>1, <1>2 DEF Overtaken, Correcting
  <2> QED
    BY <1>1, <1>2, <2>1 DEF Correcting, Fits
<1>3. CASE job[c].pc = "close" /\ job[c].verdict.decision = "proceed"
  <2> DEFINE verdict == [decision |-> "proceed", judged |-> job[c].verdict.judged, overtaken |-> TRUE]
  <2>1. Overtaken(c) = [pc |-> "close", verdict |-> verdict]
    BY <1>1, <1>3 DEF Overtaken, Correcting, About
  <2>2. About(verdict, s)
    BY <1>1, <1>3 DEF Correcting, About
  <2> HIDE DEF verdict
  <2> QED
    BY <2>1, <2>2 DEF Correcting
<1>4. CASE job[c].pc = "close" /\ job[c].verdict.decision # "proceed"
  BY <1>1, <1>4 DEF Overtaken, Correcting, About
<1>5. CASE job[c].pc \notin {"plan", "close"}
  BY <1>1, <1>5 DEF Overtaken, Correcting
<1> QED
  BY <1>2, <1>3, <1>4, <1>5

(* The settings and the rows they give are replaced together, and the verdict *)
(* goes with them.                                                            *)
LEMMA RunInductive == ASSUME Inductive, RunStage1 PROVE Inductive'
<1>1. Computed(stored')
  BY RunIsComputed DEF RunStage1, Inductive, Computed
<1>2. /\ job' = [c \in Corrections |-> job'[c]] /\ documents' = documents
      /\ \A c \in Corrections : Correcting(job'[c], stored')
  BY OvertakenFits DEF RunStage1
<1> QED
  BY <1>1, <1>2 DEF Inductive

LEMMA RerunInductive == ASSUME Inductive, NEW c \in Corrections, Rerun(c) PROVE Inductive'
<1>1. job[c].pc = "plan" /\ Correcting(job[c], stored)
  BY DEF Rerun, Inductive
<1>2. PICK plan \in plan_actions(job[c].detail, job[c].ai) :
          stored' \in Replacements(job[c].detail, filter_effective_actions(job[c].detail, plan))
  BY DEF Rerun, Plans
<1>3. Computed(stored')
  BY <1>1, <1>2, ReplacementIsComputed DEF Correcting, Fits
<1> DEFINE there == [pc |-> "judge", ai |-> job[c].ai, iteration |-> job[c].iteration,
                     before |-> Summary(job[c].detail)]
<1>4. Correcting(there, stored')
  BY <1>1 DEF Correcting
<1>5. /\ job' = [k \in Corrections |-> IF k = c THEN there ELSE Overtaken(k)]
      /\ documents' = documents
  BY DEF Rerun
<1> HIDE DEF there
<1>6. /\ job' = [k \in Corrections |-> job'[k]]
      /\ \A k \in Corrections : Correcting(job'[k], stored')
  BY <1>4, <1>5, OvertakenFits
<1> QED
  BY <1>3, <1>5, <1>6 DEF Inductive

LEMMA CommitInductive == ASSUME Inductive, NEW c \in Corrections, Commit(c) PROVE Inductive'
<1>1. /\ documents' = documents /\ Goto(c, NoJob) /\ About(job[c].verdict, stored)
      /\ stored' = [stored EXCEPT !.verdict = job[c].verdict]
  BY DEF Commit, Inductive, Correcting
<1>2. stored' = [settings |-> stored.settings, basis |-> stored.basis, rows |-> stored.rows,
                 primary |-> stored.primary, hidden |-> stored.hidden, issues |-> stored.issues,
                 verdict |-> job[c].verdict]
  BY <1>1 DEF Inductive, Computed
<1>3. Judged(stored') = Judged(stored)
  BY <1>2 DEF Judged
<1>4. Computed(stored')
  <2>1. About(job[c].verdict, stored')
    BY <1>1, <1>3 DEF About
  <2> QED
    BY <1>2, <2>1 DEF Inductive, Computed
<1>5. ASSUME NEW k \in Corrections PROVE Correcting(job'[k], stored')
  <2>1. job'[k] = IF k = c THEN NoJob ELSE job[k]
    BY <1>1 DEF Goto, Inductive
  <2>2. Correcting(job[k], stored')
    BY <1>3 DEF Inductive, Correcting, Fits, About
  <2> QED
    BY <2>1, <2>2 DEF NoJob, Correcting
<1>6. job' = [k \in Corrections |-> job'[k]]
  BY <1>1 DEF Goto, Inductive
<1> QED
  BY <1>1, <1>4, <1>5, <1>6 DEF Inductive

LEMMA NextInductive == Inductive /\ [Next]_vars => Inductive'
<1> SUFFICES ASSUME Inductive, [Next]_vars PROVE Inductive'
  OBVIOUS
<1>1. ASSUME NEW d \in Documents, Upload(d) PROVE Inductive'
  <2>1. documents' = documents \cup {d} /\ UNCHANGED <<stored, job>>
    BY <1>1 DEF Upload
  <2> QED
    BY <2>1 DEF Inductive
<1>2. ASSUME NEW c \in Corrections, NEW ai \in BOOLEAN, Begin(c, ai) PROVE Inductive'
  BY <1>2, BeginInductive
<1>3. CASE RunStage1
  BY <1>3, RunInductive
<1>4. ASSUME NEW c \in Corrections, GiveUp(c) PROVE Inductive'
  BY <1>4, GiveUpInductive
<1>5. ASSUME NEW c \in Corrections, Rerun(c) PROVE Inductive'
  BY <1>5, RerunInductive
<1>6. ASSUME NEW c \in Corrections, Judge(c) PROVE Inductive'
  BY <1>6, JudgeInductive
<1>7. ASSUME NEW c \in Corrections, Commit(c) PROVE Inductive'
  BY <1>7, CommitInductive
<1>8. ASSUME NEW c \in Corrections, Fail(c) PROVE Inductive'
  <2>1. Correcting(NoJob, stored)
    BY DEF NoJob, Correcting
  <2> QED
    BY <1>8, <2>1, JobStep DEF Fail
<1>9. CASE UNCHANGED vars
  BY <1>9 DEF vars, Inductive
<1> QED
  BY <1>1, <1>2, <1>3, <1>4, <1>5, <1>6, <1>7, <1>8, <1>9 DEF Next

LEMMA AlwaysInductive == Spec => []Inductive
BY InitInductive, NextInductive, PTL DEF Spec

-----------------------------------------------------------------------------
(* What is stored stays within the rows that the settings of its run give,    *)
(* and each correction within its iterations (Stage1OrchestratorService.run). *)
THEOREM TypesHold == Spec => []TypeOK
<1>1. ASSUME Inductive PROVE TypeOK
  <2>1. stored.primary \subseteq stored.rows /\ stored.hidden \subseteq stored.rows
    BY <1>1, PrimaryIsStored, ReviewHidesRows DEF Inductive, Computed
  <2>2. stored.issues \subseteq stored.rows
    BY <1>1 DEF Inductive, Computed, evaluate_process
  <2> QED
    BY <1>1, <2>1, <2>2 DEF Inductive, Computed, Correcting, About, TypeOK
<1> QED
  BY <1>1, AlwaysInductive, PTL

(* No row whose columns are shifted is shown, whatever the model says of it   *)
(* and whichever rows are primary (Stage1ReviewService).                      *)
THEOREM ShiftedRowsAreHidden == Spec => []HardNoiseNeverShown
<1>1. ASSUME Inductive PROVE HardNoiseNeverShown
  <2>1. stored.primary \subseteq stored.rows
    BY <1>1, PrimaryIsStored DEF Inductive, Computed
  <2>2. HardExclusions(stored.rows, stored.primary) \subseteq stored.hidden
    BY <1>1, ReviewHides DEF Inductive, Computed
  <2>3. \A r \in VisibleRows(stored.rows, stored.primary, stored.hidden) :
            r \in stored.rows /\ r \notin stored.hidden
    BY <2>1 DEF VisibleRows, PrimaryRows
  <2> QED
    BY <2>2, <2>3, ShiftedIsExcluded DEF HardNoiseNeverShown
<1> QED
  BY <1>1, AlwaysInductive, PTL

(* With the priority that the correction gives, an official Excel row is not  *)
(* displaced by a document without one, whatever the other weights add up to  *)
(* (normalized_item_source_score).                                            *)
THEOREM PreferredSourcesLead == Spec => []PreferredSourceLeads
<1>1. ASSUME Inductive PROVE PreferredSourceLeads
  BY <1>1, PreferredIsPrimary DEF Inductive, Computed, PreferredSourceLeads
<1> QED
  BY <1>1, AlwaysInductive, PTL

(* A stored "proceed" was deserved by what it judged, and that is what it is  *)
(* stored beside, however many corrections and runs replaced rows before and  *)
(* after it, unless another request ran stage 1 between its loading and its   *)
(* commit (auto_correct_stage_1 and its endpoint, which hold no lock).        *)
THEOREM VerdictsAreAboutTheRows == Spec => []VerdictIsAboutTheRows
<1>1. Inductive => VerdictIsAboutTheRows
  BY DEF Inductive, Computed, About, VerdictIsAboutTheRows
<1> QED
  BY <1>1, AlwaysInductive, PTL

(* A shown row that the summary counts as without a financial basis is in the *)
(* queue of issues: the two rule sets leave no gap (ValidationService).       *)
THEOREM RuleSetsAgree == Spec => []GateAndIssuesAgree
<1>1. ASSUME Inductive PROVE GateAndIssuesAgree
  <2>1. stored.primary \subseteq stored.rows /\ stored.rows \in SUBSET Rows
    BY <1>1, PrimaryIsStored DEF Inductive, Computed
  <2>2. \A r \in VisibleRows(stored.rows, stored.primary, stored.hidden) :
            r \in stored.rows /\ r \in PrimaryRows(stored.rows, stored.primary)
    BY <2>1 DEF VisibleRows, PrimaryRows
  <2> QED
    BY <1>1, <2>1, <2>2, IncompleteIsAnIssue DEF Inductive, Computed, GateAndIssuesAgree
<1> QED
  BY <1>1, AlwaysInductive, PTL
=============================================================================
