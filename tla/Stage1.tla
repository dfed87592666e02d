------------------------------- MODULE Stage1 -------------------------------
(* Stage 1 of one procurement process and its automatic correction: the loop  *)
(* of Stage1OrchestratorService.run, called by auto_correct_stage_1           *)
(* (procurement_api/services.py), over what run_stage_1 stores.               *)
(*                                                                            *)
(* Corrections and runs are requests that nothing keeps apart: between any    *)
(* two steps of one, another may replace the rows. A run itself is one step:  *)
(* what happens when two of them overlap is the subject of ProcessAnalysis.   *)
(* What a request has not committed is lost when it fails. The language model *)
(* answers anything its caller accepts, but at most one action per plan.      *)
EXTENDS Stage1Rows

CONSTANTS
    Documents,       \* documents that may be uploaded
    FirstDocuments,  \* which of them may be there at first
    extracted,       \* rows of a document, read as set up first or otherwise
    ModelActions,    \* actions that the language model may plan
    Corrections,     \* calls of auto_correct_stage_1 that run at a time
    MaxIterations    \* max_iterations (3 in the code)

ASSUME DocumentsAssumption ==
    /\ FirstDocuments \subseteq SUBSET Documents /\ IsFiniteSet(Documents)
    /\ \A d \in Documents : fileType[d] \in DOMAIN FILE_TYPE_PRIORITY
ASSUME ExtractedAssumption ==
    \A d \in Documents, b \in BOOLEAN :
        /\ IsFiniteSet(extracted[d][b])
        /\ \A r \in extracted[d][b] :
              r.document = d /\ {r.quantity, r.price, r.total} \subseteq Int /\ r.confidence \in 0 .. 100
ASSUME ActionsAssumption == \A a \in ModelActions : a.setting = "priority" => a.value \in Int
ASSUME IterationsAssumption == MaxIterations \in Nat \ {0}

VARIABLES
    documents,  \* the documents of the process
    stored,     \* what is committed about them
    job         \* the locals of each correction
vars == <<documents, stored, job>>

NoSettings == [priority |-> NoPriority, supportOnly |-> "unset", mode |-> "unset", route |-> "unset"]
NoVerdict == [decision |-> "none"]
NoJob == [pc |-> "idle"]

(* What a request loads of the process (build_process_detail). *)
Loaded ==
    LET m == Metrics(documents, stored.rows, stored.primary, stored.hidden)
    IN [documents |-> documents, settings |-> stored.settings, rows |-> stored.rows,
        primary |-> stored.primary, hidden |-> stored.hidden, metrics |-> m,
        score |-> _stage_1_consistency_score(m),
        ready |-> ~stage_1_needs_review(m, stored.verdict.decision)]

Init ==
    /\ documents \in FirstDocuments /\ job = [c \in Corrections |-> NoJob]
    /\ stored = [settings |-> [d \in Documents |-> NoSettings], basis |-> [d \in Documents |-> NoSettings],
                 rows |-> {}, primary |-> {}, hidden |-> {}, issues |-> {}, verdict |-> NoVerdict]

-----------------------------------------------------------------------------
(* run_stage_1. *)

(* The Excel extractor has a flexible mode, a PDF an OCR route. *)
ReadOtherwise(d, setting) ==
    \/ fileType[d] = "excel" /\ setting.mode = "flexible"
    \/ fileType[d] = "pdf" /\ setting.route = "pdf_scanned"
Extracted(settings) == UNION {extracted[d][ReadOtherwise(d, settings[d])] : d \in documents}

(* Mutant: the verdict on the rows that are replaced is kept. *)
VerdictAfterRunKept == stored.verdict
VerdictAfterRun == NoVerdict
(* The rows are computed from the basis; the settings are what is stored of   *)
(* the documents. They differ when a request had loaded a document before     *)
(* another one wrote it. (The basis is history: nobody stores it.)            *)
RunOutcomes(basis, settings) ==
    LET rows == Extracted(basis)
    IN UNION {{[settings |-> settings, basis |-> basis, rows |-> rows, primary |-> P, hidden |-> H,
                issues |-> evaluate_process(rows, P), verdict |-> VerdictAfterRun]
               : H \in Reviewed(rows, P)} : P \in _mark_primary_sources(rows, basis)}

Upload(d) ==
    /\ d \notin documents /\ documents' = documents \cup {d}
    /\ UNCHANGED <<stored, job>>

(* What a correction has loaded is overtaken when another request runs stage 1. *)
Overtaken(c) ==
    CASE job[c].pc = "plan" -> [job[c] EXCEPT !.overtaken = TRUE]
      [] job[c].pc = "close" /\ job[c].verdict.decision = "proceed"
           -> [job[c] EXCEPT !.verdict.overtaken = TRUE]
      [] OTHER -> job[c]
RunStage1 ==
    /\ stored' \in RunOutcomes(stored.settings, stored.settings)
    /\ job' = [c \in Corrections |-> Overtaken(c)]
    /\ UNCHANGED documents

-----------------------------------------------------------------------------
(* The two gates of Stage1RedundantVerdictService. *)

_rule_gate(detail) ==
    LET m == detail.metrics
    IN /\ detail.ready /\ detail.score >= 75 /\ m.raw_items > 0
       /\ m.missing_financial <= Larger(2, m.raw_items \div 10)
       /\ m.missing_number <= Larger(1, m.raw_items \div 20)
_llm_gate_asked(detail, ai) == ai /\ ~(_rule_gate(detail) /\ detail.score >= 88)
(* The model can only refuse what the rules let pass. *)
evaluate(detail, ai) ==
    {decision \in {"proceed", "review_required"} :
        IF decision = "proceed" THEN _rule_gate(detail)
        ELSE ~_rule_gate(detail) \/ _llm_gate_asked(detail, ai)}
Judged(detail) ==
    [settings |-> detail.settings, rows |-> detail.rows, primary |-> detail.primary,
     hidden |-> detail.hidden]
(* What it judged is history too, and kept of an approval only.               *)
Verdict(detail, decision, overtaken) ==
    IF decision = "proceed"
    THEN [decision |-> decision, judged |-> Judged(detail), overtaken |-> overtaken]
    ELSE [decision |-> decision]

-----------------------------------------------------------------------------
(* Stage1DecisionService. *)

Action(d, setting, value) == [document |-> d, setting |-> setting, value |-> value]
RowsOf(detail, d) == {r \in detail.rows : r.document = d}
ExcelDocuments(detail) == {d \in detail.documents : fileType[d] = "excel"}
_rule_actions(detail) ==
    {Action(d, "priority", 900) : d \in ExcelDocuments(detail)}
      \cup {Action(d, "mode", "flexible") : d \in {d \in ExcelDocuments(detail) :
               \A r \in RowsOf(detail, d) : ~(Read(r.price) /\ Read(r.total))}}
      \cup UNION {{Action(d, "supportOnly", "yes"), Action(d, "route", "pdf_scanned")}
               : d \in {d \in detail.documents : /\ fileType[d] = "pdf" /\ ExcelDocuments(detail) # {}
                                                 /\ Cardinality(RowsOf(detail, d)) <= 1}}
(* An action of the model replaces one of the rules on the same setting. *)
_merge_actions(rules, answers) ==
    {a \in rules : ~\E b \in answers : b.document = a.document /\ b.setting = a.setting} \cup answers
_sanitize_llm_actions(detail) == {a \in ModelActions : a.document \in detail.documents}
_llm_actions(detail) == {{}} \cup {{a} : a \in _sanitize_llm_actions(detail)}
plan_actions(detail, ai) ==
    {_merge_actions(_rule_actions(detail), answers) :
        answers \in IF ai THEN _llm_actions(detail) ELSE {{}}}
filter_effective_actions(detail, actions) ==
    {a \in actions : detail.settings[a.document][a.setting] # a.value}
apply_actions(settings, actions) ==
    [d \in Documents |->
        [setting \in DOMAIN settings[d] |->
            LET chosen == {a \in actions : a.document = d /\ a.setting = setting}
            IN IF chosen = {} THEN settings[d][setting] ELSE (CHOOSE a \in chosen : TRUE).value]]

-----------------------------------------------------------------------------
(* Stage1OrchestratorService.run. *)

_is_material_improvement(before, after) ==
    \/ ~before.ready /\ after.ready
    \/ after.score >= before.score + 8
    \/ \E metric \in {"missing_financial", "missing_number", "noise"} :
          after.metrics[metric] < before.metrics[metric]

(* What a rerun is compared with: the stage summary of what was loaded before. *)
Summary(detail) == [ready |-> detail.ready, score |-> detail.score, metrics |-> detail.metrics]

Goto(c, there) == job' = [job EXCEPT ![c] = there]
Close(c, detail, decision, overtaken) ==
    Goto(c, [pc |-> "close", verdict |-> Verdict(detail, decision, overtaken)])
PlanNext(c, ai, iteration) ==
    Goto(c, [pc |-> "plan", overtaken |-> FALSE, ai |-> ai, iteration |-> iteration,
             detail |-> Loaded])

Begin(c, ai) ==
    /\ job[c].pc = "idle"
    /\ \E decision \in evaluate(Loaded, ai) :
          IF decision = "proceed" THEN Close(c, Loaded, decision, FALSE) ELSE PlanNext(c, ai, 1)
    /\ UNCHANGED <<documents, stored>>

(* A plan from what was loaded last; what it would not change is left out.    *)
Plans(c) ==
    {filter_effective_actions(job[c].detail, actions) :
        actions \in plan_actions(job[c].detail, job[c].ai)}
GiveUp(c) ==
    /\ job[c].pc = "plan" /\ {} \in Plans(c)
    /\ \E decision \in evaluate(job[c].detail, job[c].ai) :
          Close(c, job[c].detail, decision, job[c].overtaken)
    /\ UNCHANGED <<documents, stored>>

(* The session may still hold a document as it was loaded, or find what is    *)
(* stored by now; it writes the documents the actions change, and those it    *)
(* holds whenever the extraction changes their profile.                       *)
Differing(settings) == {d \in Documents : settings[d] # stored.settings[d]}
Instead(chosen, settings) ==
    [d \in Documents |-> IF d \in chosen THEN settings[d] ELSE stored.settings[d]]
Replacements(detail, actions) ==
    UNION {LET basis == apply_actions(Instead(held, detail.settings), actions)
           IN UNION {RunOutcomes(basis, Instead({a.document : a \in actions} \cup written, basis))
                     : written \in SUBSET held}
           : held \in SUBSET Differing(detail.settings)}

(* apply_actions and run_stage_1, which commits the settings with the rows.   *)
Rerun(c) ==
    /\ job[c].pc = "plan"
    /\ \E actions \in Plans(c) \ {{}} : stored' \in Replacements(job[c].detail, actions)
    /\ job' = [k \in Corrections |->
                  IF k = c THEN [pc |-> "judge", ai |-> job[c].ai, iteration |-> job[c].iteration,
                                 before |-> Summary(job[c].detail)]
                  ELSE Overtaken(k)]
    /\ UNCHANGED documents

(* Mutant: one iteration too many. *)
MoreIterationsInclusive(c) == job[c].iteration <= MaxIterations
MoreIterations(c) == job[c].iteration < MaxIterations

(* The last iteration asks for a second verdict before it ends. *)
Judge(c) ==
    /\ job[c].pc = "judge"
    /\ \E decision \in evaluate(Loaded, job[c].ai) :
          LET goesOn == decision # "proceed" /\ _is_material_improvement(job[c].before, Loaded)
          IN \/ ~goesOn /\ Close(c, Loaded, decision, FALSE)
             \/ goesOn /\ MoreIterations(c) /\ PlanNext(c, job[c].ai, job[c].iteration + 1)
             \/ /\ goesOn /\ ~MoreIterations(c)
                /\ \E again \in evaluate(Loaded, job[c].ai) : Close(c, Loaded, again, FALSE)
    /\ UNCHANGED <<documents, stored>>

(* The endpoint commits the verdict beside whatever rows are stored by then.  *)
Commit(c) ==
    /\ job[c].pc = "close"
    /\ stored' = [stored EXCEPT !.verdict = job[c].verdict]
    /\ Goto(c, NoJob) /\ UNCHANGED documents

(* An extractor, a model's value or the database raises; the session is dropped. *)
Fail(c) ==
    /\ job[c].pc # "idle" /\ Goto(c, NoJob) /\ UNCHANGED <<documents, stored>>

Next ==
    \/ \E d \in Documents : Upload(d)
    \/ RunStage1
    \/ \E c \in Corrections :
          \/ \E ai \in BOOLEAN : Begin(c, ai)
          \/ GiveUp(c) \/ Rerun(c) \/ Judge(c) \/ Commit(c) \/ Fail(c)
Spec == Init /\ [][Next]_vars

-----------------------------------------------------------------------------
(* Properties. *)

(* Rows, their choice, what is hidden and the issues stay within what the     *)
(* documents give under the settings the run went by, and a correction ends   *)
(* within its iterations.                                                     *)
TypeOK ==
    /\ documents \subseteq Documents
    /\ stored.primary \subseteq stored.rows /\ stored.hidden \subseteq stored.rows
    /\ stored.issues \subseteq stored.rows
    /\ stored.verdict.decision \in {"none", "proceed", "review_required"}
    /\ \A r \in stored.rows :
          r \in extracted[r.document][ReadOtherwise(r.document, stored.basis[r.document])]
    /\ \A c \in Corrections :
          /\ job[c].pc \in {"idle", "plan", "judge", "close"}
          /\ job[c].pc \in {"plan", "judge"} => job[c].iteration \in 1 .. MaxIterations

(* A row whose columns are shifted never reaches the table, whatever the      *)
(* model answers and whichever sources are primary.                           *)
HardNoiseNeverShown ==
    \A r \in VisibleRows(stored.rows, stored.primary, stored.hidden) :
        Repeat \notin {r.unit, r.price, r.total}

(* Once a run goes by the priority that a correction gives an Excel document, *)
(* an official row of it leads its item: no row of a document without one is  *)
(* primary in its place, be it complete, numbered or sure (README.md, "fuente *)
(* primaria estructurada").                                                   *)
PreferredSourceLeads ==
    \A r \in stored.rows :
        LET setting == stored.basis[r.document]
        IN IsExcel(r) /\ r.sheet = "official" /\ r.role = "official_item"
             /\ setting.priority = 900 /\ setting.supportOnly # "yes"
           => \A s \in Siblings(stored.rows, r) :
                 stored.basis[s.document].priority <= 0 => s \notin stored.primary

(* A "proceed" was deserved by the rows it judged: some were shown, each with *)
(* a confidence, none of them noise, and no primary row was hidden. And those *)
(* are the rows and settings it is stored beside, however many corrections    *)
(* and runs replaced rows before and since, but for one that was overtaken:   *)
(* another request ran stage 1 between its loading and its commit, which      *)
(* nothing in the code notices.                                               *)
Deserving(s) ==
    /\ VisibleRows(s.rows, s.primary, s.hidden) # {}
    /\ \A r \in PrimaryRows(s.rows, s.primary) :
          r \notin s.hidden /\ r.confidence >= 65 /\ ~IsNoise(r)
VerdictIsAboutTheRows ==
    stored.verdict.decision = "proceed" =>
        /\ Deserving(stored.verdict.judged)
        /\ ~stored.verdict.overtaken => stored.verdict.judged = Judged(stored)

(* The two rule sets agree: a shown row that the summary counts as without a  *)
(* financial basis is in the queue of issues. (A quantity of zero with a      *)
(* total is the exception: no price can be derived, and no rule asks for one.)*)
GateAndIssuesAgree ==
    \A r \in VisibleRows(stored.rows, stored.primary, stored.hidden) :
        ~_has_stage_1_financial_basis(r) /\ r.quantity # 0 => r \in stored.issues
=============================================================================
