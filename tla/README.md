# Verification of the AI-first procurement core

These TLA+ modules model the parts of the repository that decide what a reader
of a tender sees: the TypeScript core, which turns an uploaded document into a
table of procurement items with the help of AI providers, and its persistence;
the market analysis of the web application; and the older Python pipeline, its
first stage and the requests that run them. TLC checks each model on a small
instance. TLAPS proves every safety property of these runs for every value of the
constants: every invariant, every action property and both refinements; liveness
is left to TLC. Paths below are relative to `src/`;
`core/` stands for `packages/ai-first-core/src/`, `pc/` for
`packages/procurement_core/src/procurement_core/`.

## 1. The system and its parts

The repository holds two generations of one product. The newer is the AI-first
core with its web application; the older is a Python pipeline with an API, a
worker and a web client. An Odoo integration and an Odoo addon hang off them.

| part | where | state it keeps | operations |
|---|---|---|---|
| batch processor | `core/orchestration/batch-processor.ts` | the locals of one call: attempt number, candidate items, last judgement, attempt traces | `processBatch` |
| item number repair | `core/document/item-label-utils.ts` | none | `normalizeSequentialItemNumbers` |
| consolidator | `core/orchestration/batch-consolidator.ts` | two insertion-ordered maps per call | `consolidate` |
| document orchestrator | `core/orchestration/basic-document-orchestrator.ts` | the finished batches and the trace of one run | `run` |
| fragmenter | `core/orchestration/segment-fragmenter.ts` | the open fragment | `fragment` |
| batch planner | `core/orchestration/basic-batch-planner.ts` | the open group | `selectSegments`, `buildBatches` |
| local service and store | `core/local-dev/` | one SQLite row per document, holding the whole record as JSON | `processUpload`, `reprocessBatch`, `get`, `save`, exports |
| provider adapters | `core/providers/` | attempt counter of a task | the four tasks, retries, mock fallback |
| task orchestrator, prompts, contracts | `core/services/`, `core/prompts/`, `packages/ai-first-contracts` | none | dispatch, templates, schemas |
| mock engine, JSON repair | `core/providers/shared/` | none | invent or parse an answer |
| segmenter | `core/document/document-segmenter.ts` | none | read PDF, Word, Excel |
| persistence | `core/persistence/` | ten tables per document, in Postgres | `run` of the runner: register, store segments, mark, store the outcome |
| market analysis | `apps/ai-first-web/lib/market-analysis-*.ts` | one JSON file of runs with project codes | `processUpload`, the modes of the request, read with repair, save, list |
| provider settings | `apps/ai-first-web/lib/provider-settings.ts` | a JSON file and the process environment | the active connection, apply to the environment, test |
| pages, simulation, routes | `apps/ai-first-web/` | none on the server | rendering, arithmetic on prices |
| Python pipeline | `pc/pipelines`, `pc/services` | a process with documents, rows, choices, prices and assessments in Postgres | `analyze_process`, `run_stage_1`, their resets and commits; normalise, choose sources, review, validate |
| stage 1 orchestrator | `pc/services/stage1_*.py` | settings of documents, the stored verdict, locals of the loop | plan actions, rerun, judge, stop |
| Python API and worker | `apps/api` | the same tables, a job queue | upload, analyse, correct, delete, edit, export |
| Odoo | `integrations/odoo`, `addons/` | none / Odoo records | map a document, call the API |

How they interact in the core. `LocalProcessingService.processUpload` (or
`PersistedDocumentRunner.run`) segments a file and calls
`BasicDocumentOrchestrator.run`. That asks a provider for the official block,
selects, fragments and batches the segments (synchronous, pure), hands the
batches one at a time to `BatchProcessor.processBatch`, which calls a provider
for extraction and then for validation, in a loop; then it consolidates, repairs
the item numbers once more and asks a provider to judge the whole. Every
provider call goes through an adapter with its own retries. Later, requests to
`reprocessBatch` read the stored record, plan again, process one batch and
write a new record.

In the older generation an API request or a worker calls `analyze_process` or
`run_stage_1` on a process in Postgres: the rows of an earlier analysis are
deleted, each document is extracted, sources are chosen among rows that describe
one item, the rows are reviewed, validated and committed; then prices are
searched item by item, with commits in between. `auto_correct_stage_1` runs
stage 1 again and again with other settings until its gates let the result pass.
Uploads and the deletion of a process happen beside all this, and no request
takes a lock that another one asks for.

What is hard about it: two nested retry loops whose state outlives an attempt;
failures at each of four kinds of provider call with different consequences;
preferences among duplicates that depend on order; boundaries in the planner;
requests that read a record, wait for providers and write it back without a
lock; transactions of one process or document that overlap, fail half way or
are rolled back; and files that are overwritten in place. `PROJECT.json` lists
every hazard at its line with the property that covers it, or the reason why
none does yet.

What makes each part correct:

- batch processor: only a requested retry is retried; the output and the
  judgement published together belong together; counts, statuses and warnings
  agree; every call returns.
- consolidator and orchestrator: one row per item, the best one; nothing dropped
  without a trace; "completed" means nothing is left for a human; a failure is
  never hidden; a detected document is delivered.
- planner and fragmenter: no line lost, duplicated or moved; limits respected;
  no provider call wasted.
- local service: a stored record is one consistent picture; reprocessing is
  selective and keeps the evidence.
- adapters: bounded requests; the mock answers only where it may; tasks settle.
- persistence: an outcome is stored and replaced as a whole; a finished status
  is shown over the rows of one run.
- market analysis: a project code names one run; prices have sources.
- Python pipeline: an analysis replaces the rows of the one before, neither
  losing nor doubling them; "analyzed" is said of a complete process; analyses
  end.
- stage 1: noise is not shown; the preferred source leads; a stored verdict is
  deserved, and about the rows that are stored; the rule sets of the summary and
  of the validation agree.

## 2. Modules

```
BatchContract <-- implements -- BatchProcessor <-- instance -- DocumentRun
                                      |                            |
                            BatchProcessorProofs <--- DocumentRunProofs
Arrays <- ItemLabels <- Consolidation <- DocumentRun
Arrays <- BatchPlanning <- DocumentPlan
Consolidation, BatchPlanning <- OperatorLemmas
DocumentPlan, DocumentRun, OperatorLemmas <- DocumentRunProofs
BatchPlanning, Consolidation, BatchContract <- LocalReprocess
Arrays <- MarketAnalysis
LocalReprocess, MarketAnalysis, OperatorLemmas <- LocalServiceProofs
ProviderTask <- ProviderTaskProofs
StoredRuns <-- implements -- PersistedRun <- PersistedRunProofs
ProcessAnalysis <- ProcessAnalysisProofs
Stage1Rows <- Stage1 <- Stage1Proofs
```

**BatchContract** is the abstract specification: one call, one answer, one
record that keeps the promises the callers branch on.

**BatchProcessor** is `processBatch`. A variable stands for each local that is
live across an await. The code between two awaits is one action; the four ways
an attempt can go are `ExtractThrows`, `ValidationSettles`,
`ValidationAsksRetry` and `ValidateThrows`. What the items of an attempt and the
provider's judgement warn of is one tag, `provider_warnings`, which goes from the
attempts into the record beside the tags of the warnings that the code adds
itself. `KeepsContract` is the refinement:
`called` is "the loop was entered", `outcome` the record returned. Items are
opaque, and the number repair is a constant function on the extractions, so the
proofs hold for any repair.

**Arrays** is two array methods the code leans on, `filter` and a `reduce` that
adds, as folds: the library's SelectSeq is hidden from the prover.
**OperatorLemmas** holds no model, only lemmas about what the operators of
Consolidation and BatchPlanning compute.

**ItemLabels** is the number repair. A label is a form and a value: what the
parser and the OCR table make of its text. Each letter of the OCR table stands
for one digit, so a label has at most one candidate number, which is why the
code's candidate lists become one value. The text itself is not modelled.

**Consolidation** has the loop of `consolidate` and, below the line, what the
table and the duplicate trace must be, defined without an order of filling.

**DocumentRun** is `run`, with BatchProcessor instantiated on its own variables
and the repair of ItemLabels put in for its constant. The plan is any number of
batches: what is in them is BatchPlanning's subject. `global_warnings` gathers
the warnings of the detection, of the global judgement, of the batches and of the
consolidation, as the code does; the status is made from recommendations and the
warnings of the consolidation, so a completed document may carry warnings of a
provider, and `CompletedIsClean` claims no more than that no others are there.

**BatchPlanning** is the selection of segments, the fragmenter and the planner
as operators; **DocumentPlan** applies them in the orchestrator's order to
inputs chosen in the initial state. A line is the branch the fragmenter takes
for it and a length, since the Gemini budget counts characters. The regular
expressions that choose the branch are not modelled. DocumentPlan and
MarketAnalysis share a proofs module with another specification, so the names
every specification has bear a prefix there (`PlanInit`, `MarketSpec`, ...).

**LocalReprocess** is `reprocessBatch` by several requests on one record of the
local store. The read, the two awaits and the write are actions of their own;
the record is made from what was read. `RecordOf` is the one place where a record
is put together, from batches, traces and a table; the table comes from the
operators of Consolidation, the plan from those of BatchPlanning. What `processBatch` may
return is a constant operator that must satisfy BatchContract (an assumption TLC
evaluates), so the module uses the contract and not the loop. The trace of a
batch is overwritten field by field (`Overwritten`): the ids of its segments stay
those of the first run, and `RecordFollowsBatches` claims them only while one
grouping is kept.

**ProviderTask** is one task of an adapter: the attempts of `executeWithRetries`,
the second Gemini model on status 503, the mock.

**PersistedRun** is `PersistedDocumentRunner.run` over
`PrismaProcessingRepository`, by several calls at once. Each transaction is one
action (`registerUploadAndDocument`, `saveSourceSegments`, `markStage`,
`persistCompletedRun`); the orchestrator's answer is a member of `Outputs`. Of
each table the model keeps the runs that have rows in it. The constraints of the
schema decide in `Accepted` whether an outcome is stored or refused. Every
committed transaction may lose its answer, which fails the run.
**StoredRuns** is what the tables promise: nothing or one run's whole outcome,
replaced as a whole.

**MarketAnalysis** is `MarketAnalysisService.processUpload` with its store and
the provider settings it reads. The file is a variable with three states: absent,
held, broken. Reading repairs missing and repeated codes and writes the repair;
everything between two awaits is one action, and `save`, `Reads` and
`FailedSave` give the outcomes a write may have. Entries of the same time are
ordered by their ids, as the code orders them, and an entry whose code has
outgrown five digits (`MaxCode`) is dropped by the schema at the next read. `Stop` is a restart of the
process, perhaps within a write.

**ProcessAnalysis** is `analyze_process` and `run_stage_1` on one process, by
several jobs. `db` is what is committed, `tx[j]` the open transaction and the
locals of a job: rows read, deleted and added, choices, prices, locks. Each
statement that reads what others may change, or waits for a lock, is an action;
`Blockers` says who it waits for, `Impossible` when it must fail. `Findings` is
what an extractor may make of a document: its rows while its file is there, and
for the routes of `Tolerant` documents (PDF and image) nothing at all, with the
file or without, since they swallow a missing file and a missing OCR engine. A
spreadsheet whose file is gone fails, but not where its rows are still there and
it is skipped. A key whose leading row is of a support sheet has no primary row
(`SupportOnly`). Uploads and the two steps of the deletion are actions of other
requests.

**Stage1Rows** has what stage 1 computes from extracted rows as operators:
normalisation, scores and sources, review flags, validation rules, metrics,
score. **Stage1** is the loop of the automatic correction over what
`run_stage_1` stores, with the two gates and the plan of actions, for several
corrections at a time and runs of stage 1 by others between any two of their
steps. Nothing in the code keeps these apart. A correction goes on with what it
loaded last; a rerun writes the settings of the documents it changes, over what
another request has stored by then (`Replacements`: its session may hold each
document as it was); and the verdict is committed beside whatever rows are there
(`Commit`). A history flag, `overtaken`, marks what was loaded before somebody
else's run. The language model answers anything its caller accepts. A run is one
step here: what happens within two that overlap is the subject of
ProcessAnalysis. The commits of `analyze_process` after its first stage do not
touch what Stage1 keeps and are left out.

Definitions marked "Variant with a fault" or "Mutant" are not used by the
specifications: each is a plausible bug in the definition after it, and
substituting it breaks the property `PROJECT.json` names with it, which shows
that the property depends on that code.

## 3. What is checked

| run | instance | states | shows |
|---|---|---|---|
| `batch_processor` | 3 retries (the schema's maximum), 5 extractions over 3 items, one changed by the repair, one with a warning | 10,393 | the loop's invariants, the refinement of BatchContract, termination |
| `document_run` | 2 batches, 1 retry, 7 extractions | 279,304 | table, trace, status, warnings, numbering; delivery |
| `document_plan` | all segments of 3 lines of 6 sorts followed by one of a single line, plus documents of 7 items and of none; 4 detections, 2 providers, batch sizes 2 and 5 | 41,664 | no line lost; batches within their limits and filled up to them |
| `local_reprocess` | 2 requests, 4 fragments that are 2 batches or, for Gemini, 3; 4 outcomes per batch | 31,475 | consistency of the stored record under interleaving |
| `provider_task` | up to 2 retries, all configurations | 1,812 | who answers, how often is asked, termination |
| `persisted_run` | 2 runs of one document from two files, 1 of another from the first file; 4 outcomes | 67,025 | whole outcomes, refinement of StoredRuns |
| `market_analysis` | 2 uploads, a file of at most 2 runs, codes up to 5, 3 files of earlier versions, 3 connections, 2 stops | 391,302 | codes identify runs; prices without search have sources |
| `process_analysis` | 3 calls (the third a stage 1 alone), 2 at a time; a spreadsheet with an official row and a support row, a scanned PDF uploaded later whose row competes with the latter; a deletion, a failure | 307,330 | rows are not doubled, and lost to an empty extraction only; completeness; every call ends |
| `stage1` | a rich process (an Excel document and a PDF, a second PDF uploaded later) with one correction at a time, and a small one (an Excel document and a PDF of one row each) with two symmetric ones that overlap; runs of stage 1 beside both; 5 planned actions; 2 iterations | 34,791 | what is shown, who leads, what the verdict is about, agreement of the rule sets |

Why the bounds are enough. In `batch_processor` the retry limit is the largest
the schema allows. In `document_run`, interactions between batches are between
two of them (duplicates, numbers continued from one to the next), and one retry
distinguishes first, retried and exhausted attempts. The rows meet every rule of
the consolidation: higher and lower confidence, an item marked for review by its
batch or by the provider, merging by uid, an OCR label before and after its
neighbour. In `document_plan` the line lengths are chosen around the constants
550 and 1300: 300 + 560 (long), 300 + 260 joined into a long fragment, and seven
items whose sums pass the budget after three. In `local_reprocess` two requests
are all a lost update needs, and the first fragment is longer than 550 so that
the two groupings differ. In `provider_task` the third attempt is the last one
and the second is neither first nor last. In `persisted_run` two runs of one
document overlap in every way, the other document shares a file with one of
them, and the outcomes are one per way the constraints can decide. In
`market_analysis` the file keeps two runs so that a third drops one, as the
hundred-and-first does in the code; codes are missing, repeated, repeated by
runs of one time, or higher than the counter, and reach the last code the schema
accepts. The ids are ordered, so the uploads are not symmetric. In `process_analysis` a row can be deleted by one job while a
second has read it and a third begins, which needs three; `CommitEvery = 1`
makes every assessment a commit, the finest interleaving; `MaxFailures` and
`Workers` are bounds of the instance. In `stage1` the rows lack each of the cells
the rules ask for, a PDF row outweighs the Excel row unless the settings say
otherwise, the second of two iterations (3 in the code) is the last one while the
first is not, and `StrongAnchors = 1` (5 in the code) lets one complete row be a
set of anchors. Two corrections are enough because one other request overtakes a
verdict; they overlap (`OverlapIsBounded`) in the small process only, since each
row that the model may hide doubles the outcomes of a run. There one correction
writes settings that the session of the other still holds as they were, and a
verdict is stored beside rows it never judged. The proof is for any number of
corrections of any process.

Three runs end in a counterexample. Each states what the repository says of
itself and the code does not do:

- `duplicate_rows`. The run "resolves duplicates during final consolidation"
  (title of a test), but numbers are repaired after the merge that keyed on
  them. A first batch with item 1, a second with "Z" and "2" of the same
  description: the Z becomes 2 after the merge, the final table has two rows of
  one item and no duplicate is reported.
- `lost_update`. "Selective reprocessing at the batch level"
  (`docs/ai-first-phase-1-architecture.md:418`): two overlapping requests for
  different batches, and the later save writes back the other's batch as it was
  before. `AloneIsSelective` shows that overlap is the only way this happens.
- `refused_run`. "Persist consolidated JSON" of a completed run
  (`docs/ai-first-phase-1-architecture.md:398`): the links of a batch name what
  it was made of, fragments, while the table of segments holds what the run was
  given. When the fragmenter recognised an item, a foreign key refuses the whole
  outcome, after every provider was paid, and the document stays "segmenting".
  The same happens when a provider gives two items one uid.

### Observations without a run

Met while modelling; no document, comment or test promises otherwise clearly
enough, or the model leaves the part out:

- Reprocessing with another provider plans other groups, and batch n of the new
  plan replaces batch n of the old: segments between the two are in no batch of
  the record (`core/local-dev/local-processing-service.ts:239`).
  `OneGroupingKeepsEvidence` shows that the change of grouping is the only cause.
  The trace of the replaced batch is a copy of the old one with its outcome
  overwritten (`:305`): its `source_segment_ids` still names the segments of the
  first grouping, while the items were read from others
  (`docs/ai-first-phase-1-architecture.md:418` speaks of "selective reprocessing
  at the batch level without losing the original evidence chain").
  `RecordFollowsBatches` shows that they are right as long as a batch keeps its
  grouping, and claims nothing else.
- A rerun may lose the rows of a scanned PDF or an image: the reset deletes them
  (`pc/pipelines/analysis.py:550`), the extractor finds nothing because the file
  or the OCR engine is missing and does not raise (`pc/extractors/pdf_scanned.py:24`,
  `image_ocr.py:19`), and the commit leaves the document without rows, although
  `docs/installation.md:70` says "si faltan motores OCR, el sistema no inventa
  datos: conserva evidencia". `RowsAreReplaced` shows that this is the only way
  rows are lost before a deletion.
- A first run repairs the numbers of the consolidated table, a reprocess stores
  the table without it (`:297`): an "S" that follows the 4 of the batch before it
  is 5 in the first record and "S" again after a reprocess. Merging is the same
  in both, which is why `RecordFollowsBatches` compares the tables without their
  numbers. The consolidation part of the trace (`:313`) is not rewritten at all.
- A run that throws or is refused leaves its document "segmenting"
  (`core/persistence/persisted-document-runner.ts:47`).
- A provider's "retry in N" hint is waited for without the cap of the other
  branches (`core/providers/shared/provider-base.ts:52`).
- The automatic correction without AI still asks a configured language model to
  review the rows (`pc/services/summary_review.py`): `use_ai` reaches the plan
  and the gate only.
- A verdict may be stored beside rows it never judged: the correction loads the
  rows, asks a model, and its endpoint commits the verdict without a lock or a
  version (`apps/api/src/procurement_api/services.py:838`, `main.py:249`). A run
  of stage 1 in between replaces the rows; the next one takes the verdict away
  again. `VerdictIsAboutTheRows` excepts exactly these verdicts. The rerun of a
  correction may likewise write back settings of a document that another
  correction has changed.
- A stored "review_required" keeps the summary from being ready, and the first
  gate asks the summary: the process leaves that state only through a rerun,
  which takes the verdict away. An upload does not take it away.
- An analysis sets "analyzed" although a document was uploaded after it had
  listed them (`pc/pipelines/analysis.py:226`).

Fairness. `BatchProcessor` and `ProviderTask` assume weak fairness of their
next-state relation: JavaScript runs a continuation once its promise settles, a
request is aborted by its timer, a wait is a timer. That every provider call
settles is what `provider_task` shows (`EveryTaskSettles`), and what the
liveness of the batch and the document rests on. In `DocumentRun` the fairness
of the steps that compute a result is stated through the stage they lead to
(`NextStage`), which is enabled exactly when they are: deciding whether the
actions themselves are enabled would make TLC compute the results over and over.
`DetectedIsDelivered` starts after the detection on purpose: `run` has no
handler for a detection that throws, and rejects. `ProcessAnalysis` assumes weak
fairness of each job's `Step`: a thread that can go on does, a statement that is
refused raises, and Postgres ends a deadlock by failing one of its members
(`DeadlockVictim`). Nobody has to start a job, upload or delete, and `Fails` is
not fair. Weak fairness is enough because there are finitely many calls and
each has finitely many statements; what the run shows is that waiting never
becomes a cycle that no victim breaks. `LocalReprocess`,
`PersistedRun`, `MarketAnalysis` and `Stage1` state no fairness and no liveness:
a request may end with its process.

Runs that say `CHECK_DEADLOCK FALSE` model calls that return, after which there
is nothing to do.

## 4. What is proved

`BatchProcessorProofs` proves for every retry limit, every set of items, every
set of extractions and every repair function (assumptions `RetryLimitAssumption`
and `NormalizeAssumption`):

- `TypesHold`: `Spec => []TypeOK`
- `RetriesAreAsked`: `Spec => []OnlyRetryIsRetried`
- `OutputWasJudged`: `Spec => []PublishesWhatWasJudged`
- `ProcessorKeepsContract`: `Spec => KeepsContract`, the safety part of the
  refinement.

The argument for the batch. None of the three invariants is inductive alone.
`Inductive` adds `LoopInvariant`, what the loop knows between two steps: while an
attempt is in progress its number is within the limit; during validation the
candidate output is the attempt's own; at the start of an attempt the attempt's
items are empty, which is why a throwing extraction publishes nothing; a loop
left with "retry" has used all its attempts; a failed attempt always asks for a
human; no trace carries the warning about exhausted retries, which only the
assembly adds; and a record exists exactly when the call has returned. There is
one lemma per action; the four that end an attempt share `FinishedAttempt` and
`JudgedAttempt` on what appending a trace does. The refinement then needs one
step that is not a stutter: assembling, from a state that satisfies the
invariant, yields a record that keeps every clause of `Promised`
(`AssembleSettles`).

`DocumentRunProofs` proves of the plan, for every document whose lines differ,
every set of ranges, every provider and every batch size, from
`DocumentsAssumption`, `DetectionsAssumption`, `ProvidersAssumption` and
`BatchSizesAssumption`:

- `PlanTypesHold`: `PlanSpec => []PlanTypeOK`
- `NoLineIsLost`: `PlanSpec => []EveryLineIsPlanned`
- `DetectionDecides`: `PlanSpec => []DetectedRangesAreRead`
- `BatchesAreFull`: `PlanSpec => []BatchesFillTheirBounds`

The argument for the plan. `PlanInductive` only says that each variable is what
its step makes of the inputs; what is to be shown is what the loops compute.
`DocumentIsRead` says of the fragmenter that the lines of its fragments, one
after the other, are the lines it was given without the blank and the discarded
ones; `GroupingIsComplete` of both groupings that they neither lose nor move a
segment; `GeminiGroupsFit` and `ChunksFit` that a group keeps its limits and that
the first segment of the next would not have fitted. That lines differ is no
restriction of documents: a line of the model stands for one place in the file.

It proves of the run, for every number of batches, every retry limit and every
set of extractions, from `MaxBatchesAssumption`, `RetryLimitAssumption`,
`ItemsAssumption` (repairing the numbers of an extraction yields items) and
`ItemFieldsAssumption`:

- `TypesHold`: `Spec => []TypeOK`
- `FailuresAlwaysSurface`: `Spec => []FailuresSurface`
- `TheBestIsKept`: `Spec => []KeepsTheBest`
- `EveryDropIsTraced`: `Spec => []DroppedItemsAreTraced`
- `CompletedHidesNothing`: `Spec => []CompletedIsClean`
- `NumbersRunThrough`: `Spec => []NumberingIsContinued`

The argument for the run is a composition. The proofs of the batch are
instantiated with the parameters of the run (`Batch`), and of a batch only three
results are used: its invariant holds when a call begins (`CallStarts`), every
step of the call keeps it (`CallGoesOn`), and the record it settles with keeps the
contract (`CallSettles`). The invariant of the run says that a call in progress
is in a state of that invariant (`InCall`), that every record collected keeps the
contract (`Collected`), and that a call is in progress only while a planned batch
is left. When the result is put together the contract is all that is known of a
record: a record with a provider failure is a manual review, one that says
"retry" carries its warning, and no warning of the consolidation can be mistaken
for either.

The other four are about the result, which is what the operators make of the
collected batches (`Delivered`). `MergedTable` is an induction along the loop of
the consolidator: after k items, its insertion-ordered map holds the rows of the
keys met so far, in the order of their first mention and each the best of its
items so far, and the trace holds an entry for every item that lost.
`ConsolidateIsReference` and `NothingDropped` read the two properties off its
last step. `RepairContinues` says that the repair of numbers leaves no OCR-like
label that continues the row before it, `RepairOnlyNumbers` that it changes
nothing else.

`LocalServiceProofs` proves of the reprocess service, for any number of requests,
any document, any providers and any results of `processBatch` that keep its
contract, from `SegmentsAssumption`, `ResultsAssumption` and
`ItemFieldsAssumption`:

- `TypesHold`: `Spec => []TypeOK`
- `RecordIsOnePicture`: `Spec => []RecordFollowsBatches`
- `EvidenceIsKept`: `Spec => []OneGroupingKeepsEvidence`
- `AloneChangesOneBatch`: `Spec => AloneIsSelective`

The argument for reprocessing. A save writes what its request read earlier, so it
is not enough to know that the stored record is consistent: `Inductive` says it
of every record that a request still holds (`Whole`), and of what a request holds
besides that it is a result of the batch it asked for (`InRequest`).
`UpdateIsWhole` is the one computation: a whole record with another batch in its
place gives a whole record. The evidence is `GroupingIsComplete` again, for a
record whose batches were planned by one grouping. The action property needs
`SaveWrites` only.

It proves of the market analysis, for any uploads, any limits and any file an
earlier version may have left, from `LimitsAssumption`, `IdsAssumption` (the
order of ids is total) and `LegacyFilesAssumption` (its entries have different
ids, none of an upload to come):

- `MarketTypesHold`: `MarketSpec => []MarketTypeOK`
- `CodesAreStable`: `MarketSpec => []CodesIdentifyRuns`
- `PricesAreTraceable`: `MarketSpec => []BenchmarkIsTraceable`

The argument for the market analysis. The codes that were shown say nothing of
the next repair, so `MarketInductive` ties them to the file: once a code was
shown, the file is numbered, its next code is above every code ever shown, and
codes and ids determine each other across both (`Agrees`). `NormalizeNumbers`
says that the repair gives any entries with different ids different codes below
the next one: a code that stays is below the first new one (`HighestCode`), and a
new one grows with the number of entries before it (`NewCodesDiffer`, by
cardinality along the order of creation). `NormalizeKeeps` says that it leaves a
numbered file as it is, which is what makes a code stable. `Sound` says that runs
of uploads are in the file only when the upload is done: hence the run of a save
is new there, and its code is the next one (`FrontRun`, `SaveIsGood`).

`OperatorLemmas` is what these proofs share. The folds of the library are
recursive functions on sets of positions. `FoldSteps` turns a fold into the
sequence of its intermediate results (`Steps`), for a step function given as a
value; what a loop maintains is then an induction over positions in which the
property is a set of numbers (`UpTo`) or of sequences (`EntryByEntry`), because
the prover cannot instantiate an induction theorem that takes an operator.
`KeepingPicks` and its relatives say of a filter what it keeps; `FlattenSteps`,
`FlattenConcat` and `TaggingIsHomomorphism` do for flattening what the fragmenter
needs.

`ProviderTaskProofs` proves for every retry limit a document may configure:

- `TypesHold`: `Spec => []TypeOK`
- `MockIsConfigured`: `Spec => []MockOnlyAsConfigured`
- `CostIsBounded`: `Spec => []RequestsAreBounded`

The argument for the task. The bound on requests counts positions of a sequence,
the code counts attempts; `TaskInvariant` ties the two together. A task under
way has a key, attempts left and only failed requests behind it; the requests to
the configured model are at most as many as the failed attempts, and one more
while the second model is being asked, which happens only after a 503.
`PostedCount` says what one more request does to the count, and `FailedAttempt`
is shared by the two ways an attempt ends in an error.

`PersistedRunProofs` proves for every set of documents, files, runs and
outcomes, from `ConstantsAssumption` alone:

- `TypesHold`: `Spec => []TypeOK`
- `FinishedDocumentsAreWhole`: `Spec => []FinishedIsWhole`
- `OutcomesAreReplacedWhole`: `Spec => PublishesWholeRuns`, the refinement of
  StoredRuns.

The argument for the persistence. `FinishedIsWhole` needs to know that nobody
writes below a finished status: `Alone` says that a run under way, unless its
document was ever in two hands, is the only one and has taken the finished
status away. The refinement needs `Whole` (the result tables are those of the
result, overlapping or not) and `Published` (the run whose result is stored is
over, so that its output can no longer change under the stored rows). Only
`persistCompletedRun` maps to `Publish`; a run that fails or is refused maps to
`Abandon`, and what it wrote before is no part of the outcome.

`ProcessAnalysisProofs` proves for any number of jobs, documents and items, any
number of workers and any commit interval, from `DocumentsAssumption`,
`ItemsAssumption` and `JobsAssumption`:

- `TypesHold`: `Spec => []TypeOK`
- `RowsAreLostOnlyToEmptyFindings`: `Spec => RowsAreReplaced`
- `RerunsNeverLeaveBoth`: `Spec => []RerunsNeverDouble`
- `AnalyzedProcessesAreComplete`: `Spec => []AnalyzedIsComplete`

The argument for overlapping analyses. None of these is inductive: an analysis
deletes in its transaction what it read when it started, and what others commit
in between is in nobody's view yet. `Inductive` says of each job what it has
read, locked, deleted and still has to do at each place (`Sound`), and of each
pair of jobs that they are `Apart`. Three facts carry the rest. Rows committed
after a read are fresh (`Fresh`), so the rows that two analyses have read and
that are still stored are nested; the reset locks the rows it deletes, so of two
analyses at most one has deleted rows. `Replaces`: a document of a deleted row
is still to be read, has rows in view, or was read and gave none, hence no other
commit loses a document. `Renews`: where a job adds rows to a document that had
some when it started and ever since, it deletes every row of jobs of which the
same is true, hence no commit doubles them. Analyses that saw a document without
rows, before its first extraction or after an empty one, are not claimed about:
two of them may each add its rows, and the next one deletes both. `LocalStep` and `CommitStep` are shared by the actions that commit nothing
and by the four that commit. The last theorem adds `Undisturbed`: while analyses
have not overlapped, one is active at a time, knows the stored status until its
first commit, and then keeps every shown and priced row it made primary either
on its list of items or assessed.

`Stage1Proofs` proves for any finite set of documents, any rows extracted from
them, any actions of the model and any limit of iterations, from
`DocumentsAssumption`, `ExtractedAssumption`, `ActionsAssumption` and
`IterationsAssumption`:

- `TypesHold`: `Spec => []TypeOK`
- `ShiftedRowsAreHidden`: `Spec => []HardNoiseNeverShown`
- `PreferredSourcesLead`: `Spec => []PreferredSourceLeads`
- `VerdictsAreAboutTheRows`: `Spec => []VerdictIsAboutTheRows`
- `RuleSetsAgree`: `Spec => []GateAndIssuesAgree`

The argument for stage 1. What is stored is always what the rules compute from
the extracted rows under the settings the run went by (`Computed`): the primary
rows are those that `_mark_primary_sources` chooses, the hidden ones those that
the review hides, and the issues those that `evaluate_process` raises. What a
correction has loaded is what is stored until it is overtaken (`Fits`), every
request that replaces the rows overtakes what the others have loaded and takes
the stored verdict away (`OvertakenFits`, `RunIsComputed`), and so a verdict that
was not overtaken is about the rows it is stored beside, and any approval was
deserved by the rows it judged (`About`). The rest is about the rules:
an official row of an Excel document with the priority that the correction
gives outweighs every row of the same item from a document without one, because
what the priority and the sheet add exceeds all it can lack in cells
(`PriorityOutweighs`); a row the gate counts as incomplete raises an issue
(`IncompleteIsAnIssue`, by cases on the cells the code derives from each other);
and a process the gates let pass has a primary row that deserves it
(`ReadyIsDeserving`).

Only model-checked: the liveness properties (`EveryBatchSettles`,
`DetectedIsDelivered`, `EveryTaskSettles`, `EveryAnalysisSettles`), which need
fairness and ENABLED, out of this prover's reach. Every invariant and every
action property of the passing runs is a theorem. That the three remaining runs
end in a counterexample is shown by TLC alone.

## 5. Abstractions

- Scores, confidence of a batch, timestamps, usage, prompts and raw responses
  are left out: nothing modelled branches on them. The confidence of an item is
  kept, as a small number, because the consolidator compares it; so are the
  scores of Stage1Rows, with the code's weights.
- Warnings are sets of tags: one for each text the code adds or asks about, and
  one for everything a provider warns of in an answer or an item.
- A merge key is a pair or a uid; the separator of the string is not modelled.
- A description stands for its normalised form.
- Sets of at most one record stand for "not there yet" (`batch`,
  `consolidation`, `document`, `existing`, `processed`).
- The local store writes and reads whole records in one step: SQLite statements
  are synchronous in the code.
- A Prisma transaction is one step. Interleavings within two transactions of one
  document, which row locks and unique keys mostly exclude, are not modelled.
- In PersistedRun a table of a document is the set of runs with rows in it,
  because a run inserts all its rows of a table at once and every delete is by
  document.
- Postgres is external: READ COMMITTED, row locks until the end of a
  transaction, the abort of a deadlock, cascades and constraints are modelled
  from how the code uses them.
- `startedOn`, `overlapped` and `issued` are history variables, and so are the
  `basis` of what Stage1 stores and `judged` and `overtaken` of a verdict: the
  code has nothing like them, and no guard reads them. `startedOn` keeps of a job
  the documents that had rows when it began and have had some in every commit
  since.
- The result of a file write that fails is the file as it was, as the repair
  left it, or a part of it ("broken").
- In Stage1Rows a cell is a number or one of three stand-ins for text, a
  confidence is in percent, and rows with the same text are what the code's
  similarity measure finds similar. In ProcessAnalysis a row is the job that
  made it and the item it is of; the status "support" of a row and the ranks of
  the rows that do not lead are left out.

## 6. Not modelled

The status and reason of each part are in `PROJECT.json`. In short: text
heuristics, file parsing, prompts, the mapping of provider answers, rendering and
price arithmetic on real numbers have no behaviour over time and are out of scope
for good. Of modelled parts these operations are missing: exports and listings of
the local service; the repository's methods that nothing calls; the connection
test and the recovery of the settings file; edits of rows, exports and settings
of the Python API; the price search itself, which is any answer.

## 7. Plan

Done: all modules of section 2, and the proof of every safety property they
state.

Left, in this order:

1. ProcessAnalysis: the API's edits of rows beside an analysis.
2. The hazards of `PROJECT.json` without a property: what a document or an upload
   shows after a run that failed half way.
3. Further action properties, with proofs: that a stored record, a file of runs
   and a verdict change only by the request that owns the change.
