-------------------------- MODULE ProcessAnalysis --------------------------
(* The analysis of one procurement process: ProcessAnalysisPipeline           *)
(* (procurement_core/pipelines/analysis.py) run by API threads and workers,   *)
(* with uploads and the deletion of the process beside it                     *)
(* (procurement_api/services.py).                                             *)
(*                                                                            *)
(* Nothing keeps two analyses of a process apart, so they meet in Postgres    *)
(* under READ COMMITTED: a statement sees what is committed when it starts    *)
(* and what its own transaction did; a row written by an open transaction is  *)
(* locked until that transaction ends; an error rolls back to the last commit.*)
EXTENDS Naturals, FiniteSets

CONSTANTS
    Documents,     \* documents, numbered in the order they are registered
    FirstDocuments,\* those registered before the first analysis
    Items,         \* rows that the extractors find
    documentOf,    \* the document of an item
    canonicalKey,  \* what groups items of several documents
    sourceScore,   \* normalized_item_source_score
    Priced,        \* items with a unit price or a total
    Shown,         \* items whose summary_include is not False
    OfficialSheet, \* items whose row is an official item of an official sheet
    SupportSheet,  \* items whose sheet_role is "support"
    Tolerant,      \* documents whose extractor swallows every error: PDF, images
    Jobs,          \* calls of analyze_process and run_stage_1, numbered as they start
    Stage1Jobs,    \* the calls of run_stage_1 among them
    Workers,       \* calls that run at a time
    MaxFailures,   \* bound: calls that fail for a reason of their own
    CommitEvery    \* assessments between two commits (3 in the code)

ASSUME DocumentsAssumption == Documents \subseteq Nat /\ FirstDocuments \subseteq Documents
ASSUME ItemsAssumption ==
    /\ documentOf \in [Items -> Documents] /\ sourceScore \in [Items -> Nat]
    /\ DOMAIN canonicalKey = Items /\ Tolerant \subseteq Documents
    /\ \A S \in {Priced, Shown, OfficialSheet, SupportSheet} : S \subseteq Items
ASSUME JobsAssumption == Jobs \subseteq Nat /\ {Workers, MaxFailures} \subseteq Nat /\ Stage1Jobs \subseteq Jobs /\ CommitEvery \in Nat \ {0}

VARIABLES
    db,          \* what is committed
    files,       \* documents whose file is on disk
    deleting,    \* a delete request has removed the files and not yet the rows
    pc,          \* where each job is
    tx,          \* the open transaction and the locals of each job
    startedOn,   \* history: documents that have had rows since the job started
    overlapped   \* history: some job started while another was running
vars == <<db, files, deleting, pc, tx, startedOn, overlapped>>

Rows == [job : Jobs, item : Items]
Statuses == {"ingested", "review", "analyzed"}
Points == Rows \X Jobs
RowLock(r) == <<"row", r>>
DocumentLock(d) == <<"document", d>>
ProcessLock == <<"process", 0>>
Locks == {RowLock(r) : r \in Rows} \cup {DocumentLock(d) : d \in Documents} \cup {ProcessLock}

NoTransaction ==
    [read |-> {}, marked |-> FALSE, status |-> "ingested", deleted |-> {}, added |-> {},
     promoted |-> {}, demoted |-> {}, profiled |-> {}, points |-> {}, assessed |-> {},
     locks |-> {}, todo |-> {}, unprofiled |-> {}, found |-> {}, items |-> {}, item |-> {},
     searched |-> FALSE, total |-> 0, processed |-> 0]

DocumentRows(rows, d) == {r \in rows : documentOf[r.item] = d}
DocumentItems(d) == {i \in Items : documentOf[i] = d}
Covered(rows) == {documentOf[r.item] : r \in rows}
Active(j) == pc[j] \notin {"idle", "done", "failed"}

Init ==
    /\ db = [exists |-> TRUE, documents |-> FirstDocuments, profiled |-> {}, rows |-> {},
             primary |-> {}, points |-> {}, assessed |-> {},
             status |-> "ingested", progress |-> "none"]
    /\ files = FirstDocuments /\ deleting = FALSE
    /\ pc = [j \in Jobs |-> "idle"] /\ tx = [j \in Jobs |-> NoTransaction]
    /\ startedOn = [j \in Jobs |-> {}] /\ overlapped = FALSE

-----------------------------------------------------------------------------
(* Transactions. *)

View(j) == (db.rows \ tx[j].deleted) \cup tx[j].added
NextDocument(j) == CHOOSE d \in tx[j].todo : \A e \in tx[j].todo : d <= e

(* One row of the best score leads each key ... *)
SameKey(r, s) == canonicalKey[r.item] = canonicalKey[s.item]
Best(rows) ==
    {r \in rows : \A s \in rows : SameKey(r, s) => sourceScore[s.item] <= sourceScore[r.item]}
Leaders(rows) ==
    {P \in SUBSET Best(rows) :
        \A r \in rows : \E best \in P : {s \in P : SameKey(r, s)} = {best}}

(* ... and is primary, unless it comes from a support sheet of a document     *)
(* that has official rows: then the key has no primary row. The status        *)
(* "support" and the ranks of the others are left out.                        *)
SupportOnly(rows, best) ==
    /\ best.item \in SupportSheet
    /\ \E r \in DocumentRows(rows, documentOf[best.item]) : r.item \in OfficialSheet
Selections(rows) ==
    {{best \in P : ~SupportOnly(rows, best)} : P \in Leaders(rows)}

(* The committed rows whose status a choice of sources would write. *)
Changes(rows, P) == ((P \ db.primary) \cup (db.primary \ P)) \cap rows \cap db.rows
Changeable(rows) == UNION {Changes(rows, P) : P \in Selections(rows)}

(* The locks the next statement of a job takes, and who holds one of them. *)
Needs(j) ==
    CASE pc[j] = "reset" ->
            {RowLock(r) : r \in tx[j].read \cap db.rows}
              \cup IF tx[j].marked THEN {ProcessLock} ELSE {}
      [] pc[j] = "store" -> {DocumentLock(d) : d \in {NextDocument(j)} \cap tx[j].unprofiled}
      [] pc[j] = "extract" /\ tx[j].todo = {} -> {RowLock(r) : r \in Changeable(View(j))}
      [] pc[j] = "select" -> {RowLock(r) : r \in Changeable(db.rows)}
      [] pc[j] = "item" -> IF tx[j].searched THEN {RowLock(r) : r \in tx[j].item} ELSE {}
      [] pc[j] \in {"commit", "checkpoint"} \/ (pc[j] = "items" /\ tx[j].items = {}) -> {ProcessLock}
      [] OTHER -> {}
Blockers(j) ==
    LET needs == Needs(j)
    IN {k \in Jobs \ {j} : tx[k].locks \cap needs # {}}

(* Mutant: the reset forgets the assessments of the rows it deletes. *)
CommittedKeepingAssessments(j) ==
    [db EXCEPT !.rows = View(j), !.profiled = @ \cup tx[j].profiled,
               !.primary = (@ \ (tx[j].demoted \cup tx[j].deleted)) \cup tx[j].promoted,
               !.points = {p \in @ : p[1] \notin tx[j].deleted} \cup tx[j].points,
               !.assessed = @ \cup tx[j].assessed]
Committed(j) ==
    [db EXCEPT !.rows = View(j),
               !.profiled = @ \cup tx[j].profiled,
               !.primary = (@ \ (tx[j].demoted \cup tx[j].deleted)) \cup tx[j].promoted,
               !.points = {p \in @ : p[1] \notin tx[j].deleted} \cup tx[j].points,
               !.assessed = (@ \ tx[j].deleted) \cup tx[j].assessed]

(* A document that has rows by now is left as it is. *)
(* Mutant: documents are extracted unconditionally. *)
HasRowsIgnored(j, d) == FALSE
HasRows(j, d) == DocumentRows(View(j), d) # {}

(* What an extractor may find. The routes of a PDF and of an image swallow a  *)
(* missing file, a damaged one and a missing OCR engine, and find nothing;    *)
(* that of a spreadsheet or a text document fails.                            *)
Findings(d) ==
    {DocumentItems(d) : found \in {d} \cap files} \cup {{} : found \in {d} \cap Tolerant}

(* The statements of a job that a vanished row, file or process makes fail. *)
Impossible(j) ==
    \/ ~db.exists
    \/ /\ pc[j] = "extract" /\ tx[j].todo # {} /\ ~HasRows(j, NextDocument(j))
       /\ Findings(NextDocument(j)) = {}
    \/ pc[j] = "item" /\ ~(tx[j].item \subseteq db.rows)
    \/ pc[j] \in {"checkpoint", "items"} /\
         (tx[j].assessed \cap db.assessed # {} \/ ~(tx[j].assessed \subseteq db.rows))

At(j, here) == pc[j] = here /\ ~Impossible(j) /\ Blockers(j) = {}
Goto(j, there) == pc' = [pc EXCEPT ![j] = there]
Continues(j, there, t) ==
    /\ Goto(j, there) /\ tx' = [tx EXCEPT ![j] = t]
    /\ UNCHANGED <<files, deleting, overlapped>>
Steps(j, there, t) == Continues(j, there, t) /\ UNCHANGED startedOn

-----------------------------------------------------------------------------
(* One analysis. *)

Start(j) ==
    /\ pc[j] = "idle" /\ \A k \in Jobs : k < j => pc[k] # "idle"
    /\ Cardinality({k \in Jobs : Active(k)}) < Workers /\ db.exists
    /\ Goto(j, "reset")
    /\ tx' = [tx EXCEPT ![j] = [NoTransaction EXCEPT !.read = db.rows, !.status = db.status,
                                                     !.marked = db.progress # "none"]]
    /\ startedOn' = [startedOn EXCEPT ![j] = Covered(db.rows)]
    /\ overlapped' = (overlapped \/ \E k \in Jobs : Active(k))
    /\ UNCHANGED <<db, files, deleting>>

(* _reset_process_analysis deletes the rows it has read, then lists the documents. *)
(* Mutant: the reset is committed before anything is extracted. *)
ResetCommitted(j) ==
    /\ At(j, "reset")
    /\ db' = [db EXCEPT !.rows = @ \ tx[j].read, !.primary = @ \ tx[j].read, !.assessed = @ \ tx[j].read,
                        !.points = {p \in @ : p[1] \notin tx[j].read}, !.progress = "none"]
    /\ Steps(j, "extract", [tx[j] EXCEPT !.todo = db.documents,
                                         !.unprofiled = db.documents \ db.profiled])
Reset(j) ==
    /\ At(j, "reset")
    /\ Steps(j, "extract", [tx[j] EXCEPT !.deleted = @ \cup (tx[j].read \cap db.rows),
                                         !.locks = @ \cup Needs(j),
                                         !.todo = db.documents,
                                         !.unprofiled = db.documents \ db.profiled])
    /\ UNCHANGED db

Extract(j) ==
    /\ At(j, "extract") /\ tx[j].todo # {}
    /\ IF HasRows(j, NextDocument(j))
       THEN Steps(j, "extract", [tx[j] EXCEPT !.todo = @ \ {NextDocument(j)}])
       ELSE \E found \in Findings(NextDocument(j)) :
               Steps(j, "store", [tx[j] EXCEPT !.found = found])
    /\ UNCHANGED db

StoreDocument(j) ==
    /\ At(j, "store")
    /\ LET d == NextDocument(j)
       IN Steps(j, "extract",
                [tx[j] EXCEPT !.added = @ \cup {[job |-> j, item |-> i] : i \in tx[j].found},
                              !.profiled = @ \cup {d}, !.found = {},
                              !.locks = @ \cup Needs(j), !.todo = @ \ {d}])
    /\ UNCHANGED db

(* _mark_primary_sources writes the rows whose status changes, and locks them. *)
Chosen(j, rows, P) ==
    [tx[j] EXCEPT !.promoted = P \ db.primary,
                  !.demoted = (db.primary \cap rows) \ P,
                  !.locks = @ \cup {RowLock(r) : r \in Changes(rows, P)}]

(* Normalisation, choice of sources, review and validation of all rows in view. *)
MarkSources(j) ==
    /\ At(j, "extract") /\ tx[j].todo = {}
    /\ \E P \in Selections(View(j)) :
          Steps(j, "commit", Chosen(j, View(j), P))
    /\ UNCHANGED db

(* The ORM writes the status only if it differs from the one it has loaded. *)
(* Mutant: a process that was analysed keeps its status while it is analysed again. *)
ReviewStatusOnce(j) == IF db.status = "analyzed" THEN db.status ELSE "review"
ReviewStatus(j) == IF tx[j].status = "review" THEN db.status ELSE "review"

StillCovered(rows) == [k \in Jobs |-> startedOn[k] \cap Covered(rows)]
PersistPartial(j) ==
    /\ At(j, "commit") /\ j \notin Stage1Jobs
    /\ db' = [Committed(j) EXCEPT !.status = ReviewStatus(j), !.progress = "running"]
    /\ Continues(j, "select", NoTransaction) /\ startedOn' = StillCovered(View(j))

FinishStage1(j) ==
    /\ At(j, "commit") /\ j \in Stage1Jobs
    /\ db' = [Committed(j) EXCEPT !.status = ReviewStatus(j), !.progress = "done"]
    /\ Continues(j, "done", NoTransaction) /\ startedOn' = StillCovered(View(j))

(* The benchmark chooses the sources once more, among the rows committed by now. *)
SelectItems(j) ==
    /\ At(j, "select")
    /\ \E P \in Selections(db.rows) :
          LET items == {r \in P : r.item \in Shown}
          IN Steps(j, "items", [Chosen(j, db.rows, P) EXCEPT !.items = items,
                                                            !.total = Cardinality(items)])
    /\ UNCHANGED db

(* An item without prices is searched on the web; one that has them is not. *)
HasPoints(j, r) == \E p \in db.points \cup tx[j].points : p[1] = r
NextItem(j) ==
    /\ At(j, "items")
    /\ \E r \in tx[j].items :
          Steps(j, "item", [tx[j] EXCEPT !.item = {r}, !.searched = ~HasPoints(j, r)])
    /\ UNCHANGED db

(* The prices found are flushed; a row is assessed once, if the entity priced it. *)
Assess(j) ==
    /\ At(j, "item")
    /\ LET r == CHOOSE r \in tx[j].item : TRUE
           done == tx[j].processed + 1
           rest == [tx[j] EXCEPT !.items = @ \ {r}, !.item = {}, !.searched = FALSE,
                                 !.points = @ \cup (IF tx[j].searched THEN {<<r, j>>} ELSE {}),
                                 !.locks = @ \cup Needs(j)]
       IN IF r \in db.assessed \cup tx[j].assessed \/ r.item \notin Priced
          THEN Steps(j, "items", rest)
          ELSE Steps(j, IF done % CommitEvery = 0 \/ done = tx[j].total
                        THEN "checkpoint" ELSE "items",
                     [rest EXCEPT !.assessed = @ \cup {r}, !.processed = done])
    /\ UNCHANGED db

Checkpoint(j) ==
    /\ At(j, "checkpoint")
    /\ db' = [Committed(j) EXCEPT !.progress = "running"]
    /\ Steps(j, "items", [NoTransaction EXCEPT !.items = tx[j].items, !.total = tx[j].total,
                                               !.processed = tx[j].processed])

Finish(j) ==
    /\ At(j, "items") /\ tx[j].items = {}
    /\ db' = [Committed(j) EXCEPT !.status = "analyzed", !.progress = "done"]
    /\ Steps(j, "done", NoTransaction)

(* The session is closed: what is not committed is gone, the locks are free. *)
(* Mutant: the session of a failed job stays open. *)
RolledBackOpen(j) ==
    Steps(j, "failed", [NoTransaction EXCEPT !.locks = tx[j].locks]) /\ UNCHANGED db
RolledBack(j) == Steps(j, "failed", NoTransaction) /\ UNCHANGED db

(* An error of an extractor or the database, or the death of the worker. *)
Fails(j) ==
    /\ Active(j) /\ Cardinality({k \in Jobs : pc[k] = "failed"}) < MaxFailures
    /\ RolledBack(j)
Refused(j) == Active(j) /\ Impossible(j) /\ RolledBack(j)
DeadlockVictim(j) ==
    /\ Active(j) /\ \E k \in Blockers(j) : j \in Blockers(k)
    /\ RolledBack(j)

Step(j) ==
    \/ Reset(j) \/ Extract(j) \/ StoreDocument(j) \/ MarkSources(j)
    \/ PersistPartial(j) \/ FinishStage1(j) \/ SelectItems(j) \/ NextItem(j)
    \/ Assess(j) \/ Checkpoint(j) \/ Finish(j)
    \/ Refused(j) \/ DeadlockVictim(j)

-----------------------------------------------------------------------------
(* Other requests. *)

Free(locks) == \A j \in Jobs : tx[j].locks \cap locks = {}

RegisterDocument(d) ==
    /\ db.exists /\ d \notin db.documents /\ Free({ProcessLock})
    /\ files' = files \cup {d}
    /\ db' = [db EXCEPT !.documents = @ \cup {d}, !.status = "ingested"]
    /\ UNCHANGED <<deleting, pc, tx, startedOn, overlapped>>

(* delete_process removes the files before it touches a row ... *)
DeleteFiles ==
    /\ db.exists /\ ~deleting
    /\ deleting' = TRUE /\ files' = {}
    /\ UNCHANGED <<db, pc, tx, startedOn, overlapped>>

(* ... and then deletes everything, the rows it has not listed by cascade. *)
DeleteRows ==
    /\ deleting /\ db.exists /\ Free(Locks)
    /\ deleting' = FALSE
    /\ db' = [db EXCEPT !.exists = FALSE, !.documents = {}, !.profiled = {}, !.rows = {},
                        !.primary = {}, !.points = {}, !.assessed = {}, !.progress = "none"]
    /\ UNCHANGED <<files, pc, tx, startedOn, overlapped>>

DeleteFails ==
    /\ deleting /\ deleting' = FALSE
    /\ UNCHANGED <<db, files, pc, tx, startedOn, overlapped>>

Next ==
    \/ \E j \in Jobs : Start(j) \/ Step(j) \/ Fails(j)
    \/ \E d \in Documents : RegisterDocument(d)
    \/ DeleteFiles \/ DeleteRows \/ DeleteFails

Spec == Init /\ [][Next]_vars
(* A worker that is alive goes on; nobody has to start, upload or delete. *)
Fairness == \A j \in Jobs : WF_vars(Step(j))
FairSpec == Spec /\ Fairness

-----------------------------------------------------------------------------
(* Properties. *)

(* What is stored keeps its shape: rows belong to documents of the process,  *)
(* the choice of sources, prices and assessments to rows.                    *)
TypeOK ==
    /\ db.rows \subseteq Rows /\ db.primary \subseteq db.rows
    /\ db.points \in SUBSET (db.rows \X Jobs) /\ db.assessed \subseteq db.rows
    /\ Covered(db.rows) \subseteq db.documents /\ db.documents \subseteq Documents
    /\ db.status \in Statuses /\ db.progress \in {"none", "running", "done"}
    /\ ~db.exists => db.rows = {} /\ db.documents = {}
    /\ \A j \in Jobs : tx[j].locks \subseteq Locks
    /\ \A j, k \in Jobs : j # k => tx[j].locks \cap tx[k].locks = {}

(* A document that has rows has some after every step, whatever analyses      *)
(* overlap, fail or are killed, until the process is deleted, but for one way *)
(* out: an analysis deletes its rows, reads the PDF or image again, finds     *)
(* nothing, and commits that (_reset_process_analysis, _extract_document).    *)
FoundNothing(j, d) ==
    d \in tx[j].profiled \cap Tolerant /\ DocumentRows(tx[j].added, d) = {}
RowsAreReplaced ==
    [][db'.exists =>
        \A d \in Covered(db.rows) \ Covered(db'.rows) :
            \E j \in Jobs : pc[j] = "commit" /\ pc'[j] # "commit" /\ FoundNothing(j, d)]_db

(* Two analyses that both began when a document had rows, and have not seen   *)
(* it lose them all, never leave it with the rows of both: the second one to  *)
(* delete finds the first one's rows.                                         *)
RerunsNeverDouble ==
    \A r, s \in db.rows :
        r.job # s.job /\ documentOf[r.item] = documentOf[s.item]
          => documentOf[r.item] \notin startedOn[r.job] \cap startedOn[s.job]

(* Unless analyses overlapped, "analyzed" is said of a process whose analysis *)
(* is over and whose chosen, shown and priced rows are all assessed, crashes  *)
(* between the commits of earlier analyses included.                          *)
AnalyzedIsComplete ==
    db.status = "analyzed" /\ ~overlapped /\ db.exists =>
        /\ db.progress = "done"
        /\ \A r \in db.primary : r.item \in Shown \cap Priced => r \in db.assessed

(* Analyses never wait for one another for good: each one ends.               *)
EveryAnalysisSettles == \A j \in Jobs : Active(j) ~> ~Active(j)
=============================================================================
