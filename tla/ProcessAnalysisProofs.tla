------------------------ MODULE ProcessAnalysisProofs ------------------------
(* Proofs about ProcessAnalysis, for any number of analyses, documents and    *)
(* items: what is stored keeps its shape, an analysis loses the rows of a     *)
(* document only if it reads it again and finds nothing, two reruns never     *)
(* leave the rows of both, and analyses that do not overlap leave nothing out *)
(* of a process they call analysed.                                           *)
(*                                                                            *)
(* The heart of it: the rows that two analyses have read and that are still   *)
(* there are nested, because rows committed after a read are fresh. The reset *)
(* locks what it deletes, so of two analyses at most one has deleted rows.    *)
EXTENDS ProcessAnalysis, WellFoundedInduction, FiniteSetTheorems, TLAPS

Writing == {"extract", "store", "commit"}
Early == {"idle", "reset"} \cup Writing      \* no row of the job is committed
Late == {"select", "items", "item", "checkpoint"}
Places == Early \cup Late \cup {"done", "failed"}

TxType ==
    [read : SUBSET Rows, marked : BOOLEAN, status : Statuses, deleted : SUBSET Rows,
     added : SUBSET Rows, promoted : SUBSET Rows, demoted : SUBSET Rows,
     profiled : SUBSET Documents, points : SUBSET Points, assessed : SUBSET Rows,
     locks : SUBSET Locks, todo : SUBSET Documents, unprofiled : SUBSET Documents,
     found : SUBSET Items,
     items : SUBSET Rows, item : SUBSET Rows, searched : BOOLEAN,
     total : {Cardinality(S) : S \in SUBSET Rows}, processed : Nat]

DbType ==
    [exists : BOOLEAN, documents : SUBSET Documents, profiled : SUBSET Documents,
     rows : SUBSET Rows, primary : SUBSET Rows, points : SUBSET Points,
     assessed : SUBSET Rows, status : Statuses, progress : {"none", "running", "done"}]

Types ==
    /\ db \in DbType /\ files \subseteq Documents /\ deleting \in BOOLEAN
    /\ pc \in [Jobs -> Places] /\ tx \in [Jobs -> TxType]
    /\ startedOn \in [Jobs -> SUBSET Documents] /\ overlapped \in BOOLEAN

-----------------------------------------------------------------------------
(* What is stored: choices, prices and assessments of rows, rows of documents, *)
(* and of every document that has had rows since a job started.               *)
Stored ==
    /\ db.primary \subseteq db.rows /\ db.points \in SUBSET (db.rows \X Jobs)
    /\ db.assessed \subseteq db.rows /\ Covered(db.rows) \subseteq db.documents
    /\ ~db.exists => db.rows = {} /\ db.documents = {}

Lasting == db.exists => \A j \in Jobs : startedOn[j] \subseteq Covered(db.rows)

(* Rows of a job that has not committed them are neither stored nor read. *)
Fresh ==
    /\ \A r \in db.rows : pc[r.job] \notin Early
    /\ \A k \in Jobs : \A r \in tx[k].read : pc[r.job] \notin Early

(* A job at a place with an open transaction: what is empty there, and what   *)
(* it has found in the document it stores next, ...                           *)
First(t) == CHOOSE d \in t.todo : \A e \in t.todo : d <= e
Stage(here, t) ==
    /\ here \notin {"reset"} \cup Writing => t.read = {}
    /\ here \notin Writing => t.deleted = {} /\ t.added = {}
    /\ here \notin {"extract", "store"} => t.todo = {}
    /\ here \notin {"commit", "items", "item", "checkpoint"} => t.promoted = {}
    /\ here \notin {"items", "item", "checkpoint"} => t.points = {} /\ t.assessed = {}
    /\ here = "store" =>
          /\ t.todo # {}
          /\ t.found = DocumentItems(First(t)) \/ (First(t) \in Tolerant /\ t.found = {})
    /\ here = "item" => t.item # {}

(* ... what it has locked or knows of the rows it works with, ... *)
InView(t) == (db.rows \ t.deleted) \cup t.added
Holds(j, t) ==
    /\ t.deleted \subseteq db.rows
    /\ \A r \in t.deleted : RowLock(r) \in t.locks
    /\ \A r \in t.added : r.job = j
    /\ t.promoted \subseteq InView(t)
    /\ \A r \in t.promoted \cap db.rows : RowLock(r) \in t.locks
    /\ \A p \in t.points : p[1] \in db.rows /\ RowLock(p[1]) \in t.locks
    /\ db.exists => t.todo \subseteq db.documents /\ Covered(t.added) \subseteq db.documents

(* ... what it deletes, and what becomes of the documents of those rows, ... *)
Deletes(here, t) == here \in Writing => t.deleted = t.read \cap db.rows
Replaces(here, t) ==
    here \in Writing =>
        Covered(t.deleted) \subseteq t.todo \cup Covered(InView(t)) \cup (Tolerant \cap t.profiled)

(* ... and, of a document that has had rows since it started, that it adds    *)
(* rows only in the place of all rows of jobs of which that also holds.       *)
Adds(here, t) == Covered(t.added) \cup (IF here = "store" THEN {First(t)} ELSE {})
Renews(j, here, t) ==
    here \in Writing /\ db.exists =>
        \A d \in startedOn[j] \cap Adds(here, t) :
            /\ d \in Covered(t.deleted)
            /\ \A s \in DocumentRows(db.rows, d) : d \in startedOn[s.job] => s \in t.deleted

Sound(j, here, t) ==
    Stage(here, t) /\ Holds(j, t) /\ Deletes(here, t) /\ Replaces(here, t) /\ Renews(j, here, t)

(* Two open transactions. *)
Apart(t, u) ==
    /\ t.locks \cap u.locks = {}
    /\ t.read \cap db.rows \subseteq u.read \/ u.read \cap db.rows \subseteq t.read
    /\ t.deleted = {} \/ u.deleted = {}

Inductive ==
    /\ Types /\ Stored /\ Lasting /\ Fresh /\ RerunsNeverDouble
    /\ \A j \in Jobs : Sound(j, pc[j], tx[j])
    /\ \A j, k \in Jobs : j # k => Apart(tx[j], tx[k])

-----------------------------------------------------------------------------
Less == {ss \in Nat \X Nat : ss[1] < ss[2]}

(* A set of numbers has a least one: the document that comes next. *)
LEMMA LeastExists ==
    ASSUME NEW S \in SUBSET Nat, S # {}
    PROVE  \E x \in S : \A y \in S : x <= y
<1>1. IsWellFoundedOn(Less, Nat)
  BY NatLessThanWellFounded, SMT DEF OpToRel, Less
<1>2. PICK x \in S : \A y \in S : ~ (<<y, x>> \in Less)
  BY <1>1, WFMin
<1>3. \A y \in S : ~ (y < x)
  BY <1>2 DEF Less
<1> QED
  BY <1>3

(* The document that comes next is still to be read. *)
LEMMA FirstIsNext ==
    ASSUME NEW t \in TxType, t.todo # {}
    PROVE  First(t) \in t.todo
<1>1. t.todo \in SUBSET Nat
  BY DocumentsAssumption DEF TxType
<1>2. PICK d \in t.todo : \A e \in t.todo : d <= e
  BY <1>1, LeastExists
<1> QED
  BY <1>2 DEF First

LEMMA NoTransactionType == NoTransaction \in TxType
<1>1. Cardinality({}) = 0
  BY FS_EmptySet
<1>2. 0 \in {Cardinality(S) : S \in SUBSET Rows}
  BY <1>1
<1> QED
  BY <1>2 DEF NoTransaction, TxType, Statuses

LEMMA InitInductive == Init => Inductive
<1> SUFFICES ASSUME Init PROVE Inductive
  OBVIOUS
<1>1. Types
  BY NoTransactionType, DocumentsAssumption
     DEF Init, Types, DbType, Places, Early, Writing, Statuses
<1>2. Stored /\ Lasting /\ Fresh /\ RerunsNeverDouble
  BY NoTransactionType DEF Init, Stored, Lasting, Fresh, RerunsNeverDouble, Covered, NoTransaction
<1>3. ASSUME NEW j \in Jobs PROVE Sound(j, pc[j], tx[j])
  BY DEF Init, NoTransaction, Sound, Stage, Holds, Deletes, Replaces, Renews, Writing, Covered
<1>4. ASSUME NEW j \in Jobs, NEW k \in Jobs PROVE Apart(tx[j], tx[k])
  BY DEF Init, NoTransaction, Apart
<1> QED
  BY <1>1, <1>2, <1>3, <1>4 DEF Inductive

-----------------------------------------------------------------------------
(* A step of one job that commits nothing. *)
LEMMA LocalStep ==
    ASSUME Inductive, NEW j \in Jobs, NEW here \in Places, NEW t \in TxType,
           UNCHANGED <<db, files, deleting, startedOn, overlapped>>,
           pc' = [pc EXCEPT ![j] = here], tx' = [tx EXCEPT ![j] = t],
           here \in Early => pc[j] \in Early, t.read \subseteq tx[j].read,
           Sound(j, here, t), \A k \in Jobs \ {j} : Apart(t, tx[k])
    PROVE  Inductive'
<1>1. Types'
  BY DEF Inductive, Types
<1>2. (Stored /\ Lasting /\ RerunsNeverDouble)'
  BY DEF Inductive, Stored, Lasting, RerunsNeverDouble, Covered
<1>3. /\ pc'[j] = here /\ tx'[j] = t
      /\ \A k \in Jobs \ {j} : pc'[k] = pc[k] /\ tx'[k] = tx[k]
  BY DEF Inductive, Types
<1>4. Fresh'
  <2>1. ASSUME NEW r \in Rows, pc[r.job] \notin Early PROVE pc'[r.job] \notin Early
    BY <2>1, <1>3 DEF Rows
  <2> QED
    BY <2>1, <1>3 DEF Inductive, Fresh, Types, DbType, TxType
<1>5. ASSUME NEW k \in Jobs PROVE Sound(k, pc[k], tx[k])'
  <2>1. Sound(k, pc'[k], tx'[k])
    BY <1>3 DEF Inductive
  <2> QED
    BY <2>1 DEF Sound, Stage, Holds, Deletes, Replaces, Renews, Adds, First, InView, Covered, DocumentRows
<1>6. ASSUME NEW k \in Jobs, NEW l \in Jobs, k # l PROVE Apart(tx[k], tx[l])'
  <2>1. Apart(tx'[k], tx'[l])
    BY <1>3, <1>6 DEF Inductive, Apart
  <2> QED
    BY <2>1 DEF Apart
<1> QED
  BY <1>1, <1>2, <1>4, <1>5, <1>6 DEF Inductive

(* A commit of a job: its view becomes what is stored. *)
LEMMA ViewRows == ASSUME Inductive, NEW j \in Jobs PROVE View(j) = InView(tx[j]) /\ View(j) \in SUBSET Rows
BY DEF Inductive, Types, View, InView, TxType, DbType

(* A finished transaction covers the documents that are covered, but for      *)
(* those in which it found nothing.                                           *)
LEMMA CommitCovers ==
    ASSUME Inductive, NEW j \in Jobs, tx[j].todo = {}, NEW d \in Covered(db.rows) \ Covered(View(j))
    PROVE  pc[j] \in Writing /\ FoundNothing(j, d)
<1>1. PICK r \in db.rows : d = documentOf[r.item]
  BY DEF Covered
<1>2. r \in tx[j].deleted
  BY <1>1 DEF Covered, View
<1>3. pc[j] \in Writing
  BY <1>2 DEF Inductive, Sound, Stage
<1>4. d \in Covered(tx[j].deleted)
  BY <1>1, <1>2 DEF Covered
<1>5. Covered(tx[j].deleted) \subseteq Covered(View(j)) \cup (Tolerant \cap tx[j].profiled)
  BY <1>3, ViewRows DEF Inductive, Sound, Replaces
<1>6. DocumentRows(tx[j].added, d) = {}
  BY DEF DocumentRows, Covered, View
<1> QED
  BY <1>3, <1>4, <1>5, <1>6 DEF FoundNothing

(* What is left of the history at a commit. *)
LEMMA CommitHistory ==
    ASSUME Inductive, NEW rows, startedOn' \in {startedOn, StillCovered(rows)}
    PROVE  /\ startedOn' \in [Jobs -> SUBSET Documents]
           /\ \A k \in Jobs : startedOn'[k] \subseteq startedOn[k]
BY DEF Inductive, Types, StillCovered

(* What a transaction added is unknown to every other. *)
LEMMA CommitFresh ==
    ASSUME Inductive, NEW j \in Jobs, NEW k \in Jobs, NEW r \in tx[j].added
    PROVE  r \notin tx[k].read /\ r \notin db.rows /\ (k # j => r \notin tx[k].deleted)
<1>1. r.job = j /\ pc[j] \in Early
  BY DEF Inductive, Sound, Holds, Stage, Early
<1> QED
  BY <1>1 DEF Inductive, Fresh, Sound, Holds

(* A commit leaves rows of documents, with their points and assessments. *)
LEMMA CommitStored ==
    ASSUME Inductive, NEW j \in Jobs, tx[j].assessed \subseteq db.rows, db.exists, tx[j].todo = {},
           db'.exists = db.exists, db'.documents = db.documents, db'.rows = View(j),
           db'.primary = Committed(j).primary, db'.points = Committed(j).points,
           db'.assessed = Committed(j).assessed,
           \/ startedOn' = StillCovered(View(j))
           \/ pc[j] \notin Writing /\ UNCHANGED startedOn
    PROVE  (Stored /\ Lasting)'
<1> DEFINE t == tx[j]
<1>0. db \in DbType /\ t \in TxType /\ Sound(j, pc[j], t)
  BY DEF Inductive, Types
<1>1. /\ db'.primary = (db.primary \ (t.demoted \cup t.deleted)) \cup t.promoted
      /\ db'.points = {p \in db.points : p[1] \notin t.deleted} \cup t.points
      /\ db'.assessed = (db.assessed \ t.deleted) \cup t.assessed
  BY <1>0 DEF Committed, DbType
<1>2. db'.rows = (db.rows \ t.deleted) \cup t.added
  BY DEF View
<1>3. t.points # {} \/ t.assessed # {} => t.deleted = {}
  BY <1>0 DEF Sound, Stage, Writing
<1>4. db'.primary \subseteq db'.rows
  BY <1>0, <1>1, <1>2 DEF Inductive, Stored, Sound, Holds, InView
<1>5. db'.points \in SUBSET (db'.rows \X Jobs)
  <2>1. ASSUME NEW p \in db.points, p[1] \notin t.deleted PROVE p \in db'.rows \X Jobs
    BY <1>2, <2>1 DEF Inductive, Stored
  <2>2. ASSUME NEW p \in t.points PROVE p \in db'.rows \X Jobs
    <3>1. p \in Rows \X Jobs /\ p[1] \in db.rows /\ t.deleted = {}
      BY <1>0, <1>3 DEF TxType, Points, Sound, Holds
    <3> QED
      BY <3>1, <1>2
  <2> QED
    BY <1>1, <2>1, <2>2
<1>6. db'.assessed \subseteq db'.rows
  BY <1>1, <1>2, <1>3 DEF Inductive, Stored
<1>7. Covered(db'.rows) \subseteq db'.documents
  BY <1>0, <1>2 DEF Inductive, Stored, Sound, Holds, Covered
<1>8. Lasting'
  <2>1. CASE startedOn' = StillCovered(View(j))
    BY <2>1 DEF Lasting, StillCovered, Covered
  <2>2. CASE pc[j] \notin Writing /\ UNCHANGED startedOn
    <3>1. Covered(db.rows) \subseteq Covered(db'.rows)
      BY <2>2, CommitCovers
    <3>2. \A k \in Jobs : startedOn[k] \subseteq Covered(db.rows)
      BY DEF Inductive, Lasting
    <3>3. \A k \in Jobs : startedOn'[k] \subseteq Covered(db'.rows)
      BY <2>2, <3>1, <3>2
    <3> QED
      BY <3>3 DEF Lasting, Covered
  <2> QED
    BY <2>1, <2>2
<1>9. Covered(db'.rows) = Covered(db.rows)'
  BY DEF Covered
<1> QED
  BY <1>4, <1>5, <1>6, <1>7, <1>8, <1>9 DEF Stored

(* The rows that a commit adds are the only ones of their documents, among    *)
(* those of jobs that also found rows there.                                  *)
LEMMA CommitNeverDoubles ==
    ASSUME Inductive, NEW j \in Jobs, db.exists, db'.rows = View(j),
           \A k \in Jobs : startedOn'[k] \subseteq startedOn[k]
    PROVE  RerunsNeverDouble'
<1> DEFINE t == tx[j]
<1>1. ASSUME NEW r \in t.added, NEW s \in db.rows \ t.deleted,
             documentOf[r.item] = documentOf[s.item]
      PROVE  documentOf[r.item] \notin startedOn[r.job] \cap startedOn[s.job]
  <2>1. r.job = j /\ pc[j] \in Writing
    BY DEF Inductive, Sound, Holds, Stage
  <2>2. documentOf[r.item] \in Adds(pc[j], t) /\ s \in DocumentRows(db.rows, documentOf[r.item])
    BY <1>1 DEF Adds, Covered, DocumentRows
  <2> QED
    BY <2>1, <2>2 DEF Inductive, Sound, Renews
<1>2. \A r, s \in t.added : r.job = s.job
  BY DEF Inductive, Sound, Holds
<1> QED
  <2>1. \A r \in db'.rows : r.job \in Jobs
    BY ViewRows DEF Rows
  <2>2. \A r, s \in db'.rows :
            r.job # s.job /\ documentOf[r.item] = documentOf[s.item]
              => documentOf[r.item] \notin startedOn[r.job] \cap startedOn[s.job]
    BY <1>1, <1>2 DEF Inductive, RerunsNeverDouble, View
  <2> QED
    BY <2>1, <2>2 DEF RerunsNeverDouble

(* What the commit of job j leaves of another job's transaction. *)
LEMMA CommitSparesOthers ==
    ASSUME Inductive, NEW j \in Jobs, NEW k \in Jobs, k # j,
           db'.exists = db.exists, db'.documents = db.documents, db'.rows = View(j),
           tx'[k] = tx[k], pc'[k] = pc[k], \A i \in Jobs : startedOn'[i] \subseteq startedOn[i]
    PROVE  Sound(k, pc[k], tx[k])'
<1> DEFINE t == tx[j]
           u == tx[k]
           here == pc[k]
<1>0. Sound(j, pc[j], t) /\ Sound(k, here, u) /\ Apart(t, u) /\ u \in TxType /\ t \in TxType
  BY DEF Inductive, Types
<1>1. db'.rows = (db.rows \ t.deleted) \cup t.added
  BY DEF View
<1>2. \A r \in t.added : r \notin u.read /\ r \notin db.rows /\ r \notin u.added
  BY <1>0, CommitFresh DEF Sound, Holds
<1>3. \A r : RowLock(r) \in u.locks => r \notin t.deleted
  BY <1>0 DEF Apart, Sound, Holds
<1>4. Holds(k, u)'
  <2>1. u.deleted \subseteq db'.rows
    BY <1>0, <1>1, <1>3 DEF Sound, Holds
  <2>2. /\ u.promoted \subseteq (db'.rows \ u.deleted) \cup u.added
        /\ \A r \in u.promoted \cap db'.rows : RowLock(r) \in u.locks
    BY <1>0, <1>1, <1>2, <1>3 DEF Sound, Holds, InView
  <2>3. \A p \in u.points : p[1] \in db'.rows
    BY <1>0, <1>1, <1>3 DEF Sound, Holds
  <2> QED
    BY <1>0, <2>1, <2>2, <2>3 DEF Sound, Holds, InView, Covered, RowLock
<1>5. Deletes(here, u)'
  <2>1. here \in Writing => u.deleted = u.read \cap db'.rows
    BY <1>0, <1>1, <1>2 DEF Sound, Holds, Deletes, Apart
  <2> QED
    BY <2>1 DEF Deletes
<1>6. Replaces(here, u)'
  <2>1. u.deleted # {} => InView(u) \subseteq (db'.rows \ u.deleted) \cup u.added
    BY <1>0, <1>1 DEF Apart, InView
  <2>2. here \in Writing =>
          Covered(u.deleted) \subseteq
              u.todo \cup Covered((db'.rows \ u.deleted) \cup u.added) \cup (Tolerant \cap u.profiled)
    BY <1>0, <2>1 DEF Sound, Replaces, Covered
  <2> QED
    BY <2>2 DEF Replaces, InView, Covered
<1>7. Renews(k, here, u)'
  <2> SUFFICES ASSUME here \in Writing, db.exists, NEW d \in startedOn[k] \cap Adds(here, u)
               PROVE  /\ d \in Covered(u.deleted)
                      /\ \A s \in DocumentRows(db'.rows, d) : d \in startedOn[s.job] => s \in u.deleted
    <3>1. \A s \in db'.rows : s.job \in Jobs
      BY ViewRows DEF Rows
    <3> QED
      BY <3>1 DEF Renews, Adds, First, Covered, DocumentRows
  <2>1. /\ d \in Covered(u.deleted)
        /\ \A s \in DocumentRows(db.rows, d) : d \in startedOn[s.job] => s \in u.deleted
    BY <1>0 DEF Sound, Renews
  <2>2. t.deleted = {}
    BY <1>0, <2>1 DEF Apart, Covered
  <2>3. ASSUME NEW s \in t.added, documentOf[s.item] = d PROVE d \notin startedOn[s.job]
    <3>1. s.job = j /\ pc[j] \in Writing /\ d \in Adds(pc[j], t)
      BY <1>0, <2>3 DEF Sound, Holds, Stage, Adds, Covered
    <3> QED
      BY <1>0, <2>2, <3>1 DEF Sound, Renews, Covered
  <2> QED
    BY <1>1, <2>1, <2>3 DEF DocumentRows
<1>8. Stage(here, u)'
  BY <1>0 DEF Sound, Stage
<1> QED
  BY <1>4, <1>5, <1>6, <1>7, <1>8 DEF Sound

(* What the four commits share. *)
LEMMA CommitStep ==
    ASSUME Inductive, NEW j \in Jobs, NEW here \in {"select", "items", "done"}, NEW t \in TxType,
           db.exists, tx[j].todo = {}, tx[j].assessed \subseteq db.rows, db' \in DbType,
           db'.exists = db.exists, db'.documents = db.documents, db'.rows = View(j),
           db'.primary = Committed(j).primary, db'.points = Committed(j).points,
           db'.assessed = Committed(j).assessed, UNCHANGED <<files, deleting, overlapped>>,
           \/ startedOn' = StillCovered(View(j))
           \/ pc[j] \notin Writing /\ UNCHANGED startedOn,
           pc' = [pc EXCEPT ![j] = here], tx' = [tx EXCEPT ![j] = t],
           {} = UNION {t.read, t.deleted, t.added, t.promoted, t.points, t.assessed, t.locks, t.todo}
    PROVE  Inductive'
<1>0. /\ startedOn' \in [Jobs -> SUBSET Documents]
      /\ \A k \in Jobs : startedOn'[k] \subseteq startedOn[k]
  BY CommitHistory
<1>1. Types'
  BY <1>0 DEF Inductive, Types, Places, Late
<1>2. (Stored /\ Lasting)'
  BY CommitStored
<1>3. RerunsNeverDouble'
  BY <1>0, CommitNeverDoubles
<1>4. /\ pc'[j] = here /\ tx'[j] = t
      /\ \A k \in Jobs \ {j} : pc'[k] = pc[k] /\ tx'[k] = tx[k]
  BY DEF Inductive, Types
<1>5. /\ t.read = {} /\ t.deleted = {} /\ t.added = {} /\ t.promoted = {} /\ t.points = {}
      /\ t.assessed = {} /\ t.locks = {} /\ t.todo = {}
  OBVIOUS
<1>6. Fresh'
  <2>1. here \notin Early
    BY DEF Early, Writing
  <2>2. ASSUME NEW r \in Rows, pc[r.job] \notin Early PROVE pc'[r.job] \notin Early
    BY <2>1, <2>2, <1>4 DEF Rows
  <2>3. \A r \in tx[j].added : pc'[r.job] \notin Early
    BY <2>1, <1>4 DEF Inductive, Sound, Holds
  <2>4. \A r \in db'.rows : pc'[r.job] \notin Early
    BY <2>2, <2>3 DEF Inductive, Fresh, Types, DbType, View
  <2>5. \A k \in Jobs : \A r \in tx'[k].read : pc'[r.job] \notin Early
    BY <2>2, <1>4, <1>5 DEF Inductive, Fresh, Types, TxType
  <2> QED
    BY <2>4, <2>5 DEF Fresh
<1>7. ASSUME NEW k \in Jobs PROVE Sound(k, pc[k], tx[k])'
  <2>1. CASE k # j
    <3>1. Sound(k, pc[k], tx[k])' 
      BY <1>0, <1>4, <2>1, CommitSparesOthers
    <3> QED
      BY <3>1
  <2>2. CASE k = j
    BY <1>4, <1>5, <2>2
       DEF Sound, Stage, Holds, Deletes, Replaces, Renews, Writing, InView, Covered
  <2> QED
    BY <2>1, <2>2
<1>8. ASSUME NEW k \in Jobs, NEW l \in Jobs, k # l PROVE Apart(tx[k], tx[l])'
  <2>1. CASE k = j \/ l = j
    BY <1>4, <1>5, <1>8, <2>1 DEF Apart
  <2>2. CASE k # j /\ l # j
    <3>1. tx'[k] = tx[k] /\ tx'[l] = tx[l] /\ Apart(tx[k], tx[l])
      BY <1>4, <1>8, <2>2 DEF Inductive
    <3>2. tx[k].read \cap db'.rows \subseteq db.rows /\ tx[l].read \cap db'.rows \subseteq db.rows
      BY CommitFresh DEF View
    <3> QED
      BY <3>1, <3>2 DEF Apart
  <2> QED
    BY <2>1, <2>2
<1> QED
  BY <1>1, <1>2, <1>3, <1>6, <1>7, <1>8 DEF Inductive

-----------------------------------------------------------------------------
(* The commits. *)
LEMMA CommittedType ==
    ASSUME Inductive, NEW j \in Jobs
    PROVE  Committed(j) \in DbType /\ Committed(j).exists = db.exists
           /\ Committed(j).documents = db.documents /\ Committed(j).rows = View(j)
<1> DEFINE t == tx[j]
           primary == (db.primary \ (t.demoted \cup t.deleted)) \cup t.promoted
           points == {p \in db.points : p[1] \notin t.deleted} \cup t.points
           assessed == (db.assessed \ t.deleted) \cup t.assessed
<1>1. db \in DbType /\ t \in TxType
  BY DEF Inductive, Types
<1>2. /\ View(j) \in SUBSET Rows /\ db.profiled \cup t.profiled \in SUBSET Documents
      /\ primary \in SUBSET Rows /\ points \in SUBSET Points /\ assessed \in SUBSET Rows
  BY <1>1, ViewRows DEF DbType, TxType
<1>3. Committed(j) = [db EXCEPT !.rows = View(j), !.profiled = db.profiled \cup t.profiled,
                                !.primary = primary, !.points = points, !.assessed = assessed]
  BY DEF Committed
<1> HIDE DEF primary, points, assessed
<1> QED
  BY <1>1, <1>2, <1>3 DEF DbType

(* A transaction that has done nothing holds nothing. *)
LEMMA NothingIsEmpty ==
    {} = UNION {NoTransaction.read, NoTransaction.deleted, NoTransaction.added,
                NoTransaction.promoted, NoTransaction.points, NoTransaction.assessed,
                NoTransaction.locks, NoTransaction.todo}
BY DEF NoTransaction

LEMMA FirstCommitInductive ==
    ASSUME Inductive, NEW j \in Jobs, PersistPartial(j) \/ FinishStage1(j)
    PROVE  Inductive'
<1>1. pc[j] = "commit" /\ db.exists /\ tx[j].todo = {} /\ tx[j].assessed = {}
  BY DEF PersistPartial, FinishStage1, At, Impossible, Inductive, Sound, Stage
<1>2. ReviewStatus(j) \in Statuses
  BY DEF ReviewStatus, Inductive, Types, DbType, Statuses
<1>3. \E progress \in {"running", "done"} :
          db' = [Committed(j) EXCEPT !.status = ReviewStatus(j), !.progress = progress]
  BY DEF PersistPartial, FinishStage1
<1>4. /\ db' \in DbType /\ db'.exists = db.exists /\ db'.documents = db.documents
      /\ db'.rows = View(j) /\ db'.primary = Committed(j).primary
      /\ db'.points = Committed(j).points /\ db'.assessed = Committed(j).assessed
  BY <1>2, <1>3, CommittedType DEF DbType
<1>5. PICK here \in {"select", "done"} : Continues(j, here, NoTransaction)
  BY DEF PersistPartial, FinishStage1
<1>6. startedOn' = StillCovered(View(j))
  BY DEF PersistPartial, FinishStage1
<1> QED
  BY <1>1, <1>4, <1>5, <1>6, NoTransactionType, NothingIsEmpty, CommitStep DEF Continues, Goto

LEMMA CheckpointInductive ==
    ASSUME Inductive, NEW j \in Jobs, Checkpoint(j)
    PROVE  Inductive'
<1> DEFINE t == [NoTransaction EXCEPT !.items = tx[j].items, !.total = tx[j].total,
                                      !.processed = tx[j].processed]
<1>1. pc[j] = "checkpoint" /\ db.exists /\ tx[j].todo = {} /\ tx[j].assessed \subseteq db.rows
      /\ pc[j] \notin Writing
  BY DEF Checkpoint, At, Impossible, Inductive, Sound, Stage, Writing
<1>2. db' = [Committed(j) EXCEPT !.progress = "running"]
  BY DEF Checkpoint
<1>3. /\ db' \in DbType /\ db'.exists = db.exists /\ db'.documents = db.documents
      /\ db'.rows = View(j) /\ db'.primary = Committed(j).primary
      /\ db'.points = Committed(j).points /\ db'.assessed = Committed(j).assessed
  BY <1>2, CommittedType DEF DbType
<1>4. t \in TxType
  BY NoTransactionType DEF Inductive, Types, TxType
<1>5. {} = UNION {t.read, t.deleted, t.added, t.promoted, t.points, t.assessed, t.locks, t.todo}
  BY DEF NoTransaction
<1>6. Steps(j, "items", t)
  BY DEF Checkpoint
<1> QED
  BY <1>1, <1>3, <1>4, <1>5, <1>6, CommitStep DEF Steps, Continues, Goto

LEMMA FinishInductive ==
    ASSUME Inductive, NEW j \in Jobs, Finish(j)
    PROVE  Inductive'
<1>1. pc[j] = "items" /\ db.exists /\ tx[j].todo = {} /\ tx[j].assessed \subseteq db.rows
      /\ pc[j] \notin Writing
  BY DEF Finish, At, Impossible, Inductive, Sound, Stage, Writing
<1>2. db' = [Committed(j) EXCEPT !.status = "analyzed", !.progress = "done"]
  BY DEF Finish
<1>3. /\ db' \in DbType /\ db'.exists = db.exists /\ db'.documents = db.documents
      /\ db'.rows = View(j) /\ db'.primary = Committed(j).primary
      /\ db'.points = Committed(j).points /\ db'.assessed = Committed(j).assessed
  BY <1>2, CommittedType DEF DbType, Statuses
<1>4. Steps(j, "done", NoTransaction)
  BY DEF Finish
<1> QED
  BY <1>1, <1>3, <1>4, NoTransactionType, NothingIsEmpty, CommitStep DEF Steps, Continues, Goto

-----------------------------------------------------------------------------
(* The steps of a job that commit nothing. *)
LEMMA NeedsAreLocks == ASSUME Inductive, NEW j \in Jobs PROVE Needs(j) \subseteq Locks
<1>1. db \in DbType /\ tx[j] \in TxType
  BY DEF Inductive, Types
<1>2. \A rows \in SUBSET Rows : Changeable(rows) \subseteq Rows
  BY DEF Changeable, Changes
<1>3. View(j) \in SUBSET Rows /\ db.rows \in SUBSET Rows
  BY <1>1, ViewRows DEF DbType
<1>4. Changeable(View(j)) \subseteq Rows /\ Changeable(db.rows) \subseteq Rows
  BY <1>2, <1>3
<1> QED
  BY <1>1, <1>4 DEF Needs, Locks, DbType, TxType

(* Locks that nobody holds keep transactions apart. *)
LEMMA LocksStayApart ==
    ASSUME Inductive, NEW j \in Jobs, NEW k \in Jobs \ {j}, NEW N, N \subseteq Needs(j),
           Blockers(j) = {}
    PROVE  (tx[j].locks \cup N) \cap tx[k].locks = {}
BY DEF Inductive, Apart, Blockers

LEMMA ResetInductive == ASSUME Inductive, NEW j \in Jobs, Reset(j) PROVE Inductive'
<1> DEFINE s == tx[j]
           t == [s EXCEPT !.deleted = s.deleted \cup (s.read \cap db.rows),
                          !.locks = s.locks \cup Needs(j), !.todo = db.documents,
                          !.unprofiled = db.documents \ db.profiled]
<1>1. pc[j] = "reset" /\ Blockers(j) = {} /\ Steps(j, "extract", t) /\ UNCHANGED db
  BY DEF Reset, At
<1>2. s \in TxType /\ db \in DbType /\ Sound(j, "reset", s)
  BY <1>1 DEF Inductive, Types
<1>3. /\ t \in TxType /\ t.read = s.read /\ t.deleted = s.read \cap db.rows /\ t.added = {}
      /\ t.promoted = {} /\ t.points = {} /\ t.assessed = {} /\ t.todo = db.documents
      /\ t.locks = s.locks \cup Needs(j)
  BY <1>2, NeedsAreLocks DEF TxType, DbType, Sound, Stage, Writing
<1>4. \A r \in s.read \cap db.rows : RowLock(r) \in Needs(j)
  BY <1>1 DEF Needs
<1>5. Sound(j, "extract", t)
  <2>1. Covered(t.deleted) \subseteq t.todo /\ Covered(t.added) = {}
    BY <1>3 DEF Covered, Inductive, Stored
  <2> QED
    BY <1>3, <1>4, <2>1 DEF Sound, Stage, Holds, Deletes, Replaces, Renews, Adds, Writing
<1>6. ASSUME NEW k \in Jobs \ {j} PROVE Apart(t, tx[k])
  <2> DEFINE u == tx[k]
  <2>1. Apart(s, u) /\ Sound(k, pc[k], u)
    BY DEF Inductive
  <2>2. t.locks \cap u.locks = {}
    BY <1>1, <1>3, LocksStayApart
  <2>3. t.deleted = {} \/ u.deleted = {}
    <3> SUFFICES ASSUME NEW r \in t.deleted, NEW q \in u.deleted PROVE FALSE
      OBVIOUS
    <3>1. u.deleted = u.read \cap db.rows
      BY <2>1 DEF Sound, Stage, Deletes
    <3>2. r \notin u.deleted /\ q \notin t.deleted
      BY <1>3, <1>4, <2>1, <2>2 DEF Sound, Holds
    <3> QED
      BY <1>3, <2>1, <3>1, <3>2 DEF Apart
  <2> QED
    BY <1>3, <2>1, <2>2, <2>3 DEF Apart
<1> QED
  BY <1>1, <1>3, <1>5, <1>6, LocalStep DEF Steps, Continues, Goto, Places, Early, Writing

LEMMA ExtractInductive == ASSUME Inductive, NEW j \in Jobs, Extract(j) PROVE Inductive'
<1> DEFINE s == tx[j]
           d == First(s)
           t == [s EXCEPT !.todo = s.todo \ {d}]
<1>1. pc[j] = "extract" /\ s.todo # {} /\ NextDocument(j) = d /\ UNCHANGED db /\ db.exists
  BY DEF Extract, At, Impossible, NextDocument, First
<1>2. s \in TxType /\ db \in DbType /\ Sound(j, "extract", s) /\ View(j) = InView(s)
  BY <1>1, ViewRows DEF Inductive, Types
<1>3. ASSUME NEW k \in Jobs \ {j} PROVE Apart(s, tx[k])
  BY DEF Inductive
<1>4. CASE DocumentRows(View(j), d) # {}
  <2>1. Steps(j, "extract", t)
    BY <1>1, <1>4 DEF Extract, HasRows
  <2>2. t \in TxType /\ t.todo = s.todo \ {d} /\ t.read = s.read /\ t.deleted = s.deleted
        /\ t.profiled = s.profiled /\ t.added = s.added /\ t.promoted = s.promoted /\ t.points = s.points
        /\ t.assessed = s.assessed /\ t.locks = s.locks
    BY <1>2 DEF TxType
  <2>3. InView(t) = InView(s) /\ d \in Covered(InView(s)) /\ Adds("extract", t) = Adds("extract", s)
    BY <1>2, <1>4, <2>2 DEF InView, DocumentRows, Covered, Adds
  <2>4. Sound(j, "extract", t)
    BY <1>2, <2>2, <2>3 DEF Sound, Stage, Holds, Deletes, Replaces, Renews
  <2>5. ASSUME NEW k \in Jobs \ {j} PROVE Apart(t, tx[k])
    BY <1>3, <2>2 DEF Apart
  <2> QED
    BY <1>1, <2>1, <2>2, <2>4, <2>5, LocalStep DEF Steps, Continues, Goto, Places, Early, Writing
<1>5. CASE DocumentRows(View(j), d) = {}
  <2>1. PICK found \in Findings(d) : Steps(j, "store", [s EXCEPT !.found = found])
    BY <1>1, <1>5 DEF Extract, HasRows
  <2> DEFINE u == [s EXCEPT !.found = found]
  <2>6. found \in SUBSET Items /\ (found = DocumentItems(d) \/ (d \in Tolerant /\ found = {}))
    BY DEF Findings, DocumentItems
  <2>7. u \in TxType /\ u.found = found /\ u.todo = s.todo /\ u.read = s.read
        /\ u.deleted = s.deleted /\ u.added = s.added /\ u.promoted = s.promoted
        /\ u.points = s.points /\ u.assessed = s.assessed /\ u.locks = s.locks
        /\ u.profiled = s.profiled
    BY <1>2, <2>6 DEF TxType
  <2>2. DocumentRows(db.rows, d) \subseteq s.deleted
    BY <1>2, <1>5 DEF InView, DocumentRows
  <2>3. d \in startedOn[j] => d \in Covered(s.deleted)
    BY <1>1, <2>2 DEF Inductive, Lasting, Covered, DocumentRows
  <2> HIDE DEF u
  <2>8. InView(u) = InView(s) /\ First(u) = d /\ Covered(u.added) = Covered(s.added)
    BY <2>7 DEF InView, First, Covered
  <2>4. Renews(j, "store", u)
    BY <1>2, <2>2, <2>3, <2>7, <2>8 DEF Sound, Renews, Adds, Writing
  <2>5. Sound(j, "store", u)
    BY <1>1, <1>2, <2>4, <2>6, <2>7, <2>8 DEF Sound, Stage, Holds, Deletes, Replaces, Writing
  <2>9. ASSUME NEW k \in Jobs \ {j} PROVE Apart(u, tx[k])
    BY <1>3, <2>7 DEF Apart
  <2>10. Steps(j, "store", u)
    BY <2>1 DEF u
  <2> QED
    BY <1>1, <1>2, <2>5, <2>7, <2>9, <2>10, LocalStep DEF Steps, Continues, Goto, Places, Early, Writing
<1> QED
  BY <1>4, <1>5

LEMMA StoreInductive == ASSUME Inductive, NEW j \in Jobs, StoreDocument(j) PROVE Inductive'
<1> DEFINE s == tx[j]
           d == First(s)
           found == {[job |-> j, item |-> i] : i \in s.found}
           t == [s EXCEPT !.added = s.added \cup found, !.profiled = s.profiled \cup {d},
                          !.found = {}, !.locks = s.locks \cup Needs(j), !.todo = s.todo \ {d}]
<1>1. pc[j] = "store" /\ Blockers(j) = {} /\ Steps(j, "extract", t) /\ UNCHANGED db
  BY DEF StoreDocument, At, NextDocument, First
<1>2. s \in TxType /\ db \in DbType /\ Sound(j, "store", s)
  BY <1>1 DEF Inductive, Types
<1>3. d \in s.todo /\ s.promoted = {}
  BY <1>2, FirstIsNext DEF Sound, Stage
<1>4. found \in SUBSET Rows /\ \A r \in found : r.job = j /\ documentOf[r.item] = d
  BY <1>2 DEF Rows, Sound, Stage, DocumentItems
<1>5. t \in TxType /\ t.todo = s.todo \ {d} /\ t.read = s.read /\ t.deleted = s.deleted
      /\ t.added = s.added \cup found /\ t.promoted = {} /\ t.points = s.points
      /\ t.assessed = s.assessed /\ t.locks = s.locks \cup Needs(j)
      /\ t.profiled = s.profiled \cup {d}
  BY <1>2, <1>3, <1>4, NeedsAreLocks DEF TxType
<1>6. InView(t) = InView(s) \cup found /\ Covered(found) \subseteq {d}
      /\ Covered(t.added) = Covered(s.added) \cup Covered(found)
  BY <1>4, <1>5 DEF InView, Covered
<1>7. Holds(j, t)
  BY <1>2, <1>3, <1>4, <1>5, <1>6 DEF Sound, Holds
<1>8. Replaces("extract", t)
  <2>1. ASSUME NEW r \in s.deleted, documentOf[r.item] = d, d \notin Tolerant
        PROVE  d \in Covered(found)
    <3>1. r.item \in Items
      BY <1>2 DEF TxType, Rows
    <3>2. r.item \in s.found
      BY <1>2, <2>1, <3>1 DEF Sound, Stage, DocumentItems
    <3>3. [job |-> j, item |-> r.item] \in found
      BY <3>2
    <3> QED
      BY <1>4, <3>3 DEF Covered
  <2>2. Covered(InView(t)) = Covered(InView(s)) \cup Covered(found)
    BY <1>6 DEF Covered
  <2> QED
    BY <1>2, <1>5, <2>1, <2>2 DEF Sound, Replaces, Writing, Covered
<1>9. Renews(j, "extract", t)
  <2>1. Adds("extract", t) \subseteq Adds("store", s)
    BY <1>6 DEF Adds
  <2> QED
    BY <1>2, <1>5, <2>1 DEF Sound, Renews, Writing
<1>10. Sound(j, "extract", t)
  BY <1>2, <1>5, <1>7, <1>8, <1>9 DEF Sound, Stage, Deletes, Writing
<1>11. ASSUME NEW k \in Jobs \ {j} PROVE Apart(t, tx[k])
  <2>1. Apart(s, tx[k]) /\ t.locks \cap tx[k].locks = {}
    BY <1>1, <1>5, LocksStayApart DEF Inductive
  <2> QED
    BY <1>5, <2>1 DEF Apart
<1> QED
  BY <1>1, <1>5, <1>10, <1>11, LocalStep DEF Steps, Continues, Goto, Places, Early, Writing

(* The primary rows are rows. *)
LEMMA PrimaryAreRows == ASSUME NEW rows, NEW P \in Selections(rows) PROVE P \in SUBSET rows
<1>1. PICK L \in Leaders(rows) : P = {best \in L : ~SupportOnly(rows, best)}
  BY DEF Selections
<1>2. L \in SUBSET rows
  BY DEF Leaders, Best
<1> QED
  BY <1>1, <1>2

(* The two choices of sources. *)
LEMMA ChosenSources ==
    ASSUME Inductive, NEW j \in Jobs, NEW rows, NEW P
    PROVE  Chosen(j, rows, P).promoted = P \ db.primary
BY DEF Inductive, Types, Chosen, TxType

Claims(rows, P) == {RowLock(r) : r \in Changes(rows, P)}

(* A choice of primary rows locks the rows it changes. *)
LEMMA ChosenLocks ==
    ASSUME Inductive, NEW j \in Jobs, NEW rows, NEW P
    PROVE  Chosen(j, rows, P).locks = tx[j].locks \cup Claims(rows, P)
BY DEF Inductive, Types, Chosen, Claims, TxType

(* It changes nothing else of the transaction. *)
LEMMA ChosenEffect ==
    ASSUME Inductive, NEW j \in Jobs, NEW rows \in SUBSET Rows, NEW P \in SUBSET rows
    PROVE  /\ Chosen(j, rows, P) \in TxType
           /\ Chosen(j, rows, P).read = tx[j].read /\ Chosen(j, rows, P).deleted = tx[j].deleted
           /\ Chosen(j, rows, P).added = tx[j].added /\ Chosen(j, rows, P).points = tx[j].points
           /\ Chosen(j, rows, P).assessed = tx[j].assessed /\ Chosen(j, rows, P).todo = tx[j].todo
           /\ Chosen(j, rows, P).profiled = tx[j].profiled
<1>1. db \in DbType /\ tx[j] \in TxType
  BY DEF Inductive, Types
<1>2. Claims(rows, P) \subseteq Locks
  BY DEF Claims, Changes, Locks
<1>3. Chosen(j, rows, P) =
        [tx[j] EXCEPT !.promoted = P \ db.primary, !.demoted = (db.primary \cap rows) \ P,
                      !.locks = tx[j].locks \cup Claims(rows, P)]
  BY DEF Chosen, Claims
<1>4. P \ db.primary \in SUBSET Rows /\ (db.primary \cap rows) \ P \in SUBSET Rows
      /\ tx[j].locks \cup Claims(rows, P) \in SUBSET Locks
  BY <1>1, <1>2 DEF TxType
<1> QED
  BY <1>1, <1>3, <1>4 DEF TxType

(* A row made primary is locked. *)
LEMMA ChosenIsHeld ==
    ASSUME NEW rows, NEW P \in SUBSET rows, NEW r \in (P \ db.primary) \cap db.rows
    PROVE  RowLock(r) \in Claims(rows, P)
BY DEF Claims, Changes

(* A choice changes only rows that some choice could change. *)
LEMMA ChangesAreNeeded ==
    ASSUME NEW rows, NEW P \in Selections(rows)
    PROVE  Claims(rows, P) \subseteq {RowLock(r) : r \in Changeable(rows)}
BY DEF Claims, Changeable

LEMMA MarkInductive == ASSUME Inductive, NEW j \in Jobs, MarkSources(j) PROVE Inductive'
<1>1. pc[j] = "extract" /\ tx[j].todo = {} /\ Blockers(j) = {} /\ UNCHANGED db
  BY DEF MarkSources, At
<1>2. PICK P \in Selections(View(j)) : Steps(j, "commit", Chosen(j, View(j), P))
  BY DEF MarkSources
<1> DEFINE s == tx[j]
           t == Chosen(j, View(j), P)
           N == Claims(View(j), P)
<1>3. P \in SUBSET View(j) /\ View(j) = InView(s) /\ View(j) \in SUBSET Rows
  BY ViewRows, PrimaryAreRows
<1>4. t \in TxType /\ t.promoted = P \ db.primary /\ t.locks = s.locks \cup N /\ t.read = s.read
      /\ t.deleted = s.deleted /\ t.added = s.added /\ t.points = s.points
      /\ t.assessed = s.assessed /\ t.todo = s.todo /\ t.profiled = s.profiled
  <2>1. t.promoted = P \ db.primary
    BY ChosenSources
  <2>2. t.locks = s.locks \cup N
    BY ChosenLocks
  <2> QED
    BY <1>3, <2>1, <2>2, ChosenEffect
<1>5. N \subseteq Needs(j)
  BY <1>1, ChangesAreNeeded DEF Needs
<1>6. Sound(j, "extract", s)
  BY <1>1 DEF Inductive
<1>7. InView(t) = InView(s)
  BY <1>4 DEF InView
<1>8. Holds(j, t)
  <2>1. \A r \in t.promoted \cap db.rows : RowLock(r) \in t.locks
    BY <1>3, <1>4, ChosenIsHeld
  <2>2. t.promoted \subseteq InView(t)
    BY <1>3, <1>4, <1>7
  <2> QED
    BY <1>4, <1>6, <2>1, <2>2 DEF Sound, Holds
<1>9. Sound(j, "commit", t)
  BY <1>1, <1>4, <1>6, <1>7, <1>8 DEF Sound, Stage, Deletes, Replaces, Renews, Adds, Writing
<1>10. ASSUME NEW k \in Jobs \ {j} PROVE Apart(t, tx[k])
  <2>1. Apart(s, tx[k]) /\ t.locks \cap tx[k].locks = {}
    BY <1>1, <1>4, <1>5, LocksStayApart DEF Inductive
  <2> QED
    BY <1>4, <2>1 DEF Apart
<1> QED
  BY <1>1, <1>2, <1>4, <1>9, <1>10, LocalStep DEF Steps, Continues, Goto, Places, Early, Writing

LEMMA SelectInductive == ASSUME Inductive, NEW j \in Jobs, SelectItems(j) PROVE Inductive'
<1>1. pc[j] = "select" /\ Blockers(j) = {} /\ UNCHANGED db
  BY DEF SelectItems, At
<1>2. PICK P \in Selections(db.rows) :
          LET items == {r \in P : r.item \in Shown}
          IN Steps(j, "items", [Chosen(j, db.rows, P) EXCEPT !.items = items,
                                                            !.total = Cardinality(items)])
  BY DEF SelectItems
<1> DEFINE s == tx[j]
           items == {r \in P : r.item \in Shown}
           c == Chosen(j, db.rows, P)
           t == [c EXCEPT !.items = items, !.total = Cardinality(items)]
           N == Claims(db.rows, P)
<1>3. P \in SUBSET db.rows /\ db.rows \in SUBSET Rows
  BY PrimaryAreRows DEF Inductive, Types, DbType
<1>4. c \in TxType /\ c.promoted = P \ db.primary /\ c.locks = s.locks \cup N /\ c.read = s.read
      /\ c.deleted = s.deleted /\ c.added = s.added /\ c.points = s.points
      /\ c.assessed = s.assessed /\ c.todo = s.todo
  <2>1. c.promoted = P \ db.primary
    BY ChosenSources
  <2>2. c.locks = s.locks \cup N
    BY ChosenLocks
  <2> QED
    BY <1>3, <2>1, <2>2, ChosenEffect
<1>5. items \in SUBSET Rows /\ Cardinality(items) \in {Cardinality(S) : S \in SUBSET Rows}
  BY <1>3
<1>6. t \in TxType /\ t.promoted = P \ db.primary /\ t.locks = s.locks \cup N /\ t.read = s.read
      /\ t.deleted = s.deleted /\ t.added = s.added /\ t.points = s.points
      /\ t.assessed = s.assessed /\ t.todo = s.todo
  <2> HIDE DEF c, items, N
  <2> QED
    BY <1>4, <1>5 DEF TxType
<1>7. N \subseteq Needs(j)
  BY <1>1, ChangesAreNeeded DEF Needs
<1>8. Sound(j, "select", s)
  BY <1>1 DEF Inductive
<1> HIDE DEF t
<1>9. Sound(j, "items", t)
  <2>1. \A r \in t.promoted \cap db.rows : RowLock(r) \in t.locks
    BY <1>3, <1>6, ChosenIsHeld
  <2> QED
    BY <1>3, <1>6, <1>8, <2>1
       DEF Sound, Stage, Holds, Deletes, Replaces, Renews, InView, Writing
<1>10. ASSUME NEW k \in Jobs \ {j} PROVE Apart(t, tx[k])
  <2>1. Apart(s, tx[k]) /\ t.locks \cap tx[k].locks = {}
    BY <1>1, <1>6, <1>7, LocksStayApart DEF Inductive
  <2> QED
    BY <1>6, <2>1 DEF Apart
<1>11. Steps(j, "items", t)
  BY <1>2 DEF t
<1> QED
  BY <1>1, <1>6, <1>9, <1>10, <1>11, LocalStep DEF Steps, Continues, Goto, Places, Early, Late, Writing

LEMMA NextItemInductive == ASSUME Inductive, NEW j \in Jobs, NextItem(j) PROVE Inductive'
<1>1. pc[j] = "items" /\ UNCHANGED db
  BY DEF NextItem, At
<1> DEFINE s == tx[j]
<1>2. PICK r \in s.items :
          Steps(j, "item", [s EXCEPT !.item = {r}, !.searched = ~HasPoints(j, r)])
  BY DEF NextItem
<1> DEFINE t == [s EXCEPT !.item = {r}, !.searched = ~HasPoints(j, r)]
<1>3. s \in TxType /\ Sound(j, "items", s)
  BY <1>1 DEF Inductive, Types
<1>4. (~HasPoints(j, r)) \in BOOLEAN
  BY DEF HasPoints
<1>5. {r} \in SUBSET Rows
  BY <1>3 DEF TxType
<1>6. t \in TxType /\ t.item = {r} /\ t.read = s.read /\ t.deleted = s.deleted
      /\ t.added = s.added /\ t.promoted = s.promoted /\ t.points = s.points
      /\ t.assessed = s.assessed /\ t.locks = s.locks /\ t.todo = s.todo
  BY <1>3, <1>4, <1>5 DEF TxType
<1>7. Sound(j, "item", t)
  BY <1>3, <1>6 DEF Sound, Stage, Holds, Deletes, Replaces, Renews, InView, Writing
<1>8. ASSUME NEW k \in Jobs \ {j} PROVE Apart(t, tx[k])
  BY <1>6 DEF Inductive, Apart
<1> QED
  BY <1>1, <1>2, <1>6, <1>7, <1>8, LocalStep DEF Steps, Continues, Goto, Places, Early, Late, Writing

(* An item is assessed, or is found to be or to have no price. *)
LEMMA AssessEffect ==
    ASSUME Inductive, NEW j \in Jobs, Assess(j)
    PROVE  \E here \in {"items", "checkpoint"}, t \in TxType, r \in tx[j].item :
             /\ Steps(j, here, t)
             /\ t.read = tx[j].read /\ t.deleted = tx[j].deleted /\ t.added = tx[j].added
             /\ t.promoted = tx[j].promoted /\ t.demoted = tx[j].demoted /\ t.todo = tx[j].todo
             /\ t.locks = tx[j].locks \cup Needs(j)
             /\ t.points = tx[j].points \cup (IF tx[j].searched THEN {<<r, j>>} ELSE {})
             /\ t.items = tx[j].items \ {r} /\ tx[j].assessed \subseteq t.assessed
             /\ r \in db.assessed \cup t.assessed \/ r.item \notin Priced
<1> DEFINE s == tx[j]
           r == CHOOSE r \in s.item : TRUE
           found == IF s.searched THEN {<<r, j>>} ELSE {}
           rest == [s EXCEPT !.items = s.items \ {r}, !.item = {}, !.searched = FALSE,
                             !.points = s.points \cup found, !.locks = s.locks \cup Needs(j)]
           counted == [rest EXCEPT !.assessed = rest.assessed \cup {r}, !.processed = s.processed + 1]
<1>1. pc[j] = "item" /\ s.item \subseteq db.rows
  BY DEF Assess, At, Impossible
<1>2. s \in TxType /\ db \in DbType /\ Sound(j, "item", s)
  BY <1>1 DEF Inductive, Types
<1>3. r \in s.item /\ r \in Rows
  BY <1>1, <1>2 DEF Sound, Stage, DbType
<1>4. found \in SUBSET Points
  <2> HIDE DEF r
  <2> QED
    BY <1>3 DEF Points
<1>5. rest \in TxType /\ rest.points = s.points \cup found /\ rest.locks = s.locks \cup Needs(j)
      /\ rest.read = s.read /\ rest.deleted = s.deleted /\ rest.added = s.added
      /\ rest.promoted = s.promoted /\ rest.demoted = s.demoted /\ rest.todo = s.todo
      /\ rest.items = s.items \ {r} /\ rest.assessed = s.assessed
  <2> HIDE DEF found, r
  <2> QED
    BY <1>2, <1>3, <1>4, NeedsAreLocks DEF TxType
<1>6. counted \in TxType /\ counted.points = rest.points /\ counted.locks = rest.locks
      /\ counted.read = rest.read /\ counted.deleted = rest.deleted /\ counted.added = rest.added
      /\ counted.promoted = rest.promoted /\ counted.demoted = rest.demoted
      /\ counted.todo = rest.todo /\ counted.items = rest.items
      /\ counted.assessed = rest.assessed \cup {r}
  <2>1. s.processed + 1 \in Nat
    BY <1>2 DEF TxType
  <2>2. rest.assessed \cup {r} \in SUBSET Rows
    BY <1>3, <1>5 DEF TxType
  <2> HIDE DEF rest, r
  <2> QED
    BY <1>5, <2>1, <2>2 DEF TxType
<1>7. CASE r \in db.assessed \cup s.assessed \/ r.item \notin Priced
  <2>1. Steps(j, "items", rest)
    BY <1>7 DEF Assess
  <2> HIDE DEF rest, r
  <2> QED
    BY <1>3, <1>5, <1>7, <2>1
<1>8. CASE ~ (r \in db.assessed \cup s.assessed \/ r.item \notin Priced)
  <2>1. PICK here \in {"items", "checkpoint"} : Steps(j, here, counted)
    BY <1>8 DEF Assess
  <2>2. r \in counted.assessed /\ s.assessed \subseteq counted.assessed
    BY <1>5, <1>6
  <2> HIDE DEF rest, counted, r
  <2> QED
    BY <1>3, <1>5, <1>6, <2>1, <2>2
<1> QED
  BY <1>7, <1>8

LEMMA AssessInductive == ASSUME Inductive, NEW j \in Jobs, Assess(j) PROVE Inductive'
<1> DEFINE s == tx[j]
<1>1. pc[j] = "item" /\ Blockers(j) = {} /\ s.item \subseteq db.rows /\ UNCHANGED db
  BY DEF Assess, At, Impossible
<1>2. s \in TxType /\ Sound(j, "item", s)
  BY <1>1 DEF Inductive, Types
<1>3. PICK here \in {"items", "checkpoint"}, t \in TxType, r \in s.item :
        /\ Steps(j, here, t)
        /\ t.read = s.read /\ t.deleted = s.deleted /\ t.added = s.added
        /\ t.promoted = s.promoted /\ t.todo = s.todo /\ t.locks = s.locks \cup Needs(j)
        /\ t.points = s.points \cup (IF s.searched THEN {<<r, j>>} ELSE {})
  BY AssessEffect
<1>4. \A p \in t.points \ s.points : p[1] \in db.rows /\ RowLock(p[1]) \in t.locks
  BY <1>1, <1>3 DEF Needs
<1>5. Sound(j, here, t)
  <2>1. Holds(j, t)
    BY <1>2, <1>3, <1>4 DEF Sound, Holds, InView
  <2> QED
    BY <1>2, <1>3, <2>1 DEF Sound, Stage, Deletes, Replaces, Renews, Writing
<1>6. ASSUME NEW k \in Jobs \ {j} PROVE Apart(t, tx[k])
  <2>1. Apart(s, tx[k]) /\ t.locks \cap tx[k].locks = {}
    BY <1>1, <1>3, LocksStayApart DEF Inductive
  <2> QED
    BY <1>3, <2>1 DEF Apart
<1> QED
  BY <1>1, <1>3, <1>5, <1>6, LocalStep DEF Steps, Continues, Goto, Places, Early, Late, Writing

LEMMA RollbackInductive == ASSUME Inductive, NEW j \in Jobs, RolledBack(j) PROVE Inductive'
<1>1. Sound(j, "failed", NoTransaction)
  BY DEF NoTransaction, Sound, Stage, Holds, Deletes, Replaces, Renews, Writing, Covered, InView
<1>2. ASSUME NEW k \in Jobs PROVE Apart(NoTransaction, tx[k])
  BY DEF NoTransaction, Apart
<1>3. NoTransaction.read = {}
  BY DEF NoTransaction
<1> QED
  BY <1>1, <1>2, <1>3, NoTransactionType, LocalStep
     DEF RolledBack, Steps, Continues, Goto, Places, Early, Writing

-----------------------------------------------------------------------------
(* A job starts; other requests. *)
LEMMA StartInductive == ASSUME Inductive, NEW j \in Jobs, Start(j) PROVE Inductive'
<1> DEFINE t == [NoTransaction EXCEPT !.read = db.rows, !.status = db.status,
                                      !.marked = db.progress # "none"]
<1>1. pc[j] = "idle" /\ db.exists /\ UNCHANGED <<db, files, deleting>>
      /\ startedOn' = [startedOn EXCEPT ![j] = Covered(db.rows)]
      /\ overlapped' = (overlapped \/ \E k \in Jobs : Active(k))
  BY DEF Start
<1>2. tx' = [tx EXCEPT ![j] = t] /\ pc' = [pc EXCEPT ![j] = "reset"]
  BY DEF Start, Goto
<1>3. db \in DbType /\ (db.progress # "none") \in BOOLEAN
  BY DEF Inductive, Types
<1>4. t \in TxType /\ t.read = db.rows
  BY <1>3, NoTransactionType DEF TxType, DbType
<1>5. t.deleted = {} /\ t.added = {} /\ t.promoted = {} /\ t.points = {} /\ t.assessed = {}
      /\ t.todo = {} /\ t.locks = {}
  BY DEF NoTransaction
<1> HIDE DEF t
<1>6. /\ pc'[j] = "reset" /\ tx'[j] = t
      /\ \A k \in Jobs \ {j} : pc'[k] = pc[k] /\ tx'[k] = tx[k] /\ startedOn'[k] = startedOn[k]
  BY <1>1, <1>2 DEF Inductive, Types
<1>7. Covered(db.rows) \in SUBSET Documents
  BY <1>3, ItemsAssumption DEF Covered, DbType, Rows
<1>8. Types'
  <2>1. overlapped' \in BOOLEAN
    BY <1>1 DEF Inductive, Types
  <2> QED
    BY <1>1, <1>2, <1>4, <1>7, <2>1 DEF Inductive, Types, Places, Early
<1>9. \A r \in Rows : pc[r.job] \notin Early =>
          r.job \in Jobs \ {j} /\ pc'[r.job] \notin Early /\ startedOn'[r.job] = startedOn[r.job]
  BY <1>1, <1>6 DEF Rows, Early
<1>10. \A r \in db.rows : r \in Rows /\ pc[r.job] \notin Early
  BY <1>3 DEF Inductive, Fresh, DbType
<1>11. (Stored /\ Lasting)'
  <2>1. Stored'
    BY <1>1 DEF Inductive, Stored, Covered
  <2>2. \A k \in Jobs : startedOn'[k] \subseteq Covered(db.rows)
    BY <1>1, <1>6 DEF Inductive, Lasting, Types
  <2> QED
    BY <1>1, <2>1, <2>2 DEF Lasting, Covered
<1>12. Fresh'
  <2>1. \A k \in Jobs \ {j} : \A r \in tx[k].read : r \in Rows /\ pc[r.job] \notin Early
    BY DEF Inductive, Fresh, Types, TxType
  <2> QED
    BY <1>1, <1>4, <1>6, <1>9, <1>10, <2>1 DEF Fresh
<1>13. RerunsNeverDouble'
  BY <1>1, <1>9, <1>10 DEF Inductive, RerunsNeverDouble
<1>14. ASSUME NEW k \in Jobs PROVE Sound(k, pc[k], tx[k])'
  <2>1. CASE k = j
    BY <1>4, <1>5, <1>6, <2>1
       DEF Sound, Stage, Holds, Deletes, Replaces, Renews, Writing, InView, Covered
  <2>2. CASE k # j
    <3>1. Sound(k, pc[k], tx[k]) /\ pc'[k] = pc[k] /\ tx'[k] = tx[k] /\ startedOn'[k] = startedOn[k]
      BY <1>6, <2>2 DEF Inductive
    <3>2. Renews(k, pc[k], tx[k])'
      <4>1. \A d : \A s \in DocumentRows(db.rows, d) : startedOn'[s.job] = startedOn[s.job]
        BY <1>9, <1>10 DEF DocumentRows
      <4> QED
        BY <1>1, <3>1, <4>1 DEF Sound, Renews, Adds, First, Covered, DocumentRows
    <3> QED
      BY <1>1, <3>1, <3>2 DEF Sound, Stage, Holds, Deletes, Replaces, InView, Covered
  <2> QED
    BY <2>1, <2>2
<1>15. ASSUME NEW k \in Jobs, NEW l \in Jobs, k # l PROVE Apart(tx[k], tx[l])'
  <2>1. CASE k # j /\ l # j
    <3>1. Apart(tx[k], tx[l]) /\ tx'[k] = tx[k] /\ tx'[l] = tx[l]
      BY <1>6, <1>15, <2>1 DEF Inductive
    <3> QED
      BY <1>1, <3>1 DEF Apart
  <2>2. CASE k = j \/ l = j
    BY <1>1, <1>4, <1>5, <1>6, <2>2 DEF Apart
  <2> QED
    BY <2>1, <2>2
<1> QED
  BY <1>8, <1>11, <1>12, <1>13, <1>14, <1>15 DEF Inductive

(* A request that leaves the rows, the jobs and their transactions alone. *)
LEMMA BesideInductive ==
    ASSUME Inductive, UNCHANGED <<pc, tx, startedOn, overlapped>>, db' \in DbType,
           files' \subseteq Documents, deleting' \in BOOLEAN,
           db'.rows = db.rows, db'.primary = db.primary, db'.points = db.points,
           db'.assessed = db.assessed, db'.exists = db.exists,
           db.documents \subseteq db'.documents, ~db.exists => db'.documents = {}
    PROVE  Inductive'
<1>1. Types'
  BY DEF Inductive, Types
<1>2. (Stored /\ Lasting /\ Fresh /\ RerunsNeverDouble)'
  BY DEF Inductive, Stored, Lasting, Fresh, RerunsNeverDouble, Covered
<1>3. ASSUME NEW k \in Jobs PROVE Sound(k, pc[k], tx[k])'
  <2>1. Sound(k, pc[k], tx[k])
    BY DEF Inductive
  <2> QED
    BY <2>1 DEF Sound, Stage, Holds, Deletes, Replaces, Renews, Adds, First, InView, Covered, DocumentRows
<1>4. ASSUME NEW k \in Jobs, NEW l \in Jobs, k # l PROVE Apart(tx[k], tx[l])'
  BY <1>4 DEF Inductive, Apart
<1> QED
  BY <1>1, <1>2, <1>3, <1>4 DEF Inductive

LEMMA RegisterInductive == ASSUME Inductive, NEW d \in Documents, RegisterDocument(d) PROVE Inductive'
<1>1. db.exists /\ files' = files \cup {d} /\ UNCHANGED <<deleting, pc, tx, startedOn, overlapped>>
      /\ db' = [db EXCEPT !.documents = db.documents \cup {d}, !.status = "ingested"]
  BY DEF RegisterDocument
<1>2. db \in DbType /\ files \subseteq Documents /\ deleting \in BOOLEAN
  BY DEF Inductive, Types
<1>3. db' \in DbType /\ db'.documents = db.documents \cup {d} /\ db'.rows = db.rows
      /\ db'.primary = db.primary /\ db'.points = db.points /\ db'.assessed = db.assessed
      /\ db'.exists = db.exists
  BY <1>1, <1>2 DEF DbType, Statuses
<1> QED
  BY <1>1, <1>2, <1>3, BesideInductive

LEMMA FilesInductive == ASSUME Inductive, DeleteFiles \/ DeleteFails PROVE Inductive'
<1>1. UNCHANGED <<db, pc, tx, startedOn, overlapped>> /\ files' \subseteq files /\ deleting' \in BOOLEAN
  BY DEF DeleteFiles, DeleteFails
<1>2. db \in DbType /\ files \subseteq Documents /\ (~db.exists => db.documents = {})
  BY DEF Inductive, Types, Stored
<1> QED
  BY <1>1, <1>2, BesideInductive

LEMMA DeleteInductive == ASSUME Inductive, DeleteRows PROVE Inductive'
<1>1. UNCHANGED <<files, pc, tx, startedOn, overlapped>> /\ deleting' = FALSE /\ Free(Locks)
      /\ db' = [db EXCEPT !.exists = FALSE, !.documents = {}, !.profiled = {}, !.rows = {},
                          !.primary = {}, !.points = {}, !.assessed = {}, !.progress = "none"]
  BY DEF DeleteRows
<1>2. db \in DbType
  BY DEF Inductive, Types
<1>3. db' \in DbType /\ db'.documents = {} /\ db'.rows = {} /\ db'.primary = {} /\ db'.points = {}
      /\ db'.assessed = {} /\ db'.exists = FALSE
  BY <1>1, <1>2 DEF DbType
<1>4. Types'
  BY <1>1, <1>3 DEF Inductive, Types
<1>5. (Stored /\ Lasting /\ RerunsNeverDouble)'
  BY <1>3 DEF Stored, Lasting, RerunsNeverDouble, Covered
<1>6. Fresh'
  BY <1>1, <1>3 DEF Inductive, Fresh
<1>7. ASSUME NEW k \in Jobs PROVE Sound(k, pc[k], tx[k])'
  <2> DEFINE u == tx[k]
  <2>1. Sound(k, pc[k], u) /\ u \in TxType
    BY DEF Inductive, Types
  <2>2. u.locks = {}
    BY <1>1, <2>1 DEF Free, TxType
  <2>3. u.deleted = {} /\ u.points = {} /\ u.promoted \subseteq u.added
    BY <2>1, <2>2 DEF Sound, Holds, InView
  <2> QED
    BY <1>1, <1>3, <2>1, <2>3
       DEF Sound, Stage, Holds, Deletes, Replaces, Renews, InView, Covered
<1>8. ASSUME NEW k \in Jobs, NEW l \in Jobs, k # l PROVE Apart(tx[k], tx[l])'
  BY <1>1, <1>3, <1>8 DEF Inductive, Apart
<1> QED
  BY <1>4, <1>5, <1>6, <1>7, <1>8 DEF Inductive

-----------------------------------------------------------------------------
LEMMA StepInductive == ASSUME Inductive, NEW j \in Jobs, Step(j) PROVE Inductive'
<1>1. CASE Reset(j)
  BY <1>1, ResetInductive
<1>2. CASE Extract(j)
  BY <1>2, ExtractInductive
<1>3. CASE StoreDocument(j)
  BY <1>3, StoreInductive
<1>4. CASE MarkSources(j)
  BY <1>4, MarkInductive
<1>5. CASE PersistPartial(j) \/ FinishStage1(j)
  BY <1>5, FirstCommitInductive
<1>6. CASE SelectItems(j)
  BY <1>6, SelectInductive
<1>7. CASE NextItem(j)
  BY <1>7, NextItemInductive
<1>8. CASE Assess(j)
  BY <1>8, AssessInductive
<1>9. CASE Checkpoint(j)
  BY <1>9, CheckpointInductive
<1>10. CASE Finish(j)
  BY <1>10, FinishInductive
<1>11. CASE Refused(j) \/ DeadlockVictim(j)
  BY <1>11, RollbackInductive DEF Refused, DeadlockVictim
<1> QED
  BY <1>1, <1>2, <1>3, <1>4, <1>5, <1>6, <1>7, <1>8, <1>9, <1>10, <1>11 DEF Step

LEMMA NextInductive == Inductive /\ [Next]_vars => Inductive'
<1> SUFFICES ASSUME Inductive, [Next]_vars PROVE Inductive'
  OBVIOUS
<1>1. ASSUME NEW j \in Jobs, Start(j) PROVE Inductive'
  BY <1>1, StartInductive
<1>2. ASSUME NEW j \in Jobs, Step(j) PROVE Inductive'
  BY <1>2, StepInductive
<1>3. ASSUME NEW j \in Jobs, Fails(j) PROVE Inductive'
  BY <1>3, RollbackInductive DEF Fails
<1>4. ASSUME NEW d \in Documents, RegisterDocument(d) PROVE Inductive'
  BY <1>4, RegisterInductive
<1>5. CASE DeleteFiles \/ DeleteFails
  BY <1>5, FilesInductive
<1>6. CASE DeleteRows
  BY <1>6, DeleteInductive
<1>7. CASE UNCHANGED vars
  <2>1. UNCHANGED <<db, files, deleting, pc, tx, startedOn, overlapped>>
    BY <1>7 DEF vars
  <2>2. db \in DbType /\ files \subseteq Documents /\ deleting \in BOOLEAN
        /\ (~db.exists => db.documents = {})
    BY DEF Inductive, Types, Stored
  <2> QED
    BY <2>1, <2>2, BesideInductive
<1> QED
  BY <1>1, <1>2, <1>3, <1>4, <1>5, <1>6, <1>7 DEF Next

LEMMA AlwaysInductive == Spec => []Inductive
BY InitInductive, NextInductive, PTL DEF Spec

(* What is stored keeps its shape and transactions hold disjoint locks, for   *)
(* any number of overlapping analyses, uploads, deletions and failures.       *)
THEOREM TypesHold == Spec => []TypeOK
<1>1. Inductive => TypeOK
  BY DEF Inductive, Types, Stored, Apart, TypeOK, DbType, TxType
<1> QED
  BY <1>1, AlwaysInductive, PTL

(* However many analyses of the process overlap and fail, a document that had *)
(* rows has some after each commit, unless it is a PDF or image that the      *)
(* committing analysis read anew and found nothing in                         *)
(* (_reset_process_analysis and the commits of pipelines/analysis.py).        *)
THEOREM RowsAreLostOnlyToEmptyFindings == Spec => RowsAreReplaced
<1> DEFINE Kept ==
        db'.exists =>
          \A d \in Covered(db.rows) \ Covered(db'.rows) :
              \E j \in Jobs : pc[j] = "commit" /\ pc'[j] # "commit" /\ FoundNothing(j, d)
<1>1. ASSUME Inductive, [Next]_vars PROVE [Kept]_db
  <2>1. ASSUME NEW j \in Jobs, PersistPartial(j) \/ FinishStage1(j) \/ Checkpoint(j) \/ Finish(j)
        PROVE  Kept
    <3>1. pc[j] \in {"commit", "checkpoint", "items"} /\ tx[j].todo = {}
      BY <1>1, <2>1 DEF PersistPartial, FinishStage1, Checkpoint, Finish, At, Inductive, Sound, Stage
    <3>2. db'.rows = Committed(j).rows
      <4>1. Committed(j) \in DbType
        BY <1>1, CommittedType
      <4> QED
        BY <2>1, <4>1 DEF PersistPartial, FinishStage1, Checkpoint, Finish, DbType
    <3>3. db'.rows = View(j)
      BY <1>1, <3>2, CommittedType
    <3>4. pc'[j] # "commit"
      BY <1>1, <2>1 DEF PersistPartial, FinishStage1, Checkpoint, Finish, Continues, Steps, Goto,
                        Inductive, Types
    <3>5. ASSUME NEW d \in Covered(db.rows) \ Covered(db'.rows)
          PROVE  pc[j] = "commit" /\ FoundNothing(j, d)
      <4>1. pc[j] \in Writing /\ FoundNothing(j, d)
        BY <1>1, <3>1, <3>3, <3>5, CommitCovers
      <4> QED
        BY <3>1, <4>1 DEF Writing
    <3> QED
      BY <3>4, <3>5
  <2>2. ASSUME NEW d \in Documents, RegisterDocument(d) PROVE Kept
    BY <1>1, <2>2 DEF RegisterDocument, Inductive, Types, DbType
  <2>3. CASE DeleteRows
    BY <1>1, <2>3 DEF DeleteRows, Inductive, Types, DbType
  <2>4. CASE DeleteFiles \/ DeleteFails \/ UNCHANGED vars
    BY <2>4 DEF DeleteFiles, DeleteFails, vars
  <2>5. ASSUME NEW j \in Jobs, Start(j) \/ Fails(j) PROVE UNCHANGED db
    BY <2>5 DEF Start, Fails, RolledBack
  <2>6. ASSUME NEW j \in Jobs, Step(j) PROVE Kept \/ UNCHANGED db
    BY <2>1, <2>6 DEF Step, Reset, Extract, StoreDocument, MarkSources, SelectItems, NextItem,
                      Assess, Refused, DeadlockVictim, RolledBack
  <2> QED
    BY <1>1, <2>2, <2>3, <2>4, <2>5, <2>6 DEF Next
<1> QED
  BY <1>1, AlwaysInductive, PTL DEF Spec, RowsAreReplaced

(* Two reruns of a document never leave the rows of both, however many        *)
(* analyses of the process overlap and fail: the reset of the later one waits *)
(* for the rows it has read, and finds those of the earlier one.              *)
THEOREM RerunsNeverLeaveBoth == Spec => []RerunsNeverDouble
<1>1. Inductive => RerunsNeverDouble
  BY DEF Inductive
<1> QED
  BY <1>1, AlwaysInductive, PTL

-----------------------------------------------------------------------------
(* Analyses that do not overlap. *)
Alone == \A j, k \in Jobs : Active(j) /\ Active(k) => j = k

(* Before its first commit a job knows the stored status, but for an upload;  *)
(* after it the process is not said to be analysed; and of the rows that will *)
(* be primary, those that are shown and priced are waiting or assessed.       *)
Knows(stored, here, t) ==
    /\ here \in {"reset"} \cup Writing => stored.status \in {t.status, "ingested"}
    /\ here \in Late => stored.status # "analyzed"
    /\ here \in {"items", "item", "checkpoint"} =>
          \A r \in (stored.primary \ t.demoted) \cup t.promoted :
              r.item \in Shown \cap Priced => r \in t.items \cup stored.assessed \cup t.assessed

Undisturbed ==
    ~overlapped =>
        /\ Alone /\ AnalyzedIsComplete
        /\ db.exists => \A j \in Jobs : Knows(db, pc[j], tx[j])

(* A step without a commit, while analyses have not overlapped. *)
LEMMA UndisturbedStep ==
    ASSUME Inductive, Undisturbed, NEW j \in Jobs, NEW here \in Places, NEW t \in TxType,
           Active(j), UNCHANGED <<db, overlapped>>,
           pc' = [pc EXCEPT ![j] = here], tx' = [tx EXCEPT ![j] = t],
           db.exists /\ Knows(db, pc[j], tx[j]) => Knows(db, here, t)
    PROVE  Undisturbed'
<1>1. /\ pc'[j] = here /\ tx'[j] = t
      /\ \A k \in Jobs \ {j} : pc'[k] = pc[k] /\ tx'[k] = tx[k]
  BY DEF Inductive, Types
<1>2. Alone => Alone'
  BY <1>1 DEF Alone, Active
<1>3. AnalyzedIsComplete => AnalyzedIsComplete'
  BY DEF AnalyzedIsComplete
<1>4. ASSUME NEW k \in Jobs, ~overlapped, db.exists PROVE Knows(db, pc[k], tx[k])'
  <2>1. Knows(db, pc'[k], tx'[k])
    BY <1>1, <1>4 DEF Undisturbed
  <2> QED
    BY <2>1 DEF Knows
<1> QED
  BY <1>2, <1>3, <1>4 DEF Undisturbed

(* A commit, while analyses have not overlapped. *)
LEMMA UndisturbedCommit ==
    ASSUME Inductive, Undisturbed, NEW j \in Jobs, NEW here \in {"select", "items", "done"},
           NEW t \in TxType, Active(j), UNCHANGED overlapped,
           pc' = [pc EXCEPT ![j] = here], tx' = [tx EXCEPT ![j] = t],
           ~overlapped => AnalyzedIsComplete' /\ Knows(db', here, t)
    PROVE  Undisturbed'
<1>1. /\ pc'[j] = here /\ tx'[j] = t
      /\ \A k \in Jobs \ {j} : pc'[k] = pc[k] /\ tx'[k] = tx[k]
  BY DEF Inductive, Types
<1> SUFFICES ASSUME ~overlapped PROVE Alone' /\ \A k \in Jobs : Knows(db, pc[k], tx[k])'
  BY DEF Undisturbed
<1>2. Alone'
  BY <1>1 DEF Undisturbed, Alone, Active
<1>3. ASSUME NEW k \in Jobs \ {j} PROVE Knows(db, pc[k], tx[k])'
  <2>1. pc[k] \in {"idle", "done", "failed"}
    BY DEF Undisturbed, Alone, Active
  <2> QED
    BY <1>1, <2>1 DEF Knows, Writing, Late
<1>4. Knows(db, pc[j], tx[j])'
  BY <1>1 DEF Knows
<1> QED
  BY <1>2, <1>3, <1>4

(* The choice that SelectItems makes is what its commit will have as primary. *)
LEMMA SelectKnows ==
    ASSUME Inductive, NEW j \in Jobs, SelectItems(j), Knows(db, "select", tx[j])
    PROVE  \E t : Steps(j, "items", t) /\ t \in TxType /\ Knows(db, "items", t)
<1>1. PICK P \in Selections(db.rows) :
          LET items == {r \in P : r.item \in Shown}
          IN Steps(j, "items", [Chosen(j, db.rows, P) EXCEPT !.items = items,
                                                            !.total = Cardinality(items)])
  BY DEF SelectItems
<1> DEFINE items == {r \in P : r.item \in Shown}
           c == Chosen(j, db.rows, P)
           t == [c EXCEPT !.items = items, !.total = Cardinality(items)]
<1>2. P \in SUBSET db.rows /\ db.rows \in SUBSET Rows /\ db.primary \subseteq db.rows
  BY PrimaryAreRows DEF Inductive, Types, DbType, Stored
<1>3. c.promoted = P \ db.primary
  BY ChosenSources
<1>4. c.demoted = (db.primary \cap db.rows) \ P
  BY DEF Inductive, Types, Chosen, TxType
<1>5. c \in TxType
  BY <1>2, ChosenEffect
<1>6. items \in SUBSET Rows /\ Cardinality(items) \in {Cardinality(S) : S \in SUBSET Rows}
  BY <1>2
<1>7. t \in TxType /\ t.items = items /\ t.promoted = c.promoted /\ t.demoted = c.demoted
  <2> HIDE DEF c, items
  <2> QED
    BY <1>5, <1>6 DEF TxType
<1>8. Steps(j, "items", t)
  BY <1>1
<1> HIDE DEF t
<1>9. Knows(db, "items", t)
  <2>1. (db.primary \ t.demoted) \cup t.promoted \subseteq P
    BY <1>2, <1>3, <1>4, <1>7
  <2> QED
    BY <1>7, <2>1 DEF Knows, Late, Writing
<1> QED
  BY <1>7, <1>8, <1>9

(* A row leaves the list of items when it is assessed or has no price. *)
LEMMA AssessKnows ==
    ASSUME Inductive, NEW j \in Jobs, Assess(j), Knows(db, "item", tx[j])
    PROVE  \E here \in {"items", "checkpoint"}, t \in TxType : Steps(j, here, t) /\ Knows(db, here, t)
<1>1. PICK here \in {"items", "checkpoint"}, t \in TxType, r \in tx[j].item :
        /\ Steps(j, here, t)
        /\ t.promoted = tx[j].promoted /\ t.demoted = tx[j].demoted
        /\ t.items = tx[j].items \ {r} /\ tx[j].assessed \subseteq t.assessed
        /\ r \in db.assessed \cup t.assessed \/ r.item \notin Priced
  BY AssessEffect
<1>2. Knows(db, here, t)
  BY <1>1 DEF Knows, Late, Writing
<1> QED
  BY <1>1, <1>2

LEMMA FirstCommitUndisturbed ==
    ASSUME Inductive, Undisturbed, NEW j \in Jobs, PersistPartial(j) \/ FinishStage1(j)
    PROVE  Undisturbed'
<1>1. pc[j] = "commit" /\ db.exists
  BY DEF PersistPartial, FinishStage1, At, Impossible
<1>2. PICK here \in {"select", "done"} : Continues(j, here, NoTransaction)
  BY DEF PersistPartial, FinishStage1
<1>3. db'.status = ReviewStatus(j)
  BY CommittedType DEF PersistPartial, FinishStage1, DbType
<1>4. ~overlapped => db'.status # "analyzed"
  BY <1>1, <1>3 DEF Undisturbed, Knows, Writing, ReviewStatus
<1>5. ~overlapped => AnalyzedIsComplete' /\ Knows(db', here, NoTransaction)
  BY <1>4 DEF AnalyzedIsComplete, Knows, Writing, Late
<1> QED
  BY <1>1, <1>2, <1>5, NoTransactionType, UndisturbedCommit DEF Steps, Continues, Goto, Active

(* After a commit of the benchmark the chosen rows are primary, and those     *)
(* that are shown and priced are waiting or assessed.                         *)
LEMMA BenchmarkCommit ==
    ASSUME Inductive, NEW j \in Jobs, pc[j] \in {"items", "checkpoint"}, Knows(db, pc[j], tx[j]),
           db'.primary = Committed(j).primary, db'.assessed = Committed(j).assessed
    PROVE  \A r \in db'.primary : r.item \in Shown \cap Priced => r \in tx[j].items \cup db'.assessed
<1>1. tx[j].deleted = {}
  BY DEF Inductive, Sound, Stage, Writing
<1>2. /\ Committed(j).primary = (db.primary \ (tx[j].demoted \cup tx[j].deleted)) \cup tx[j].promoted
      /\ Committed(j).assessed = (db.assessed \ tx[j].deleted) \cup tx[j].assessed
  BY DEF Inductive, Types, Committed, DbType
<1> QED
  BY <1>1, <1>2 DEF Knows

LEMMA CheckpointUndisturbed ==
    ASSUME Inductive, Undisturbed, NEW j \in Jobs, Checkpoint(j)
    PROVE  Undisturbed'
<1> DEFINE t == [NoTransaction EXCEPT !.items = tx[j].items, !.total = tx[j].total,
                                      !.processed = tx[j].processed]
<1>1. pc[j] = "checkpoint" /\ db.exists /\ Steps(j, "items", t)
  BY DEF Checkpoint, At, Impossible
<1>2. /\ db'.status = Committed(j).status /\ db'.primary = Committed(j).primary
      /\ db'.assessed = Committed(j).assessed /\ Committed(j).status = db.status
  <2>1. Committed(j) \in DbType /\ db \in DbType
    BY CommittedType DEF Inductive, Types
  <2>2. Committed(j).status = db.status
    BY <2>1 DEF Committed, DbType
  <2> QED
    BY <2>1, <2>2 DEF Checkpoint, DbType
<1>3. t \in TxType /\ t.items = tx[j].items /\ t.promoted = {} /\ t.demoted = {} /\ t.assessed = {}
  <2>1. tx[j] \in TxType
    BY DEF Inductive, Types
  <2>2. NoTransaction.promoted = {} /\ NoTransaction.demoted = {} /\ NoTransaction.assessed = {}
    BY DEF NoTransaction
  <2> QED
    BY <2>1, <2>2, NoTransactionType DEF TxType
<1> HIDE DEF t
<1>4. ASSUME ~overlapped PROVE AnalyzedIsComplete' /\ Knows(db', "items", t)
  <2>1. Knows(db, "checkpoint", tx[j])
    BY <1>1, <1>4 DEF Undisturbed
  <2>2. db'.status # "analyzed"
    BY <1>2, <2>1 DEF Knows, Late
  <2>3. \A r \in db'.primary : r.item \in Shown \cap Priced => r \in t.items \cup db'.assessed
    BY <1>1, <1>2, <1>3, <2>1, BenchmarkCommit
  <2>4. Knows(db', "items", t)
    BY <1>3, <2>2, <2>3 DEF Knows, Writing, Late
  <2> QED
    BY <2>2, <2>4 DEF AnalyzedIsComplete
<1> QED
  BY <1>1, <1>3, <1>4, UndisturbedCommit DEF Steps, Continues, Goto, Active

LEMMA FinishUndisturbed ==
    ASSUME Inductive, Undisturbed, NEW j \in Jobs, Finish(j)
    PROVE  Undisturbed'
<1>1. pc[j] = "items" /\ tx[j].items = {} /\ db.exists /\ Steps(j, "done", NoTransaction)
  BY DEF Finish, At, Impossible
<1>2. /\ db'.progress = "done" /\ db'.primary = Committed(j).primary
      /\ db'.assessed = Committed(j).assessed
  BY CommittedType DEF Finish, DbType
<1>3. ASSUME ~overlapped PROVE AnalyzedIsComplete'
  <2>1. Knows(db, "items", tx[j])
    BY <1>1, <1>3 DEF Undisturbed
  <2>2. \A r \in db'.primary : r.item \in Shown \cap Priced => r \in db'.assessed
    BY <1>1, <1>2, <2>1, BenchmarkCommit
  <2> QED
    BY <1>2, <2>2 DEF AnalyzedIsComplete
<1>4. Knows(db', "done", NoTransaction)
  BY DEF Knows, Writing, Late
<1> QED
  BY <1>1, <1>3, <1>4, NoTransactionType, UndisturbedCommit DEF Steps, Continues, Goto, Active

(* The steps that commit nothing keep the status the job has loaded, or make  *)
(* or work off its list of items.                                             *)
LEMMA WritingUndisturbed ==
    ASSUME Inductive, Undisturbed, NEW j \in Jobs,
           Reset(j) \/ Extract(j) \/ StoreDocument(j) \/ MarkSources(j), Inductive'
    PROVE  Undisturbed'
<1>1. pc[j] \in {"reset", "extract", "store"} /\ UNCHANGED <<db, overlapped>>
  BY DEF Reset, Extract, StoreDocument, MarkSources, At, Steps, Continues
<1>2. \E h, u : h \in Writing /\ Steps(j, h, u) /\ u.status = tx[j].status
  <2>0. tx[j] \in TxType
    BY DEF Inductive, Types
  <2>1. CASE Reset(j)
    <3>1. PICK deleted, locks, todo, unprofiled :
              Steps(j, "extract", [tx[j] EXCEPT !.deleted = deleted, !.locks = locks,
                                                !.todo = todo, !.unprofiled = unprofiled])
      BY <2>1 DEF Reset
    <3> DEFINE u == [tx[j] EXCEPT !.deleted = deleted, !.locks = locks,
                             !.todo = todo, !.unprofiled = unprofiled]
    <3>2. u.status = tx[j].status
      BY <2>0 DEF TxType
    <3> HIDE DEF u
    <3>3. Steps(j, "extract", u)
      BY <3>1 DEF u
    <3> QED
      BY <3>2, <3>3 DEF Writing
  <2>2. CASE Extract(j)
    <3>1. CASE HasRows(j, NextDocument(j))
      BY <2>0, <2>2, <3>1 DEF Extract, Writing, TxType
    <3>2. CASE ~HasRows(j, NextDocument(j))
      <4>1. PICK found : Steps(j, "store", [tx[j] EXCEPT !.found = found])
        BY <2>2, <3>2 DEF Extract
      <4>2. [tx[j] EXCEPT !.found = found].status = tx[j].status
        BY <2>0 DEF TxType
      <4> QED
        BY <4>1, <4>2 DEF Writing
    <3> QED
      BY <3>1, <3>2
  <2>3. CASE StoreDocument(j)
    <3>1. PICK added, profiled, locks, todo :
              Steps(j, "extract", [tx[j] EXCEPT !.added = added, !.profiled = profiled,
                                                !.found = {}, !.locks = locks, !.todo = todo])
      BY <2>3 DEF StoreDocument
    <3> DEFINE u == [tx[j] EXCEPT !.added = added, !.profiled = profiled,
                             !.found = {}, !.locks = locks, !.todo = todo]
    <3>2. u.status = tx[j].status
      BY <2>0 DEF TxType
    <3> HIDE DEF u
    <3>3. Steps(j, "extract", u)
      BY <3>1 DEF u
    <3> QED
      BY <3>2, <3>3 DEF Writing
  <2>4. CASE MarkSources(j)
    <3>1. PICK promoted, demoted, locks :
              Steps(j, "commit", [tx[j] EXCEPT !.promoted = promoted, !.demoted = demoted,
                                               !.locks = locks])
      BY <2>4 DEF MarkSources, Chosen
    <3> DEFINE u == [tx[j] EXCEPT !.promoted = promoted, !.demoted = demoted,
                             !.locks = locks]
    <3>2. u.status = tx[j].status
      BY <2>0 DEF TxType
    <3> HIDE DEF u
    <3>3. Steps(j, "commit", u)
      BY <3>1 DEF u
    <3> QED
      BY <3>2, <3>3 DEF Writing
  <2> QED
    BY <2>1, <2>2, <2>3, <2>4
<1>3. PICK h, u : h \in Writing /\ Steps(j, h, u) /\ u.status = tx[j].status
  BY <1>2
<1>4. h \in Places /\ u \in TxType /\ h \notin Late
  BY <1>3 DEF Inductive, Types, Steps, Continues, Places, Early, Writing, Late
<1>5. Knows(db, pc[j], tx[j]) => Knows(db, h, u)
  BY <1>1, <1>3 DEF Knows, Writing, Late
<1> QED
  BY <1>1, <1>3, <1>4, <1>5, UndisturbedStep DEF Steps, Continues, Goto, Active

LEMMA BenchmarkUndisturbed ==
    ASSUME Inductive, Undisturbed, NEW j \in Jobs, SelectItems(j) \/ NextItem(j) \/ Assess(j)
    PROVE  Undisturbed'
<1>1. pc[j] \in {"select", "items", "item"} /\ db.exists /\ UNCHANGED <<db, overlapped>>
  BY DEF SelectItems, NextItem, Assess, At, Impossible, Steps, Continues
<1>2. ASSUME Knows(db, pc[j], tx[j])
      PROVE  \E here \in Late, t \in TxType : Steps(j, here, t) /\ Knows(db, here, t)
  <2>1. CASE SelectItems(j)
    BY <1>2, <2>1, SelectKnows DEF SelectItems, At, Late
  <2>2. CASE NextItem(j)
    <3>1. tx[j] \in TxType /\ pc[j] = "items"
      BY <2>2 DEF Inductive, Types, NextItem, At
    <3>2. PICK r \in tx[j].items :
              Steps(j, "item", [tx[j] EXCEPT !.item = {r}, !.searched = ~HasPoints(j, r)])
      BY <2>2 DEF NextItem
    <3> DEFINE t == [tx[j] EXCEPT !.item = {r}, !.searched = ~HasPoints(j, r)]
    <3>3. (~HasPoints(j, r)) \in BOOLEAN /\ {r} \in SUBSET Rows
      BY <3>1, <3>2 DEF HasPoints, TxType
    <3>4. t \in TxType /\ t.items = tx[j].items /\ t.promoted = tx[j].promoted
          /\ t.demoted = tx[j].demoted /\ t.assessed = tx[j].assessed
      BY <3>1, <3>3 DEF TxType
    <3>5. Knows(db, "item", t)
      BY <1>2, <3>1, <3>4 DEF Knows, Late, Writing
    <3> QED
      BY <3>2, <3>4, <3>5 DEF Late
  <2>3. CASE Assess(j)
    BY <1>2, <2>3, AssessKnows DEF Assess, At, Late
  <2> QED
    BY <2>1, <2>2, <2>3
<1>3. CASE overlapped
  BY <1>1, <1>3 DEF Undisturbed
<1>4. CASE ~overlapped
  <2>1. PICK here \in Late, t \in TxType : Steps(j, here, t) /\ Knows(db, here, t)
    BY <1>1, <1>2, <1>4 DEF Undisturbed
  <2> QED
    BY <1>1, <2>1, UndisturbedStep DEF Steps, Continues, Goto, Active, Places
<1> QED
  BY <1>3, <1>4

LEMMA RollbackUndisturbed ==
    ASSUME Inductive, Undisturbed, NEW j \in Jobs, Active(j), RolledBack(j)
    PROVE  Undisturbed'
<1>1. Knows(db, "failed", NoTransaction)
  BY DEF Knows, Writing, Late
<1> QED
  BY <1>1, NoTransactionType, UndisturbedStep DEF RolledBack, Steps, Continues, Goto, Places

(* A job that starts beside no other finds the status that is stored. *)
LEMMA StartUndisturbed ==
    ASSUME Inductive, Undisturbed, NEW j \in Jobs, Start(j)
    PROVE  Undisturbed'
<1> SUFFICES ASSUME ~overlapped' PROVE Undisturbed'
  BY DEF Undisturbed
<1> DEFINE t == [NoTransaction EXCEPT !.read = db.rows, !.status = db.status,
                                      !.marked = db.progress # "none"]
<1>1. ~overlapped /\ (\A k \in Jobs : ~Active(k)) /\ UNCHANGED db
      /\ pc' = [pc EXCEPT ![j] = "reset"] /\ tx' = [tx EXCEPT ![j] = t]
  BY DEF Start, Goto
<1>2. t.status = db.status
  BY DEF NoTransaction
<1> HIDE DEF t
<1>3. /\ pc'[j] = "reset" /\ tx'[j] = t
      /\ \A k \in Jobs \ {j} : pc'[k] = pc[k] /\ tx'[k] = tx[k]
  BY <1>1 DEF Inductive, Types
<1>4. Alone'
  BY <1>1, <1>3 DEF Alone, Active
<1>5. AnalyzedIsComplete'
  BY <1>1 DEF Undisturbed, AnalyzedIsComplete
<1>6. ASSUME NEW k \in Jobs PROVE Knows(db, pc[k], tx[k])'
  <2>1. Knows(db, pc'[k], tx'[k])
    BY <1>1, <1>2, <1>3 DEF Knows, Active, Writing, Late
  <2> QED
    BY <1>1, <2>1
<1> QED
  BY <1>4, <1>5, <1>6 DEF Undisturbed

(* Other requests: an upload makes the process "ingested" again. *)
LEMMA BesideUndisturbed ==
    ASSUME Inductive, Undisturbed, UNCHANGED <<pc, tx, overlapped>>,
           db'.exists => /\ db.exists /\ db'.primary = db.primary /\ db'.assessed = db.assessed
                         /\ db'.status = "ingested" \/ (db'.status = db.status /\ db'.progress = db.progress)
    PROVE  Undisturbed'
<1> SUFFICES ASSUME ~overlapped PROVE Undisturbed'
  BY DEF Undisturbed
<1>1. Alone' /\ AnalyzedIsComplete'
  BY DEF Undisturbed, Alone, Active, AnalyzedIsComplete
<1>2. ASSUME db'.exists, NEW j \in Jobs PROVE Knows(db, pc[j], tx[j])'
  <2>1. Knows(db, pc[j], tx[j])
    BY <1>2 DEF Undisturbed
  <2>2. Knows(db', pc[j], tx[j])
    BY <1>2, <2>1 DEF Knows
  <2> QED
    BY <2>2
<1> QED
  BY <1>1, <1>2 DEF Undisturbed

LEMMA InitUndisturbed == Init => Undisturbed
BY DEF Init, Undisturbed, Alone, Active, AnalyzedIsComplete, Knows, Writing, Late

LEMMA NextUndisturbed == Inductive /\ Undisturbed /\ [Next]_vars /\ Inductive' => Undisturbed'
<1> SUFFICES ASSUME Inductive, Undisturbed, [Next]_vars, Inductive' PROVE Undisturbed'
  OBVIOUS
<1>1. ASSUME NEW j \in Jobs, Start(j) PROVE Undisturbed'
  BY <1>1, StartUndisturbed
<1>2. ASSUME NEW j \in Jobs, Step(j) PROVE Undisturbed'
  <2>1. CASE Reset(j) \/ Extract(j) \/ StoreDocument(j) \/ MarkSources(j)
    BY <2>1, WritingUndisturbed
  <2>2. CASE PersistPartial(j) \/ FinishStage1(j)
    BY <2>2, FirstCommitUndisturbed
  <2>3. CASE SelectItems(j) \/ NextItem(j) \/ Assess(j)
    BY <2>3, BenchmarkUndisturbed
  <2>4. CASE Checkpoint(j)
    BY <2>4, CheckpointUndisturbed
  <2>5. CASE Finish(j)
    BY <2>5, FinishUndisturbed
  <2>6. CASE Refused(j) \/ DeadlockVictim(j)
    BY <2>6, RollbackUndisturbed DEF Refused, DeadlockVictim
  <2> QED
    BY <1>2, <2>1, <2>2, <2>3, <2>4, <2>5, <2>6 DEF Step
<1>3. ASSUME NEW j \in Jobs, Fails(j) PROVE Undisturbed'
  BY <1>3, RollbackUndisturbed DEF Fails
<1>4. ASSUME NEW d \in Documents, RegisterDocument(d) PROVE Undisturbed'
  <2>1. /\ UNCHANGED <<pc, tx, overlapped>> /\ db.exists
        /\ db'.primary = db.primary /\ db'.assessed = db.assessed /\ db'.status = "ingested"
    BY <1>4 DEF RegisterDocument, Inductive, Types, DbType
  <2> QED
    BY <2>1, BesideUndisturbed
<1>5. CASE DeleteFiles \/ DeleteFails \/ UNCHANGED vars
  BY <1>5, BesideUndisturbed DEF DeleteFiles, DeleteFails, vars
<1>6. CASE DeleteRows
  <2>1. UNCHANGED <<pc, tx, overlapped>> /\ db'.exists = FALSE
    BY <1>6 DEF DeleteRows, Inductive, Types, DbType
  <2> QED
    BY <2>1, BesideUndisturbed
<1> QED
  BY <1>1, <1>2, <1>3, <1>4, <1>5, <1>6 DEF Next

(* Where analyses of a process never overlap, one that is said to be analysed *)
(* has no chosen, shown and priced row without an assessment, whatever earlier*)
(* analyses failed between their commits (pipelines/analysis.py).             *)
THEOREM AnalyzedProcessesAreComplete == Spec => []AnalyzedIsComplete
<1>1. Undisturbed => AnalyzedIsComplete
  BY DEF Undisturbed, AnalyzedIsComplete
<1> QED
  BY <1>1, AlwaysInductive, InitUndisturbed, NextUndisturbed, PTL DEF Spec
=============================================================================
