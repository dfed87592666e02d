---------------------------- MODULE MCPersistedRun ----------------------------
(***************************************************************************)
(* An instance of PersistedRun for TLC: two runs of one document with      *)
(* different files and a run of a second document made from the first file.*)
(***************************************************************************)
EXTENDS PersistedRun, TLC

CONSTANTS doc1, doc2, file1, file2, r1, r2, s1

MCDocumentOf == (r1 :> doc1) @@ (r2 :> doc1) @@ (s1 :> doc2)
MCFileOf == (r1 :> file1) @@ (r2 :> file2) @@ (s1 :> file1)

Output(status, batches, fragmented, items) ==
  [status |-> status, batches |-> batches, fragmented |-> fragmented, items |-> items]

\* Whole segments with items; nothing found; nothing selected; fragments; and
\* an item_uid given twice.
MCOutputs ==
  {Output("completed", TRUE, FALSE, "distinct"),
   Output("manual_review", FALSE, FALSE, "none"),
   Output("completed", TRUE, TRUE, "distinct"),
   Output("completed_with_warnings", TRUE, FALSE, "repeated")}
==============================================================================
