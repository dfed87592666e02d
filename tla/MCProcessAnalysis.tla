------------------------ MODULE MCProcessAnalysis ------------------------
(* Document 1, a spreadsheet, has an official row and one of a support sheet; *)
(* document 2, a scanned PDF, is uploaded while analyses run, and its row     *)
(* competes with that of the support sheet. The third call is a stage 1       *)
(* alone. Rows of one item, left by overlapping analyses, compete for being   *)
(* its source with equal scores.                                              *)
EXTENDS ProcessAnalysis

MCDocumentOf == [i \in Items |-> IF i = "scanned" THEN 2 ELSE 1]
MCCanonicalKey == [i \in Items |-> IF i = "official" THEN i ELSE "shared"]
MCSourceScore == [i \in Items |-> IF i = "support" THEN 1 ELSE 2]
==========================================================================
