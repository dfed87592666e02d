------------------------------ MODULE MCStage1 ------------------------------
(* Two processes, one of which is there at first. The rich one has an Excel   *)
(* document and a PDF, and a third document is uploaded later. In its first   *)
(* mode the Excel gives a row without money and one of a support sheet, in    *)
(* its flexible mode rows that lack a quantity, a price or nothing. The PDF   *)
(* tells the same items, surer or with shifted columns, the late one as text  *)
(* only. The small one has few rows, and corrections of it overlap.           *)
EXTENDS Stage1, TLC

MCFirstDocuments == {{"x", "p"}, {"y", "r"}}
MCFileType == [x |-> "excel", p |-> "pdf", q |-> "pdf", y |-> "excel", r |-> "pdf"]

Row(d, number, text, quantity, unit, price, total, confidence, sheet, role) ==
    [document |-> d, number |-> number, text |-> text, long |-> FALSE, quantity |-> quantity,
     unit |-> unit, price |-> price, total |-> total, confidence |-> confidence,
     sheet |-> sheet, role |-> role]
Official(d, number, quantity, price, total) ==
    Row(d, number, number, quantity, Words, price, total, 95, "official", "official_item")

ExcelAtFirst ==
    {Official("x", 1, 2, Nothing, Nothing),
     Row("x", 2, 2, 3, Words, Nothing, Nothing, 90, "support", "support_item")}
ExcelFlexible ==
    {Official("x", 1, Nothing, 5000, Nothing), Official("x", 2, 3, Nothing, 900), Official("x", 4, 0, Nothing, 800)}
Pdf ==
    {Row("p", 1, 1, 2, Words, 5000, 10000, 99, "none", "item"),
     Row("p", 3, 3, 2, Words, Nothing, 800, 70, "none", "item")}
PdfScanned ==
    {Row("p", 1, 1, 2, Words, 7000, 14000, 60, "none", "item"),
     Row("p", 0, 2, Words, Repeat, Nothing, 500, 80, "none", "item")}
LatePdf ==
    {[Row("q", 0, 1, Nothing, Nothing, Nothing, Nothing, 80, "none", "item") EXCEPT !.long = TRUE]}

SmallExcelAtFirst == {Official("y", 1, 2, Nothing, Nothing)}
SmallExcelFlexible == {Official("y", 1, Nothing, 5000, Nothing)}
SmallPdf == {Row("r", 1, 1, 2, Words, 6000, 12000, 99, "none", "item")}

MCExtracted ==
    [x |-> [b \in BOOLEAN |-> IF b THEN ExcelFlexible ELSE ExcelAtFirst],
     p |-> [b \in BOOLEAN |-> IF b THEN PdfScanned ELSE Pdf],
     q |-> [b \in BOOLEAN |-> IF b THEN {} ELSE LatePdf],
     y |-> [b \in BOOLEAN |-> IF b THEN SmallExcelFlexible ELSE SmallExcelAtFirst],
     r |-> [b \in BOOLEAN |-> IF b THEN {} ELSE SmallPdf]]

MCModelActions ==
    {Action("x", "priority", 0), Action("p", "priority", 900), Action("p", "route", "pdf_native"),
     Action("y", "supportOnly", "yes"), Action("r", "route", "pdf_native")}

(* Bound: one correction at a time of the rich process, two of the small one. *)
Running == {c \in Corrections : job[c].pc # "idle"}
OverlapIsBounded ==
    \/ documents \subseteq {"x", "p", "q"} /\ Cardinality(Running) <= 1
    \/ documents = {"y", "r"}

Symmetry == Permutations(Corrections)
=============================================================================
