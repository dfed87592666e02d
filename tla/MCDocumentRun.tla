---------------------------- MODULE MCDocumentRun ----------------------------
(***************************************************************************)
(* An instance of DocumentRun for TLC.  Between them the rows a provider   *)
(* may report meet every rule of the consolidation: the same item at two   *)
(* confidences, an item the provider itself marks for review, items known  *)
(* only by a uid two batches share, and the label "Z", which reads as 2    *)
(* once a 1 comes before it.                                               *)
(***************************************************************************)
EXTENDS DocumentRun

CONSTANTS nameA, nameB

Row(uid, number, name, confidence, warnings) ==
  [uid |-> uid, number |-> number, name |-> name, confidence |-> confidence,
   warnings |-> warnings]

OcrTwo == [form |-> "ocr", value |-> 2]
NullText == [form |-> "nulllike", value |-> 0]

one      == Row("u1", Plain(1), nameA, 1, {})
oneSure  == Row("u2", Plain(1), nameA, 2, {})
oneDoubt == Row("u3", Plain(1), nameA, 3, {"manual_review"})
ocrTwo   == Row("u4", OcrTwo, nameB, 1, {})
two      == Row("u5", Plain(2), nameB, 1, {})
unnamed  == Row("u6", NullText, NoName, 2, {})
unnumbered == Row("u6", NoLabel, nameB, 1, {})

MCExtractions ==
  {<< >>, <<one>>, <<oneSure, oneDoubt>>, <<ocrTwo, two>>, <<one, ocrTwo>>,
   <<oneDoubt, unnamed>>, <<unnumbered>>}

MCItems ==
  UNION {Range(items) \cup Range(normalizeSequentialItemNumbers(items)) : items \in MCExtractions}
==============================================================================
