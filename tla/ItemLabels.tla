------------------------------ MODULE ItemLabels ------------------------------
(***************************************************************************)
(* The item numbers of extracted rows and their repair from the sequence   *)
(* they stand in (normalizeSequentialItemNumbers).  A label is what the    *)
(* parser and the OCR table make of its text:                              *)
(*   plain     the digits of value, written without leading zeros          *)
(*   padded    the digits of value, written with leading zeros             *)
(*   ocr       at most four letters and digits that read as value once the *)
(*             letters are taken for the digits they resemble (Z for 2)    *)
(*   text      any other text: no number can be read into it               *)
(*   nulllike  "", "null", "n/a", "na", "none": as good as absent          *)
(*   none      absent                                                      *)
(* Every letter of the OCR table stands for one digit, so an ocr label     *)
(* reads as one value and the candidate lists of the code have at most one *)
(* member.                                                                 *)
(***************************************************************************)
EXTENDS Arrays

Plain(value) == [form |-> "plain", value |-> value]

NoLabel == [form |-> "none", value |-> 0]

Labels == [form : {"plain", "padded", "ocr", "text", "nulllike", "none"}, value : Nat]

\* parseStrictPositiveInteger yields a number.
Numeric(label) == label.form \in {"plain", "padded"}

normalizeNullLikeString(label) == IF label.form = "nulllike" THEN NoLabel ELSE label

\* The nearest number before position i, as a set: {} when there is none.
findPreviousNumericLabel(labels, i) ==
  LET before == {j \in 1..(i - 1) : Numeric(labels[j])}
  IN  IF before = {} THEN {} ELSE {labels[Max(before)].value}

\* The nearest number after position i.
findNextNumericLabel(labels, i) ==
  LET after == {j \in (i + 1)..Len(labels) : Numeric(labels[j])}
  IN  IF after = {} THEN {} ELSE {labels[Min(after)].value}

\* The value bridges a short gap, or continues or precedes a neighbour.
chooseSequentialCandidate(value, previous, next) ==
  \/ \E p \in previous, n \in next : p < value /\ value < n /\ n - p <= 3
  \/ \E p \in previous : value = p + 1
  \/ \E n \in next : value = n - 1

\* What becomes of the label at i, given what its neighbours are by then.
CanonicalLabel(labels, i) ==
  IF /\ labels[i].form = "ocr"
     /\ chooseSequentialCandidate(labels[i].value,
          findPreviousNumericLabel(labels, i), findNextNumericLabel(labels, i))
  THEN Plain(labels[i].value)
  ELSE labels[i]

\* The labels once every item was visited, from left to right: a label made
\* canonical counts as a number for the items after it.
CanonicalLabels(raw) ==
  FoldLeftDomain(LAMBDA labels, i : [labels EXCEPT ![i] = CanonicalLabel(labels, i)],
                 raw, raw)

normalizeSequentialItemNumbers(items) ==
  LET raw == [i \in 1..Len(items) |-> normalizeNullLikeString(items[i].number)]
      canonical == CanonicalLabels(raw)
  IN  [i \in 1..Len(items) |->
        [items[i] EXCEPT
           !.number   = canonical[i],
           !.warnings = IF canonical[i] = raw[i] THEN @ ELSE @ \cup {"renumbered"}]]
------------------------------------------------------------------------------
\* No row keeps an OCR-like label that continues the numbered row before it.
NumbersContinued(items) ==
  LET labels == [j \in 1..Len(items) |-> items[j].number]
  IN  \A i \in 1..Len(items) : labels[i].form = "ocr" =>
        \A p \in findPreviousNumericLabel(labels, i) : labels[i].value # p + 1
==============================================================================
