---------------------------- MODULE MCDocumentPlan ----------------------------
(***************************************************************************)
(* An instance of DocumentPlan for TLC: every segment of three lines over  *)
(* six sorts of lines (a blank one makes it shorter), followed by one of a *)
(* single line; the empty document; and seven items in one segment, where  *)
(* the caps of five and of Gemini's four segments and its budget are met.  *)
(***************************************************************************)
EXTENDS DocumentPlan

LineSorts ==
  {<<"start", 300>>, <<"start", 560>>, <<"other", 260>>, <<"note", 40>>,
   <<"header", 50>>, <<"blank", 0>>}

Seg(id, sorts) ==
  [segment_id |-> id, segment_index |-> id - 1,
   lines |-> [k \in 1..Len(sorts) |->
               [at |-> <<id, k>>, kind |-> sorts[k][1], chars |-> sorts[k][2]]]]

MiddlingItems == <<Seg(1, [k \in 1..7 |-> <<"start", 540 - 20 * k>>])>>

MCDocuments ==
  {<<Seg(1, first), Seg(2, second)>> :
     first \in [1..3 -> LineSorts], second \in [1..1 -> {<<"start", 300>>, <<"other", 260>>, <<"note", 40>>}]}
  \cup {MiddlingItems, << >>, <<Seg(1, [k \in 1..7 |-> <<"start", 40>>])>>}

MCDetections ==
  {{}, {[start |-> 0, end |-> 0]}, {[start |-> 1, end |-> 1], [start |-> 0, end |-> 1]},
   {[start |-> 5, end |-> 6]}}
==============================================================================
