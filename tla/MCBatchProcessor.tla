--------------------------- MODULE MCBatchProcessor ---------------------------
(***************************************************************************)
(* An instance of BatchProcessor for TLC.  The provider reports up to two  *)
(* of three items, possibly none; one extraction is changed by the         *)
(* renumbering (the item u1 becomes u2), the others are left alone.        *)
(***************************************************************************)
EXTENDS BatchProcessor

CONSTANTS u1, u2, u3

MCItems == {u1, u2, u3}

\* The provider has doubts about one of them.
MCWarned == {u3}

MCExtractions == {<< >>, <<u1>>, <<u2>>, <<u2, u3>>, <<u1, u3>>}

MCNormalize ==
  [s \in MCExtractions |-> IF s = <<u1, u3>> THEN <<u2, u3>> ELSE s]
==============================================================================
