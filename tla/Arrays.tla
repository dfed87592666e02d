-------------------------------- MODULE Arrays --------------------------------
(***************************************************************************)
(* Two methods of Array.prototype that the code leans on, filter and a     *)
(* reduce that adds, as folds: unlike SelectSeq, whose definition is       *)
(* hidden from the prover, they can be reasoned about.                     *)
(***************************************************************************)
EXTENDS Integers, SequencesExt

\* The entries of a sequence that are in S, in their order.
Keeping(seq, S) ==
  FoldLeft(LAMBDA kept, e : IF e \in S THEN Append(kept, e) ELSE kept, << >>, seq)

\* The sum of a sequence of numbers.
Total(numbers) == FoldLeft(LAMBDA sum, number : sum + number, 0, numbers)
===============================================================================
