--------------------------- MODULE MCMarketAnalysis ---------------------------
(***************************************************************************)
(* An instance of MarketAnalysis for TLC: two uploads, a file that keeps   *)
(* two runs, and files of an earlier version with codes that are missing   *)
(* or used twice, by runs of the same time too, with an entry that is no   *)
(* longer valid, or with codes near the last one of five digits.           *)
(***************************************************************************)
EXTENDS MarketAnalysis, TLC

CONSTANTS u1, u2, old1, old2, old3

Old(id, code, createdAt, valid) ==
  [id |-> id, code |-> code, createdAt |-> createdAt, valid |-> valid, status |-> "completed",
   mode |-> "text", grounded |-> FALSE, priced |-> TRUE]

MCLegacyFiles ==
  {[state |-> "held", runs |-> <<Old(old2, 0, 2, TRUE), Old(old1, 0, 1, TRUE)>>, next |-> 0],
   [state |-> "held", runs |-> <<Old(old3, 1, 1, TRUE), Old(old2, 2, 2, FALSE), Old(old1, 1, 1, TRUE)>>, next |-> 0],
   [state |-> "held", runs |-> <<Old(old2, 4, 1, TRUE), Old(old1, 0, 2, TRUE)>>, next |-> 2]}

MCConnections ==
  {[provider |-> "gemini", key |-> TRUE], [provider |-> "openai", key |-> TRUE],
   [provider |-> "openai", key |-> FALSE]}

MCIdOrder == (u1 :> 1) @@ (u2 :> 2) @@ (old1 :> 3) @@ (old2 :> 4) @@ (old3 :> 5)
==============================================================================
