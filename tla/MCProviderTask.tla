---------------------------- MODULE MCProviderTask ----------------------------
(***************************************************************************)
(* ProviderTask for TLC: every configuration up to two retries.  What the  *)
(* third attempt does differently from the second is to be the last one;   *)
(* a fourth would add nothing.                                             *)
(***************************************************************************)
EXTENDS ProviderTask
==============================================================================
