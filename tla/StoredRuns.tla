------------------------------ MODULE StoredRuns ------------------------------
(***************************************************************************)
(* What the database of the processing runs promises: of each document it  *)
(* holds either nothing or the complete outcome of one run, every part of  *)
(* it from that run; an outcome is only replaced as a whole, by a run that *)
(* had been opened and has not ended; and a run publishes at most once.    *)
(***************************************************************************)
CONSTANTS Documents, Runs, None, DocumentOf

VARIABLES
  held,     (* the run whose outcome the database holds of each document    *)
  phase     (* each run is new, open or closed                              *)

vars == <<held, phase>>

Init ==
  /\ held = [d \in Documents |-> None]
  /\ phase = [r \in Runs |-> "new"]

\* A run is opened; if its first answer was lost it is over at once.
Open(r) ==
  /\ phase[r] = "new"
  /\ \E p \in {"open", "closed"} : phase' = [phase EXCEPT ![r] = p]
  /\ UNCHANGED held

Publish(r) ==
  /\ phase[r] = "open"
  /\ held' = [held EXCEPT ![DocumentOf[r]] = r]
  /\ phase' = [phase EXCEPT ![r] = "closed"]

Abandon(r) ==
  /\ phase[r] = "open"
  /\ phase' = [phase EXCEPT ![r] = "closed"]
  /\ UNCHANGED held

Next == \E r \in Runs : Open(r) \/ Publish(r) \/ Abandon(r)

Spec == Init /\ [][Next]_vars
==============================================================================
