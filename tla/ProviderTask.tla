----------------------------- MODULE ProviderTask -----------------------------
(***************************************************************************)
(* One of the four provider tasks, from the adapter's method to its answer *)
(* (BaseAiProviderAdapter and postJson, with the Gemini adapter's second   *)
(* model): without a key the mock engine answers; otherwise a request is   *)
(* tried up to max_retries + 1 times, a Gemini preview model that is       *)
(* overloaded is replaced within the attempt, and when everything failed   *)
(* the error is thrown or, if so configured, the mock answers after all.   *)
(* This is where the other modules' "every provider call settles" is from. *)
(*                                                                         *)
(* A request ends in a usable answer or in one of Failures: 503 and other  *)
(* statuses, no response ("aborted", by the timer of timeout_ms or by the  *)
(* network), or a body that is not JSON or that its schema refuses         *)
(* ("invalid").  The length of the waits between attempts is abstracted,   *)
(* not that there is one.                                                  *)
(***************************************************************************)
EXTENDS Naturals, Sequences, FiniteSets

CONSTANTS
  MaxRetries   (* the largest max_retries: 5 in the schema                  *)

ASSUME MaxRetriesAssumption == MaxRetries \in Nat

Failures == {"503", "status", "aborted", "invalid"}

VARIABLES
  max_retries,    (* taskConfig.max_retries                                *)
  hasApiKey,      (* a key is set and the mock is not forced               *)
  mockOnError,    (* runtime.mockOnError                                   *)
  fallbackModel,  (* the adapter has a second model for this one           *)
  pc,             (* see Stages                                            *)
  attempt,        (* the attempts that failed                              *)
  requests,       (* the requests posted: the model and how each ended     *)
  answeredBy      (* who answered: "nobody" before, and if the task throws *)

config == <<max_retries, hasApiKey, mockOnError, fallbackModel>>

vars == <<config, pc, attempt, requests, answeredBy>>

Stages == {"idle", "request", "secondModel", "sleeping", "resolved", "rejected"}

Ended(model, how) == Append(requests, [model |-> model, how |-> how])

\* Variant with a fault: the mock answers whenever the provider does not.
shouldFallbackToMockAlways == TRUE

shouldFallbackToMock == ~hasApiKey \/ mockOnError

Init ==
  /\ max_retries \in 0..MaxRetries
  /\ hasApiKey \in BOOLEAN
  /\ mockOnError \in BOOLEAN
  /\ fallbackModel \in BOOLEAN
  /\ pc = "idle"
  /\ attempt = 0
  /\ requests = << >>
  /\ answeredBy = "nobody"

(* The task is called.                                                     *)
Call ==
  /\ pc = "idle"
  /\ IF hasApiKey
       THEN pc' = "request" /\ UNCHANGED answeredBy
       ELSE pc' = "resolved" /\ answeredBy' = "mock"
  /\ UNCHANGED <<config, attempt, requests>>

(* Variant with a fault: one attempt more than configured.                 *)
FailAttemptOnceMore ==
  /\ attempt' = attempt + 1
  /\ IF attempt' <= max_retries + 1
       THEN pc' = "sleeping" /\ UNCHANGED answeredBy
       ELSE IF shouldFallbackToMock
       THEN pc' = "resolved" /\ answeredBy' = "mock"
       ELSE pc' = "rejected" /\ UNCHANGED answeredBy

(* The attempt failed: another one after a wait, or the end of the task.   *)
FailAttempt ==
  /\ attempt' = attempt + 1
  /\ IF attempt' <= max_retries
       THEN pc' = "sleeping" /\ UNCHANGED answeredBy
       ELSE IF shouldFallbackToMock
       THEN pc' = "resolved" /\ answeredBy' = "mock"
       ELSE pc' = "rejected" /\ UNCHANGED answeredBy

(* A request to the configured model fails.  An overloaded preview model   *)
(* is replaced at once, within the attempt.                                *)
RequestFails(how) ==
  /\ pc = "request"
  /\ requests' = Ended("configured", how)
  /\ IF how = "503" /\ fallbackModel
       THEN pc' = "secondModel" /\ UNCHANGED <<attempt, answeredBy>>
       ELSE FailAttempt
  /\ UNCHANGED config

(* Variant with a fault: the second model is asked until it is not busy.   *)
SecondModelFailsUncounted(how) ==
  /\ pc = "secondModel"
  /\ Len(requests) < 4 * (MaxRetries + 1)
  /\ requests' = Ended("second", how)
  /\ IF how = "503" THEN UNCHANGED <<pc, attempt, answeredBy>> ELSE FailAttempt
  /\ UNCHANGED config

(* A request to the second model fails, and the attempt with it.           *)
SecondModelFails(how) ==
  /\ pc = "secondModel"
  /\ requests' = Ended("second", how)
  /\ FailAttempt
  /\ UNCHANGED config

(* A request ends in an answer its schema accepts.                         *)
Answers ==
  /\ pc \in {"request", "secondModel"}
  /\ LET model == IF pc = "request" THEN "configured" ELSE "second"
     IN  requests' = Ended(model, "answered") /\ answeredBy' = model
  /\ pc' = "resolved"
  /\ UNCHANGED <<config, attempt>>

(* Variant with a fault: the wait before the last attempt has no end.      *)
WakeUpButLast ==
  /\ pc = "sleeping"
  /\ attempt < max_retries
  /\ pc' = "request"
  /\ UNCHANGED <<config, attempt, requests, answeredBy>>

(* The wait is over: the next attempt, with the configured model again.    *)
WakeUp ==
  /\ pc = "sleeping"
  /\ pc' = "request"
  /\ UNCHANGED <<config, attempt, requests, answeredBy>>

Next ==
  \/ Call
  \/ \E how \in Failures : RequestFails(how) \/ SecondModelFails(how)
  \/ Answers
  \/ WakeUp

(* A request ends because its timer aborts it, a wait because it is timed. *)
Spec == Init /\ [][Next]_vars /\ WF_vars(Next)
------------------------------------------------------------------------------
(* The types of the task's state.                                          *)
TypeOK ==
  /\ max_retries \in 0..MaxRetries
  /\ pc \in Stages
  /\ attempt \in 0..(max_retries + 1)
  /\ requests \in Seq([model: {"configured", "second"}, how: Failures \cup {"answered"}])
  /\ answeredBy \in {"nobody", "configured", "second", "mock"}

Failed(i) == requests[i].how # "answered"

(* Nobody gets an invented answer: the mock speaks for a provider with a   *)
(* key only if that is configured and every attempt failed, and a task     *)
(* that throws was asked in vain as often as allowed.                      *)
MockOnlyAsConfigured ==
  /\ answeredBy = "mock" =>
       \/ ~hasApiKey /\ requests = << >>
       \/ mockOnError /\ attempt = max_retries + 1 /\ \A i \in 1..Len(requests) : Failed(i)
  /\ pc = "rejected" =>
       ~mockOnError /\ attempt = max_retries + 1 /\ \A i \in 1..Len(requests) : Failed(i)

\* The requests that went to the configured model.
ToConfigured == {i \in 1..Len(requests) : requests[i].model = "configured"}

(* What a task may cost: at most max_retries + 1 requests to the           *)
(* configured model, each followed by at most one to the second model and  *)
(* only when it was overloaded, and none after an answer.                  *)
RequestsAreBounded ==
  /\ Cardinality(ToConfigured) <= max_retries + 1
  /\ \A i \in 1..Len(requests) :
       /\ requests[i].model = "second" =>
            fallbackModel /\ i > 1 /\ requests[i - 1] = [model |-> "configured", how |-> "503"]
       /\ ~Failed(i) => i = Len(requests) /\ answeredBy = requests[i].model

(* Every task settles, with an answer or an error.                         *)
EveryTaskSettles == <>(pc \in {"resolved", "rejected"})

(***************************************************************************)
(* The inductive invariant of the proofs adds what a task under way knows: *)
(* it has a key, attempts left and only failures behind it, and has posted *)
(* one request to the configured model per failed attempt, and one more    *)
(* while the second model is asked.                                        *)
(***************************************************************************)
UnderWay == pc \in {"request", "secondModel", "sleeping"}

TaskInvariant ==
  /\ pc = "idle" => requests = << >> /\ attempt = 0 /\ answeredBy = "nobody"
  /\ UnderWay => /\ hasApiKey
                 /\ attempt <= max_retries
                 /\ answeredBy = "nobody"
                 /\ \A i \in 1..Len(requests) : Failed(i)
  /\ pc = "secondModel" =>
       /\ fallbackModel
       /\ requests # << >>
       /\ requests[Len(requests)] = [model |-> "configured", how |-> "503"]
  /\ pc \in {"request", "sleeping"} => Cardinality(ToConfigured) <= attempt
  /\ pc = "secondModel" => Cardinality(ToConfigured) <= attempt + 1

Inductive == TypeOK /\ MockOnlyAsConfigured /\ RequestsAreBounded /\ TaskInvariant
==============================================================================
