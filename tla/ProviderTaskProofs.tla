-------------------------- MODULE ProviderTaskProofs --------------------------
(***************************************************************************)
(* Proofs about ProviderTask, for every value of MaxRetries: the types,    *)
(* who may answer, and how often a provider is asked.  All three are parts *)
(* of the inductive invariant Inductive.                                   *)
(***************************************************************************)
EXTENDS ProviderTask, FiniteSetTheorems, TLAPS

USE MaxRetriesAssumption

Requests == [model: {"configured", "second"}, how: Failures \cup {"answered"}]

(* One more request: the ones before it keep their places.                 *)
LEMMA Posted ==
  ASSUME requests \in Seq(Requests),
         NEW q \in Requests,
         requests' = Append(requests, q)
  PROVE  /\ requests' \in Seq(Requests)
         /\ Len(requests') = Len(requests) + 1
         /\ \A i \in 1..Len(requests) : requests'[i] = requests[i]
         /\ requests'[Len(requests) + 1] = q
         /\ requests' # << >>
  OBVIOUS

(* And the number of those to the configured model grows by it or not.     *)
LEMMA PostedCount ==
  ASSUME requests \in Seq(Requests),
         NEW q \in Requests,
         requests' = Append(requests, q)
  PROVE  /\ Cardinality(ToConfigured) \in Nat
         /\ Cardinality(ToConfigured') \in Nat
         /\ q.model = "configured" => Cardinality(ToConfigured') = Cardinality(ToConfigured) + 1
         /\ q.model # "configured" => Cardinality(ToConfigured') = Cardinality(ToConfigured)
<1>1. IsFiniteSet(ToConfigured)
  <2>1. IsFiniteSet(1..Len(requests))
    BY FS_Interval
  <2>2. QED
    BY <2>1, FS_Subset DEF ToConfigured
<1>2. Len(requests) \in Nat /\ Len(requests) + 1 \notin ToConfigured
  BY DEF ToConfigured
<1>3. CASE q.model = "configured"
  <2>1. ToConfigured' = ToConfigured \cup {Len(requests) + 1}
    BY <1>3, Posted DEF ToConfigured
  <2>2. QED
    BY <1>1, <1>2, <1>3, <2>1, FS_AddElement, FS_CardinalityType
<1>4. CASE q.model # "configured"
  <2>1. ToConfigured' = ToConfigured
    BY <1>4, Posted DEF ToConfigured
  <2>2. QED
    BY <1>1, <1>4, <2>1, FS_CardinalityType
<1>5. QED
  BY <1>3, <1>4
------------------------------------------------------------------------------
LEMMA InitInductive == Init => Inductive
<1> SUFFICES ASSUME Init PROVE Inductive
  OBVIOUS
<1>1. ToConfigured = {}
  BY DEF Init, ToConfigured
<1>2. Cardinality(ToConfigured) = 0
  BY <1>1, FS_EmptySet
<1>3. QED
  BY <1>2 DEF Init, Inductive, TypeOK, MockOnlyAsConfigured, RequestsAreBounded,
              TaskInvariant, UnderWay, Stages, Failed

LEMMA CallInductive == Inductive /\ Call => Inductive'
<1> SUFFICES ASSUME Inductive, Call PROVE Inductive'
  OBVIOUS
<1>1. requests = << >> /\ requests' = << >> /\ ToConfigured' = {}
  BY DEF Inductive, TaskInvariant, Call, ToConfigured
<1>2. Cardinality(ToConfigured') = 0
  BY <1>1, FS_EmptySet
<1>3. QED
  BY <1>1, <1>2 DEF Inductive, Call, config, TypeOK, MockOnlyAsConfigured, RequestsAreBounded,
                    TaskInvariant, UnderWay, Stages, Failed

LEMMA WakeUpInductive == Inductive /\ WakeUp => Inductive'
<1> SUFFICES ASSUME Inductive, WakeUp PROVE Inductive'
  OBVIOUS
<1>1. ToConfigured' = ToConfigured
  BY DEF WakeUp, ToConfigured
<1>2. QED
  BY <1>1 DEF Inductive, WakeUp, config, TypeOK, MockOnlyAsConfigured, RequestsAreBounded,
              TaskInvariant, UnderWay, Stages, Failed

(* What a request that failed, and the attempt with it, leaves behind.     *)
LEMMA FailedAttempt ==
  ASSUME Inductive,
         UNCHANGED config,
         NEW q \in Requests,
         q.how # "answered",
         requests' = Append(requests, q),
         \/ pc = "request" /\ q.model = "configured"
         \/ pc = "secondModel" /\ q.model = "second",
         FailAttempt
  PROVE  Inductive'
<1>1. requests \in Seq(Requests)
  BY DEF Inductive, TypeOK, Requests
<1>2. /\ requests' \in Seq(Requests)
      /\ Len(requests') = Len(requests) + 1
      /\ \A i \in 1..Len(requests) : requests'[i] = requests[i]
      /\ requests'[Len(requests) + 1] = q
      /\ requests' # << >>
  BY <1>1, Posted
<1>3. /\ UnderWay /\ hasApiKey /\ attempt <= max_retries
      /\ \A i \in 1..Len(requests) : Failed(i)
  BY DEF Inductive, TaskInvariant, UnderWay
<1>4. \A i \in 1..Len(requests') : Failed(i)'
  BY <1>1, <1>2, <1>3 DEF Failed
<1>5. Cardinality(ToConfigured') \in Nat /\ Cardinality(ToConfigured') <= attempt + 1
  BY <1>1, PostedCount DEF Inductive, TypeOK, TaskInvariant
<1>6. TypeOK'
  BY <1>2, <1>3 DEF Inductive, TypeOK, FailAttempt, config, Stages, Requests
<1>7. MockOnlyAsConfigured'
  BY <1>3, <1>4 DEF Inductive, TypeOK, TaskInvariant, MockOnlyAsConfigured, FailAttempt,
                    config, shouldFallbackToMock, UnderWay
<1>8. RequestsAreBounded'
  <2>1. Cardinality(ToConfigured')  <= max_retries' + 1
    BY <1>3, <1>5 DEF Inductive, TypeOK, config
  <2>2. ASSUME NEW i \in 1..Len(requests'), requests'[i].model = "second"
        PROVE  fallbackModel' /\ i > 1
               /\ requests'[i - 1] = [model |-> "configured", how |-> "503"]
    <3>1. CASE i \in 1..Len(requests)
      BY <1>1, <1>2, <2>2, <3>1 DEF Inductive, RequestsAreBounded, config
    <3>2. CASE i = Len(requests) + 1
      BY <1>1, <1>2, <2>2, <3>2 DEF Inductive, TaskInvariant, config
    <3>3. QED
      BY <1>1, <1>2, <3>1, <3>2
  <2>3. QED
    BY <1>4, <2>1, <2>2 DEF RequestsAreBounded
<1>9. TaskInvariant'
  BY <1>3, <1>4, <1>5 DEF Inductive, TypeOK, TaskInvariant, UnderWay, FailAttempt, config
<1>10. QED
  BY <1>6, <1>7, <1>8, <1>9 DEF Inductive

LEMMA RequestFailsInductive ==
  ASSUME Inductive, NEW how \in Failures, RequestFails(how)
  PROVE  Inductive'
<1> DEFINE q == [model |-> "configured", how |-> how]
<1>1. q \in Requests /\ q.how # "answered" /\ q.model = "configured"
  BY DEF Requests, Failures
<1>2. requests \in Seq(Requests) /\ requests' = Append(requests, q) /\ UNCHANGED config
  BY DEF Inductive, TypeOK, Requests, RequestFails, Ended
<1>3. CASE how = "503" /\ fallbackModel
  <2>1. /\ pc = "request" /\ pc' = "secondModel"
        /\ UNCHANGED <<attempt, answeredBy, max_retries, hasApiKey, mockOnError, fallbackModel>>
    BY <1>3 DEF RequestFails, config
  <2>2. /\ requests' \in Seq(Requests)
        /\ Len(requests') = Len(requests) + 1
        /\ \A i \in 1..Len(requests) : requests'[i] = requests[i]
        /\ requests'[Len(requests) + 1] = q
        /\ requests' # << >>
    BY <1>1, <1>2, Posted
  <2>3. /\ hasApiKey /\ attempt <= max_retries /\ answeredBy = "nobody"
        /\ \A i \in 1..Len(requests) : Failed(i)
    BY <2>1 DEF Inductive, TaskInvariant, UnderWay
  <2>4. \A i \in 1..Len(requests') : Failed(i)'
    BY <1>1, <1>2, <2>2, <2>3 DEF Failed
  <2>5. Cardinality(ToConfigured') \in Nat /\ Cardinality(ToConfigured') <= attempt + 1
    BY <1>1, <1>2, <2>1, PostedCount DEF Inductive, TypeOK, TaskInvariant
  <2>6. TypeOK'
    BY <2>1, <2>2 DEF Inductive, TypeOK, Stages, Requests
  <2>7. MockOnlyAsConfigured'
    BY <2>1, <2>3 DEF MockOnlyAsConfigured
  <2>8. RequestsAreBounded'
    <3>1. Cardinality(ToConfigured') <= max_retries' + 1
      BY <2>1, <2>3, <2>5 DEF Inductive, TypeOK
    <3>2. ASSUME NEW i \in 1..Len(requests'), requests'[i].model = "second"
          PROVE  fallbackModel' /\ i > 1
                 /\ requests'[i - 1] = [model |-> "configured", how |-> "503"]
      <4>1. i \in 1..Len(requests)
        BY <1>1, <1>2, <2>2, <3>2
      <4>2. QED
        BY <1>2, <2>1, <2>2, <3>2, <4>1 DEF Inductive, RequestsAreBounded
    <3>3. QED
      BY <2>4, <3>1, <3>2 DEF RequestsAreBounded
  <2>9. TaskInvariant'
    BY <1>3, <2>1, <2>2, <2>3, <2>4, <2>5 DEF TaskInvariant, UnderWay
  <2>10. QED
    BY <2>6, <2>7, <2>8, <2>9 DEF Inductive
<1>4. CASE ~(how = "503" /\ fallbackModel)
  <2>1. pc = "request" /\ FailAttempt
    BY <1>4 DEF RequestFails
  <2>2. QED
    BY <1>1, <1>2, <2>1, FailedAttempt
<1>5. QED
  BY <1>3, <1>4

LEMMA SecondModelFailsInductive ==
  ASSUME Inductive, NEW how \in Failures, SecondModelFails(how)
  PROVE  Inductive'
<1> DEFINE q == [model |-> "second", how |-> how]
<1>1. q \in Requests /\ q.how # "answered" /\ q.model = "second"
  BY DEF Requests, Failures
<1>2. requests' = Append(requests, q) /\ UNCHANGED config /\ pc = "secondModel" /\ FailAttempt
  BY DEF SecondModelFails, Ended
<1>3. QED
  BY <1>1, <1>2, FailedAttempt

LEMMA AnswersInductive == Inductive /\ Answers => Inductive'
<1> SUFFICES ASSUME Inductive, Answers PROVE Inductive'
  OBVIOUS
<1> DEFINE model == IF pc = "request" THEN "configured" ELSE "second"
           q == [model |-> model, how |-> "answered"]
<1>1. q \in Requests
  BY DEF Requests
<1>2. /\ requests \in Seq(Requests) /\ requests' = Append(requests, q)
      /\ pc \in {"request", "secondModel"} /\ pc' = "resolved" /\ answeredBy' = model
      /\ UNCHANGED <<attempt, max_retries, hasApiKey, mockOnError, fallbackModel>>
  BY DEF Inductive, TypeOK, Requests, Answers, Ended, config
<1>3. /\ requests' \in Seq(Requests)
      /\ Len(requests') = Len(requests) + 1
      /\ \A i \in 1..Len(requests) : requests'[i] = requests[i]
      /\ requests'[Len(requests) + 1] = q
  BY <1>1, <1>2, Posted
<1>4. attempt <= max_retries /\ \A i \in 1..Len(requests) : Failed(i)
  BY <1>2 DEF Inductive, TaskInvariant, UnderWay
<1>5. TypeOK'
  BY <1>2, <1>3 DEF Inductive, TypeOK, Stages, Requests
<1>6. MockOnlyAsConfigured'
  BY <1>2 DEF MockOnlyAsConfigured
<1>7. RequestsAreBounded'
  <2>1. Cardinality(ToConfigured') <= max_retries' + 1
    BY <1>1, <1>2, <1>4, PostedCount DEF Inductive, TypeOK, TaskInvariant
  <2>2. ASSUME NEW i \in 1..Len(requests')
        PROVE  /\ requests'[i].model = "second" =>
                    /\ fallbackModel' /\ i > 1
                    /\ requests'[i - 1] = [model |-> "configured", how |-> "503"]
               /\ ~Failed(i)' => i = Len(requests') /\ answeredBy' = requests'[i].model
    <3>1. CASE i \in 1..Len(requests)
      BY <1>2, <1>3, <1>4, <3>1 DEF Inductive, RequestsAreBounded, Failed
    <3>2. CASE i = Len(requests) + 1
      BY <1>2, <1>3, <3>2 DEF Inductive, TaskInvariant
    <3>3. QED
      BY <1>2, <1>3, <3>1, <3>2
  <2>3. QED
    BY <2>1, <2>2 DEF RequestsAreBounded
<1>8. TaskInvariant'
  BY <1>2 DEF TaskInvariant, UnderWay
<1>9. QED
  BY <1>5, <1>6, <1>7, <1>8 DEF Inductive

LEMMA NextInductive == Inductive /\ [Next]_vars => Inductive'
<1> SUFFICES ASSUME Inductive, [Next]_vars PROVE Inductive'
  OBVIOUS
<1>1. CASE Call
  BY <1>1, CallInductive
<1>2. ASSUME NEW how \in Failures, RequestFails(how) \/ SecondModelFails(how) PROVE Inductive'
  BY <1>2, RequestFailsInductive, SecondModelFailsInductive
<1>3. CASE Answers
  BY <1>3, AnswersInductive
<1>4. CASE WakeUp
  BY <1>4, WakeUpInductive
<1>5. CASE UNCHANGED vars
  <2>1. ToConfigured' = ToConfigured
    BY <1>5 DEF vars, ToConfigured
  <2>2. QED
    BY <1>5, <2>1 DEF vars, config, Inductive, TypeOK, MockOnlyAsConfigured,
                      RequestsAreBounded, TaskInvariant, UnderWay, Failed
<1>6. QED
  BY <1>1, <1>2, <1>3, <1>4, <1>5 DEF Next

LEMMA AlwaysInductive == Spec => []Inductive
<1>1. Init => Inductive
  BY InitInductive
<1>2. Inductive /\ [Next]_vars => Inductive'
  BY NextInductive
<1>3. QED
  BY <1>1, <1>2, PTL DEF Spec
------------------------------------------------------------------------------
(* The state of a task keeps its types; in particular the count of failed  *)
(* attempts (executeWithRetries) never passes max_retries + 1.             *)
THEOREM TypesHold == Spec => []TypeOK
<1>1. Inductive => TypeOK
  BY DEF Inductive
<1>2. QED
  BY <1>1, AlwaysInductive, PTL

(* Whatever max_retries is, the mock engine answers for a provider with a  *)
(* key only if mockOnError says so and every attempt failed, and a task    *)
(* throws only after all its attempts.                                     *)
THEOREM MockIsConfigured == Spec => []MockOnlyAsConfigured
<1>1. Inductive => MockOnlyAsConfigured
  BY DEF Inductive
<1>2. QED
  BY <1>1, AlwaysInductive, PTL

(* Whatever max_retries is, a task posts at most max_retries + 1 requests  *)
(* to the configured model, to the second model only right after a 503,    *)
(* and nothing after an answer.                                            *)
THEOREM CostIsBounded == Spec => []RequestsAreBounded
<1>1. Inductive => RequestsAreBounded
  BY DEF Inductive
<1>2. QED
  BY <1>1, AlwaysInductive, PTL
==============================================================================
