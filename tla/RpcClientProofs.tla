-------------------------- MODULE RpcClientProofs ---------------------------
(***************************************************************************)
(* Proofs about RequestDedup and RpcClient for any number of callers,      *)
(* tokens, delays and ticks.                                               *)
(*                                                                         *)
(* None of the three invariants of RequestDedup is inductive by itself:    *)
(* OneRequest needs to know that the request in flight is the one in the   *)
(* map, AnswerIsCurrent that a pending request is not answered yet, and    *)
(* both that every request in flight has exactly one caller at work on it. *)
(*                                                                         *)
(* Forgetting the bucket and the retries of the client leaves a behaviour  *)
(* of RequestDedup, so what holds of that holds of the client too; the     *)
(* bucket bounds every burst; and a failure is reported only after the     *)
(* last retry, to everyone who shares the request.                         *)
(***************************************************************************)
EXTENDS RpcClient, TLAPS

-----------------------------------------------------------------------------
(* Request deduplication by itself. *)

AtWork(c) == pc[c] \in {"request", "remove"}

\* Every request in flight has exactly one caller at work on it, and the one in
\* the map is in flight.
OwnerInv ==
    /\ \A r \in InFlight : \E c \in Callers : AtWork(c) /\ chan[c] = r
    /\ \A c \in Callers : AtWork(c) => chan[c] \in InFlight
    /\ \A c, d \in Callers : AtWork(c) /\ AtWork(d) /\ chan[c] = chan[d] => c = d
    /\ entry # None => entry \in InFlight

\* Before anything is old the only request in flight is the one in the map.
YoungInv ==
    old = {} => /\ \A c \in Callers : pc[c] # "evict"
                /\ \A r \in InFlight : r = entry

\* Where an answer can be, and that it is no older than the call.
AnswerInv ==
    \A c \in Callers :
        /\ stale[c] \subseteq answered
        /\ pc[c] = "request" => chan[c] \notin answered
        /\ pc[c] = "remove" => chan[c] \in answered
        /\ AtWork(c) => chan[c] \notin stale[c]
        /\ pc[c] \in {"loop", "evict"} => c \notin inbox
        /\ pc[c] = "wait" /\ c \in inbox => chan[c] \in answered /\ chan[c] \notin stale[c]
        /\ pc[c] = "returned" => chan[c] \in answered /\ chan[c] \notin stale[c]

IInv == TypeOK /\ OwnerInv /\ YoungInv /\ AnswerInv

\* Every step keeps the types.
LEMMA TypeStep == IInv /\ [Next]_vars => TypeOK'
<1> SUFFICES ASSUME IInv, [Next]_vars
             PROVE  TypeOK'
  OBVIOUS
<1> USE DedupAssumption DEF IInv, TypeOK, Requests, None
<1>1. ASSUME NEW c \in Callers, Call(c)
      PROVE  TypeOK'
  BY <1>1 DEF Call
<1>2. ASSUME NEW c \in Callers, Start(c)
      PROVE  TypeOK'
  <2>1. sent' = sent + 1 /\ 1 .. sent \subseteq 1 .. sent' /\ sent' \in 1 .. sent'
    BY <1>2 DEF Start
  <2>2. QED
    BY <1>2, <2>1 DEF Start
<1>3. ASSUME NEW c \in Callers, Subscribe(c) \/ SeeOld(c) \/ Evict(c)
      PROVE  TypeOK'
  BY <1>3 DEF Subscribe, SeeOld, Evict
<1>4. ASSUME NEW c \in Callers, Answer(c)
      PROVE  TypeOK'
  <2>1. chan[c] \in 1 .. sent
    BY <1>4 DEF Answer, OwnerInv, AtWork, InFlight
  <2>2. QED
    BY <1>4, <2>1 DEF Answer
<1>5. ASSUME NEW c \in Callers, Remove(c)
      PROVE  TypeOK'
  <2>1. chan[c] \in answered
    BY <1>5 DEF Remove, AnswerInv
  <2>2. QED
    BY <1>5, <2>1 DEF Remove
<1>6. ASSUME NEW c \in Callers, Receive(c) \/ ChannelClosed(c)
      PROVE  TypeOK'
  BY <1>6 DEF Receive, ChannelClosed
<1>7. ASSUME NEW rs \in SUBSET Requests, Age(rs)
      PROVE  TypeOK'
  BY <1>7 DEF Age
<1>8. CASE UNCHANGED vars
  BY <1>8 DEF vars
<1>9. QED
  BY <1>1, <1>2, <1>3, <1>4, <1>5, <1>6, <1>7, <1>8 DEF Next, Step

\* Every step keeps each request in the hands of one caller.
LEMMA OwnerStep == IInv /\ [Next]_vars => OwnerInv'
<1> SUFFICES ASSUME IInv, [Next]_vars
             PROVE  OwnerInv'
  OBVIOUS
<1> USE DedupAssumption DEF IInv, TypeOK, Requests, InFlight, None, AtWork, OwnerInv
<1>1. ASSUME NEW c \in Callers, Call(c)
      PROVE  OwnerInv'
  BY <1>1 DEF Call
<1>2. ASSUME NEW c \in Callers, Start(c)
      PROVE  OwnerInv'
  <2>1. /\ sent' = sent + 1 /\ entry' = sent' /\ closed' = closed
        /\ pc'[c] = "request" /\ chan'[c] = sent' /\ pc[c] = "loop"
        /\ \A d \in Callers : d # c => pc'[d] = pc[d] /\ chan'[d] = chan[d]
    BY <1>2 DEF Start
  <2>2. /\ \A r : r \in 1 .. sent' <=> r \in 1 .. sent \/ r = sent'
        /\ sent' \notin 1 .. sent /\ sent' \notin closed
    BY <2>1
  <2>3. QED
    BY <2>1, <2>2
<1>3. ASSUME NEW c \in Callers, Subscribe(c) \/ SeeOld(c) \/ Evict(c)
      PROVE  OwnerInv'
  BY <1>3 DEF Subscribe, SeeOld, Evict
<1>4. ASSUME NEW c \in Callers, Answer(c)
      PROVE  OwnerInv'
  BY <1>4 DEF Answer
<1>5. ASSUME NEW c \in Callers, Remove(c)
      PROVE  OwnerInv'
  BY <1>5 DEF Remove
<1>6. ASSUME NEW c \in Callers, Receive(c) \/ ChannelClosed(c)
      PROVE  OwnerInv'
  BY <1>6 DEF Receive, ChannelClosed
<1>7. ASSUME NEW rs \in SUBSET Requests, Age(rs)
      PROVE  OwnerInv'
  BY <1>7 DEF Age
<1>8. CASE UNCHANGED vars
  BY <1>8 DEF vars
<1>9. QED
  BY <1>1, <1>2, <1>3, <1>4, <1>5, <1>6, <1>7, <1>8 DEF Next, Step

\* Every step keeps YoungInv: without an old request nobody evicts, so a new
\* request is sent only when the previous one is closed.
LEMMA YoungStep == IInv /\ [Next]_vars => YoungInv'
<1> SUFFICES ASSUME IInv, [Next]_vars
             PROVE  YoungInv'
  OBVIOUS
<1> USE DedupAssumption DEF IInv, TypeOK, Requests, InFlight, None, YoungInv
<1>1. ASSUME NEW c \in Callers, Call(c)
      PROVE  YoungInv'
  BY <1>1 DEF Call
<1>2. ASSUME NEW c \in Callers, Start(c)
      PROVE  YoungInv'
  <2>1. old = {} => InFlight = {}
    BY <1>2 DEF Start
  <2>2. old' = old /\ closed' = closed /\ entry' = sent + 1 /\ sent' = sent + 1
    BY <1>2 DEF Start
  <2>3. \A r : r \in 1 .. sent' => r \in 1 .. sent \/ r = sent'
    BY <2>2
  <2>4. \A d \in Callers : pc[d] # "evict" => pc'[d] # "evict"
    BY <1>2 DEF Start
  <2>5. QED
    BY <2>1, <2>2, <2>3, <2>4
<1>3. ASSUME NEW c \in Callers, Subscribe(c) \/ SeeOld(c) \/ Evict(c)
      PROVE  YoungInv'
  BY <1>3 DEF Subscribe, SeeOld, Evict
<1>4. ASSUME NEW c \in Callers, Answer(c)
      PROVE  YoungInv'
  BY <1>4 DEF Answer
<1>5. ASSUME NEW c \in Callers, Remove(c)
      PROVE  YoungInv'
  <2>1. chan[c] \in InFlight
    BY <1>5 DEF Remove, OwnerInv, AtWork
  <2>2. QED
    BY <1>5, <2>1 DEF Remove
<1>6. ASSUME NEW c \in Callers, Receive(c) \/ ChannelClosed(c)
      PROVE  YoungInv'
  BY <1>6 DEF Receive, ChannelClosed
<1>7. ASSUME NEW rs \in SUBSET Requests, Age(rs)
      PROVE  YoungInv'
  BY <1>7 DEF Age
<1>8. CASE UNCHANGED vars
  BY <1>8 DEF vars
<1>9. QED
  BY <1>1, <1>2, <1>3, <1>4, <1>5, <1>6, <1>7, <1>8 DEF Next, Step

\* Every step keeps AnswerInv.
LEMMA AnswerStep == IInv /\ [Next]_vars => AnswerInv'
<1> SUFFICES ASSUME IInv, [Next]_vars
             PROVE  AnswerInv'
  OBVIOUS
<1> USE DedupAssumption DEF IInv, TypeOK, Requests, None, AtWork, AnswerInv
<1>1. ASSUME NEW c \in Callers, Call(c)
      PROVE  AnswerInv'
  BY <1>1 DEF Call
<1>2. ASSUME NEW c \in Callers, Start(c)
      PROVE  AnswerInv'
  <2>1. sent + 1 \notin answered
    OBVIOUS
  <2>2. QED
    BY <1>2, <2>1 DEF Start
<1>3. ASSUME NEW c \in Callers, Subscribe(c) \/ SeeOld(c) \/ Evict(c)
      PROVE  AnswerInv'
  BY <1>3 DEF Subscribe, SeeOld, Evict
<1>4. ASSUME NEW c \in Callers, Answer(c)
      PROVE  AnswerInv'
  <2>1. \A d \in Callers : pc[d] = "request" /\ d # c => chan[d] # chan[c]
    BY <1>4 DEF Answer, OwnerInv
  <2>2. QED
    BY <1>4, <2>1 DEF Answer
<1>5. ASSUME NEW c \in Callers, Remove(c)
      PROVE  AnswerInv'
  BY <1>5 DEF Remove
<1>6. ASSUME NEW c \in Callers, Receive(c) \/ ChannelClosed(c)
      PROVE  AnswerInv'
  BY <1>6 DEF Receive, ChannelClosed
<1>7. ASSUME NEW rs \in SUBSET Requests, Age(rs)
      PROVE  AnswerInv'
  BY <1>7 DEF Age
<1>8. CASE UNCHANGED vars
  BY <1>8 DEF vars
<1>9. QED
  BY <1>1, <1>2, <1>3, <1>4, <1>5, <1>6, <1>7, <1>8 DEF Next, Step

\* The invariant holds in every reachable state.
LEMMA Invariance == Spec => []IInv
<1>1. Init => IInv
  BY DedupAssumption
     DEF Init, IInv, TypeOK, OwnerInv, YoungInv, AnswerInv, Requests, InFlight, AtWork, None
<1>2. IInv /\ [Next]_vars => IInv'
  BY TypeStep, OwnerStep, YoungStep, AnswerStep DEF IInv
<1>3. QED
  BY <1>1, <1>2, PTL DEF Spec

\* For any number of callers, at most one request per key is in flight as long
\* as none has been in flight for 30 seconds.
THEOREM OneRequestInFlight == Spec => []OneRequest
<1>1. IInv => OneRequest
  BY DEF IInv, YoungInv, OneRequest
<1>2. QED
  BY <1>1, Invariance, PTL

\* For any number of callers and however requests age and are evicted, a call
\* returns an answer that was given after the call began.
THEOREM AnswersAreCurrent == Spec => []AnswerIsCurrent
<1>1. IInv => AnswerIsCurrent
  BY DEF IInv, AnswerInv, AnswerIsCurrent
<1>2. QED
  BY <1>1, Invariance, PTL

\* Whoever removes whose entry, the map never holds a request nobody works on.
THEOREM EntriesAreAlive == Spec => []EntryIsAlive
<1>1. IInv => EntryIsAlive
  BY DEF IInv, OwnerInv, AtWork, EntryIsAlive
<1>2. QED
  BY <1>1, Invariance, PTL

-----------------------------------------------------------------------------
(* The client implements RequestDedup. *)

\* Every step of the client is a step of RequestDedup or leaves it alone.
LEMMA ClientStepIsDedupStep == [ClientNext]_clientVars => [Next]_vars
<1> SUFFICES ASSUME [ClientNext]_clientVars
             PROVE  [Next]_vars
  OBVIOUS
<1>1. ASSUME NEW c \in Callers, CallDeduplicated(c)
      PROVE  [Next]_vars
  BY <1>1 DEF CallDeduplicated, Next
<1>2. ASSUME NEW c \in Callers, StartRequest(c) \/ AnswerDone(c) \/ Wait(c)
      PROVE  [Next]_vars
  <2>1. Step(c)
    BY <1>2 DEF StartRequest, AnswerDone, Wait, Step
  <2>2. QED
    BY <2>1 DEF Next
<1>3. ASSUME NEW c \in All, RequestStep(c)
      PROVE  [Next]_vars
  BY <1>3 DEF RequestStep, Acquire, Respond, Retry
<1>4. ASSUME NEW d \in Direct, NEW m \in DOMAIN Methods, CallDirectly(d, m)
      PROVE  [Next]_vars
  BY <1>4 DEF CallDirectly
<1>5. ASSUME NEW d \in Direct, ReturnDirectly(d)
      PROVE  [Next]_vars
  BY <1>5 DEF ReturnDirectly
<1>6. CASE Tick
  <2>1. PICK rs \in SUBSET Requests : Age(rs)
    BY <1>6 DEF Tick
  <2>2. QED
    BY <2>1 DEF Next
<1>7. CASE UNCHANGED clientVars
  BY <1>7 DEF clientVars
<1>8. QED
  BY <1>1, <1>2, <1>3, <1>4, <1>5, <1>6, <1>7 DEF ClientNext, ClientStep, DirectStep, All

\* Every behaviour of the client is one of RequestDedup, because each of its
\* actions is an action of RequestDedup or leaves the map alone (client.rs
\* calls dedup around acquire and with_retry).  What is proved of RequestDedup
\* therefore holds of the client.
LEMMA ClientIsDedup == ClientSpec => Spec
<1>1. ClientInit => Init
  BY DEF ClientInit
<1>2. QED
  BY <1>1, ClientStepIsDedupStep, PTL DEF ClientSpec, Spec

\* So the client sends one request per key as long as none is 30 seconds old,
\* returns nothing that was answered before the call, and leaves no entry in
\* the map that nobody works on.
THEOREM ClientDeduplicates == ClientSpec => [](OneRequest /\ AnswerIsCurrent /\ EntryIsAlive)
BY ClientIsDedup, OneRequestInFlight, AnswersAreCurrent, EntriesAreAlive, PTL

-----------------------------------------------------------------------------
(* The bucket. *)

\* What is left in the bucket and what an interval that ends now has taken
\* beyond its length fit into the bucket together.
BucketInv ==
    /\ tokens \in Nat
    /\ load \in Nat
    /\ tokens + load <= MaxTokens

\* In no interval of n ticks do more than MaxTokens + n requests pass the
\* bucket, for any number of callers (rate_limiter.rs, acquire and refill).
THEOREM ClientRateHolds == ClientSpec => []RateHolds
<1>1. ClientInit => BucketInv
  BY ClientAssumption DEF ClientInit, BucketInv
<1>2. BucketInv /\ [ClientNext]_clientVars => BucketInv'
  <2> SUFFICES ASSUME BucketInv, [ClientNext]_clientVars
               PROVE  BucketInv'
    OBVIOUS
  <2> USE ClientAssumption DEF BucketInv
  <2>1. ASSUME NEW c \in All, Acquire(c)
        PROVE  BucketInv'
    BY <2>1 DEF Acquire
  <2>2. CASE Tick
    <3>1. tokens' = Refill /\ load' = IF load = 0 THEN 0 ELSE load - 1
      BY <2>2 DEF Tick
    <3>2. QED
      BY <3>1 DEF Refill
  <2>3. CASE UNCHANGED bucket
    BY <2>3 DEF bucket
  <2>4. ASSUME NEW c \in All, RequestStep(c)
        PROVE  Acquire(c) \/ UNCHANGED bucket
    BY <2>4 DEF RequestStep, Respond, Retry
  <2>5. ASSUME NEW c \in Callers,
               CallDeduplicated(c) \/ StartRequest(c) \/ AnswerDone(c) \/ Wait(c)
        PROVE  UNCHANGED bucket
    BY <2>5 DEF CallDeduplicated, StartRequest, AnswerDone, Wait
  <2>6. ASSUME NEW d \in Direct, NEW m \in DOMAIN Methods,
               CallDirectly(d, m) \/ ReturnDirectly(d)
        PROVE  UNCHANGED bucket
    BY <2>6 DEF CallDirectly, ReturnDirectly
  <2>7. \E m \in DOMAIN Methods : TRUE
    BY MethodAssumption
  <2>8. UNCHANGED clientVars => UNCHANGED bucket
    BY DEF clientVars
  <2>9. QED
    BY <2>1, <2>2, <2>3, <2>4, <2>5, <2>6, <2>7, <2>8
       DEF ClientNext, ClientStep, DirectStep, All
<1>3. BucketInv => RateHolds
  BY ClientAssumption DEF BucketInv, RateHolds
<1>4. QED
  BY <1>1, <1>2, <1>3, PTL DEF ClientSpec

-----------------------------------------------------------------------------
(* The retries. *)

\* What a caller may be told.
Final(m) == (Outcomes(m) \ {"Transport"}) \cup {"MaxRetriesExceeded"}

\* Why a failure is reported only after the last retry, and to everyone: an
\* ended request has a final result, those who received it have the same, and
\* a request that sleeps has a retry left.
RetryInv ==
    /\ method \in [All -> DOMAIN Methods]
    /\ stage \in [All -> {"none", "acquire", "attempt", "sleep", "done"}]
    /\ attempt \in [All -> Nat]
    /\ result \in [All -> {"none", "Ok", "Decode", "MaxRetriesExceeded"}]
    /\ \A c \in Callers : method[c] = Method
    /\ \A c \in Callers : stage[c] # "none" => pc[c] = "request"
    /\ \A c \in All :
          /\ attempt[c] <= MaxAttempts
          /\ stage[c] = "sleep" => attempt[c] < MaxAttempts
          /\ stage[c] = "done" => result[c] \in Final(method[c])
          /\ stage[c] = "done" /\ result[c] = "MaxRetriesExceeded" => attempt[c] = MaxAttempts
    /\ \A c \in Callers :
          pc[c] \in {"remove", "returned"} \/ c \in inbox => result[c] \in Final(Method)

\* An attempt may be the last one, and every method may fail.
LEMMA RetryFacts ==
    /\ MaxAttempts \in Nat /\ MaxAttempts >= 1
    /\ Method \in DOMAIN Methods
    /\ \A m : Final(m) \subseteq {"Ok", "Decode", "MaxRetriesExceeded"}
    /\ \A m : "MaxRetriesExceeded" \in Final(m)
    /\ \A m : \A o \in Outcomes(m) : ~is_retryable(o) => o \in Final(m) /\ o # "MaxRetriesExceeded"
BY ClientAssumption, MethodAssumption DEF MaxAttempts, Final, Outcomes, is_retryable

\* Every step keeps RetryInv.
LEMMA RetryStep == RetryInv /\ TypeOK /\ [ClientNext]_clientVars => RetryInv'
<1> SUFFICES ASSUME RetryInv, TypeOK, [ClientNext]_clientVars
             PROVE  RetryInv'
  OBVIOUS
<1> USE RetryFacts DEF RetryInv
<1>1. ASSUME NEW c \in Callers, CallDeduplicated(c)
      PROVE  RetryInv'
  BY <1>1 DEF CallDeduplicated, Call, TypeOK, All
<1>2. ASSUME NEW c \in Callers, StartRequest(c)
      PROVE  RetryInv'
  BY <1>2 DEF StartRequest, Start, TypeOK, All
<1>3. ASSUME NEW c \in Callers, AnswerDone(c)
      PROVE  RetryInv'
  <2>1. /\ stage[c] = "done" /\ stage' = [stage EXCEPT ![c] = "none"]
        /\ attempt' = [attempt EXCEPT ![c] = 0]
        /\ method' = method
        /\ inbox \subseteq inbox' /\ inbox' \subseteq Callers
        /\ pc' = [pc EXCEPT ![c] = "remove"]
        /\ result' = [d \in All |-> IF d \in inbox' \ inbox THEN result[c] ELSE result[d]]
    BY <1>3 DEF AnswerDone, Answer, TypeOK
  <2>2. result[c] \in Final(Method)
    BY <2>1 DEF All
  <2>3. ASSUME NEW d \in Callers, pc'[d] \in {"remove", "returned"} \/ d \in inbox'
        PROVE  result'[d] \in Final(Method)
    BY <2>1, <2>2, <2>3 DEF TypeOK, All
  <2>4. ASSUME NEW d \in All, stage'[d] = "done"
        PROVE  /\ result'[d] \in Final(method'[d])
               /\ result'[d] = "MaxRetriesExceeded" => attempt'[d] = MaxAttempts
    <3>1. stage[d] = "done" /\ d # c /\ attempt'[d] = attempt[d] /\ method'[d] = method[d]
      BY <2>1, <2>4
    <3>2. d \notin inbox' \ inbox
      BY <1>3, <3>1 DEF AnswerDone, Answer
    <3>3. QED
      BY <2>1, <3>1, <3>2
  <2>5. /\ stage' \in [All -> {"none", "acquire", "attempt", "sleep", "done"}]
        /\ attempt' \in [All -> Nat]
        /\ result' \in [All -> {"none", "Ok", "Decode", "MaxRetriesExceeded"}]
    BY <2>1 DEF All
  <2>6. ASSUME NEW d \in All
        PROVE  attempt'[d] <= MaxAttempts /\ (stage'[d] = "sleep" => attempt'[d] < MaxAttempts)
    BY <2>1
  <2>7. ASSUME NEW d \in Callers, stage'[d] # "none"
        PROVE  pc'[d] = "request"
    BY <2>1, <2>7 DEF TypeOK, All
  <2>8. QED
    BY <2>1, <2>3, <2>4, <2>5, <2>6, <2>7
<1>4. ASSUME NEW c \in Callers, Wait(c)
      PROVE  RetryInv'
  <2>1. /\ method' = method /\ stage' = stage /\ attempt' = attempt /\ result' = result
        /\ inbox' = inbox
        /\ pc[c] # "request"
        /\ \/ pc' = [pc EXCEPT ![c] = "returned"] /\ (pc[c] = "remove" \/ c \in inbox)
           \/ \E s \in {"wait", "evict", "loop"} : pc' = [pc EXCEPT ![c] = s]
    BY <1>4 DEF Wait, requests, Subscribe, SeeOld, Evict, Remove, Receive, ChannelClosed
  <2>2. QED
    BY <2>1 DEF TypeOK
<1>5. ASSUME NEW c \in All, Acquire(c)
      PROVE  RetryInv'
  BY <1>5 DEF Acquire, vars
<1>6. ASSUME NEW c \in All, NEW outcome \in Outcomes(method[c]), Respond(c, outcome)
      PROVE  RetryInv'
  <2>1. CASE is_retryable(outcome) /\ ~LastAttempt(c)
    <3>1. /\ stage[c] = "attempt" /\ stage' = [stage EXCEPT ![c] = "sleep"]
          /\ result' = result /\ method' = method /\ attempt' = attempt
          /\ pc' = pc /\ inbox' = inbox
      BY <1>6, <2>1 DEF Respond, vars
    <3>2. attempt[c] < MaxAttempts
      BY <2>1 DEF LastAttempt
    <3>3. QED
      BY <3>1, <3>2 DEF All
  <2>2. CASE ~(is_retryable(outcome) /\ ~LastAttempt(c))
    <3> DEFINE res == IF is_retryable(outcome) THEN "MaxRetriesExceeded" ELSE outcome
    <3>1. /\ stage' = [stage EXCEPT ![c] = "done"]
          /\ result' = [result EXCEPT ![c] = res]
          /\ method' = method /\ attempt' = attempt /\ pc' = pc /\ inbox' = inbox
          /\ stage[c] = "attempt"
      BY <1>6, <2>2 DEF Respond, vars
    <3>2. res \in Final(method[c]) /\ res \in {"none", "Ok", "Decode", "MaxRetriesExceeded"}
      OBVIOUS
    <3>3. res = "MaxRetriesExceeded" => attempt[c] = MaxAttempts
      BY <2>2 DEF LastAttempt
    <3>4. c \in Callers => Final(method[c]) = Final(Method)
      OBVIOUS
    <3> HIDE DEF res
    <3>5. QED
      BY <3>1, <3>2, <3>3, <3>4 DEF All
  <2>3. QED
    BY <2>1, <2>2
<1>7. ASSUME NEW c \in All, Retry(c)
      PROVE  RetryInv'
  BY <1>7 DEF Retry, vars
<1>8. ASSUME NEW d \in Direct, NEW m \in DOMAIN Methods, CallDirectly(d, m)
      PROVE  RetryInv'
  BY <1>8, ClientAssumption DEF CallDirectly, vars, All
<1>9. ASSUME NEW d \in Direct, ReturnDirectly(d)
      PROVE  RetryInv'
  BY <1>9, ClientAssumption DEF ReturnDirectly, vars, All
<1>10. CASE Tick
  BY <1>10 DEF Tick, Age
<1>11. CASE UNCHANGED clientVars
  BY <1>11 DEF clientVars, vars, requests
<1>12. QED
  BY <1>1, <1>2, <1>3, <1>4, <1>5, <1>6, <1>7, <1>8, <1>9, <1>10, <1>11
     DEF ClientNext, ClientStep, DirectStep, RequestStep, All

\* For any delays, a transport error is retried once per delay and no caller is
\* told of it before (retry.rs:39, with_retry).
THEOREM ClientRetriesAreExhausted == ClientSpec => []RetriesAreExhausted
<1>1. ClientInit => RetryInv
  BY RetryFacts DEF ClientInit, Init, RetryInv, All
<1>2. ClientSpec => []IInv
  BY ClientIsDedup, Invariance, PTL
<1>3. IInv => TypeOK
  BY DEF IInv
<1>4. RetryInv => RetriesAreExhausted
  BY DEF RetryInv, RetriesAreExhausted, Final, All
<1>5. QED
  BY <1>1, <1>2, <1>3, <1>4, RetryStep, PTL DEF ClientSpec
=============================================================================
