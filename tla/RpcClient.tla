----------------------------- MODULE RpcClient ------------------------------
(***************************************************************************)
(* RpcClient of forge-index-rpc (client.rs): what a call does between      *)
(* entering the in_flight map of RequestDedup and answering, which is one  *)
(* step there: it takes a token of the chain's bucket (rate_limiter.rs),   *)
(* sends the request and, on an error that is_retryable, sleeps and sends  *)
(* it again (retry.rs).  Callers of methods that are not deduplicated      *)
(* compete for the same bucket.                                            *)
(*                                                                         *)
(* A tick is the time in which the bucket gains one token.  Delays and the *)
(* dedup timeout are counted in ticks, downwards and upwards, so that time *)
(* needs no bound.  An attempt takes any number of ticks: the provider has *)
(* no timeout.                                                             *)
(***************************************************************************)
EXTENDS RequestDedup, Sequences

CONSTANTS
    Direct,        \* callers of methods that are not deduplicated
    MaxDirect,     \* bound: their calls
    Method,        \* the method of the key that RequestDedup follows
    MaxTokens,     \* max_rpc_requests_per_second
    Delays,        \* what with_retry sleeps before its retries
    DedupTimeout   \* DEDUP_TIMEOUT

ASSUME ClientAssumption ==
    /\ IsFiniteSet(Direct) /\ Direct \cap Callers = {}
    /\ MaxDirect \in Nat
    /\ MaxTokens \in Nat \ {0}
    /\ Delays \in Seq(Nat)
    /\ DedupTimeout \in Nat

\* The methods: whether calls of it are deduplicated, and whether the node may
\* have nothing to return, which is reported as a decode error.
get_logs                == [dedup |-> TRUE,  optional |-> FALSE]
get_block_by_number     == [dedup |-> TRUE,  optional |-> TRUE]
get_block_by_hash       == [dedup |-> TRUE,  optional |-> TRUE]
get_transaction         == [dedup |-> TRUE,  optional |-> TRUE]
get_transaction_receipt == [dedup |-> FALSE, optional |-> TRUE]
get_block_number        == [dedup |-> FALSE, optional |-> FALSE]
eth_call                == [dedup |-> FALSE, optional |-> FALSE]

Methods ==
    [get_logs |-> get_logs, get_block_by_number |-> get_block_by_number,
     get_block_by_hash |-> get_block_by_hash, get_transaction |-> get_transaction,
     get_transaction_receipt |-> get_transaction_receipt,
     get_block_number |-> get_block_number, eth_call |-> eth_call]

All == Callers \cup Direct

ASSUME MethodAssumption == Method \in DOMAIN Methods /\ Methods[Method].dedup

VARIABLES
    directs,       \* number of calls of direct callers
    method,        \* [All -> the method it calls]
    stage,         \* [All -> where its request is]
    attempt,       \* [All -> attempts of with_retry so far]
    left,          \* [All -> ticks it still sleeps]
    result,        \* [All -> how its request ended]
    tokens,        \* tokens of the bucket
    age,           \* [request -> ticks since its entry was inserted]
    load           \* history: see RateHolds

requests == <<directs, method, stage, attempt, left, result>>
bucket == <<tokens, load>>
clientVars == <<vars, requests, bucket, age>>

MaxAttempts == Len(Delays) + 1

ClientInit ==
    /\ Init
    /\ directs = 0
    /\ method = [c \in All |-> Method]
    /\ stage = [c \in All |-> "none"]
    /\ attempt = [c \in All |-> 0]
    /\ left = [c \in All |-> 0]
    /\ result = [c \in All |-> "none"]
    /\ tokens = MaxTokens
    /\ age = [r \in 1 .. MaxCalls |-> 0]
    /\ load = 0

-----------------------------------------------------------------------------
(* Calls. *)

\* A deduplicated call joins RequestDedup; no request is its own yet.
CallDeduplicated(c) ==
    /\ Call(c)
    /\ result' = [result EXCEPT ![c] = "none"]
    /\ UNCHANGED <<directs, method, stage, attempt, left, bucket, age>>

\* It finds the entry vacant and makes the request.
StartRequest(c) ==
    /\ Start(c)
    /\ stage' = [stage EXCEPT ![c] = "acquire"]
    /\ UNCHANGED <<directs, method, attempt, left, result, bucket, age>>

\* Any other call makes its request by itself.
CallDirectly(d, m) ==
    /\ stage[d] = "none"
    /\ ~ Methods[m].dedup
    /\ directs < MaxDirect
    /\ directs' = directs + 1
    /\ method' = [method EXCEPT ![d] = m]
    /\ stage' = [stage EXCEPT ![d] = "acquire"]
    /\ UNCHANGED <<vars, attempt, left, result, bucket, age>>

-----------------------------------------------------------------------------
(* The bucket. *)

\* acquire: a caller that finds no token sleeps and tries again, and another
\* may be faster.
Acquire(c) ==
    /\ stage[c] = "acquire"
    /\ tokens >= 1
    /\ tokens' = tokens - 1
    /\ load' = load + 1
    /\ stage' = [stage EXCEPT ![c] = "attempt"]
    /\ attempt' = [attempt EXCEPT ![c] = 1]
    /\ UNCHANGED <<vars, directs, method, left, result, age>>

\* Mutant: an idle bucket gains tokens without end.
RefillUncapped == IF tokens < MaxTokens + 1 THEN tokens + 1 ELSE tokens

Refill == IF tokens + 1 < MaxTokens THEN tokens + 1 ELSE MaxTokens

-----------------------------------------------------------------------------
(* with_retry. *)

\* A decode error, and the answer that there is nothing, is final.
Outcomes(m) == {"Ok", "Transport"} \cup (IF Methods[m].optional THEN {"Decode"} ELSE {})

is_retryable(outcome) == outcome = "Transport"

\* Mutant: the first attempt is counted among the retries.
LastAttemptEarly(c) == attempt[c] >= MaxAttempts - 1

LastAttempt(c) == attempt[c] >= MaxAttempts

\* An attempt ends.
Respond(c, outcome) ==
    /\ stage[c] = "attempt"
    /\ IF is_retryable(outcome) /\ ~ LastAttempt(c)
         THEN /\ stage' = [stage EXCEPT ![c] = "sleep"]
              /\ left' = [left EXCEPT ![c] = Delays[attempt[c]]]
              /\ UNCHANGED result
         ELSE /\ stage' = [stage EXCEPT ![c] = "done"]
              /\ result' = [result EXCEPT ![c] = IF is_retryable(outcome)
                                                 THEN "MaxRetriesExceeded" ELSE outcome]
              /\ UNCHANGED left
    /\ UNCHANGED <<vars, directs, method, attempt, bucket, age>>

\* The next attempt is made without another token.
Retry(c) ==
    /\ stage[c] = "sleep"
    /\ left[c] = 0
    /\ stage' = [stage EXCEPT ![c] = "attempt"]
    /\ attempt' = [attempt EXCEPT ![c] = @ + 1]
    /\ UNCHANGED <<vars, directs, method, left, result, bucket, age>>

\* The closure of dedup returns and its result is broadcast.
AnswerDone(c) ==
    /\ stage[c] = "done"
    /\ Answer(c)
    /\ stage' = [stage EXCEPT ![c] = "none"]
    /\ attempt' = [attempt EXCEPT ![c] = 0]
    /\ result' = [d \in All |-> IF d \in inbox' \ inbox THEN result[c] ELSE result[d]]
    /\ UNCHANGED <<directs, method, left, bucket, age>>

ReturnDirectly(d) ==
    /\ stage[d] = "done"
    /\ stage' = [stage EXCEPT ![d] = "none"]
    /\ attempt' = [attempt EXCEPT ![d] = 0]
    /\ result' = [result EXCEPT ![d] = "none"]
    /\ method' = [method EXCEPT ![d] = Method]
    /\ UNCHANGED <<vars, directs, left, bucket, age>>

\* The other steps of dedup.
Wait(c) ==
    /\ Subscribe(c) \/ SeeOld(c) \/ Evict(c) \/ Remove(c) \/ Receive(c) \/ ChannelClosed(c)
    /\ UNCHANGED <<requests, bucket, age>>

-----------------------------------------------------------------------------

Tick ==
    /\ tokens' = Refill
    /\ load' = IF load = 0 THEN 0 ELSE load - 1
    /\ left' = [c \in All |-> IF left[c] = 0 THEN 0 ELSE left[c] - 1]
    /\ age' = [r \in DOMAIN age |-> IF r \in Requests \ closed /\ age[r] < DedupTimeout
                                    THEN age[r] + 1 ELSE age[r]]
    /\ Age({r \in Requests \ closed : age'[r] >= DedupTimeout})
    /\ UNCHANGED <<directs, method, stage, attempt, result>>

\* The steps of a request, whoever makes it.
RequestStep(c) ==
    \/ Acquire(c)
    \/ \E outcome \in Outcomes(method[c]) : Respond(c, outcome)
    \/ Retry(c)

ClientStep(c) == RequestStep(c) \/ StartRequest(c) \/ AnswerDone(c) \/ Wait(c)

DirectStep(d) == RequestStep(d) \/ ReturnDirectly(d)

ClientNext ==
    \/ \E c \in Callers : CallDeduplicated(c) \/ ClientStep(c)
    \/ \E d \in Direct, m \in DOMAIN Methods : CallDirectly(d, m)
    \/ \E d \in Direct : DirectStep(d)
    \/ Tick

\* The runtime polls every task that can go on, attempts end and time passes.
ClientSpec ==
    /\ ClientInit
    /\ [][ClientNext]_clientVars
    /\ \A c \in Callers : WF_clientVars(ClientStep(c))
    /\ \A d \in Direct : WF_clientVars(DirectStep(d))
    /\ WF_clientVars(Tick)

-----------------------------------------------------------------------------
(* Properties. *)

\* The rate limit: in no interval of n ticks do more than MaxTokens + n
\* requests pass the bucket, whoever sleeps, wakes and overtakes.  load is the
\* most by which an interval that ends now exceeds its length.  (Retries pass
\* the bucket with their first attempt's token, so they are not counted.)
RateHolds == load <= MaxTokens

\* A transport error never reaches a caller: a request that fails is tried once
\* more per delay and not more often, and only then is MaxRetriesExceeded what
\* its caller and everyone who waited for it get.
RetriesAreExhausted ==
    \A c \in All :
        /\ attempt[c] <= MaxAttempts
        /\ stage[c] = "done" \/ (c \in Callers /\ pc[c] = "returned") =>
               result[c] \in (Outcomes(method[c]) \ {"Transport"}) \cup {"MaxRetriesExceeded"}
        /\ (stage[c] = "done" /\ result[c] = "MaxRetriesExceeded") => attempt[c] = MaxAttempts

\* Every call returns although tokens are contended, requests back off for
\* longer than the dedup timeout, and entries are evicted under their owners.
ClientCallsReturn ==
    /\ \A c \in Callers : pc[c] = "loop" ~> pc[c] = "returned"
    /\ \A d \in Direct : stage[d] = "acquire" ~> stage[d] = "none"
=============================================================================
