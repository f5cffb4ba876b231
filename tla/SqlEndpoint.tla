---------------------------- MODULE SqlEndpoint ----------------------------
(***************************************************************************)
(* POST /sql: the authorisation, the token bucket of SqlRateLimiter, the   *)
(* validation and the execution, in the order of sql_handler.  Time is     *)
(* counted in units of 1/max_rps second, in which one token is earned, so  *)
(* that tokens are whole: the fractions of the f64 are left out.           *)
(* The server is built without connect info, so every client is counted    *)
(* under one address.                                                      *)
(***************************************************************************)
EXTENDS Integers, Sequences

CONSTANTS MaxRps, MaxTicks

ASSUME EndpointAssumption == MaxRps \in Nat \ {0} /\ MaxTicks \in Nat

VARIABLES
  clock,
  bucket,      \* [tokens, last]: last_refill is the time of the last request
  served,      \* history: the requests let through up to each unit of time
  answer       \* the last status

sqlVars == <<clock, bucket, served, answer>>

SqlInit ==
  /\ clock = 1
  /\ bucket = [tokens |-> MaxRps, last |-> 1]
  /\ served = <<0>>
  /\ answer = 0

(* Mutant: what an idle time earns is not cut off at max_tokens.           *)
RefilledUncapped == bucket.tokens + (clock - bucket.last)

Refilled ==
  LET n == bucket.tokens + (clock - bucket.last) IN IF n < MaxRps THEN n ELSE MaxRps

(* A request without the key in production is refused before it is         *)
(* counted.                                                                *)
Unauthorised ==
  /\ answer' = 401
  /\ UNCHANGED <<clock, bucket, served>>

RateLimited ==
  /\ Refilled = 0
  /\ bucket' = [tokens |-> 0, last |-> clock]
  /\ answer' = 429
  /\ UNCHANGED <<clock, served>>

(* What comes of executing a query in a transaction that is rolled back:   *)
(* its rows, the statement_timeout, or another error of the database.      *)
Executed == {200, 408, 500}
Refused == 400

(* A query that is refused, runs into statement_timeout or fails has used  *)
(* its token as well.                                                      *)
Answered(status) ==
  /\ Refilled > 0
  /\ bucket' = [tokens |-> Refilled - 1, last |-> clock]
  /\ served' = [served EXCEPT ![clock] = @ + 1]
  /\ answer' = status
  /\ UNCHANGED clock

SqlTick ==
  /\ clock < MaxTicks
  /\ clock' = clock + 1
  /\ served' = Append(served, served[clock])
  /\ UNCHANGED <<bucket, answer>>

SqlNext ==
  \/ Unauthorised \/ RateLimited \/ SqlTick
  \/ \E status \in Executed \cup {Refused} : Answered(status)

SqlSpec == SqlInit /\ [][SqlNext]_sqlVars

----------------------------------------------------------------------------
(* What was let through before unit i.                                     *)
ServedBefore(i) == IF i = 1 THEN 0 ELSE served[i - 1]

(* sql.rs:163: between any two moments the endpoint lets through no more   *)
(* than a full bucket and what is earned between them, after however long  *)
(* an idle time and in whatever order requests and ticks come.             *)
BurstsBounded ==
  \A i, j \in 1 .. Len(served) :
    i <= j => served[j] - ServedBefore(i) <= MaxRps + (j - i)
============================================================================
