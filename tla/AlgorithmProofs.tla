-------------------------- MODULE AlgorithmProofs ---------------------------
(***************************************************************************)
(* What the algorithms of this repository compute, proved for inputs of    *)
(* every size: the planner's loop lists the ranges of module Planner, and  *)
(* they tile the interval; the SQL endpoint bounds bursts for every rate;  *)
(* the pages of an undisturbed listing are complete; an accepted           *)
(* configuration is wired and its tables are created in full; GraphQL      *)
(* names resolve; and a query is sanitised once and for all.               *)
(***************************************************************************)
EXTENDS PlannerLoop, SqlEndpoint, Paging, Configuration, GraphqlSchema,
        SqlValidator, SequenceTheorems, FiniteSetTheorems, TLAPS

LoopType ==
    /\ checkpoint \in Blocks \cup {NoCheckpoint}
    /\ startBlock \in Blocks
    /\ current \in Blocks
    /\ chunk \in Chunks
    /\ pc \in {"entry", "loop", "done"}
    /\ from \in Nat
    /\ ranges \in Seq([from : Nat, to : Nat])

\* The first n ranges of the plan have been listed.
Listed ==
    \A i \in 1 .. Len(ranges) :
        ranges[i] = [from |-> RangeFrom(start, chunk, i - 1),
                     to |-> RangeTo(start, current, chunk, i - 1)]

\* The loop variable is where the next range begins, or just past the end.
AtNextRange ==
    LET next == RangeFrom(start, chunk, Len(ranges))
    IN  from = IF next <= current THEN next ELSE current + 1

LoopInv ==
    /\ LoopType
    /\ Listed
    /\ pc = "entry" => ranges = <<>> /\ total = 0
    /\ pc = "loop" => start <= current /\ AtNextRange
    /\ pc = "done" => MatchesPlanner

\* Arithmetic of one range, stated apart from the loop.
LEMMA RangeArithmetic ==
    ASSUME NEW s \in Nat, NEW cur \in Nat, NEW k \in Nat \ {0}, NEW i \in Nat
    PROVE  /\ RangeFrom(s, k, 0) = s
           /\ RangeFrom(s, k, i) \in Nat
           /\ RangeFrom(s, k, i + 1) = RangeFrom(s, k, i) + k
<1>1. i * k \in Nat /\ (i + 1) * k = i * k + k /\ 0 * k = 0
  OBVIOUS
<1>2. QED
  BY <1>1 DEF RangeFrom

\* Every step of the loop keeps its invariant.
LEMMA LoopInvStep == LoopInv /\ [Next]_vars => LoopInv'
<1> SUFFICES ASSUME LoopInv, [Next]_vars
             PROVE  LoopInv'
  OBVIOUS
<1>0. /\ start \in Nat /\ current \in Nat /\ chunk \in Nat \ {0} /\ Len(ranges) \in Nat
      /\ current + chunk < Modulus /\ Modulus \in Nat
  BY LoopAssumption DEF LoopInv, LoopType, start, PlanFrom
<1>1. CASE ReturnEmpty
  <2>1. RangeFrom(start, chunk, Len(ranges)) = start
    BY <1>0, <1>1, RangeArithmetic DEF LoopInv, ReturnEmpty
  <2>2. MatchesPlanner'
    BY <1>0, <1>1, <2>1
       DEF LoopInv, ReturnEmpty, MatchesPlanner, args, start, HasRange, TotalBlocks
  <2>3. QED
    BY <1>1, <2>2 DEF LoopInv, LoopType, Listed, ReturnEmpty, args, start
<1>2. CASE Enter
  <2>1. RangeFrom(start, chunk, 0) = start
    BY <1>0, RangeArithmetic
  <2>2. QED
    BY <1>0, <1>2, <2>1 DEF LoopInv, LoopType, Listed, AtNextRange, Enter, args, start
<1>3. CASE Iterate
  <2> DEFINE n == Len(ranges)
  <2>1. /\ from = RangeFrom(start, chunk, n)
        /\ RangeFrom(start, chunk, n + 1) = from + chunk
        /\ from <= current
        /\ from \in Nat
    BY <1>0, <1>3, RangeArithmetic DEF LoopInv, LoopType, AtNextRange, Iterate
  <2>2. /\ LastOf(from) = RangeTo(start, current, chunk, n)
        /\ LastOf(from) \in Nat
        /\ from' = LastOf(from) + 1
    BY <1>0, <1>3, <2>1 DEF LastOf, Wrap, RangeTo, Iterate
  <2>3. /\ ranges' \in Seq([from : Nat, to : Nat])
        /\ Len(ranges') = n + 1
        /\ \A i \in 1 .. n : ranges'[i] = ranges[i]
        /\ ranges'[n + 1] = [from |-> from, to |-> LastOf(from)]
    BY <1>3, <2>1, <2>2 DEF LoopInv, LoopType, Iterate
  <2>4. start' = start /\ UNCHANGED args
    BY <1>3 DEF Iterate, args, start
  <2>5. Listed'
    <3> SUFFICES ASSUME NEW i \in 1 .. (n + 1)
                 PROVE  ranges'[i] = [from |-> RangeFrom(start, chunk, i - 1),
                                      to |-> RangeTo(start, current, chunk, i - 1)]
      BY <2>3, <2>4 DEF Listed, args
    <3>1. CASE i \in 1 .. n
      BY <3>1, <2>3 DEF LoopInv, Listed
    <3>2. CASE i = n + 1
      <4>1. i - 1 = n
        BY <1>0, <3>2
      <4>2. QED
        BY <3>2, <4>1, <2>1, <2>2, <2>3
    <3>3. QED
      BY <1>0, <3>1, <3>2
  <2>6. AtNextRange'
    <3>1. from' = IF from + chunk <= current THEN from + chunk ELSE current + 1
      BY <1>0, <2>1, <2>2 DEF LastOf, Wrap
    <3>2. QED
      BY <2>1, <2>3, <2>4, <3>1 DEF AtNextRange, args
  <2>7. LoopType'
    BY <1>3, <2>2, <2>3 DEF LoopInv, LoopType, Iterate, args
  <2>8. pc' = "loop" /\ start' <= current'
    BY <1>3, <2>4 DEF LoopInv, Iterate, args
  <2>9. QED
    BY <2>5, <2>6, <2>7, <2>8 DEF LoopInv
<1>4. CASE Return
  <2>1. ~HasRange(start, current, chunk, Len(ranges))
    BY <1>0, <1>4, RangeArithmetic DEF LoopInv, LoopType, AtNextRange, Return, HasRange
  <2>2. MatchesPlanner'
    BY <1>0, <1>4, <2>1
       DEF LoopInv, Listed, Return, MatchesPlanner, args, start, TotalBlocks
  <2>3. QED
    BY <1>4, <2>2 DEF LoopInv, LoopType, Listed, Return, args, start
<1>5. CASE UNCHANGED vars
  BY <1>5 DEF LoopInv, LoopType, Listed, AtNextRange, MatchesPlanner, vars, args, start
<1>6. QED
  BY <1>1, <1>2, <1>3, <1>4, <1>5 DEF Next

\* For all arguments without overflow the loop returns exactly the ranges the
\* model of the coordinator iterates over.
THEOREM LoopMatchesPlanner == Spec => []MatchesPlanner
<1>1. Init => LoopInv
  BY DEF Init, LoopInv, LoopType, Listed
<1>2. LoopInv => MatchesPlanner
  BY DEF LoopInv, MatchesPlanner
<1>3. QED
  BY <1>1, <1>2, LoopInvStep, PTL DEF Spec

-----------------------------------------------------------------------------
(* The ranges tile the interval. *)

\* Every block of the interval before b is in a range that has been listed.
ReachedUpTo(b) ==
    \A n \in start .. (b - 1) : \E i \in DOMAIN ranges : n \in ranges[i].from .. ranges[i].to

TileInv ==
    /\ pc = "loop" => ReachedUpTo(from)
    /\ pc = "done" => ReachedUpTo(current + 1)

\* A range begins in the interval, has at most a chunk of blocks and ends in it.
LEMMA RangeBounds ==
    ASSUME NEW s \in Nat, NEW cur \in Nat, NEW k \in Nat \ {0}, NEW i \in Nat
    PROVE  /\ RangeFrom(s, k, i) \in Nat /\ s <= RangeFrom(s, k, i)
           /\ RangeTo(s, cur, k, i) <= RangeFrom(s, k, i) + k - 1
           /\ RangeTo(s, cur, k, i) <= cur
<1>1. i * k \in Nat
  OBVIOUS
<1>2. RangeFrom(s, k, i) \in Nat /\ s <= RangeFrom(s, k, i)
  BY <1>1 DEF RangeFrom
<1>3. QED
  BY <1>2 DEF RangeTo

\* Two ranges of one plan are at least a chunk apart.
LEMMA RangesApart ==
    ASSUME NEW s \in Nat, NEW k \in Nat \ {0}, NEW i \in Nat, NEW j \in Nat, i < j
    PROVE  RangeFrom(s, k, i) + k <= RangeFrom(s, k, j)
<1> DEFINE d == j - i - 1
<1>1. d \in Nat /\ j = i + 1 + d
  OBVIOUS
<1>2. \A a \in Nat, m \in Nat : a * m \in Nat
  OBVIOUS
<1>3. d * k \in Nat /\ i * k \in Nat
  BY <1>1, <1>2
<1> HIDE DEF d
<1>4. (i + 1 + d) * k = i * k + k + d * k
  BY <1>1
<1>5. QED
  BY <1>1, <1>3, <1>4 DEF RangeFrom

\* Every iteration lists the blocks that it passes.
LEMMA TileInvStep == LoopInv /\ TileInv /\ [Next]_vars => TileInv'
<1> SUFFICES ASSUME LoopInv, TileInv, [Next]_vars
             PROVE  TileInv'
  OBVIOUS
<1>0. /\ start \in Nat /\ current \in Nat /\ chunk \in Nat \ {0} /\ from \in Nat
      /\ current + chunk < Modulus /\ Modulus \in Nat
      /\ ranges \in Seq([from : Nat, to : Nat])
  BY LoopAssumption DEF LoopInv, LoopType, start, PlanFrom
<1>1. CASE ReturnEmpty
  BY <1>0, <1>1 DEF ReturnEmpty, TileInv, ReachedUpTo, args, start
<1>2. CASE Enter
  BY <1>0, <1>2 DEF Enter, TileInv, ReachedUpTo, args, start
<1>3. CASE Iterate
  <2>1. /\ LastOf(from) \in Nat
        /\ from' = LastOf(from) + 1
    BY <1>0, <1>3 DEF LastOf, Wrap, Iterate
  <2>2. /\ DOMAIN ranges' = DOMAIN ranges \cup {Len(ranges) + 1}
        /\ \A i \in DOMAIN ranges : ranges'[i] = ranges[i]
        /\ ranges'[Len(ranges) + 1] = [from |-> from, to |-> LastOf(from)]
    <3> DEFINE item == [from |-> from, to |-> LastOf(from)]
    <3>1. ranges' = Append(ranges, item)
      BY <1>3 DEF Iterate
    <3>2. item \in [from : Nat, to : Nat]
      BY <1>0, <2>1
    <3> HIDE DEF item
    <3>3. /\ Len(ranges) \in Nat /\ DOMAIN ranges = 1 .. Len(ranges)
          /\ DOMAIN ranges' = 1 .. Len(ranges) + 1
          /\ \A i \in 1 .. Len(ranges) : ranges'[i] = ranges[i]
          /\ ranges'[Len(ranges) + 1] = item
      BY <1>0, <3>1, <3>2
    <3>4. QED
      BY <3>3 DEF item
  <2>3. start' = start /\ pc = "loop" /\ pc' = "loop"
    BY <1>3 DEF Iterate, args, start
  <2>4. ASSUME NEW n \in start .. (from' - 1)
        PROVE  \E i \in DOMAIN ranges' : n \in ranges'[i].from .. ranges'[i].to
    <3>1. CASE n < from
      <4>1. n \in start .. (from - 1)
        BY <1>0, <2>1, <3>1
      <4>2. PICK i \in DOMAIN ranges : n \in ranges[i].from .. ranges[i].to
        BY <2>3, <4>1 DEF TileInv, ReachedUpTo
      <4>3. QED
        BY <2>2, <4>2
    <3>2. CASE n >= from
      <4>1. n \in ranges'[Len(ranges) + 1].from .. ranges'[Len(ranges) + 1].to
        BY <1>0, <2>1, <2>2, <3>2
      <4>2. QED
        BY <2>2, <4>1
    <3>3. QED
      BY <1>0, <3>1, <3>2
  <2>5. QED
    BY <2>3, <2>4 DEF TileInv, ReachedUpTo
<1>4. CASE Return
  BY <1>0, <1>4 DEF Return, TileInv, ReachedUpTo, args, start
<1>5. CASE UNCHANGED vars
  BY <1>5 DEF vars, args, TileInv, ReachedUpTo, start
<1>6. QED
  BY <1>1, <1>2, <1>3, <1>4, <1>5 DEF Next

\* A plan that lists the closed form and reaches every block tiles the interval.
LEMMA ListedTiles == LoopInv /\ TileInv => TilesBlocks
<1> SUFFICES ASSUME LoopInv, TileInv, pc = "done"
             PROVE  TilesBlocks
  BY DEF TilesBlocks
<1>0. /\ start \in Nat /\ current \in Nat /\ chunk \in Nat \ {0}
      /\ ranges \in Seq([from : Nat, to : Nat])
  BY LoopAssumption DEF LoopInv, LoopType, start, PlanFrom
<1>1. ASSUME NEW i \in DOMAIN ranges
      PROVE  /\ i \in Nat /\ i - 1 \in Nat
             /\ ranges[i].from = RangeFrom(start, chunk, i - 1)
             /\ ranges[i].from \in Nat /\ start <= ranges[i].from
             /\ ranges[i].to \in Nat
             /\ ranges[i].to <= ranges[i].from + chunk - 1
             /\ ranges[i].to <= current
  <2>1. i \in 1 .. Len(ranges) /\ i - 1 \in Nat
    BY <1>0
  <2> DEFINE lo == RangeFrom(start, chunk, i - 1)
             hi == RangeTo(start, current, chunk, i - 1)
  <2>2. ranges[i] = [from |-> lo, to |-> hi]
    BY <2>1 DEF LoopInv, Listed
  <2>3. ranges[i] \in [from : Nat, to : Nat]
    BY <1>0, <2>1, ElementOfSeq
  <2>4. lo \in Nat /\ start <= lo /\ hi <= lo + chunk - 1 /\ hi <= current
    BY <1>0, <2>1, RangeBounds
  <2> HIDE DEF lo, hi
  <2>5. ranges[i].from = lo /\ ranges[i].to = hi /\ ranges[i].to \in Nat
    BY <2>2, <2>3
  <2>6. QED
    BY <2>1, <2>4, <2>5 DEF lo
<1>2. ASSUME NEW i \in DOMAIN ranges, NEW j \in DOMAIN ranges, i < j
      PROVE  ranges[i].to < ranges[j].from
  <2>1. RangeFrom(start, chunk, i - 1) + chunk <= RangeFrom(start, chunk, j - 1)
    BY <1>0, <1>1, <1>2, RangesApart
  <2>2. /\ ranges[i].from = RangeFrom(start, chunk, i - 1)
        /\ ranges[j].from = RangeFrom(start, chunk, j - 1)
        /\ ranges[i].to <= ranges[i].from + chunk - 1
        /\ ranges[i].from \in Nat /\ ranges[i].to \in Nat /\ ranges[j].from \in Nat
    BY <1>1
  <2>3. chunk \in Nat
    BY <1>0
  <2>4. QED
    BY <2>1, <2>2, <2>3
<1>3. ASSUME NEW b \in start .. current
      PROVE  \E i \in DOMAIN ranges :
                /\ b \in ranges[i].from .. ranges[i].to
                /\ \A j \in DOMAIN ranges : b \in ranges[j].from .. ranges[j].to => j = i
  <2>1. PICK i \in DOMAIN ranges : b \in ranges[i].from .. ranges[i].to
    BY <1>0 DEF TileInv, ReachedUpTo
  <2>2. ASSUME NEW j \in DOMAIN ranges, b \in ranges[j].from .. ranges[j].to
        PROVE  j = i
    <3>1. ~(i < j) /\ ~(j < i)
      BY <1>1, <1>2, <2>1, <2>2
    <3>2. QED
      BY <1>1, <3>1
  <2>3. QED
    BY <2>1, <2>2
<1>4. ASSUME NEW i \in DOMAIN ranges
      PROVE  ranges[i].to - ranges[i].from < chunk
  <2>1. /\ ranges[i].from \in Nat /\ ranges[i].to \in Nat /\ chunk \in Nat
        /\ ranges[i].to <= ranges[i].from + chunk - 1
    BY <1>0, <1>1
  <2>2. QED
    BY <2>1
<1>5. QED
  BY <1>1, <1>3, <1>4 DEF TilesBlocks

\* For all arguments without overflow, no block is left out of the plan or
\* fetched twice, and no range exceeds the node's limit.
THEOREM PlanTilesBlocks == Spec => []TilesBlocks
<1>1. Init => LoopInv /\ TileInv
  BY DEF Init, LoopInv, LoopType, Listed, TileInv
<1>2. QED
  BY <1>1, LoopInvStep, TileInvStep, ListedTiles, PTL DEF Spec

-----------------------------------------------------------------------------
(* The rate limit of the SQL endpoint. *)

\* Whatever moment one counts from, the tokens that could be spent now fit into
\* what may still be let through since then.
RoomLeft ==
    \A i \in 1 .. clock :
        served[clock] - ServedBefore(i) + Refilled <= MaxRps + (clock - i)

LimiterInv ==
    /\ clock \in Nat \ {0}
    /\ bucket \in [tokens : Nat, last : Nat]
    /\ bucket.last <= clock
    /\ served \in Seq(Nat)
    /\ Len(served) = clock
    /\ BurstsBounded
    /\ RoomLeft

\* Requests use up room, and a tick makes as much as it refills.
LEMMA LimiterInvStep == LimiterInv /\ [SqlNext]_sqlVars => LimiterInv'
<1> SUFFICES ASSUME LimiterInv, [SqlNext]_sqlVars, NEW t \in Nat \ {0}, t = clock
             PROVE  LimiterInv'
  BY DEF LimiterInv
<1> USE EndpointAssumption
<1>0. /\ clock \in Nat \ {0} /\ bucket.tokens \in Nat /\ bucket.last \in Nat
      /\ bucket.last <= clock /\ MaxRps \in Nat /\ Refilled \in Nat /\ Refilled <= MaxRps
      /\ served \in Seq(Nat) /\ Len(served) = clock
      /\ \A i \in 1 .. clock : served[i] \in Nat /\ ServedBefore(i) \in Nat
  <2>1. bucket.tokens \in Nat /\ bucket.last \in Nat
    BY DEF LimiterInv
  <2>2. \A i \in 1 .. clock : served[i] \in Nat
    BY ElementOfSeq DEF LimiterInv
  <2>3. QED
    BY <2>1, <2>2 DEF LimiterInv, Refilled, ServedBefore
<1>1. CASE Unauthorised
  BY <1>1 DEF Unauthorised, LimiterInv, BurstsBounded, RoomLeft, ServedBefore, Refilled
<1>2. CASE RateLimited
  <2>1. /\ bucket' = [tokens |-> 0, last |-> clock] /\ UNCHANGED <<clock, served>>
        /\ Refilled = 0
    BY <1>2 DEF RateLimited
  <2>2. bucket' \in [tokens : Nat, last : Nat] /\ bucket'.last <= clock /\ Refilled' = 0
    BY <1>0, <2>1 DEF Refilled
  <2>3. QED
    BY <1>0, <2>1, <2>2 DEF LimiterInv, BurstsBounded, RoomLeft, ServedBefore
<1>3. ASSUME NEW status, Answered(status)
      PROVE  LimiterInv'
  <2>1. /\ bucket' = [tokens |-> Refilled - 1, last |-> clock] /\ UNCHANGED clock
        /\ Refilled > 0
        /\ served' = [served EXCEPT ![clock] = @ + 1]
    BY <1>3 DEF Answered
  <2>2. /\ bucket' \in [tokens : Nat, last : Nat] /\ bucket'.last <= clock
        /\ Refilled' = Refilled - 1
    BY <1>0, <2>1 DEF Refilled
  <2>3. /\ served' \in Seq(Nat) /\ Len(served') = clock
        /\ served'[clock] = served[clock] + 1
        /\ \A i \in 1 .. clock : i # clock => served'[i] = served[i]
    BY <1>0, <2>1
  <2>4. \A i \in 1 .. clock : ServedBefore(i)' = ServedBefore(i)
    BY <1>0, <2>3 DEF ServedBefore
  <2>5. ASSUME NEW i \in 1 .. t
        PROVE  /\ served'[t] - ServedBefore(i)' + Refilled' <= MaxRps + (t - i)
               /\ served'[t] - ServedBefore(i)' <= MaxRps + (t - i)
    <3>1. served[t] - ServedBefore(i) + Refilled <= MaxRps + (t - i)
      BY DEF LimiterInv, RoomLeft
    <3>2. served[t] \in Nat /\ ServedBefore(i) \in Nat /\ Refilled \in Nat /\ MaxRps \in Nat
      BY <1>0
    <3>3. /\ served'[t] = served[t] + 1 /\ Refilled' = Refilled - 1 /\ Refilled > 0
          /\ ServedBefore(i)' = ServedBefore(i)
      BY <2>1, <2>2, <2>3, <2>4
    <3>4. QED
      BY <3>1, <3>2, <3>3
  <2>6. ASSUME NEW i \in 1 .. t, NEW j \in 1 .. t, i <= j
        PROVE  served'[j] - ServedBefore(i)' <= MaxRps + (j - i)
    <3>1. CASE j = t
      BY <2>5, <3>1
    <3>2. CASE j # t
      BY <1>0, <2>3, <2>4, <2>6, <3>2 DEF LimiterInv, BurstsBounded
    <3>3. QED
      BY <3>1, <3>2
  <2>7. BurstsBounded'
    BY <2>3, <2>6 DEF BurstsBounded
  <2>8. RoomLeft'
    BY <2>1, <2>5 DEF RoomLeft
  <2>9. QED
    BY <1>0, <2>1, <2>2, <2>3, <2>7, <2>8 DEF LimiterInv
<1>4. CASE SqlTick
  <2>1. /\ clock' = t + 1 /\ UNCHANGED bucket
        /\ served' = Append(served, served[t])
    BY <1>4 DEF SqlTick
  <2>2. Refilled' \in Nat /\ Refilled' <= Refilled + 1 /\ Refilled' <= MaxRps
    <3>1. clock' - bucket'.last = (clock - bucket.last) + 1 /\ bucket'.tokens = bucket.tokens
      BY <1>0, <2>1
    <3> DEFINE n == bucket.tokens + (clock - bucket.last)
    <3>2. n \in Nat /\ MaxRps \in Nat
      BY <1>0
    <3>3. Refilled = IF n < MaxRps THEN n ELSE MaxRps
      BY DEF Refilled
    <3>4. Refilled' = IF n + 1 < MaxRps THEN n + 1 ELSE MaxRps
      <4>1. bucket'.tokens + (clock' - bucket'.last) = n + 1
        BY <1>0, <3>1
      <4>2. QED
        BY <4>1 DEF Refilled
    <3> HIDE DEF n
    <3>5. QED
      BY <3>2, <3>3, <3>4
  <2>3. /\ served' \in Seq(Nat) /\ Len(served') = t + 1
        /\ served'[t + 1] = served[t]
        /\ \A i \in 1 .. t : served'[i] = served[i]
    BY <1>0, <2>1
  <2>4. /\ \A i \in 1 .. t : ServedBefore(i)' = ServedBefore(i)
        /\ ServedBefore(t + 1)' = served[t]
    BY <1>0, <2>3 DEF ServedBefore
  <2>5. ASSUME NEW i \in 1 .. (t + 1)
        PROVE  served'[t + 1] - ServedBefore(i)' + Refilled' <= MaxRps + (t + 1 - i)
    <3>1. CASE i = t + 1
      BY <1>0, <2>2, <2>3, <2>4, <3>1
    <3>2. CASE i \in 1 .. t
      <4>1. served[t] - ServedBefore(i) + Refilled <= MaxRps + (t - i)
        BY <3>2 DEF LimiterInv, RoomLeft
      <4>2. served[t] \in Nat /\ ServedBefore(i) \in Nat /\ Refilled \in Nat /\ MaxRps \in Nat
        BY <1>0, <3>2
      <4>3. served'[t + 1] = served[t] /\ ServedBefore(i)' = ServedBefore(i)
        BY <2>3, <2>4, <3>2
      <4>4. QED
        BY <2>2, <3>2, <4>1, <4>2, <4>3
    <3>3. QED
      BY <1>0, <3>1, <3>2
  <2>6. RoomLeft'
    <3>1. \A i \in 1 .. (t + 1) :
             served'[t + 1] - ServedBefore(i)' + Refilled' <= MaxRps + ((t + 1) - i)
      BY <2>5
    <3>2. QED
      BY <2>1, <3>1 DEF RoomLeft
  <2>7. ASSUME NEW i \in 1 .. (t + 1), NEW j \in 1 .. (t + 1), i <= j
        PROVE  served'[j] - ServedBefore(i)' <= MaxRps + (j - i)
    <3>1. CASE j = t + 1
      <4>1. served'[j] \in Nat /\ ServedBefore(i)' \in Nat
        BY <1>0, <2>3, <2>4, <3>1
      <4>2. QED
        BY <1>0, <2>2, <2>5, <3>1, <4>1
    <3>2. CASE j \in 1 .. t
      <4>1. i \in 1 .. t
        BY <1>0, <2>7, <3>2
      <4>2. QED
        BY <1>0, <2>3, <2>4, <2>7, <3>2, <4>1 DEF LimiterInv, BurstsBounded
    <3>3. QED
      BY <1>0, <3>1, <3>2
  <2>8. BurstsBounded'
    BY <2>3, <2>7 DEF BurstsBounded
  <2>9. QED
    BY <1>0, <2>1, <2>3, <2>6, <2>8 DEF LimiterInv
<1>5. CASE UNCHANGED sqlVars
  BY <1>5 DEF sqlVars, LimiterInv, BurstsBounded, RoomLeft, ServedBefore, Refilled
<1>6. QED
  BY <1>1, <1>2, <1>3, <1>4, <1>5 DEF SqlNext

\* For every rate, the endpoint lets through at most a full bucket and what is
\* earned in any interval of time.
THEOREM LimiterBoundsBursts == SqlSpec => []BurstsBounded
<1>1. SqlInit => LimiterInv
  <2> SUFFICES ASSUME SqlInit PROVE LimiterInv
    OBVIOUS
  <2>1. /\ clock = 1 /\ bucket = [tokens |-> MaxRps, last |-> 1] /\ served = <<0>>
        /\ MaxRps \in Nat
    BY EndpointAssumption DEF SqlInit
  <2>2. /\ served \in Seq(Nat) /\ Len(served) = 1 /\ served[1] = 0 /\ ServedBefore(1) = 0
        /\ Refilled = MaxRps
    BY <2>1 DEF ServedBefore, Refilled
  <2>3. QED
    BY <2>1, <2>2 DEF LimiterInv, BurstsBounded, RoomLeft
<1>2. LimiterInv => BurstsBounded
  BY DEF LimiterInv
<1>3. QED
  BY <1>1, <1>2, LimiterInvStep, PTL DEF SqlSpec
-----------------------------------------------------------------------------
(***************************************************************************)
(* The pages of the list query (module Paging).                            *)
(***************************************************************************)

RowPairs == Nat \X Nat

\* The order of the list query is a strict total order of the rows.
LEMMA SortsOrder ==
    ASSUME NEW a \in RowPairs, NEW b \in RowPairs, NEW c \in RowPairs
    PROVE  /\ ~Sorts(a, a)
           /\ Sorts(a, b) /\ Sorts(b, c) => Sorts(a, c)
           /\ a = b \/ Sorts(a, b) \/ Sorts(b, a)
<1>1. /\ a[1] \in Nat /\ a[2] \in Nat /\ b[1] \in Nat /\ b[2] \in Nat /\ c[1] \in Nat /\ c[2] \in Nat
      /\ a = <<a[1], a[2]>> /\ b = <<b[1], b[2]>>
  BY DEF RowPairs
<1>2. a[1] = b[1] /\ a[2] = b[2] => a = b
  BY <1>1
<1>3. QED
  BY <1>1, <1>2 DEF Sorts, Null

\* The cursor's comparison is the order's on rows without NULL.
LEMMA GreaterSorts ==
    ASSUME NEW x \in RowPairs, NEW c \in RowPairs, NEW d \in RowPairs
    PROVE  /\ Greater(x, c) => Sorts(c, x)
           /\ x[1] # Null /\ Sorts(c, x) => Greater(x, c)
           /\ Greater(x, c) /\ Greater(c, d) => Greater(x, d)
<1>1. x[1] \in Nat /\ x[2] \in Nat /\ c[1] \in Nat /\ c[2] \in Nat /\ d[1] \in Nat /\ d[2] \in Nat
  BY DEF RowPairs
<1>2. QED
  BY <1>1 DEF Sorts, Greater, Null

\* The place of a row is a number below that of the rows, and follows the order.
LEMMA PlaceGrows ==
    ASSUME NEW S \in SUBSET RowPairs, IsFiniteSet(S), NEW q, ~q.desc, NEW r \in S
    PROVE  /\ Place(S, q, r) \in 0 .. Cardinality(S) - 1
           /\ \A s \in S : Sorts(r, s) => Place(S, q, r) < Place(S, q, s)
<1> DEFINE B(x) == {s \in S : Sorts(s, x)}
<1>1. \A x : Place(S, q, x) = Cardinality(B(x))
  BY DEF Place
<1>2. ASSUME NEW U \in SUBSET S, NEW V \in SUBSET S, U \subseteq V, U # V
      PROVE  Cardinality(U) \in Nat /\ Cardinality(V) \in Nat /\ Cardinality(U) < Cardinality(V)
  <2>1. IsFiniteSet(V)
    BY FS_Subset
  <2>2. /\ IsFiniteSet(U) /\ Cardinality(U) <= Cardinality(V)
        /\ Cardinality(U) # Cardinality(V)
    BY <1>2, <2>1, FS_Subset
  <2>3. Cardinality(U) \in Nat /\ Cardinality(V) \in Nat
    BY <2>1, <2>2, FS_CardinalityType
  <2>4. QED
    BY <2>2, <2>3
<1>3. r \notin B(r) /\ r \in RowPairs
  BY SortsOrder
<1>4. B(r) \in SUBSET S /\ S \in SUBSET S /\ B(r) \subseteq S /\ B(r) # S
  BY <1>3
<1>5. Cardinality(B(r)) \in Nat /\ Cardinality(S) \in Nat /\ Cardinality(B(r)) < Cardinality(S)
  BY <1>2, <1>4
<1>6. ASSUME NEW s \in S, Sorts(r, s)
      PROVE  Cardinality(B(r)) < Cardinality(B(s))
  <2>1. \A x \in B(r) : Sorts(x, s)
    BY <1>6, SortsOrder
  <2>2. B(r) \in SUBSET S /\ B(s) \in SUBSET S /\ B(r) \subseteq B(s) /\ B(r) # B(s)
    BY <1>3, <1>6, <2>1
  <2>3. QED
    BY <1>2, <2>2
<1> HIDE DEF B
<1>7. Place(S, q, r) \in 0 .. Cardinality(S) - 1
  BY <1>1, <1>5
<1>8. \A s \in S : Sorts(r, s) => Place(S, q, r) < Place(S, q, s)
  BY <1>1, <1>6
<1>9. QED
  BY <1>7, <1>8

\* Every place below the number of rows is some row's.
LEMMA PlaceOnto ==
    ASSUME NEW S \in SUBSET RowPairs, IsFiniteSet(S), NEW q, ~q.desc
    PROVE  \A i \in 0 .. Cardinality(S) - 1 : \E r \in S : Place(S, q, r) = i
<1> DEFINE f == [r \in S |-> Place(S, q, r)]
           n == Cardinality(S)
<1>1. n \in Nat
  BY FS_CardinalityType
<1>2. f \in [S -> 0 .. n - 1]
  BY PlaceGrows
<1>3. ASSUME NEW r \in S, NEW s \in S, f[r] = f[s]
      PROVE  r = s
  <2>1. r \in RowPairs /\ s \in RowPairs
    OBVIOUS
  <2>2. Place(S, q, r) = Place(S, q, s) /\ Place(S, q, r) \in Nat
    BY <1>3, PlaceGrows
  <2>3. ~Sorts(r, s) /\ ~Sorts(s, r)
    BY <2>2, PlaceGrows
  <2>4. QED
    BY <2>1, <2>3, SortsOrder
<1>4. f \in Injection(S, 0 .. n - 1)
  BY <1>2, <1>3 DEF Injection, IsInjective
<1>5. IsFiniteSet(0 .. n - 1) /\ Cardinality(0 .. n - 1) = n
  BY <1>1, FS_Interval
<1>6. f \in Surjection(S, 0 .. n - 1)
  BY <1>4, <1>5, FS_Injection
<1>7. \A i \in 0 .. n - 1 : \E r \in S : f[r] = i
  BY <1>6 DEF Surjection
<1>8. QED
  BY <1>7

\* A page of the rows sel: its rows are some of them, in order, and they are the
\* first ones; if it is the last page, they are all of them.
IsPage(items, sel, last) ==
    /\ items \in Seq(sel)
    /\ \A i, j \in 1 .. Len(items) : i < j => Sorts(items[i], items[j])
    /\ \A r \in sel :
          \/ \E i \in 1 .. Len(items) : items[i] = r
          \/ ~last /\ \A i \in 1 .. Len(items) : Sorts(items[i], r)

PageOf(found, limit) == IF Len(found) > limit THEN SubSeq(found, 1, limit) ELSE found

\* Found lists the first rows in order.
LEMMA FoundInOrder ==
    ASSUME NEW t, NEW q, NEW after, q.limit \in Nat, ~q.desc,
           Selected(t, q, after) \in SUBSET RowPairs, IsFiniteSet(Selected(t, q, after))
    PROVE  /\ IsPage(PageOf(Found(t, q, after), q.limit), Selected(t, q, after),
                     ~(Len(Found(t, q, after)) > q.limit))
           /\ Len(Found(t, q, after)) \in Nat
           /\ Len(PageOf(Found(t, q, after), q.limit)) =
                IF Len(Found(t, q, after)) > q.limit THEN q.limit ELSE Len(Found(t, q, after))
<1> DEFINE S == Selected(t, q, after)
           n == Cardinality(S)
           R(i) == CHOOSE r \in S : Place(S, q, r) = i - 1
           m == IF n > q.limit + 1 THEN q.limit + 1 ELSE n
           F == Found(t, q, after)
           l == IF n > q.limit THEN q.limit ELSE n
           P == PageOf(F, q.limit)
<1>1. n \in Nat /\ m \in Nat /\ m <= n /\ l \in Nat /\ l <= m
  <2>1. n \in Nat
    BY FS_CardinalityType
  <2>2. QED
    BY <2>1
<1>2. F = [i \in 1 .. m |-> R(i)]
  BY DEF Found
<1>3. \A i \in 1 .. n : R(i) \in S /\ Place(S, q, R(i)) = i - 1
  <2> TAKE i \in 1 .. n
  <2>1. i - 1 \in 0 .. n - 1
    BY <1>1
  <2>2. \E r \in S : Place(S, q, r) = i - 1
    BY <2>1, PlaceOnto
  <2>3. QED
    BY <2>2
<1>4. \A i, j \in 1 .. n : i < j => Sorts(R(i), R(j))
  <2> SUFFICES ASSUME NEW i \in 1 .. n, NEW j \in 1 .. n, i < j
               PROVE  Sorts(R(i), R(j))
    OBVIOUS
  <2>1. /\ R(i) \in S /\ R(j) \in S /\ R(i) \in RowPairs /\ R(j) \in RowPairs
        /\ Place(S, q, R(i)) = i - 1 /\ Place(S, q, R(j)) = j - 1
    BY <1>3
  <2>2. R(i) # R(j) /\ ~Sorts(R(j), R(i))
    <3>1. i - 1 < j - 1 /\ ~(j - 1 < i - 1)
      BY <1>1
    <3>2. Sorts(R(j), R(i)) => Place(S, q, R(j)) < Place(S, q, R(i))
      BY <2>1, PlaceGrows
    <3> HIDE DEF R
    <3>3. QED
      BY <1>1, <2>1, <3>1, <3>2
  <2> HIDE DEF R
  <2>3. QED
    BY <2>1, <2>2, SortsOrder
<1>5. \A r \in S : \E i \in 1 .. n : R(i) = r
  <2> TAKE r \in S
  <2>1. Place(S, q, r) \in 0 .. n - 1
    BY PlaceGrows
  <2> DEFINE i == Place(S, q, r) + 1
  <2>2. i \in 1 .. n /\ i - 1 = Place(S, q, r)
    BY <1>1, <2>1
  <2>3. R(i) \in S /\ Place(S, q, R(i)) = Place(S, q, r)
    BY <1>3, <2>2
  <2> HIDE DEF R, i
  <2>4. ~Sorts(R(i), r) /\ ~Sorts(r, R(i))
    BY <2>1, <2>3, PlaceGrows
  <2>5. R(i) = r
    BY <2>3, <2>4, SortsOrder
  <2>6. QED
    BY <2>2, <2>5
<1> HIDE DEF R
<1>6. F \in Seq(S) /\ Len(F) = m
  <2>1. F \in [1 .. m -> S]
    BY <1>1, <1>2, <1>3
  <2>2. QED
    BY <1>1, <2>1
<1>7. Len(F) > q.limit <=> n > q.limit
  BY <1>1, <1>6
<1>8. P \in Seq(S) /\ Len(P) = l /\ \A i \in 1 .. l : P[i] = R(i)
  <2>1. CASE n > q.limit
    <3>1. P = SubSeq(F, 1, q.limit) /\ l = q.limit
      BY <1>7, <2>1 DEF PageOf
    <3>2. q.limit <= m
      BY <1>1, <3>1
    <3>3. P = [i \in 1 .. l |-> F[i]]
      BY <1>1, <1>6, <3>1, <3>2
    <3>4. \A i \in 1 .. l : F[i] \in S /\ F[i] = R(i)
      BY <1>1, <1>2, <1>3
    <3>5. QED
      BY <1>1, <3>3, <3>4
  <2>2. CASE ~(n > q.limit)
    <3>1. P = F /\ l = m
      BY <1>1, <1>7, <2>2 DEF PageOf
    <3>2. QED
      BY <1>1, <1>2, <1>6, <3>1
  <2>3. QED
    BY <2>1, <2>2
<1>9. \A i, j \in 1 .. Len(P) : i < j => Sorts(P[i], P[j])
  BY <1>1, <1>4, <1>8
<1>10. ASSUME NEW r \in S
       PROVE  \/ \E i \in 1 .. Len(P) : P[i] = r
              \/ n > q.limit /\ \A i \in 1 .. Len(P) : Sorts(P[i], r)
  <2>1. PICK k \in 1 .. n : R(k) = r
    BY <1>5
  <2>2. CASE k <= l
    <3>1. k \in 1 .. l
      BY <1>1, <2>2
    <3>2. QED
      BY <1>8, <2>1, <3>1
  <2>3. CASE ~(k <= l)
    <3>1. n > q.limit
      BY <1>1, <2>3
    <3>2. \A i \in 1 .. l : i \in 1 .. n /\ i < k
      BY <1>1, <2>3
    <3>3. \A i \in 1 .. l : Sorts(P[i], r)
      BY <1>4, <1>8, <2>1, <3>2
    <3>4. QED
      BY <1>8, <3>1, <3>3
  <2>4. QED
    BY <2>2, <2>3
<1>11. IsPage(P, S, ~(Len(F) > q.limit))
  BY <1>7, <1>8, <1>9, <1>10 DEF IsPage
<1>12. Len(F) \in Nat /\ Len(P) = IF Len(F) > q.limit THEN q.limit ELSE Len(F)
  BY <1>1, <1>6, <1>7, <1>8
<1>13. QED
  BY <1>11, <1>12

-----------------------------------------------------------------------------
TableType ==
    /\ IsFiniteSet(DOMAIN rows) /\ DOMAIN rows \subseteq Pks
    /\ \A k \in DOMAIN rows : rows[k] \in Values \cup {Null}
    /\ query \in [where : Filters, desc : BOOLEAN, limit : Limits, pkText : BOOLEAN]

PageType == TableType /\ got \in Seq(RowPairs)

GotRow(x) == \E i \in 1 .. Len(got) : got[i] = x

\* What was received is in order, and the cursor is at its end.
InOrder ==
    /\ \A i, j \in 1 .. Len(got) : i < j => Sorts(got[i], got[j])
    /\ reading => \/ cursor = NoCursor /\ got = <<>>
                  \/ cursor # NoCursor /\ got # <<>> /\ cursor = got[Len(got)]

\* A row that was not touched was received as it is, if at all.
Genuine ==
    \A k \in DOMAIN rows \ touched : \A i \in 1 .. Len(got) :
        got[i][2] = k => got[i] = <<rows[k], k>>

\* Of the rows that were not touched the client has those that are selected, as
\* long as it reads those up to the cursor.
Received ==
    \A k \in DOMAIN rows \ touched :
        rows[k] # Null =>
            (GotRow(<<rows[k], k>>)
               <=> /\ Selects(query.where, rows[k])
                   /\ reading => cursor # NoCursor /\ ~Greater(<<rows[k], k>>, cursor))

PageInv ==
    /\ TableType
    /\ ~query.desc =>
         /\ got \in Seq(RowPairs)
         /\ Genuine
         /\ Exact => InOrder /\ (query.pkText /\ query.limit > 0 => Received)

\* The rows that a query selects are finitely many rows of the table.
LEMMA SelectedRows ==
    ASSUME PageType, NEW after
    PROVE  /\ Selected(rows, query, after) \in SUBSET RowPairs
           /\ IsFiniteSet(Selected(rows, query, after))
<1> DEFINE S == Selected(rows, query, after)
           f == [r \in S |-> r[2]]
<1>1. ASSUME NEW r \in S
      PROVE  r[2] \in DOMAIN rows /\ r = <<rows[r[2]], r[2]>> /\ r \in RowPairs
  <2>1. PICK k \in DOMAIN rows : r = <<rows[k], k>>
    BY DEF Selected
  <2>2. r[2] = k
    BY <2>1
  <2>3. rows[k] \in Nat /\ k \in Nat
    <3>1. rows[k] \in Values \cup {Null} /\ k \in Pks
      BY DEF PageType, TableType
    <3>2. \A x \in Pks : x \in Nat
      BY PagingAssumption, Zenon
    <3>3. \A x \in Values : x \in Nat
      BY PagingAssumption, Zenon
    <3>4. Null \in Nat
      BY DEF Null
    <3>5. QED
      BY <3>1, <3>2, <3>3, <3>4
  <2>4. <<rows[k], k>> \in RowPairs
    BY <2>3 DEF RowPairs
  <2>5. QED
    BY <2>1, <2>2, <2>4
<1>2. f \in [S -> DOMAIN rows]
  BY <1>1
<1>3. \A r, s \in S : f[r] = f[s] => r = s
  BY <1>1
<1>4. f \in Injection(S, DOMAIN rows)
  BY <1>2, <1>3 DEF Injection, IsInjective
<1>5. IsFiniteSet(S)
  BY <1>4, FS_Injection DEF PageType, TableType
<1>6. QED
  BY <1>1, <1>5

\* Membership in what a query selects.
LEMMA SelectedRow ==
    ASSUME NEW t, NEW q, NEW after, NEW k \in DOMAIN t
    PROVE  <<t[k], k>> \in Selected(t, q, after)
             <=> Selects(q.where, t[k]) /\ (after = NoCursor \/ Greater(<<t[k], k>>, after))
<1>1. <<t[k], k>>[1] = t[k]
  OBVIOUS
<1>2. QED
  BY <1>1 DEF Selected

\* What a page adds to what the client has.
FetchedPage(items, last) ==
    /\ reading
    /\ IsPage(items, Selected(rows, query, cursor), last)
    /\ got' = got \o items
    /\ rows' = rows /\ query' = query /\ touched' = touched
    /\ reading' \in BOOLEAN
    /\ reading' => ~last /\ Len(items) > 0
    /\ reading' /\ Exact' => cursor' = items[Len(items)]
    /\ ~reading' /\ query.pkText /\ query.limit > 0 => last

\* FetchPage adds a page.
LEMMA FetchPageAdds ==
    ASSUME PageType, ~query.desc, FetchPage
    PROVE  \E items : \E last \in BOOLEAN : FetchedPage(items, last)
<1> DEFINE found == Found(rows, query, cursor)
           items == PageOf(found, query.limit)
           end == IF items # <<>> THEN CursorOf(query, items[Len(items)]) ELSE NoCursor
           last == ~(Len(found) > query.limit)
<1>1. query.limit \in Nat
  BY PagingAssumption DEF PageType, TableType
<1>2. Selected(rows, query, cursor) \in SUBSET RowPairs /\ IsFiniteSet(Selected(rows, query, cursor))
  BY SelectedRows
<1>3. /\ IsPage(items, Selected(rows, query, cursor), last)
      /\ Len(found) \in Nat
      /\ Len(items) = IF Len(found) > query.limit THEN query.limit ELSE Len(found)
  BY <1>1, <1>2, FoundInOrder
<1>4. /\ reading /\ got' = got \o items /\ cursor' = end
      /\ reading' = (Len(found) > query.limit /\ end # NoCursor)
      /\ rows' = rows /\ query' = query /\ touched' = touched
  BY DEF FetchPage, PageOf
<1>5. items \in Seq(Selected(rows, query, cursor)) /\ items \in Seq(RowPairs)
  BY <1>2, <1>3 DEF IsPage
<1>6. Len(items) \in Nat /\ (items = <<>> <=> Len(items) = 0)
  BY <1>5
<1>7. last \in BOOLEAN /\ reading' \in BOOLEAN
  BY <1>4
<1> HIDE DEF found, items
<1>8. reading' => ~last /\ Len(items) > 0
  <2>1. reading' => Len(found) > query.limit /\ end # NoCursor
    BY <1>4
  <2>2. end # NoCursor => items # <<>>
    OBVIOUS
  <2>3. items # <<>> => Len(items) > 0
    BY <1>6
  <2>4. QED
    BY <2>1, <2>2, <2>3
<1>12. ASSUME Len(items) > 0
       PROVE  /\ items[Len(items)] \in RowPairs
              /\ Len(got') \in DOMAIN got' /\ got'[Len(got')] = items[Len(items)]
  <2>1. Len(items) \in 1 .. Len(items)
    BY <1>6, <1>12
  <2>2. got \in Seq(RowPairs) /\ Len(got) \in Nat
    BY DEF PageType
  <2>3. QED
    BY <1>4, <1>5, <1>6, <1>12, <2>1, <2>2
<1>13. ASSUME reading', Exact'
       PROVE  cursor' = items[Len(items)]
  <2> DEFINE r == items[Len(items)]
  <2>1. Len(items) > 0 /\ end # NoCursor
    BY <1>4, <1>8, <1>13
  <2>2. r \in RowPairs /\ r = <<r[1], r[2]>>
    BY <1>12, <2>1 DEF RowPairs
  <2>3. r[1] # Null => AsJson[r[1]] = r[1]
    BY <1>12, <1>13, <2>1 DEF Exact
  <2>4. end = CursorOf(query, r)
    BY <2>1
  <2> HIDE DEF r, end
  <2>5. end = <<IF r[1] = Null THEN Null ELSE AsJson[r[1]], r[2]>>
    BY <2>1, <2>4 DEF CursorOf
  <2>6. end = <<r[1], r[2]>>
    BY <2>3, <2>5
  <2>7. end = r
    BY <2>2, <2>6
  <2>8. cursor' = end
    BY <1>4 DEF end
  <2>9. QED
    BY <2>7, <2>8 DEF r
<1>9. ASSUME ~reading', query.pkText, query.limit > 0
      PROVE  last
  <2>1. CASE end # NoCursor
    BY <1>4, <1>9, <2>1
  <2>2. CASE end = NoCursor
    <3>1. items = <<>>
      BY <1>9, <2>2 DEF CursorOf, NoCursor
    <3>2. Len(items) = 0
      BY <1>6, <3>1
    <3>3. QED
      BY <1>1, <1>3, <1>9, <3>2
  <2>3. QED
    BY <2>1, <2>2
<1>10. FetchedPage(items, last)
  BY <1>3, <1>4, <1>7, <1>8, <1>9, <1>13 DEF FetchedPage
<1>11. QED
  BY <1>7, <1>10

\* The facts of a page about the sequence of what was received.
LEMMA GotAfterPage ==
    ASSUME PageType, NEW items, NEW last \in BOOLEAN, FetchedPage(items, last)
    PROVE  /\ items \in Seq(RowPairs) /\ got' \in Seq(RowPairs)
           /\ Len(got) \in Nat /\ Len(items) \in Nat /\ Len(got') = Len(got) + Len(items)
           /\ \A i \in 1 .. Len(got) : got'[i] = got[i]
           /\ \A i \in 1 .. Len(got') : i > Len(got) =>
                 i - Len(got) \in 1 .. Len(items) /\ got'[i] = items[i - Len(got)]
           /\ \A i \in 1 .. Len(items) : got'[Len(got) + i] = items[i]
           /\ \A x : GotRow(x)' <=> GotRow(x) \/ \E i \in 1 .. Len(items) : items[i] = x
<1>1. got \in Seq(RowPairs) /\ got' = got \o items
  BY DEF PageType, FetchedPage
<1>2. items \in Seq(RowPairs)
  BY SelectedRows DEF FetchedPage, IsPage
<1>3. Len(got) \in Nat /\ Len(items) \in Nat
  BY <1>1, <1>2
<1>4. got' \in Seq(RowPairs) /\ Len(got') = Len(got) + Len(items)
  BY <1>1, <1>2
<1>5. \A i \in 1 .. Len(got) : got'[i] = got[i]
  BY <1>1, <1>2
<1>6. ASSUME NEW i \in 1 .. Len(got'), i > Len(got)
      PROVE  i - Len(got) \in 1 .. Len(items) /\ got'[i] = items[i - Len(got)]
  <2>1. i \in 1 .. Len(got) + Len(items)
    BY <1>4
  <2>2. i - Len(got) \in 1 .. Len(items)
    BY <1>3, <1>6, <2>1
  <2>3. QED
    BY <1>1, <1>2, <1>3, <1>6, <2>1, <2>2
<1>7. ASSUME NEW i \in 1 .. Len(items)
      PROVE  Len(got) + i \in 1 .. Len(got') /\ got'[Len(got) + i] = items[i]
  <2>1. Len(got) + i \in 1 .. Len(got') /\ Len(got) + i > Len(got) /\ (Len(got) + i) - Len(got) = i
    BY <1>3, <1>4
  <2>2. QED
    BY <1>6, <2>1
<1>8. ASSUME NEW x
      PROVE  GotRow(x)' <=> GotRow(x) \/ \E i \in 1 .. Len(items) : items[i] = x
  <2>1. ASSUME GotRow(x)' PROVE GotRow(x) \/ \E i \in 1 .. Len(items) : items[i] = x
    <3>1. PICK i \in 1 .. Len(got') : got'[i] = x
      BY <2>1 DEF GotRow
    <3>2. CASE i > Len(got)
      BY <1>6, <3>1, <3>2
    <3>3. CASE ~(i > Len(got))
      <4>1. i \in 1 .. Len(got)
        BY <1>3, <1>4, <3>3
      <4>2. QED
        BY <1>5, <3>1, <4>1 DEF GotRow
    <3>4. QED
      BY <3>2, <3>3
  <2>2. ASSUME GotRow(x) PROVE GotRow(x)'
    <3>1. PICK i \in 1 .. Len(got) : got[i] = x
      BY <2>2 DEF GotRow
    <3>2. i \in 1 .. Len(got')
      BY <1>3, <1>4
    <3>3. QED
      BY <1>5, <3>1, <3>2 DEF GotRow
  <2>3. ASSUME NEW i \in 1 .. Len(items), items[i] = x PROVE GotRow(x)'
    BY <1>7, <2>3 DEF GotRow
  <2>4. QED
    BY <2>1, <2>2, <2>3
<1>9. QED
  BY <1>2, <1>3, <1>4, <1>5, <1>6, <1>7, <1>8

\* A row of the next page follows everything that was received.
LEMMA PageFollows ==
    ASSUME PageType, InOrder, reading, NEW r \in Selected(rows, query, cursor),
           NEW i \in 1 .. Len(got)
    PROVE  Sorts(got[i], r)
<1>1. got \in Seq(RowPairs) /\ Len(got) \in Nat /\ r \in RowPairs
  BY SelectedRows DEF PageType
<1>2. got # <<>>
  BY <1>1
<1>3. cursor # NoCursor /\ cursor = got[Len(got)]
  BY <1>2 DEF InOrder
<1>4. Greater(r, cursor)
  BY <1>3 DEF Selected
<1>5. Len(got) \in 1 .. Len(got) /\ got[i] \in RowPairs /\ cursor \in RowPairs
  BY <1>1, <1>3
<1>6. Sorts(cursor, r)
  BY <1>1, <1>4, <1>5, GreaterSorts
<1>7. CASE i = Len(got)
  BY <1>3, <1>6, <1>7
<1>8. CASE i # Len(got)
  <2>1. i < Len(got)
    BY <1>1, <1>8
  <2>2. Sorts(got[i], cursor)
    BY <1>3, <1>5, <2>1 DEF InOrder
  <2>3. QED
    BY <1>1, <1>5, <1>6, <2>2, SortsOrder
<1>9. QED
  BY <1>7, <1>8

\* What was exact after a page was exact before it.
LEMMA ExactBefore ==
    ASSUME PageType, NEW items, NEW last \in BOOLEAN, FetchedPage(items, last), Exact'
    PROVE  Exact
<1>1. /\ got \in Seq(RowPairs) /\ got' \in Seq(RowPairs)
      /\ Len(got) \in Nat /\ Len(items) \in Nat /\ Len(got') = Len(got) + Len(items)
      /\ \A i \in 1 .. Len(got) : got'[i] = got[i]
  BY GotAfterPage DEF PageType
<1>2. DOMAIN got = 1 .. Len(got) /\ DOMAIN got' = 1 .. Len(got')
  BY <1>1
<1>3. SUFFICES ASSUME NEW i \in DOMAIN got, got[i][1] # Null
               PROVE  AsJson[got[i][1]] = got[i][1]
  BY DEF Exact
<1>4. i \in DOMAIN got' /\ got'[i] = got[i]
  BY <1>1, <1>2
<1>5. QED
  BY <1>3, <1>4 DEF Exact

\* A page keeps what was received in order.
LEMMA PageInOrder ==
    ASSUME PageType, InOrder, NEW items, NEW last \in BOOLEAN, FetchedPage(items, last), Exact'
    PROVE  InOrder'
<1>1. /\ items \in Seq(RowPairs) /\ got' \in Seq(RowPairs)
      /\ Len(got) \in Nat /\ Len(items) \in Nat /\ Len(got') = Len(got) + Len(items)
      /\ \A i \in 1 .. Len(got) : got'[i] = got[i]
      /\ \A i \in 1 .. Len(got') : i > Len(got) =>
            i - Len(got) \in 1 .. Len(items) /\ got'[i] = items[i - Len(got)]
      /\ \A i \in 1 .. Len(items) : got'[Len(got) + i] = items[i]
  BY GotAfterPage
<1>2. /\ items \in Seq(Selected(rows, query, cursor))
      /\ \A i, j \in 1 .. Len(items) : i < j => Sorts(items[i], items[j])
  BY DEF FetchedPage, IsPage
<1>3. ASSUME NEW i \in 1 .. Len(got'), NEW j \in 1 .. Len(got'), i < j
      PROVE  Sorts(got'[i], got'[j])
  <2>1. CASE j > Len(got)
    <3> DEFINE b == j - Len(got)
    <3>1. b \in 1 .. Len(items) /\ got'[j] = items[b]
      BY <1>1, <2>1
    <3>2. CASE i > Len(got)
      <4> DEFINE a == i - Len(got)
      <4>1. a \in 1 .. Len(items) /\ got'[i] = items[a]
        BY <1>1, <3>2
      <4>2. a < b
        BY <1>1, <1>3
      <4>3. QED
        BY <1>2, <3>1, <4>1, <4>2
    <3>3. CASE ~(i > Len(got))
      <4>1. i \in 1 .. Len(got)
        BY <1>1, <3>3
      <4>2. items[b] \in Selected(rows, query, cursor) /\ reading
        BY <1>2, <3>1 DEF FetchedPage
      <4>3. Sorts(got[i], items[b])
        BY <4>1, <4>2, PageFollows
      <4>4. QED
        BY <1>1, <3>1, <4>1, <4>3
    <3>4. QED
      BY <3>2, <3>3
  <2>2. CASE ~(j > Len(got))
    <3>1. i \in 1 .. Len(got) /\ j \in 1 .. Len(got)
      BY <1>1, <1>3, <2>2
    <3>2. QED
      BY <1>1, <1>3, <3>1 DEF InOrder
  <2>3. QED
    BY <2>1, <2>2
<1>4. ASSUME reading'
      PROVE  cursor' # NoCursor /\ got' # <<>> /\ cursor' = got'[Len(got')]
  <2>1. Len(items) > 0 /\ cursor' = items[Len(items)]
    BY <1>4 DEF FetchedPage
  <2>2. Len(items) \in 1 .. Len(items)
    BY <1>1, <2>1
  <2>3. cursor' = got'[Len(got')]
    BY <1>1, <2>1, <2>2
  <2>4. cursor' \in RowPairs
    BY <1>1, <2>1, <2>2
  <2>5. <<>> \notin RowPairs
    BY DEF RowPairs
  <2>6. got' # <<>>
    BY <1>1, <2>1
  <2>7. QED
    BY <2>3, <2>4, <2>5, <2>6 DEF NoCursor
<1>5. QED
  BY <1>3, <1>4 DEF InOrder

\* The rows of a page are rows of the table.
LEMMA PageGenuine ==
    ASSUME PageType, Genuine, NEW items, NEW last \in BOOLEAN, FetchedPage(items, last)
    PROVE  Genuine'
<1>1. /\ Len(got) \in Nat /\ Len(items) \in Nat /\ Len(got') = Len(got) + Len(items)
      /\ \A i \in 1 .. Len(got) : got'[i] = got[i]
      /\ \A i \in 1 .. Len(got') : i > Len(got) =>
            i - Len(got) \in 1 .. Len(items) /\ got'[i] = items[i - Len(got)]
  BY GotAfterPage
<1>2. /\ items \in Seq(Selected(rows, query, cursor))
      /\ rows' = rows /\ touched' = touched
  BY DEF FetchedPage, IsPage
<1>3. ASSUME NEW k \in DOMAIN rows \ touched, NEW i \in 1 .. Len(got'), got'[i][2] = k
      PROVE  got'[i] = <<rows[k], k>>
  <2>1. CASE i > Len(got)
    <3>1. got'[i] \in Selected(rows, query, cursor)
      BY <1>1, <1>2, <2>1
    <3>2. PICK j \in DOMAIN rows : got'[i] = <<rows[j], j>>
      BY <3>1 DEF Selected
    <3>3. j = k
      BY <1>3, <3>2
    <3>4. QED
      BY <3>2, <3>3
  <2>2. CASE ~(i > Len(got))
    <3>1. i \in 1 .. Len(got)
      BY <1>1, <2>2
    <3>2. QED
      BY <1>1, <1>3, <3>1 DEF Genuine
  <2>3. QED
    BY <2>1, <2>2
<1>4. QED
  BY <1>2, <1>3 DEF Genuine

\* A page keeps track of which rows were received.
LEMMA PageReceived ==
    ASSUME PageType, InOrder, Received, query.pkText, query.limit > 0,
           NEW items, NEW last \in BOOLEAN, FetchedPage(items, last), Exact'
    PROVE  Received'
<1>1. /\ reading /\ rows' = rows /\ touched' = touched /\ query' = query
      /\ reading' => ~last /\ Len(items) > 0 /\ cursor' = items[Len(items)]
      /\ ~reading' => last
  BY DEF FetchedPage
<1>2. /\ items \in Seq(Selected(rows, query, cursor))
      /\ \A i, j \in 1 .. Len(items) : i < j => Sorts(items[i], items[j])
      /\ \A r \in Selected(rows, query, cursor) :
            \/ \E i \in 1 .. Len(items) : items[i] = r
            \/ ~last /\ \A i \in 1 .. Len(items) : Sorts(items[i], r)
  BY DEF FetchedPage, IsPage
<1>3. /\ items \in Seq(RowPairs) /\ Len(items) \in Nat /\ Len(got) \in Nat
      /\ \A x : GotRow(x)' <=> GotRow(x) \/ \E i \in 1 .. Len(items) : items[i] = x
  BY GotAfterPage
<1> SUFFICES ASSUME NEW k \in DOMAIN rows \ touched, rows[k] # Null
             PROVE  GotRow(<<rows[k], k>>)'
                      <=> /\ Selects(query.where, rows[k])
                          /\ reading' => cursor' # NoCursor /\ ~Greater(<<rows[k], k>>, cursor')
  BY <1>1 DEF Received, GotRow
<1>0. PICK x : x = <<rows[k], k>>
  OBVIOUS
<1> DEFINE sel == Selected(rows, query, cursor)
<1>4. x \in sel <=> Selects(query.where, rows[k]) /\ (cursor = NoCursor \/ Greater(x, cursor))
  BY <1>0, SelectedRow
<1>5. GotRow(x) <=> Selects(query.where, rows[k]) /\ cursor # NoCursor /\ ~Greater(x, cursor)
  BY <1>0, <1>1 DEF Received
<1>6. x \in RowPairs /\ x[1] # Null
  <2>1. rows[k] \in Values \cup {Null} /\ k \in Pks
    BY DEF PageType, TableType
  <2>2. \A y \in Pks : y \in Nat
    BY PagingAssumption, Zenon
  <2>3. \A y \in Values : y \in Nat
    BY PagingAssumption, Zenon
  <2>4. rows[k] \in Nat /\ k \in Nat
    BY <2>1, <2>2, <2>3 DEF Null
  <2>5. QED
    BY <1>0, <2>4 DEF RowPairs
<1>7. Selects(query.where, rows[k]) <=> GotRow(x) \/ x \in sel
  BY <1>4, <1>5
<1>8. \A i \in 1 .. Len(items) : items[i] \in sel /\ items[i] \in RowPairs
  BY <1>2, <1>3
<1> HIDE DEF sel
<1>9. GotRow(x)' <=> GotRow(x) \/ \E i \in 1 .. Len(items) : items[i] = x
  BY <1>3
<1>10. ASSUME ~reading'
       PROVE  GotRow(x)' <=> Selects(query.where, rows[k])
  <2>1. \A r \in sel : \E i \in 1 .. Len(items) : items[i] = r
    BY <1>1, <1>2, <1>10 DEF sel
  <2>2. QED
    BY <1>7, <1>8, <1>9, <1>10, <2>1
<1>11. ASSUME reading'
       PROVE  /\ GotRow(x)' <=> Selects(query.where, rows[k]) /\ ~Greater(x, cursor')
              /\ cursor' # NoCursor
  <2> DEFINE c == items[Len(items)]
  <2>1. Len(items) \in 1 .. Len(items) /\ cursor' = c /\ ~last
    BY <1>1, <1>3, <1>11
  <2>2. c \in sel /\ c \in RowPairs
    BY <1>8, <2>1
  <2>3. c # NoCursor
    <3>1. <<>> \notin RowPairs
      BY DEF RowPairs
    <3>2. QED
      BY <2>2, <3>1 DEF NoCursor
  <2>4. cursor # NoCursor => cursor \in RowPairs /\ Greater(c, cursor)
    <3>1. ASSUME cursor # NoCursor PROVE cursor \in RowPairs
      <4>1. got # <<>> /\ cursor = got[Len(got)] /\ got \in Seq(RowPairs)
        BY <1>1, <3>1 DEF InOrder, PageType
      <4>2. Len(got) \in 1 .. Len(got)
        BY <1>3, <4>1
      <4>3. QED
        BY <4>1, <4>2
    <3>2. cursor # NoCursor => Greater(c, cursor)
      BY <2>2 DEF sel, Selected
    <3>3. QED
      BY <3>1, <3>2
  <2>5. ASSUME GotRow(x) PROVE ~Greater(x, c)
    BY <1>5, <1>6, <2>2, <2>4, <2>5, GreaterSorts
  <2>6. ASSUME NEW i \in 1 .. Len(items), items[i] = x PROVE ~Greater(x, c)
    <3>1. SUFFICES ASSUME Greater(x, c) PROVE FALSE
      OBVIOUS
    <3>2. Sorts(c, x)
      BY <1>6, <2>2, <3>1, GreaterSorts
    <3>3. i = Len(items) \/ Sorts(x, c)
      BY <1>2, <1>3, <2>1, <2>6
    <3>4. c = x \/ Sorts(x, c)
      BY <2>6, <3>3
    <3>5. Sorts(c, c)
      BY <1>6, <2>2, <3>2, <3>4, SortsOrder
    <3>6. QED
      BY <2>2, <3>5, SortsOrder
  <2>7. ASSUME x \in sel, ~Greater(x, c)
        PROVE  \E i \in 1 .. Len(items) : items[i] = x
    <3>1. ~Sorts(c, x)
      BY <1>6, <2>2, <2>7, GreaterSorts
    <3>2. QED
      BY <1>2, <2>1, <2>7, <3>1 DEF sel
  <2> HIDE DEF c
  <2>8. GotRow(x)' <=> Selects(query.where, rows[k]) /\ ~Greater(x, c)
    BY <1>7, <1>8, <1>9, <2>5, <2>6, <2>7
  <2>9. QED
    BY <1>11, <2>1, <2>3, <2>8
<1>12. GotRow(x)'
         <=> /\ Selects(query.where, rows[k])
             /\ reading' => cursor' # NoCursor /\ ~Greater(x, cursor')
  BY <1>10, <1>11
<1>13. GotRow(<<rows[k], k>>)' <=> GotRow(x)'
  BY <1>0, <1>1 DEF GotRow
<1>14. QED
  BY <1>0, <1>12, <1>13

\* Pages keep the invariant.
LEMMA FetchPageKeeps == PageInv /\ FetchPage => PageInv'
<1> SUFFICES ASSUME PageInv, FetchPage PROVE PageInv'
  OBVIOUS
<1>1. TableType
  BY DEF PageInv
<1>2. rows' = rows /\ query' = query /\ TableType'
  BY <1>1 DEF FetchPage, TableType
<1>3. CASE ~query.desc
  <2>1. PageType /\ Genuine
    BY <1>3 DEF PageInv, PageType
  <2>2. PICK items : \E last \in BOOLEAN : FetchedPage(items, last)
    BY <1>3, <2>1, FetchPageAdds
  <2>3. PICK last \in BOOLEAN : FetchedPage(items, last)
    BY <2>2
  <2>4. ASSUME Exact'
        PROVE  InOrder' /\ (query.pkText /\ query.limit > 0 => Received')
    <3>1. Exact
      BY <2>1, <2>3, <2>4, ExactBefore
    <3>2. InOrder /\ (query.pkText /\ query.limit > 0 => Received)
      BY <1>3, <3>1 DEF PageInv
    <3>3. InOrder'
      BY <2>1, <2>3, <2>4, <3>2, PageInOrder
    <3>4. ASSUME query.pkText, query.limit > 0 PROVE Received'
      BY <2>1, <2>3, <2>4, <3>2, <3>4, PageReceived
    <3>5. QED
      BY <3>3, <3>4
  <2>5. Genuine'
    BY <2>1, <2>3, PageGenuine
  <2>7. got' \in Seq(RowPairs)
    BY <2>1, <2>3, GotAfterPage
  <2>8. QED
    BY <1>2, <2>4, <2>5, <2>7 DEF PageInv
<1>4. CASE query.desc
  BY <1>2, <1>4 DEF PageInv
<1>5. QED
  BY <1>3, <1>4

\* The indexer's writes touch the rows they change.
LEMMA WriteKeeps ==
    ASSUME PageInv, TableType',
           got' = got, query' = query, cursor' = cursor, reading' = reading,
           \A k \in DOMAIN rows' \ touched' : k \in DOMAIN rows \ touched /\ rows'[k] = rows[k]
    PROVE  PageInv'
<1>1. CASE query.desc
  BY <1>1 DEF PageInv
<1>2. CASE ~query.desc
  <2>0. Exact' <=> Exact
    BY DEF Exact
  <2>1. Exact => InOrder'
    BY <1>2 DEF PageInv, InOrder
  <2>2. Genuine'
    BY <1>2 DEF PageInv, Genuine
  <2>3. ASSUME Exact, query.pkText, query.limit > 0 PROVE Received'
    <3>1. Received
      BY <1>2, <2>3 DEF PageInv
    <3>2. QED
      BY <3>1 DEF Received, GotRow
  <2>4. QED
    BY <1>2, <2>0, <2>1, <2>2, <2>3 DEF PageInv
<1>3. QED
  BY <1>1, <1>2

\* Inserting or updating a row keeps the invariant.
LEMMA WriteRowKeeps ==
    ASSUME PageInv, NEW k \in Pks, NEW v \in Values \cup {Null}, WriteRow(k, v)
    PROVE  PageInv'
<1>1. /\ rows' = [j \in DOMAIN rows \cup {k} |-> IF j = k THEN v ELSE rows[j]]
      /\ touched' = touched \cup {k}
      /\ got' = got /\ query' = query /\ cursor' = cursor /\ reading' = reading
  BY DEF WriteRow
<1>2. TableType
  BY DEF PageInv
<1>3. DOMAIN rows' = DOMAIN rows \cup {k}
  BY <1>1
<1>4. IsFiniteSet(DOMAIN rows')
  BY <1>2, <1>3, FS_AddElement DEF TableType
<1>5. TableType'
  BY <1>1, <1>2, <1>3, <1>4 DEF TableType
<1>6. \A j \in DOMAIN rows' \ touched' : j \in DOMAIN rows \ touched /\ rows'[j] = rows[j]
  BY <1>1
<1>7. QED
  BY <1>1, <1>5, <1>6, WriteKeeps

\* Deleting a row keeps the invariant.
LEMMA DeleteRowKeeps ==
    ASSUME PageInv, NEW k \in Pks, DeleteRow(k)
    PROVE  PageInv'
<1>1. /\ rows' = [j \in DOMAIN rows \ {k} |-> rows[j]]
      /\ touched' = touched \cup {k}
      /\ got' = got /\ query' = query /\ cursor' = cursor /\ reading' = reading
  BY DEF DeleteRow
<1>2. TableType
  BY DEF PageInv
<1>3. DOMAIN rows' = DOMAIN rows \ {k}
  BY <1>1
<1>4. IsFiniteSet(DOMAIN rows')
  BY <1>2, <1>3, FS_RemoveElement DEF TableType
<1>5. TableType'
  BY <1>1, <1>2, <1>3, <1>4 DEF TableType
<1>6. \A j \in DOMAIN rows' \ touched' : j \in DOMAIN rows \ touched /\ rows'[j] = rows[j]
  BY <1>1
<1>7. QED
  BY <1>1, <1>5, <1>6, WriteKeeps

\* A client that has not begun has nothing.
LEMMA PageInvInit == PagingInit => PageInv
<1> SUFFICES ASSUME PagingInit PROVE PageInv
  OBVIOUS
<1>1. PICK ks \in SUBSET Pks : IsFiniteSet(ks) /\ rows \in [ks -> Values \cup {Null}]
  BY DEF PagingInit, Contents
<1>2. TableType
  BY <1>1 DEF PagingInit, TableType
<1>3. got = <<>> /\ cursor = NoCursor /\ reading = TRUE
  BY DEF PagingInit
<1>4. got \in Seq(RowPairs) /\ Len(got) = 0
  BY <1>3
<1>5. InOrder /\ Genuine
  BY <1>3, <1>4 DEF InOrder, Genuine
<1>6. Received
  BY <1>3, <1>4 DEF Received, GotRow
<1>7. QED
  BY <1>2, <1>4, <1>5, <1>6 DEF PageInv

\* Every step of the client and of the indexer keeps the invariant.
LEMMA PageInvStep == PageInv /\ [PagingNext]_pageVars => PageInv'
<1> SUFFICES ASSUME PageInv, [PagingNext]_pageVars PROVE PageInv'
  OBVIOUS
<1>1. CASE FetchPage
  BY <1>1, FetchPageKeeps
<1>2. ASSUME NEW k \in Pks, DeleteRow(k) PROVE PageInv'
  BY <1>2, DeleteRowKeeps
<1>3. ASSUME NEW k \in Pks, NEW v \in Values \cup {Null}, WriteRow(k, v) PROVE PageInv'
  BY <1>3, WriteRowKeeps
<1>4. CASE UNCHANGED pageVars
  <2>1. /\ rows' = rows /\ query' = query /\ cursor' = cursor /\ got' = got
        /\ reading' = reading /\ touched' = touched
    BY <1>4 DEF pageVars
  <2>2. TableType'
    BY <2>1 DEF PageInv, TableType
  <2>3. QED
    BY <2>1, <2>2, WriteKeeps
<1>5. QED
  BY <1>1, <1>2, <1>3, <1>4 DEF PagingNext

\* On a value and with lists that are not empty, a filter selects what it means.
LEMMA FilterMeans ==
    ASSUME NEW cond \in Filters, NEW v, v # Null, cond.val # {}
    PROVE  Selects(cond, v) <=> Wanted(cond, v)
<1>1. cond.op \in {"all", "in", "notIn", "gte", "eqNull"}
  BY PagingAssumption
<1>2. QED
  BY <1>1 DEF Selects, Wanted

\* resolve_list (resolver.rs) and its cursors: the pages of an ascending list
\* query follow on each other and are complete, for any table, filter and limit
\* and however the indexer writes between the pages, as long as the order values
\* received are numbers that JSON keeps (whole numbers below 2^64).
THEOREM PagesAreComplete == PagingSpec => []PagesComplete
<1>1. PageInv => PagesComplete
  <2> SUFFICES ASSUME PageInv, ~query.desc, Exact
               PROVE  /\ \A i \in 1 .. Len(got) - 1 : Sorts(got[i], got[i + 1])
                      /\ ~reading /\ query.pkText /\ query.limit > 0 /\ query.where.val # {} =>
                           \A k \in DOMAIN rows \ touched :
                             rows[k] # Null =>
                               Cardinality({i \in DOMAIN got : got[i][2] = k})
                                 = (IF Wanted(query.where, rows[k]) THEN 1 ELSE 0)
    BY DEF PagesComplete
  <2>1. TableType /\ got \in Seq(RowPairs) /\ InOrder /\ Genuine
    BY DEF PageInv
  <2>2. Len(got) \in Nat /\ DOMAIN got = 1 .. Len(got)
    BY <2>1
  <2>3. \A i \in 1 .. Len(got) - 1 : Sorts(got[i], got[i + 1])
    <3> TAKE i \in 1 .. Len(got) - 1
    <3>1. i \in 1 .. Len(got) /\ i + 1 \in 1 .. Len(got) /\ i < i + 1
      BY <2>2
    <3>2. QED
      BY <2>1, <3>1 DEF InOrder
  <2>4. ASSUME ~reading, query.pkText, query.limit > 0, query.where.val # {},
               NEW k \in DOMAIN rows \ touched, rows[k] # Null
        PROVE  Cardinality({i \in DOMAIN got : got[i][2] = k})
                 = (IF Wanted(query.where, rows[k]) THEN 1 ELSE 0)
    <3> DEFINE D == {i \in DOMAIN got : got[i][2] = k}
               x == <<rows[k], k>>
    <3>1. GotRow(x) <=> Selects(query.where, rows[k])
      BY <2>4 DEF PageInv, Received
    <3>2. Selects(query.where, rows[k]) <=> Wanted(query.where, rows[k])
      <4>1. query.where \in Filters
        BY <2>1 DEF TableType
      <4>2. QED
        BY <2>4, <4>1, FilterMeans
    <3>3. \A i \in D : i \in 1 .. Len(got) /\ got[i] = x
      BY <2>1, <2>2 DEF Genuine
    <3>4. \A i \in 1 .. Len(got) : got[i] = x => i \in D
      BY <2>2
    <3>5. CASE GotRow(x)
      <4>1. PICK j \in 1 .. Len(got) : got[j] = x
        BY <3>5 DEF GotRow
      <4>2. x \in RowPairs
        BY <2>1, <4>1
      <4>3. ~Sorts(x, x)
        BY <4>2, SortsOrder
      <4>4. \A i \in D : i = j
        <5> TAKE i \in D
        <5>1. i \in 1 .. Len(got) /\ got[i] = x
          BY <3>3
        <5>2. ~(i < j) /\ ~(j < i)
          BY <2>1, <4>1, <4>3, <5>1 DEF InOrder
        <5>3. QED
          BY <5>1, <5>2
      <4> HIDE DEF D
      <4>5. D = {j}
        BY <3>4, <4>1, <4>4
      <4>6. Cardinality(D) = 1
        BY <4>5, FS_Singleton
      <4>7. QED
        BY <3>1, <3>2, <3>5, <4>6 DEF D
    <3>6. CASE ~GotRow(x)
      <4>1. D = {}
        BY <3>3, <3>6 DEF GotRow
      <4>2. Cardinality(D) = 0
        BY <4>1, FS_EmptySet
      <4>3. QED
        BY <3>1, <3>2, <3>6, <4>2
    <3>7. QED
      BY <3>5, <3>6
  <2>5. QED
    BY <2>3, <2>4
<1>2. QED
  BY <1>1, PageInvInit, PageInvStep, PTL DEF PagingSpec
-----------------------------------------------------------------------------
(***************************************************************************)
(* What validate accepts is wired (module Configuration).                  *)
(***************************************************************************)

\* A configuration with names that are not repeated.
Named(c) ==
    /\ \A i, j \in DOMAIN c.contracts : c.contracts[i].name = c.contracts[j].name => i = j
    /\ \A i, j \in DOMAIN c.chains : c.chains[i].name = c.chains[j].name => i = j

\* The chains and contracts of a configuration that the builder filled in.
LEMMA DefaultsKeep ==
    ASSUME NEW raw \in Configs
    PROVE  /\ Defaults(raw).chains = raw.chains /\ Defaults(raw).contracts = raw.contracts
           /\ raw.chains \in Seq(Chains) /\ raw.contracts \in Seq(Contracts)
  BY DEF Configs, Defaults

\* What Repeats denies of the names.
LEMMA NoRepeatsNamed ==
    ASSUME NEW c, ~Repeats(c.contracts, LAMBDA k : k.name), ~Repeats(c.chains, LAMBDA h : h.name)
    PROVE  Named(c)
  BY DEF Repeats, Named

\* With such names the id of a chain is found under its name.
LEMMA ChainIdOfName ==
    ASSUME NEW c, c.chains \in Seq(Chains), Named(c), NEW h \in DOMAIN c.chains
    PROVE  ChainId(c, c.chains[h].name) = c.chains[h].id
<1> DEFINE LastOfName(i) ==
             /\ c.chains[i].name = c.chains[h].name
             /\ \A j \in DOMAIN c.chains : c.chains[j].name = c.chains[h].name => j <= i
<1>1. h \in Nat
  OBVIOUS
<1>2. \A i \in DOMAIN c.chains : LastOfName(i) <=> i = h
  BY <1>1 DEF Named
<1>3. (CHOOSE i \in DOMAIN c.chains : LastOfName(i)) = h
  BY <1>2, Zenon
<1>4. QED
  BY <1>3 DEF ChainId

\* And a worker is the worker of the one contract of its name.
LEMMA WorkerOfContract ==
    ASSUME NEW c, c.contracts \in Seq(Contracts), Named(c), NEW i \in DOMAIN c.contracts,
           NEW k \in WorkerKeys(c, i)
    PROVE  k \in DOMAIN Workers(c) /\ Workers(c)[k] = c.contracts[i]
<1> DEFINE LastWithKey(m) ==
             /\ k \in WorkerKeys(c, m)
             /\ \A j \in DOMAIN c.contracts : k \in WorkerKeys(c, j) => j <= m
<1>1. i \in Nat
  OBVIOUS
<1>2. ASSUME NEW j \in DOMAIN c.contracts, k \in WorkerKeys(c, j)
      PROVE  j = i
  <2>1. k[2] = c.contracts[j].name /\ k[2] = c.contracts[i].name
    BY <1>2 DEF WorkerKeys
  <2>2. QED
    BY <2>1 DEF Named
<1>3. \A m \in DOMAIN c.contracts : LastWithKey(m) <=> m = i
  BY <1>1, <1>2
<1>4. (CHOOSE m \in DOMAIN c.contracts : LastWithKey(m)) = i
  BY <1>3, Zenon
<1>5. k \in UNION {WorkerKeys(c, j) : j \in DOMAIN c.contracts}
  OBVIOUS
<1>6. QED
  BY <1>4, <1>5 DEF Workers

\* For every configuration and every sequence of handler keys.
LEMMA ConfigIsWired ==
    ASSUME NEW raw \in Configs, NEW keys \in Seq(STRING \X STRING)
    PROVE  AcceptedIsWired(raw, keys)
<1> DEFINE c == Defaults(raw)
           Passes == /\ Valid(c) /\ Builds(c, keys) /\ c.database.kind = "postgres"
                     /\ \A i \in DOMAIN c.contracts : Parses(c.contracts[i])
                     /\ \A i \in DOMAIN c.chains : c.chains[i].url # "malformed"
           Unique == /\ ~Repeats(c.contracts, LAMBDA k : k.name)
                     /\ ~Repeats(c.chains, LAMBDA h : h.name)
<1>1. c.chains \in Seq(Chains) /\ c.contracts \in Seq(Contracts)
  BY DefaultsKeep
<1> HIDE DEF c
<1>2. ASSUME Passes PROVE Wires(c)
  <2>1. \A i \in DOMAIN c.chains : UrlParses(c.chains[i])
    <3> TAKE i \in DOMAIN c.chains
    <3>0. c.chains[i] \in Chains
      BY <1>1
    <3>1. c.chains[i].url \in Urls
      BY <3>0 DEF Chains
    <3>2. c.chains[i].url # "empty" /\ c.chains[i].url # "malformed"
      BY <1>2 DEF Valid
    <3>3. QED
      BY <3>1, <3>2 DEF Urls, UrlParses
  <2>2. QED
    BY <1>2, <2>1 DEF Valid, KnownChains, Wires
<1>3. ASSUME Unique, NEW i \in DOMAIN c.contracts, NEW h \in DOMAIN c.chains,
             c.chains[h].name \in Range(c.contracts[i].chains)
      PROVE  LET key == <<c.chains[h].id, c.contracts[i].name>>
             IN  key \in DOMAIN Workers(c) /\ Workers(c)[key] = c.contracts[i]
  <2>1. Named(c)
    BY <1>3, NoRepeatsNamed
  <2>2. ChainId(c, c.chains[h].name) = c.chains[h].id
    BY <1>1, <2>1, ChainIdOfName
  <2>3. <<c.chains[h].id, c.contracts[i].name>> \in WorkerKeys(c, i)
    BY <1>3, <2>2 DEF WorkerKeys
  <2>4. QED
    BY <1>1, <2>1, <2>3, WorkerOfContract
<1>4. ASSUME Passes, Unique, NEW k \in Range(keys), NEW i \in DOMAIN c.contracts,
             c.contracts[i].name = k[1], c.contracts[i].chains # <<>>
      PROVE  k \in Dispatched(c, keys)
  <2>1. Named(c)
    BY <1>4, NoRepeatsNamed
  <2>2. PICK j \in DOMAIN c.contracts :
               \E e \in c.contracts[j].events : k = <<c.contracts[j].name, e>>
    BY <1>4 DEF Builds, KnownEvents
  <2>3. j = i
    BY <1>4, <2>1, <2>2 DEF Named
  <2>4. c.contracts[i].chains \in Seq(STRING)
    <3>1. c.contracts[i] \in Contracts
      BY <1>1
    <3>2. QED
      BY <3>1 DEF Contracts
  <2>5. 1 \in DOMAIN c.contracts[i].chains
    BY <1>4, <2>4
  <2> DEFINE w == <<ChainId(c, c.contracts[i].chains[1]), c.contracts[i].name>>
  <2>6. w \in WorkerKeys(c, i)
    BY <2>5 DEF WorkerKeys, Range
  <2>7. w \in DOMAIN Workers(c) /\ Workers(c)[w] = c.contracts[i]
    BY <1>1, <2>1, <2>6, WorkerOfContract
  <2>8. w[2] = k[1] /\ k[2] \in Workers(c)[w].events
    BY <1>4, <2>2, <2>3, <2>7
  <2> HIDE DEF w
  <2>9. QED
    BY <2>7, <2>8 DEF Dispatched
<1>5. QED
  BY <1>2, <1>3, <1>4 DEF AcceptedIsWired, c

-----------------------------------------------------------------------------
(***************************************************************************)
(* Which schemas are created in full (module Configuration).               *)
(***************************************************************************)

\* Every set of naturals that is not empty has a least element.
LEMMA LeastNatural ==
    ASSUME NEW T \in SUBSET Nat, T # {}
    PROVE  \E n \in T : \A m \in T : n <= m
<1> DEFINE R == {ss \in Nat \X Nat : ss[1] < ss[2]}
<1>1. IsWellFoundedOn(R, Nat)
  BY NatLessThanWellFounded, Zenon DEF OpToRel
<1>2. PICK n \in T : \A y \in T : ~(<<y, n>> \in R)
  BY <1>1, WFMin, Zenon
<1>3. ASSUME NEW m \in T
      PROVE  n <= m
  <2>1. ~(m < n)
    <3>1. ASSUME m < n PROVE <<m, n>> \in R
      <4>1. <<m, n>> \in Nat \X Nat /\ <<m, n>>[1] < <<m, n>>[2]
        BY <3>1
      <4>2. QED
        BY <4>1, Zenon
    <3>2. QED
      BY <1>2, <3>1, Zenon
  <2>2. QED
    BY <2>1
<1>4. QED
  BY <1>3

\* The recursion of Migrated.
MigrationSteps(F, tables, n) ==
    F = [i \in 0 .. n |-> IF i = 0 THEN EmptyDatabase ELSE CreateTable(F[i - 1], tables[i])]

\* It has a solution, for any tables.
LEMMA MigrationExists ==
    ASSUME NEW tables, NEW n \in Nat
    PROVE  \E F : MigrationSteps(F, tables, n)
<1> DEFINE T == {m \in Nat : ~\E F : MigrationSteps(F, tables, m)}
<1> SUFFICES ASSUME T # {} PROVE FALSE
  OBVIOUS
<1>1. PICK m \in T : \A k \in T : m <= k
  BY LeastNatural
<1>2. CASE m = 0
  <2>1. MigrationSteps([i \in 0 .. 0 |-> EmptyDatabase], tables, 0)
    BY DEF MigrationSteps
  <2>2. QED
    BY <1>1, <1>2, <2>1
<1>3. CASE m # 0
  <2>1. m - 1 \in Nat /\ m - 1 \notin T
    BY <1>1, <1>3
  <2>2. PICK F : MigrationSteps(F, tables, m - 1)
    BY <2>1
  <2> DEFINE G == [i \in 0 .. m |-> IF i = m THEN CreateTable(F[m - 1], tables[m]) ELSE F[i]]
  <2>3. ASSUME NEW i \in 0 .. m
        PROVE  G[i] = IF i = 0 THEN EmptyDatabase ELSE CreateTable(G[i - 1], tables[i])
    <3>1. CASE i = 0
      BY <1>3, <2>2, <3>1 DEF MigrationSteps
    <3>2. CASE i = m
      <4>1. m - 1 \in 0 .. m /\ m - 1 # m
        BY <1>1, <1>3
      <4>2. QED
        BY <1>3, <3>2, <4>1
    <3>3. CASE i # 0 /\ i # m
      <4>1. i \in 0 .. m - 1 /\ i - 1 \in 0 .. m /\ i - 1 # m
        BY <1>1, <3>3
      <4>2. F[i] = CreateTable(F[i - 1], tables[i])
        BY <2>2, <3>3, <4>1 DEF MigrationSteps
      <4>3. QED
        BY <3>3, <4>1, <4>2
    <3>4. QED
      BY <3>1, <3>2, <3>3
  <2>4. MigrationSteps(G, tables, m)
    BY <2>3 DEF MigrationSteps
  <2>5. QED
    BY <1>1, <2>4
<1>4. QED
  BY <1>2, <1>3

\* Migrated is where a solution ends.
LEMMA MigratedSteps ==
    ASSUME NEW tables \in Seq(TableDefs)
    PROVE  \E F : MigrationSteps(F, tables, Len(tables)) /\ Migrated(tables) = F[Len(tables)]
<1> DEFINE Db == CHOOSE F : MigrationSteps(F, tables, Len(tables))
<1>1. Len(tables) \in Nat
  OBVIOUS
<1>2. MigrationSteps(Db, tables, Len(tables))
  BY <1>1, MigrationExists, Zenon
<1>3. Migrated(tables) = Db[Len(tables)]
  BY DEF Migrated, MigrationSteps
<1>4. QED
  BY <1>2, <1>3, Zenon

\* The i-th table can be created when those before it are there.
Fits(tables, i) ==
    /\ RefsFound({tables[j] : j \in 1 .. i - 1}, tables[i])
    /\ IndexesFit(tables[i]) /\ ShadowFits(tables[i])

\* The database after the first i tables: in full, or stopped with an error.
Upto(tables, db, i) ==
    IF \A j \in 1 .. i : Fits(tables, j)
      THEN db = [ok |-> TRUE, made |-> {tables[j] : j \in 1 .. i},
                 shadows |-> {tables[j] : j \in 1 .. i}]
      ELSE \E made, shadows : db = [ok |-> FALSE, made |-> made, shadows |-> shadows]

\* One more table.
LEMMA UptoNext ==
    ASSUME NEW tables, NEW db, NEW i \in Nat \ {0}, Upto(tables, db, i - 1)
    PROVE  Upto(tables, CreateTable(db, tables[i]), i)
<1> DEFINE before == {tables[j] : j \in 1 .. i - 1}
           upto   == {tables[j] : j \in 1 .. i}
<1>1. 1 .. i = (1 .. i - 1) \cup {i}
  OBVIOUS
<1>2. upto = before \cup {tables[i]}
  BY <1>1
<1>4. (\A j \in 1 .. i : Fits(tables, j))
        <=> (\A j \in 1 .. i - 1 : Fits(tables, j)) /\ Fits(tables, i)
  BY <1>1
<1>5. CASE \A j \in 1 .. i - 1 : Fits(tables, j)
  <2>1. db = [ok |-> TRUE, made |-> before, shadows |-> before]
    BY <1>5 DEF Upto
  <2>2. CASE Fits(tables, i)
    <3>1. RefsFound(before, tables[i]) /\ IndexesFit(tables[i]) /\ ShadowFits(tables[i])
      BY <2>2 DEF Fits
    <3> HIDE DEF before
    <3>2. CreateTable(db, tables[i])
            = [ok |-> TRUE, made |-> before \cup {tables[i]}, shadows |-> before \cup {tables[i]}]
      BY <2>1, <3>1 DEF CreateTable
    <3>3. QED
      BY <1>2, <1>4, <1>5, <2>2, <3>2 DEF Upto
  <2>3. CASE ~Fits(tables, i)
    <3>1. ~RefsFound(before, tables[i]) \/ ~(IndexesFit(tables[i]) /\ ShadowFits(tables[i]))
      BY <2>3 DEF Fits
    <3> HIDE DEF before
    <3>2. \E made, shadows :
            CreateTable(db, tables[i]) = [ok |-> FALSE, made |-> made, shadows |-> shadows]
      BY <2>1, <3>1 DEF CreateTable
    <3>3. QED
      BY <1>4, <2>3, <3>2 DEF Upto
  <2>4. QED
    BY <2>2, <2>3
<1>6. CASE ~\A j \in 1 .. i - 1 : Fits(tables, j)
  <2>1. PICK made, shadows : db = [ok |-> FALSE, made |-> made, shadows |-> shadows]
    BY <1>6 DEF Upto
  <2>2. CreateTable(db, tables[i]) = [ok |-> FALSE, made |-> made, shadows |-> shadows]
    BY <2>1 DEF CreateTable
  <2>3. QED
    BY <1>4, <1>6, <2>2 DEF Upto
<1>7. QED
  BY <1>5, <1>6

\* So the recursion ends in full exactly if all tables fit.
LEMMA UptoEnd ==
    ASSUME NEW tables, NEW n \in Nat, NEW F, MigrationSteps(F, tables, n)
    PROVE  Upto(tables, F[n], n)
<1> DEFINE T == {m \in Nat : m <= n /\ ~Upto(tables, F[m], m)}
<1> SUFFICES ASSUME T # {} PROVE FALSE
  OBVIOUS
<1>1. PICK m \in T : \A k \in T : m <= k
  BY LeastNatural
<1>2. CASE m = 0
  <2>1. F[0] = EmptyDatabase
    BY DEF MigrationSteps
  <2>2. {tables[j] : j \in 1 .. 0} = {}
    OBVIOUS
  <2>3. Upto(tables, F[0], 0)
    BY <2>1, <2>2 DEF Upto, EmptyDatabase
  <2>4. QED
    BY <1>1, <1>2, <2>3
<1>3. CASE m # 0
  <2>1. m \in Nat \ {0} /\ m \in 0 .. n /\ m - 1 \in Nat /\ m - 1 <= n /\ m - 1 \notin T
    BY <1>1, <1>3
  <2>2. Upto(tables, F[m - 1], m - 1)
    BY <2>1
  <2>3. F[m] = CreateTable(F[m - 1], tables[m])
    BY <1>3, <2>1 DEF MigrationSteps
  <2>4. Upto(tables, F[m], m)
    BY <2>1, <2>2, <2>3, UptoNext
  <2>5. QED
    BY <1>1, <2>4
<1>4. QED
  BY <1>2, <1>3

\* For every schema.
LEMMA SchemaMigrates ==
    ASSUME NEW tables \in Seq(TableDefs)
    PROVE  MigratesInFull(tables)
<1> DEFINE n == Len(tables)
           db == Migrated(tables)
<1>1. n \in Nat /\ DOMAIN tables = 1 .. n
  OBVIOUS
<1>2. Upto(tables, db, n)
  BY <1>1, MigratedSteps, UptoEnd
<1>3. Range(tables) = {tables[j] : j \in 1 .. n}
  BY <1>1 DEF Range
<1> HIDE DEF n, db
<1>4. (db.ok /\ db.made = Range(tables) /\ db.shadows = db.made)
        <=> \A i \in 1 .. n : Fits(tables, i)
  <2>1. CASE \A i \in 1 .. n : Fits(tables, i)
    <3>1. db = [ok |-> TRUE, made |-> Range(tables), shadows |-> Range(tables)]
      BY <1>2, <1>3, <2>1 DEF Upto
    <3>2. QED
      BY <2>1, <3>1
  <2>2. CASE ~\A i \in 1 .. n : Fits(tables, i)
    <3>1. PICK made, shadows : db = [ok |-> FALSE, made |-> made, shadows |-> shadows]
      BY <1>2, <2>2 DEF Upto
    <3>2. db.ok = FALSE
      BY <3>1
    <3>3. QED
      BY <2>2, <3>2
  <2>3. QED
    BY <2>1, <2>2
<1>5. QED
  BY <1>1, <1>4 DEF MigratesInFull, Fits, db

\* The input is of the type of its kind, and nothing else is known of it.
ConfigInput ==
    /\ input.kind = "config" => input.raw \in Configs /\ input.keys \in Seq(STRING \X STRING)
    /\ input.kind = "schema" => input.tables \in Seq(TableDefs)

(* validation.rs:9, runner.rs:143 and schema.rs:102: every configuration   *)
(* that validate accepts, on Postgres and with URLs and ABIs that parse,   *)
(* is wired, with a worker for each contract on each chain, and a schema   *)
(* of any number of tables is created in full exactly if each table's      *)
(* references, indexes and columns fit.                                    *)
THEOREM ConfigsAlwaysWork == ConfigInput => AcceptedConfigsWork
  BY ConfigIsWired, SchemaMigrates DEF ConfigInput, AcceptedConfigsWork

-----------------------------------------------------------------------------
(***************************************************************************)
(* The names of the GraphQL schema (module GraphqlSchema).                 *)
(***************************************************************************)

\* The recursion of ToPascalCase.
KeptSteps(F, t, n) ==
    F = [i \in 0 .. n |-> IF i = 0 THEN <<>>
                          ELSE IF t[i] = Empty THEN F[i - 1] ELSE Append(F[i - 1], t[i])]

\* A name without empty words is kept word by word.
LEMMA PlainKept ==
    ASSUME NEW t \in SnakeNames, PlainName(t)
    PROVE  KeptSteps([i \in 0 .. Len(t) |-> SubSeq(t, 1, i)], t, Len(t))
<1> DEFINE n == Len(t)
           G == [i \in 0 .. n |-> SubSeq(t, 1, i)]
<1>1. t \in Seq(STRING \X Nat) /\ n \in Nat
  BY DEF SnakeNames
<1>2. ASSUME NEW i \in 0 .. n
      PROVE  G[i] = IF i = 0 THEN <<>>
                    ELSE IF t[i] = Empty THEN G[i - 1] ELSE Append(G[i - 1], t[i])
  <2>1. CASE i = 0
    BY <1>1, <2>1
  <2>2. CASE i # 0
    <3>1. i \in DOMAIN t /\ i - 1 \in 0 .. n
      BY <1>1, <2>2
    <3>2. t[i] # Empty
      BY <3>1 DEF PlainName
    <3>3. SubSeq(t, 1, i) = Append(SubSeq(t, 1, i - 1), t[i])
      BY <1>1, <3>1
    <3>4. QED
      BY <2>2, <3>1, <3>2, <3>3
  <2>3. QED
    BY <2>1, <2>2
<1>3. QED
  BY <1>2 DEF KeptSteps

\* The recursion has one solution only.
LEMMA KeptUnique ==
    ASSUME NEW t, NEW n \in Nat, NEW F, NEW G, KeptSteps(F, t, n), KeptSteps(G, t, n)
    PROVE  F[n] = G[n]
<1> DEFINE T == {m \in Nat : m <= n /\ F[m] # G[m]}
<1> SUFFICES ASSUME T # {} PROVE FALSE
  OBVIOUS
<1>1. PICK m \in T : \A k \in T : m <= k
  BY LeastNatural
<1>2. CASE m = 0
  BY <1>1, <1>2 DEF KeptSteps
<1>3. CASE m # 0
  <2>1. m \in 0 .. n /\ m - 1 \in Nat /\ m - 1 <= n /\ m - 1 \notin T
    BY <1>1, <1>3
  <2>2. F[m - 1] = G[m - 1]
    BY <2>1
  <2>3. F[m] = G[m]
    BY <1>3, <2>1, <2>2 DEF KeptSteps
  <2>4. QED
    BY <1>1, <2>3
<1>4. QED
  BY <1>2, <1>3

\* So to_pascal_case and to_camel_case leave the words of a plain name alone.
LEMMA PlainCase ==
    ASSUME NEW t \in SnakeNames, PlainName(t)
    PROVE  ToPascalCase(t) = t /\ ToCamelCase(t) = t /\ ListName(t) = Plural(t)
<1> DEFINE n == Len(t)
           G == [i \in 0 .. n |-> SubSeq(t, 1, i)]
           Kept == CHOOSE F : KeptSteps(F, t, n)
<1>1. t \in Seq(STRING \X Nat) /\ t # <<>> /\ n \in Nat
  BY DEF SnakeNames
<1>2. KeptSteps(G, t, n)
  BY PlainKept
<1> HIDE DEF G
<1>3. KeptSteps(Kept, t, n)
  BY <1>2, Zenon
<1>4. ToPascalCase(t) = Kept[n]
  BY DEF ToPascalCase, KeptSteps
<1> HIDE DEF Kept
<1>5. Kept[n] = G[n]
  BY <1>1, <1>2, <1>3, KeptUnique
<1>6. G[n] = t
  BY <1>1 DEF G
<1>7. ToPascalCase(t) = t
  BY <1>4, <1>5, <1>6
<1>8. Head(t) # Empty
  BY <1>1 DEF PlainName
<1>9. <<>> \o t = t
  BY <1>1
<1>10. ToCamelCase(t) = t
  BY <1>7, <1>8, <1>9 DEF ToCamelCase
<1>11. QED
  BY <1>7, <1>10 DEF ListName, Plural

\* The name of the k-th type of a table.
TypeName(t, k) ==
    CASE k = 1 -> t
      [] k = 2 -> Append(t, Word("page"))
      [] k = 3 -> Append(t, Word("filter"))
      [] k = 4 -> t \o <<Word("order"), Word("by")>>

\* It is the name under which TypesOf registers that type.
LEMMA TypesOfPlain ==
    ASSUME NEW t \in SnakeNames, PlainName(t), NEW k \in 1 .. 4
    PROVE  TypesOf(t)[k].name = TypeName(t, k)
<1>1. ToPascalCase(t) = t
  BY PlainCase
<1>2. CASE k = 1
  BY <1>1, <1>2 DEF TypesOf, TypeName
<1>3. CASE k = 2
  BY <1>1, <1>3 DEF TypesOf, TypeName, PageName
<1>4. CASE k = 3
  BY <1>1, <1>4 DEF TypesOf, TypeName, FilterName
<1>5. CASE k = 4
  BY <1>1, <1>5 DEF TypesOf, TypeName, OrderByName
<1>6. QED
  BY <1>2, <1>3, <1>4, <1>5

\* The last word of a type's name tells what it is the type of.
LEMMA LastWord ==
    ASSUME NEW t \in SnakeNames, PlainName(t)
    PROVE  /\ TypeName(t, 1) = t
           /\ Len(TypeName(t, 2)) = Len(t) + 1 /\ TypeName(t, 2)[Len(t) + 1] = Word("page")
           /\ Len(TypeName(t, 3)) = Len(t) + 1 /\ TypeName(t, 3)[Len(t) + 1] = Word("filter")
           /\ Len(TypeName(t, 4)) = Len(t) + 2 /\ TypeName(t, 4)[Len(t) + 2] = Word("by")
           /\ \A k \in 1 .. 4 : \A i \in 1 .. Len(t) : TypeName(t, k)[i] = t[i]
           /\ t[Len(t)] \notin {Word("page"), Word("filter"), Word("by"),
                                Word("info"), Word("direction")}
           /\ t \in Seq(STRING \X Nat) /\ Len(t) \in Nat \ {0}
<1> DEFINE W == (STRING \X Nat) \cup {Word("page"), Word("filter"), Word("order"), Word("by")}
<1>1. t \in Seq(STRING \X Nat) /\ Len(t) \in Nat \ {0}
  BY DEF SnakeNames
<1>2. t \in Seq(W)
  BY <1>1
<1>3. Word("page") \in W /\ Word("filter") \in W /\ Word("order") \in W /\ Word("by") \in W
  OBVIOUS
<1> HIDE DEF W
<1>4. TypeName(t, 1) = t /\ TypeName(t, 2) = Append(t, Word("page"))
      /\ TypeName(t, 3) = Append(t, Word("filter"))
      /\ TypeName(t, 4) = t \o <<Word("order"), Word("by")>>
  BY DEF TypeName
<1>5. Len(TypeName(t, 4)) = Len(t) + 2 /\ TypeName(t, 4)[Len(t) + 2] = Word("by")
  BY <1>1, <1>2, <1>3, <1>4
<1>6. ASSUME NEW k \in 1 .. 4
      PROVE  \A i \in 1 .. Len(t) : TypeName(t, k)[i] = t[i]
  <2>1. CASE k = 1
    BY <1>4, <2>1
  <2>2. CASE k = 2
    BY <1>2, <1>3, <1>4, <2>2
  <2>3. CASE k = 3
    BY <1>2, <1>3, <1>4, <2>3
  <2>4. CASE k = 4
    <3>1. <<Word("order"), Word("by")>> \in Seq(W)
      BY <1>3
    <3>2. QED
      BY <1>2, <1>4, <2>4, <3>1
  <2>5. QED
    BY <2>1, <2>2, <2>3, <2>4
<1>7. t[Len(t)] \notin {Word("page"), Word("filter"), Word("by"), Word("info"), Word("direction")}
  BY DEF PlainName
<1>8. Len(TypeName(t, 2)) = Len(t) + 1 /\ TypeName(t, 2)[Len(t) + 1] = Word("page")
  BY <1>1, <1>2, <1>3, <1>4
<1>9. Len(TypeName(t, 3)) = Len(t) + 1 /\ TypeName(t, 3)[Len(t) + 1] = Word("filter")
  BY <1>1, <1>2, <1>3, <1>4
<1>10. QED
  BY <1>1, <1>4, <1>5, <1>6, <1>7, <1>8, <1>9

\* Different types have different names.
LEMMA TypeNamesDiffer ==
    ASSUME NEW t \in SnakeNames, NEW u \in SnakeNames, PlainName(t), PlainName(u),
           NEW k \in 1 .. 4, NEW l \in 1 .. 4, TypeName(t, k) = TypeName(u, l)
    PROVE  t = u /\ k = l
<1> DEFINE x == TypeName(t, k)
           last == x[Len(x)]
<1>1. /\ Word("page") # Word("filter") /\ Word("page") # Word("by")
      /\ Word("filter") # Word("by")
  BY DEF Word
<1>2. /\ k = 1 => last = t[Len(t)] /\ Len(x) = Len(t)
      /\ k = 2 => last = Word("page") /\ Len(x) = Len(t) + 1
      /\ k = 3 => last = Word("filter") /\ Len(x) = Len(t) + 1
      /\ k = 4 => last = Word("by") /\ Len(x) = Len(t) + 2
  BY LastWord
<1>3. /\ l = 1 => last = u[Len(u)] /\ Len(x) = Len(u)
      /\ l = 2 => last = Word("page") /\ Len(x) = Len(u) + 1
      /\ l = 3 => last = Word("filter") /\ Len(x) = Len(u) + 1
      /\ l = 4 => last = Word("by") /\ Len(x) = Len(u) + 2
  BY LastWord
<1>4. k = l
  <2>1. /\ t[Len(t)] \notin {Word("page"), Word("filter"), Word("by")}
        /\ u[Len(u)] \notin {Word("page"), Word("filter"), Word("by")}
    BY LastWord
  <2> HIDE DEF x, last
  <2>2. k \in {1, 2, 3, 4} /\ l \in {1, 2, 3, 4}
    OBVIOUS
  <2>3. QED
    BY <1>1, <1>2, <1>3, <2>1, <2>2
<1>5. Len(t) \in Nat /\ Len(u) \in Nat
  BY LastWord
<1>6. Len(t) = Len(u)
  BY <1>2, <1>3, <1>4, <1>5
<1>7. \A i \in 1 .. Len(t) : t[i] = u[i]
  <2>1. \A i \in 1 .. Len(t) : x[i] = t[i]
    BY LastWord
  <2>2. \A i \in 1 .. Len(u) : x[i] = u[i]
    <3>1. \A i \in 1 .. Len(u) : TypeName(u, l)[i] = u[i]
      BY LastWord
    <3>2. QED
      BY <3>1, Zenon
  <2> HIDE DEF x
  <2>3. QED
    BY <1>6, <2>1, <2>2
<1>8. t = u
  <2>1. t \in Seq(STRING \X Nat) /\ u \in Seq(STRING \X Nat)
    BY LastWord
  <2>2. QED
    BY <1>6, <1>7, <2>1
<1>9. QED
  BY <1>4, <1>8

\* And none of them is a type that all tables share, or Query.
LEMMA TypeNamesOwn ==
    ASSUME NEW t \in SnakeNames, PlainName(t), NEW k \in 1 .. 4
    PROVE  TypeName(t, k) \notin SharedNames \cup {Query}
<1>0. k \in {1, 2, 3, 4}
  OBVIOUS
<1> DEFINE x == TypeName(t, k)
<1>1. /\ k = 1 => x = t
      /\ k = 2 => x[Len(x)] = Word("page") /\ Len(x) = Len(t) + 1
      /\ k = 3 => x[Len(x)] = Word("filter") /\ Len(x) = Len(t) + 1 /\ x[1] = t[1]
      /\ k = 4 => x[Len(x)] = Word("by") /\ Len(x) = Len(t) + 2
      /\ t[Len(t)] \notin {Word("page"), Word("filter"), Word("by"), Word("info"), Word("direction")}
      /\ t \in Seq(STRING \X Nat) /\ Len(t) \in Nat \ {0}
  BY LastWord
<1> HIDE DEF x
<1>2. x # Query
  <2>1. Len(Query) = 1
    BY DEF Query
  <2>2. CASE k = 1
    BY <1>1, <2>2 DEF PlainName, Query
  <2>3. CASE k # 1
    <3>1. Len(x) # 1
      BY <1>0, <1>1, <2>3
    <3>2. QED
      BY <2>1, <3>1
  <2>4. QED
    BY <2>2, <2>3
<1>3. ASSUME NEW v, NEW w \in {"info", "direction"}
      PROVE  x # <<Word(v), Word(w)>>
  <2> SUFFICES ASSUME x = <<Word(v), Word(w)>> PROVE FALSE
    OBVIOUS
  <2>1. x[Len(x)] = Word(w)
    OBVIOUS
  <2>2. Word(w) \notin {Word("page"), Word("filter"), Word("by")}
    BY <1>3 DEF Word
  <2>3. Word(w) \in {Word("info"), Word("direction")}
    BY <1>3
  <2>4. QED
    BY <1>0, <1>1, <2>1, <2>2, <2>3
<1>4. ASSUME NEW v \in {"string", "int", "bool"}
      PROVE  x # <<Word(v), Word("filter")>>
  <2> SUFFICES ASSUME x = <<Word(v), Word("filter")>> PROVE FALSE
    OBVIOUS
  <2>1. Len(x) = 2 /\ x[2] = Word("filter") /\ x[1] = Word(v)
    OBVIOUS
  <2>2. k = 3
    <3>1. Word("filter") # Word("page") /\ Word("filter") # Word("by")
      BY DEF Word
    <3>2. x[Len(x)] = Word("filter")
      BY <2>1
    <3>3. QED
      BY <1>0, <1>1, <3>1, <3>2
  <2>3. Len(t) = 1 /\ t[1] = Word(v)
    <3>1. Len(x) = Len(t) + 1 /\ x[1] = t[1] /\ Len(t) \in Nat
      BY <1>1, <2>2
    <3>2. Len(t) + 1 = 2
      BY <2>1, <3>1, Zenon
    <3>3. Len(t) = 1
      <4>1. \A n \in Nat : n + 1 = 2 => n = 1
        OBVIOUS
      <4>2. QED
        BY <3>1, <3>2, <4>1, Zenon
    <3>4. t[1] = Word(v)
      BY <2>1, <3>1, Zenon
    <3>5. QED
      BY <3>3, <3>4
  <2>4. t = <<Word(v)>>
    BY <1>1, <2>3
  <2>5. QED
    BY <2>4 DEF PlainName
<1>5. QED
  BY <1>2, <1>3, <1>4 DEF SharedNames, PageInfo, OrderDirection, Filter, x

\* A schema of plain tables.
PlainSchema(tables) == tables \in Seq(SnakeNames) /\ PlainTables(tables)

\* Each type of a table is what its name leads to.
LEMMA OwnResolves ==
    ASSUME NEW tables, PlainSchema(tables), NEW i \in DOMAIN tables, NEW k \in 1 .. 4
    PROVE  Resolved(tables, TypeName(tables[i], k)) = TypesOf(tables[i])[k].is
<1> DEFINE name == TypeName(tables[i], k)
           at == {p \in (DOMAIN tables) \X (1 .. 4) : TypesOf(tables[p[1]])[p[2]].name = name}
           IsLast(p) == \A q \in at : q[1] < p[1] \/ (q[1] = p[1] /\ q[2] <= p[2])
<1>1. tables \in Seq(SnakeNames) /\ \A j \in DOMAIN tables : PlainName(tables[j])
  BY DEF PlainSchema, PlainTables
<1>2. \A j \in DOMAIN tables, l \in 1 .. 4 :
         tables[j] \in SnakeNames /\ TypesOf(tables[j])[l].name = TypeName(tables[j], l)
  BY <1>1, TypesOfPlain
<1>3. ASSUME NEW j \in DOMAIN tables, NEW l \in 1 .. 4, TypeName(tables[j], l) = name
      PROVE  j = i /\ l = k
  <2>1. tables[j] = tables[i] /\ l = k
    BY <1>1, <1>2, <1>3, TypeNamesDiffer
  <2>2. QED
    BY <2>1 DEF PlainSchema, PlainTables
<1>4. at = {<<i, k>>}
  BY <1>2, <1>3
<1>5. name # Query
  BY <1>1, <1>2, TypeNamesOwn
<1> HIDE DEF name
<1>6. Resolved(tables, name) = TypesOf(tables[(CHOOSE p \in at : IsLast(p))[1]])
                                 [(CHOOSE p \in at : IsLast(p))[2]].is
  BY <1>4, <1>5 DEF Resolved
<1> HIDE DEF at
<1>7. i \in Nat /\ k \in Nat
  BY <1>1
<1>8. IsLast(<<i, k>>)
  BY <1>4, <1>7
<1> HIDE DEF IsLast
<1>9. (CHOOSE p \in at : IsLast(p)) = <<i, k>>
  BY <1>4, <1>8, Zenon
<1>10. <<i, k>>[1] = i /\ <<i, k>>[2] = k
  OBVIOUS
<1>11. QED
  BY <1>6, <1>9, <1>10, Zenon DEF name

\* And what is shared stays shared.
LEMMA SharedResolve ==
    ASSUME NEW tables, PlainSchema(tables), NEW name \in SharedNames
    PROVE  Resolved(tables, name) = <<"shared", name>>
<1> DEFINE at == {p \in (DOMAIN tables) \X (1 .. 4) : TypesOf(tables[p[1]])[p[2]].name = name}
<1>1. tables \in Seq(SnakeNames) /\ \A j \in DOMAIN tables : PlainName(tables[j])
  BY DEF PlainSchema, PlainTables
<1>2. ASSUME NEW j \in DOMAIN tables, NEW l \in 1 .. 4
      PROVE  TypesOf(tables[j])[l].name # name
  <2>1. tables[j] \in SnakeNames
    BY <1>1
  <2>2. TypesOf(tables[j])[l].name = TypeName(tables[j], l)
    BY <1>1, <2>1, TypesOfPlain
  <2>3. QED
    BY <1>1, <2>1, <2>2, TypeNamesOwn
<1>3. at = {}
  BY <1>2
<1>4. name # Query
  <2>1. Len(name) = 2
    BY DEF SharedNames, PageInfo, OrderDirection, Filter
  <2>2. QED
    BY <2>1 DEF Query
<1>5. QED
  BY <1>3, <1>4 DEF Resolved

\* The plural of a name gives the name.
LEMMA PluralUnique ==
    ASSUME NEW t \in SnakeNames, NEW u \in SnakeNames, Plural(t) = Plural(u)
    PROVE  t = u
<1>1. /\ t \in Seq(STRING \X Nat) /\ Len(t) \in Nat \ {0}
      /\ u \in Seq(STRING \X Nat) /\ Len(u) \in Nat \ {0}
  BY DEF SnakeNames
<1>2. DOMAIN t = 1 .. Len(t) /\ DOMAIN u = 1 .. Len(u)
  BY <1>1
<1>3. DOMAIN Plural(t) = DOMAIN t /\ DOMAIN Plural(u) = DOMAIN u
  BY DEF Plural
<1>4. Len(t) = Len(u)
  <2>1. 1 .. Len(t) = 1 .. Len(u)
    BY <1>2, <1>3
  <2>2. QED
    BY <1>1, <2>1
<1>5. \A i \in 1 .. Len(t) : i # Len(t) => t[i] = u[i]
  <2>1. ASSUME NEW i \in 1 .. Len(t), i # Len(t)
        PROVE  Plural(t)[i] = t[i] /\ Plural(u)[i] = u[i]
    BY <1>2, <1>4, <2>1 DEF Plural
  <2>2. QED
    BY <2>1
<1>6. t[Len(t)] = u[Len(t)]
  <2> DEFINE m == Len(t)
  <2>1. t[m] \in STRING \X Nat /\ u[m] \in STRING \X Nat
    BY <1>1, <1>2, <1>4
  <2>2. Plural(t)[m] = <<t[m][1], t[m][2] + 1>> /\ Plural(u)[m] = <<u[m][1], u[m][2] + 1>>
    BY <1>1, <1>2, <1>4 DEF Plural
  <2>3. t[m][1] = u[m][1] /\ t[m][2] + 1 = u[m][2] + 1
    BY <2>2
  <2>4. QED
    BY <2>1, <2>3
<1>7. \A i \in 1 .. Len(t) : t[i] = u[i]
  BY <1>5, <1>6
<1>8. QED
  BY <1>1, <1>4, <1>7

\* No query field is added twice.
LEMMA PlainBuilds ==
    ASSUME NEW tables, PlainSchema(tables)
    PROVE  SchemaBuilds(tables)
<1>1. tables \in Seq(SnakeNames)
      /\ \A j \in DOMAIN tables : tables[j] \in SnakeNames /\ PlainName(tables[j])
  BY DEF PlainSchema, PlainTables
<1>2. CASE tables = <<>>
  <2>1. DOMAIN QueryFields(tables) = {1}
    BY <1>2 DEF QueryFields
  <2>2. QED
    BY <2>1 DEF SchemaBuilds
<1>3. CASE tables # <<>>
  <2> DEFINE fs == QueryFields(tables)
  <2>1. DOMAIN fs = (DOMAIN tables) \X {"single", "list"}
    BY <1>3 DEF QueryFields
  <2>2. ASSUME NEW j \in DOMAIN tables
        PROVE  /\ fs[<<j, "single">>].name = tables[j]
               /\ fs[<<j, "list">>].name = Plural(tables[j])
    <3>1. fs[<<j, "single">>] = SingleField(tables[j]) /\ fs[<<j, "list">>] = ListField(tables[j])
      BY <1>3 DEF QueryFields
    <3>2. ToCamelCase(tables[j]) = tables[j] /\ ListName(tables[j]) = Plural(tables[j])
      BY <1>1, PlainCase
    <3> HIDE DEF fs
    <3>3. QED
      BY <3>1, <3>2 DEF SingleField, ListField
  <2> HIDE DEF fs
  <2>3. ASSUME NEW i \in DOMAIN tables, NEW j \in DOMAIN tables
        PROVE  /\ tables[i] = tables[j] => i = j
               /\ tables[i] # Plural(tables[j])
               /\ Plural(tables[i]) = Plural(tables[j]) => i = j
    BY <1>1, PluralUnique DEF PlainSchema, PlainTables
  <2>4. ASSUME NEW p \in DOMAIN fs, NEW q \in DOMAIN fs, fs[p].name = fs[q].name
        PROVE  p = q
    <3>1. PICK i \in DOMAIN tables, a \in {"single", "list"} : p = <<i, a>>
      BY <2>1
    <3>2. PICK j \in DOMAIN tables, b \in {"single", "list"} : q = <<j, b>>
      BY <2>1
    <3>3. a = b /\ i = j
      <4>1. CASE a = "single" /\ b = "single"
        BY <2>2, <2>3, <2>4, <3>1, <3>2, <4>1
      <4>2. CASE a = "list" /\ b = "list"
        <5>1. Plural(tables[i]) = Plural(tables[j])
          BY <2>2, <2>4, <3>1, <3>2, <4>2
        <5>2. QED
          BY <2>3, <4>2, <5>1
      <4>3. CASE a = "single" /\ b = "list"
        <5>1. tables[i] = Plural(tables[j])
          BY <2>2, <2>4, <3>1, <3>2, <4>3
        <5>2. QED
          BY <2>3, <5>1
      <4>4. CASE a = "list" /\ b = "single"
        <5>1. tables[j] = Plural(tables[i])
          BY <2>2, <2>4, <3>1, <3>2, <4>4
        <5>2. QED
          BY <2>3, <5>1
      <4>5. QED
        BY <3>1, <3>2, <4>1, <4>2, <4>3, <4>4
    <3>4. QED
      BY <3>1, <3>2, <3>3
  <2>5. QED
    BY <2>4 DEF SchemaBuilds, fs
<1>4. QED
  BY <1>2, <1>3

\* For every schema.
LEMMA SchemaResolves ==
    ASSUME NEW tables \in Seq(SnakeNames)
    PROVE  NamesResolve(tables)
<1> SUFFICES ASSUME PlainTables(tables)
             PROVE  /\ SchemaBuilds(tables)
                    /\ \A i \in DOMAIN tables :
                         LET t == tables[i]
                         IN  /\ Resolved(tables, SingleField(t).type) = <<"object", t>>
                             /\ Resolved(tables, ListField(t).type) = <<"page", t>>
                             /\ {Resolved(tables, a) : a \in ListField(t).args}
                                  = {<<"filter", t>>, <<"order", t>>, <<"shared", OrderDirection>>}
                    /\ \A name \in SharedNames : Resolved(tables, name) = <<"shared", name>>
                    /\ Resolved(tables, Query) = <<"query">>
  BY DEF NamesResolve
<1>1. PlainSchema(tables)
  BY DEF PlainSchema
<1>2. ASSUME NEW i \in DOMAIN tables
      PROVE  LET t == tables[i]
             IN  /\ Resolved(tables, SingleField(t).type) = <<"object", t>>
                 /\ Resolved(tables, ListField(t).type) = <<"page", t>>
                 /\ {Resolved(tables, a) : a \in ListField(t).args}
                      = {<<"filter", t>>, <<"order", t>>, <<"shared", OrderDirection>>}
  <2> DEFINE t == tables[i]
  <2>1. ToPascalCase(t) = t
    <3>1. t \in SnakeNames /\ PlainName(t)
      BY DEF PlainTables
    <3>2. QED
      BY <3>1, PlainCase
  <2>2. /\ SingleField(t).type = TypeName(t, 1) /\ ListField(t).type = TypeName(t, 2)
        /\ ListField(t).args = {TypeName(t, 3), TypeName(t, 4), OrderDirection}
    BY <2>1 DEF SingleField, ListField, TypeName, PageName, FilterName, OrderByName
  <2>3. /\ TypesOf(t)[1].is = <<"object", t>> /\ TypesOf(t)[2].is = <<"page", t>>
        /\ TypesOf(t)[3].is = <<"filter", t>> /\ TypesOf(t)[4].is = <<"order", t>>
    BY DEF TypesOf
  <2>4. /\ Resolved(tables, TypeName(t, 1)) = <<"object", t>>
        /\ Resolved(tables, TypeName(t, 2)) = <<"page", t>>
        /\ Resolved(tables, TypeName(t, 3)) = <<"filter", t>>
        /\ Resolved(tables, TypeName(t, 4)) = <<"order", t>>
    <3>1. \A k \in 1 .. 4 : Resolved(tables, TypeName(tables[i], k)) = TypesOf(tables[i])[k].is
      BY <1>1, OwnResolves
    <3>2. 1 \in 1 .. 4 /\ 2 \in 1 .. 4 /\ 3 \in 1 .. 4 /\ 4 \in 1 .. 4
      OBVIOUS
    <3>3. QED
      BY <2>3, <3>1, <3>2, Zenon
  <2>5. OrderDirection \in SharedNames
    BY DEF SharedNames
  <2>6. Resolved(tables, OrderDirection) = <<"shared", OrderDirection>>
    BY <1>1, <2>5, SharedResolve
  <2> HIDE DEF t
  <2>7. {Resolved(tables, a) : a \in ListField(t).args}
          = {<<"filter", t>>, <<"order", t>>, <<"shared", OrderDirection>>}
    BY <2>2, <2>4, <2>6, Zenon
  <2>8. QED
    BY <2>2, <2>4, <2>7 DEF t
<1>3. Resolved(tables, Query) = <<"query">>
  BY DEF Resolved
<1>4. QED
  BY <1>1, <1>2, <1>3, PlainBuilds, SharedResolve

(* schema_gen.rs:91: for any number of tables whose names, of any words,   *)
(* are plain, the GraphQL schema builds and each name in it leads to what  *)
(* it was made for.                                                        *)
THEOREM GraphqlNamesAlwaysResolve ==
    (input.kind = "graphql" => input.tables \in Seq(SnakeNames)) => GraphqlNamesResolve
  BY SchemaResolves DEF GraphqlNamesResolve
-----------------------------------------------------------------------------
(***************************************************************************)
(* What validate_sql makes of a query (module SqlValidator).               *)
(***************************************************************************)

SqlWords == STRING \cup Keywords \cup Banned \cup QualifiedNames \cup DOMAIN Number

\* The kinds of words have nothing in common.
LEMMA WordKinds ==
    /\ \A w \in Tables \cup QualifiedNames :
         w \notin Keywords /\ w \notin Banned /\ w \notin DOMAIN Number
    /\ \A t \in Tables : Qualified[t] \in QualifiedNames /\ Qualified[t] \notin Tables
                         /\ t \notin QualifiedNames
    /\ \A w \in DOMAIN Number : w \notin Keywords /\ w \notin Banned
    /\ \A w \in Keywords : w \notin Banned
    /\ "max" \in DOMAIN Number
    /\ \A w \in Loose : /\ w \notin Tables /\ w \notin QualifiedNames
                        /\ w \notin Keywords /\ w \notin DOMAIN Number
<1>1. \A t \in Tables : Qualified[t] \in QualifiedNames
  BY DEF QualifiedNames
<1>2. QED
  BY <1>1, SqlAssumption

\* Which words are keywords.
LEMMA KeywordWords ==
    /\ "SELECT" \in Keywords /\ "FROM" \in Keywords /\ "JOIN" \in Keywords
    /\ "LIMIT" \in Keywords /\ ";" \in Keywords /\ "$$" \in Keywords
  BY DEF Keywords

\* A word after FROM or JOIN names a table.
LEMMA UnqualifiedTable ==
    ASSUME NEW w \in Tables \cup QualifiedNames
    PROVE  Unqualified(w) \in Tables /\ (w \in Tables => Unqualified(w) = w)
<1>1. CASE w \in QualifiedNames
  <2>1. \E t \in Tables : Qualified[t] = w
    BY <1>1 DEF QualifiedNames
  <2>2. (CHOOSE t \in Tables : Qualified[t] = w) \in Tables
    BY <2>1, Zenon
  <2>3. Unqualified(w) \in Tables
    BY <1>1, <2>2 DEF Unqualified
  <2>4. QED
    BY <1>1, <2>3, WordKinds
<1>2. CASE w \notin QualifiedNames
  BY <1>2 DEF Unqualified
<1>3. QED
  BY <1>1, <1>2

Semicolon(w) == w = ";"

\* trim_end_matches cuts the semicolons at the end, and no more.
LEMMA TrimEndCuts ==
    ASSUME NEW q \in Seq(SqlWords)
    PROVE  \E n \in 0 .. Len(q) : /\ TrimEnd(q) = SubSeq(q, 1, n)
                                  /\ \A i \in n + 1 .. Len(q) : Semicolon(q[i])
                                  /\ n # 0 => ~Semicolon(q[n])
<1> DEFINE ends == {n \in 0 .. Len(q) : \A i \in n + 1 .. Len(q) : Semicolon(q[i])}
           IsFirst(n) == \A m \in ends : n <= m
           cut == CHOOSE n \in ends : IsFirst(n)
<1>1. Len(q) \in ends /\ ends \in SUBSET Nat
  OBVIOUS
<1>2. \E n \in ends : IsFirst(n)
  BY <1>1, LeastNatural
<1>3. cut \in ends /\ IsFirst(cut)
  BY <1>2, Zenon
<1>4. TrimEnd(q) = SubSeq(q, 1, cut)
  BY DEF TrimEnd, Semicolon
<1> HIDE DEF cut
<1>5. ASSUME cut # 0 PROVE ~Semicolon(q[cut])
  <2> SUFFICES ASSUME Semicolon(q[cut]) PROVE FALSE
    OBVIOUS
  <2>1. cut - 1 \in 0 .. Len(q) /\ cut \in Nat
    BY <1>3, <1>5
  <2>2. \A i \in (cut - 1) + 1 .. Len(q) : i = cut \/ i \in cut + 1 .. Len(q)
    BY <2>1
  <2>3. cut - 1 \in ends
    BY <1>3, <2>1, <2>2
  <2>4. cut <= cut - 1
    BY <1>3, <2>3
  <2>5. QED
    BY <2>1, <2>4
<1>6. QED
  BY <1>3, <1>4, <1>5

\* So a query without semicolons is left alone.
LEMMA TrimEndNothing ==
    ASSUME NEW q \in Seq(SqlWords), \A i \in DOMAIN q : ~Semicolon(q[i])
    PROVE  TrimEnd(q) = q
<1>1. PICK n \in 0 .. Len(q) : /\ TrimEnd(q) = SubSeq(q, 1, n)
                               /\ \A i \in n + 1 .. Len(q) : Semicolon(q[i])
  BY TrimEndCuts
<1>2. n = Len(q)
  <2> SUFFICES ASSUME n # Len(q) PROVE FALSE
    OBVIOUS
  <2>1. n + 1 \in n + 1 .. Len(q) /\ n + 1 \in DOMAIN q
    OBVIOUS
  <2>2. QED
    BY <1>1, <2>1
<1>3. SubSeq(q, 1, Len(q)) = q
  BY SubSeqFull
<1>4. QED
  BY <1>1, <1>2, <1>3

\* r is s with the schema put before some table names that follow a keyword.
Renamed(r, s) ==
    /\ r \in Seq(SqlWords) /\ s \in Seq(SqlWords) /\ Len(r) = Len(s)
    /\ \A i \in 1 .. Len(s) :
         r[i] = s[i] \/ (AfterKeyword(s, i) /\ s[i] \in Tables /\ r[i] = Qualified[s[i]])

\* No occurrence of t after kw is left to be prefixed.
Blocked(r, kw, t) == AlreadyQualified(r, kw) \/ \A i \in Following(r, kw) : r[i] # t

PrefixDone(r) ==
    \A kw \in {"FROM", "JOIN"} :
        AlreadyQualified(r, kw) \/ \A i \in Following(r, kw) : r[i] \notin Tables

\* Words that are not table names stay where they are.
LEMMA RenamedKeeps ==
    ASSUME NEW r, NEW s, Renamed(r, s), NEW i \in 1 .. Len(s),
           NEW w, w \notin Tables, w \notin QualifiedNames
    PROVE  r[i] = w <=> s[i] = w
  BY WordKinds DEF Renamed

\* What follows a keyword still does.
LEMMA RenamedFollowing ==
    ASSUME NEW r, NEW s, Renamed(r, s), NEW kw \in {"FROM", "JOIN"}
    PROVE  Following(r, kw) = Following(s, kw)
<1>1. kw \notin Tables /\ kw \notin QualifiedNames
  BY KeywordWords, WordKinds
<1>2. DOMAIN r = 1 .. Len(s) /\ DOMAIN s = 1 .. Len(s) /\ Len(s) \in Nat
  BY DEF Renamed
<1>3. ASSUME NEW i \in 1 .. Len(s), i > 1
      PROVE  r[i - 1] = kw <=> s[i - 1] = kw
  <2>1. i - 1 \in 1 .. Len(s)
    BY <1>2, <1>3
  <2>2. QED
    BY <1>1, <2>1, RenamedKeeps
<1>4. QED
  BY <1>2, <1>3 DEF Following

\* One replacement keeps what has been done and blocks what it replaced.
LEMMA PrefixAfterStep ==
    ASSUME NEW r, NEW s, Renamed(r, s), NEW kw \in {"FROM", "JOIN"}, NEW t \in Tables
    PROVE  LET p == PrefixAfter(r, kw, t) IN
           /\ Renamed(p, s)
           /\ Blocked(p, kw, t)
           /\ \A k \in {"FROM", "JOIN"}, u \in Tables : Blocked(r, k, u) => Blocked(p, k, u)
<1> DEFINE p == PrefixAfter(r, kw, t)
           HitAt(i) == i > 1 /\ r[i - 1] = kw /\ r[i] = t
<1>1. CASE AlreadyQualified(r, kw)
  <2>1. p = r
    BY <1>1 DEF PrefixAfter
  <2> HIDE DEF p
  <2>2. QED
    BY <1>1, <2>1 DEF Blocked, p
<1>2. CASE ~AlreadyQualified(r, kw)
  <2>1. p = [i \in DOMAIN r |-> IF HitAt(i) THEN Qualified[t] ELSE r[i]]
    BY <1>2 DEF PrefixAfter
  <2>2. r \in Seq(SqlWords) /\ s \in Seq(SqlWords) /\ Len(r) = Len(s)
    BY DEF Renamed
  <2>3. Qualified[t] \in SqlWords /\ Qualified[t] \in QualifiedNames /\ Qualified[t] \notin Tables
        /\ t \notin QualifiedNames
    BY WordKinds DEF SqlWords
  <2> HIDE DEF p, HitAt
  <2>4. p \in Seq(SqlWords) /\ Len(p) = Len(s)
        /\ \A i \in 1 .. Len(s) : p[i] = IF HitAt(i) THEN Qualified[t] ELSE r[i]
    BY <2>1, <2>2, <2>3
  <2>5. ASSUME NEW i \in 1 .. Len(s), HitAt(i)
        PROVE  AfterKeyword(s, i) /\ s[i] = t /\ i \in Following(r, kw) /\ r[i] = t
    <3>1. i > 1 /\ r[i - 1] = kw /\ r[i] = t
      BY <2>5 DEF HitAt
    <3>2. i \in Following(r, kw)
      BY <2>2, <3>1 DEF Following
    <3>3. i \in Following(s, kw)
      BY <3>2, RenamedFollowing
    <3>4. AfterKeyword(s, i)
      BY <3>3 DEF Following, AfterKeyword, TableKeywords
    <3>5. r[i] \notin QualifiedNames
      BY <2>3, <3>1
    <3>6. s[i] = t
      <4>1. r[i] = s[i] \/ (s[i] \in Tables /\ r[i] = Qualified[s[i]])
        BY DEF Renamed
      <4>2. QED
        BY <3>1, <3>5, <4>1, WordKinds
    <3>7. QED
      BY <3>1, <3>2, <3>4, <3>6
  <2>6. Renamed(p, s)
    <3>1. ASSUME NEW i \in 1 .. Len(s)
          PROVE  p[i] = s[i] \/ (AfterKeyword(s, i) /\ s[i] \in Tables /\ p[i] = Qualified[s[i]])
      <4>1. CASE HitAt(i)
        BY <2>4, <2>5, <4>1
      <4>2. CASE ~HitAt(i)
        <5>1. p[i] = r[i]
          BY <2>4, <4>2
        <5>2. QED
          BY <5>1 DEF Renamed
      <4>3. QED
        BY <4>1, <4>2
    <3>2. QED
      BY <2>2, <2>4, <3>1 DEF Renamed
  <2>7. ASSUME NEW k \in {"FROM", "JOIN"}
        PROVE  Following(p, k) = Following(r, k) /\ Following(r, k) \subseteq 1 .. Len(s)
    <3>1. Following(p, k) = Following(s, k) /\ Following(r, k) = Following(s, k)
      BY <2>6, RenamedFollowing
    <3>2. Following(s, k) \subseteq 1 .. Len(s)
      BY <2>2 DEF Following
    <3>3. QED
      BY <3>1, <3>2
  <2>8. \A i \in Following(p, kw) : p[i] # t
    <3>1. ASSUME NEW i \in Following(p, kw), p[i] = t
          PROVE  FALSE
      <4>1. i \in Following(r, kw) /\ i \in 1 .. Len(s)
        BY <2>7, <3>1
      <4>2. ~HitAt(i)
        BY <2>3, <2>4, <3>1, <4>1
      <4>3. r[i] = t
        BY <2>4, <3>1, <4>1, <4>2
      <4>4. QED
        BY <4>1, <4>2, <4>3 DEF HitAt, Following
    <3>2. QED
      BY <3>1
  <2>9. ASSUME NEW k \in {"FROM", "JOIN"}, NEW u \in Tables, Blocked(r, k, u)
        PROVE  Blocked(p, k, u)
    <3>1. CASE AlreadyQualified(r, k)
      <4>1. PICK i \in Following(r, k) : r[i] \in QualifiedNames
        BY <3>1 DEF AlreadyQualified, Following
      <4>2. i \in 1 .. Len(s) /\ i \in Following(p, k)
        BY <2>7, <4>1
      <4>3. p[i] \in QualifiedNames
        BY <2>3, <2>4, <4>1, <4>2
      <4>4. AlreadyQualified(p, k)
        BY <4>2, <4>3 DEF AlreadyQualified, Following
      <4>5. QED
        BY <4>4 DEF Blocked
    <3>2. CASE \A i \in Following(r, k) : r[i] # u
      <4>1. ASSUME NEW i \in Following(p, k) PROVE p[i] # u
        <5>1. i \in 1 .. Len(s) /\ r[i] # u
          BY <2>7, <3>2
        <5>2. QED
          BY <2>3, <2>4, <5>1
      <4>2. QED
        BY <4>1 DEF Blocked
    <3>3. QED
      BY <2>9, <3>1, <3>2 DEF Blocked
  <2>10. QED
    BY <2>6, <2>8, <2>9 DEF Blocked, p
<1>3. QED
  BY <1>1, <1>2

\* add_schema_prefix does both keywords.
LEMMA AddPrefixStep ==
    ASSUME NEW r, NEW s, Renamed(r, s), NEW t \in Tables
    PROVE  LET p == AddSchemaPrefix(r, t) IN
           /\ Renamed(p, s)
           /\ \A k \in {"FROM", "JOIN"} : Blocked(p, k, t)
           /\ \A k \in {"FROM", "JOIN"}, u \in Tables : Blocked(r, k, u) => Blocked(p, k, u)
<1> DEFINE kFrom == "FROM"
           kJoin == "JOIN"
           a == PrefixAfter(r, kFrom, t)
           b == PrefixAfter(a, kJoin, t)
<1>1. kFrom \in {"FROM", "JOIN"} /\ kJoin \in {"FROM", "JOIN"}
      /\ \A k \in {"FROM", "JOIN"} : k = kFrom \/ k = kJoin
  OBVIOUS
<1>2. AddSchemaPrefix(r, t) = b
  BY DEF AddSchemaPrefix
<1> HIDE DEF kFrom, kJoin, a, b
<1>3. /\ Renamed(a, s) /\ Blocked(a, kFrom, t)
      /\ \A k \in {"FROM", "JOIN"}, u \in Tables : Blocked(r, k, u) => Blocked(a, k, u)
  BY <1>1, PrefixAfterStep DEF a
<1>4. /\ Renamed(b, s) /\ Blocked(b, kJoin, t)
      /\ \A k \in {"FROM", "JOIN"}, u \in Tables : Blocked(a, k, u) => Blocked(b, k, u)
  BY <1>1, <1>3, PrefixAfterStep DEF b
<1>5. QED
  BY <1>1, <1>2, <1>3, <1>4

\* The recursion of AddPrefixes.
PrefixSteps(F, q, n) ==
    F = [i \in 0 .. n |->
           IF i = 0 THEN q
           ELSE IF NamesTable(q, i) THEN AddSchemaPrefix(F[i - 1], Unqualified(q[i]))
           ELSE F[i - 1]]

PrefixStep(f, q, i) == IF NamesTable(q, i) THEN AddSchemaPrefix(f, Unqualified(q[i])) ELSE f

\* It has a solution, for any query.
LEMMA PrefixesExist ==
    ASSUME NEW q, NEW n \in Nat
    PROVE  \E F : PrefixSteps(F, q, n)
<1> DEFINE T == {m \in Nat : ~\E F : PrefixSteps(F, q, m)}
<1> SUFFICES ASSUME T # {} PROVE FALSE
  OBVIOUS
<1>1. PICK m \in T : \A k \in T : m <= k
  BY LeastNatural
<1>2. CASE m = 0
  <2>1. PrefixSteps([i \in 0 .. 0 |-> q], q, 0)
    BY DEF PrefixSteps
  <2>2. QED
    BY <1>1, <1>2, <2>1
<1>3. CASE m # 0
  <2>1. m - 1 \in Nat /\ m - 1 \notin T
    BY <1>1, <1>3
  <2>2. PICK F : PrefixSteps(F, q, m - 1)
    BY <2>1
  <2>3. F = [i \in 0 .. m - 1 |-> IF i = 0 THEN q ELSE PrefixStep(F[i - 1], q, i)]
    BY <2>2 DEF PrefixSteps, PrefixStep
  <2> DEFINE G == [i \in 0 .. m |-> IF i = m THEN PrefixStep(F[m - 1], q, m) ELSE F[i]]
  <2>4. ASSUME NEW i \in 0 .. m
        PROVE  G[i] = IF i = 0 THEN q ELSE PrefixStep(G[i - 1], q, i)
    <3>1. CASE i = 0
      BY <1>3, <2>3, <3>1
    <3>2. CASE i = m
      <4>1. m - 1 \in 0 .. m /\ m - 1 # m
        BY <1>1, <1>3
      <4>2. QED
        BY <1>3, <3>2, <4>1
    <3>3. CASE i # 0 /\ i # m
      <4>1. i \in 0 .. m - 1 /\ i - 1 \in 0 .. m /\ i - 1 # m
        BY <1>1, <3>3
      <4>2. F[i] = PrefixStep(F[i - 1], q, i)
        BY <2>3, <3>3, <4>1
      <4>3. QED
        BY <3>3, <4>1, <4>2
    <3>4. QED
      BY <3>1, <3>2, <3>3
  <2>5. G = [i \in 0 .. m |-> IF i = 0 THEN q ELSE PrefixStep(G[i - 1], q, i)]
    BY <2>4
  <2> HIDE DEF G
  <2>6. PrefixSteps(G, q, m)
    BY <2>5 DEF PrefixSteps, PrefixStep
  <2>7. QED
    BY <1>1, <2>6
<1>4. QED
  BY <1>2, <1>3

\* AddPrefixes is where a solution ends.
LEMMA AddPrefixesSteps ==
    ASSUME NEW q \in Seq(SqlWords)
    PROVE  \E F : /\ F[0] = q /\ AddPrefixes(q) = F[Len(q)]
                  /\ \A i \in 1 .. Len(q) : F[i] = PrefixStep(F[i - 1], q, i)
<1> DEFINE Done == CHOOSE F : PrefixSteps(F, q, Len(q))
<1>1. Len(q) \in Nat
  OBVIOUS
<1>2. PrefixSteps(Done, q, Len(q))
  BY <1>1, PrefixesExist, Zenon
<1>3. AddPrefixes(q) = Done[Len(q)]
  BY DEF AddPrefixes, PrefixSteps
<1> HIDE DEF Done
<1>4. Done[0] = q /\ \A i \in 1 .. Len(q) : Done[i] = PrefixStep(Done[i - 1], q, i)
  BY <1>1, <1>2 DEF PrefixSteps, PrefixStep
<1>5. QED
  BY <1>3, <1>4

\* After a keyword there is a table.
LEMMA NamedTable ==
    ASSUME NEW s \in Seq(SqlWords), NamesTables(s), NEW i \in 1 .. Len(s), AfterKeyword(s, i)
    PROVE  s[i] \in Tables \cup QualifiedNames /\ Unqualified(s[i]) \in Tables
           /\ (s[i] \in Tables => Unqualified(s[i]) = s[i])
<1>1. i - 1 \in DOMAIN s /\ (i - 1) + 1 = i /\ s[i - 1] \in TableKeywords
  BY DEF AfterKeyword
<1>2. s[i] \in Tables \cup QualifiedNames
  BY <1>1 DEF NamesTables
<1>3. QED
  BY <1>2, UnqualifiedTable

\* After the loop every name after a keyword is qualified, or one is.
LEMMA PrefixesAdded ==
    ASSUME NEW s \in Seq(SqlWords), NamesTables(s)
    PROVE  Renamed(AddPrefixes(s), s) /\ PrefixDone(AddPrefixes(s))
<1>1. PICK F : /\ F[0] = s /\ AddPrefixes(s) = F[Len(s)]
               /\ \A i \in 1 .. Len(s) : F[i] = PrefixStep(F[i - 1], s, i)
  BY AddPrefixesSteps
<1> DEFINE Holds(m) ==
             /\ Renamed(F[m], s)
             /\ \A j \in 1 .. m : AfterKeyword(s, j) =>
                  \A k \in {"FROM", "JOIN"} : Blocked(F[m], k, Unqualified(s[j]))
           T == {m \in Nat : m <= Len(s) /\ ~Holds(m)}
<1>2. T = {}
  <2> SUFFICES ASSUME T # {} PROVE FALSE
    OBVIOUS
  <2>1. PICK m \in T : \A k \in T : m <= k
    BY LeastNatural
  <2>2. CASE m = 0
    <3>1. Renamed(F[0], s)
      BY <1>1 DEF Renamed
    <3>2. Holds(0)
      BY <3>1
    <3>3. QED
      BY <2>1, <2>2, <3>2
  <2>3. CASE m # 0
    <3>1. m \in 1 .. Len(s) /\ m - 1 \in Nat /\ m - 1 <= Len(s) /\ m - 1 \notin T
      BY <2>1, <2>3
    <3>2. Holds(m - 1)
      BY <3>1
    <3>3. F[m] = PrefixStep(F[m - 1], s, m)
      BY <1>1, <3>1
    <3>4. \A j \in 1 .. m : j = m \/ j \in 1 .. m - 1
      BY <3>1
    <3>5. CASE NamesTable(s, m)
      <4> DEFINE t == Unqualified(s[m])
      <4>1. AfterKeyword(s, m)
        BY <3>5 DEF NamesTable
      <4>2. t \in Tables
        BY <3>1, <4>1, NamedTable
      <4>3. F[m] = AddSchemaPrefix(F[m - 1], t)
        BY <3>3, <3>5 DEF PrefixStep
      <4> HIDE DEF t
      <4>4. /\ Renamed(F[m], s) /\ \A k \in {"FROM", "JOIN"} : Blocked(F[m], k, t)
            /\ \A k \in {"FROM", "JOIN"}, u \in Tables :
                 Blocked(F[m - 1], k, u) => Blocked(F[m], k, u)
        BY <3>2, <4>2, <4>3, AddPrefixStep
      <4>5. ASSUME NEW j \in 1 .. m, AfterKeyword(s, j), NEW k \in {"FROM", "JOIN"}
            PROVE  Blocked(F[m], k, Unqualified(s[j]))
        <5>1. CASE j = m
          BY <4>4, <5>1 DEF t
        <5>2. CASE j \in 1 .. m - 1
          <6>1. j \in 1 .. Len(s)
            BY <3>1, <5>2
          <6>2. Unqualified(s[j]) \in Tables
            BY <4>5, <6>1, NamedTable
          <6>3. Blocked(F[m - 1], k, Unqualified(s[j]))
            BY <3>2, <4>5, <5>2
          <6>4. QED
            BY <4>4, <6>2, <6>3
        <5>3. QED
          BY <3>4, <5>1, <5>2
      <4>6. Holds(m)
        BY <4>4, <4>5
      <4>7. QED
        BY <2>1, <4>6
    <3>6. CASE ~NamesTable(s, m)
      <4>1. F[m] = F[m - 1]
        BY <3>3, <3>6 DEF PrefixStep
      <4>2. ASSUME NEW j \in 1 .. m, AfterKeyword(s, j), NEW k \in {"FROM", "JOIN"}
            PROVE  Blocked(F[m], k, Unqualified(s[j]))
        <5>1. CASE j \in 1 .. m - 1
          BY <3>2, <4>1, <4>2, <5>1
        <5>2. CASE j = m
          <6>1. PICK i \in 1 .. m - 1 :
                       AfterKeyword(s, i) /\ Unqualified(s[i]) = Unqualified(s[m])
            BY <3>6, <4>2, <5>2 DEF NamesTable
          <6>2. Blocked(F[m - 1], k, Unqualified(s[i]))
            BY <3>2, <6>1
          <6>3. QED
            BY <4>1, <5>2, <6>1, <6>2
        <5>3. QED
          BY <3>4, <5>1, <5>2
      <4>3. Holds(m)
        BY <3>2, <4>1, <4>2
      <4>4. QED
        BY <2>1, <4>3
    <3>7. QED
      BY <3>5, <3>6
  <2>4. QED
    BY <2>2, <2>3
<1> DEFINE r == AddPrefixes(s)
<1>3. Holds(Len(s))
  BY <1>2
<1>4. Renamed(r, s) /\ \A j \in 1 .. Len(s) : AfterKeyword(s, j) =>
                           \A k \in {"FROM", "JOIN"} : Blocked(r, k, Unqualified(s[j]))
  BY <1>1, <1>3
<1> HIDE DEF r, Holds
<1>5. ASSUME NEW kw \in {"FROM", "JOIN"}, ~AlreadyQualified(r, kw),
             NEW i \in Following(r, kw), r[i] \in Tables
      PROVE  FALSE
  <2>1. i \in Following(s, kw)
    BY <1>4, <1>5, RenamedFollowing
  <2>2. i \in 1 .. Len(s) /\ AfterKeyword(s, i)
    BY <2>1 DEF Following, AfterKeyword, TableKeywords
  <2>3. s[i] = r[i]
    <3>1. r[i] = s[i] \/ (s[i] \in Tables /\ r[i] = Qualified[s[i]])
      BY <1>4, <2>2 DEF Renamed
    <3>2. QED
      BY <1>5, <3>1, WordKinds
  <2>4. Unqualified(s[i]) = r[i]
    BY <1>5, <2>2, <2>3, NamedTable
  <2>5. Blocked(r, kw, r[i])
    BY <1>4, <2>2, <2>4
  <2>6. QED
    BY <1>5, <2>5 DEF Blocked
<1>6. PrefixDone(r)
  BY <1>5 DEF PrefixDone
<1>7. QED
  BY <1>4, <1>6 DEF r

\* And the loop does nothing more to such a query.
LEMMA PrefixesStay ==
    ASSUME NEW s \in Seq(SqlWords), NamesTables(s), PrefixDone(s)
    PROVE  AddPrefixes(s) = s
<1>1. PICK F : /\ F[0] = s /\ AddPrefixes(s) = F[Len(s)]
               /\ \A i \in 1 .. Len(s) : F[i] = PrefixStep(F[i - 1], s, i)
  BY AddPrefixesSteps
<1>2. ASSUME NEW kw \in {"FROM", "JOIN"}, NEW t \in Tables
      PROVE  PrefixAfter(s, kw, t) = s
  <2>1. CASE AlreadyQualified(s, kw)
    BY <2>1 DEF PrefixAfter
  <2>2. CASE ~AlreadyQualified(s, kw)
    <3>1. \A i \in Following(s, kw) : s[i] # t
      BY <2>2 DEF PrefixDone
    <3>2. \A i \in DOMAIN s : ~(i > 1 /\ s[i - 1] = kw /\ s[i] = t)
      BY <3>1 DEF Following
    <3>3. PrefixAfter(s, kw, t) = [i \in DOMAIN s |-> s[i]]
      BY <2>2, <3>2 DEF PrefixAfter
    <3>4. QED
      BY <3>3
  <2>3. QED
    BY <2>1, <2>2
<1>3. ASSUME NEW t \in Tables
      PROVE  AddSchemaPrefix(s, t) = s
  BY <1>2 DEF AddSchemaPrefix
<1> DEFINE T == {m \in Nat : m <= Len(s) /\ F[m] # s}
<1>4. T = {}
  <2> SUFFICES ASSUME T # {} PROVE FALSE
    OBVIOUS
  <2>1. PICK m \in T : \A k \in T : m <= k
    BY LeastNatural
  <2>2. m # 0
    BY <1>1, <2>1
  <2>3. m \in 1 .. Len(s) /\ m - 1 \in Nat /\ m - 1 <= Len(s) /\ m - 1 \notin T
    BY <2>1, <2>2
  <2>4. F[m - 1] = s /\ F[m] = PrefixStep(F[m - 1], s, m)
    BY <1>1, <2>3
  <2>5. NamesTable(s, m) => Unqualified(s[m]) \in Tables
    BY <2>3, NamedTable DEF NamesTable
  <2>6. F[m] = s
    BY <1>3, <2>4, <2>5 DEF PrefixStep
  <2>7. QED
    BY <2>1, <2>6
<1>5. QED
  BY <1>1, <1>4


IsLimit(w) == w = "LIMIT"
IsMax(w) == w = "max"
NoLimit(r) == \A i \in 1 .. Len(r) : ~IsLimit(r[i])
FirstLimit(r, i) == /\ i \in 1 .. Len(r) /\ IsLimit(r[i])
                    /\ \A j \in 1 .. i - 1 : ~IsLimit(r[j])
TooLarge(r, i) == i < Len(r) /\ r[i + 1] \in Whole /\ Number[r[i + 1]] > MaxLimit

\* A query with a LIMIT has a first one, and only one first one.
LEMMA FirstLimitExists ==
    ASSUME NEW r \in Seq(SqlWords), ~NoLimit(r)
    PROVE  \E i : FirstLimit(r, i)
<1> DEFINE T == {i \in 1 .. Len(r) : IsLimit(r[i])}
<1>1. T # {} /\ T \in SUBSET Nat
  BY DEF NoLimit
<1>2. PICK i \in T : \A m \in T : i <= m
  BY <1>1, LeastNatural
<1>3. ASSUME NEW j \in 1 .. i - 1, IsLimit(r[j]) PROVE FALSE
  BY <1>2, <1>3
<1>4. QED
  BY <1>2, <1>3 DEF FirstLimit

LEMMA FirstLimitUnique ==
    ASSUME NEW r \in Seq(SqlWords), NEW i, NEW j, FirstLimit(r, i), FirstLimit(r, j)
    PROVE  i = j
<1>1. i \in 1 .. Len(r) /\ j \in 1 .. Len(r) /\ Len(r) \in Nat
  BY DEF FirstLimit
<1>2. ~(i < j) /\ ~(j < i)
  BY <1>1 DEF FirstLimit
<1>3. QED
  BY <1>1, <1>2

\* The three things enforce_limit may do.
LEMMA LimitCases ==
    ASSUME NEW r \in Seq(SqlWords)
    PROVE  \/ NoLimit(r) /\ EnforceLimit(r) = r \o <<"LIMIT", "max">>
           \/ \E i : FirstLimit(r, i) /\ TooLarge(r, i)
                     /\ EnforceLimit(r) = [r EXCEPT ![i + 1] = "max"]
           \/ \E i : FirstLimit(r, i) /\ ~TooLarge(r, i) /\ EnforceLimit(r) = r
<1>1. CASE NoLimit(r)
  <2>1. EnforceLimit(r) = r \o <<"LIMIT", "max">>
    <3>1. ~Occurs(r, "LIMIT")
      BY <1>1 DEF Occurs, NoLimit, IsLimit
    <3>2. QED
      BY <3>1, Zenon DEF EnforceLimit
  <2>2. QED
    BY <1>1, <2>1
<1>2. CASE ~NoLimit(r)
  <2> DEFINE at == CHOOSE i \in DOMAIN r : r[i] = "LIMIT" /\ \A j \in 1 .. i - 1 : r[j] # "LIMIT"
  <2>1. \E i \in DOMAIN r : r[i] = "LIMIT" /\ \A j \in 1 .. i - 1 : r[j] # "LIMIT"
    BY <1>2, FirstLimitExists DEF FirstLimit, IsLimit
  <2>2. at \in DOMAIN r /\ r[at] = "LIMIT" /\ \A j \in 1 .. at - 1 : r[j] # "LIMIT"
    BY <2>1, Zenon
  <2>3. Occurs(r, "LIMIT")
    BY <2>1 DEF Occurs
  <2>4. EnforceLimit(r) = IF at < Len(r) /\ r[at + 1] \in Whole
                               /\ Number[r[at + 1]] > MaxLimit
                          THEN [r EXCEPT ![at + 1] = "max"] ELSE r
    BY <2>3, Zenon DEF EnforceLimit
  <2> HIDE DEF at
  <2>5. FirstLimit(r, at)
    BY <2>2 DEF FirstLimit, IsLimit
  <2>6. EnforceLimit(r) = IF TooLarge(r, at) THEN [r EXCEPT ![at + 1] = "max"] ELSE r
    BY <2>4, Zenon DEF TooLarge
  <2>7. QED
    BY <2>5, <2>6, Zenon
<1>3. QED
  BY <1>1, <1>2

\* e is r with a LIMIT added, or with the number after a LIMIT replaced.
Limited(e, r) ==
    /\ e \in Seq(SqlWords) /\ r \in Seq(SqlWords) /\ Len(e) >= Len(r)
    /\ \A i \in 1 .. Len(r) :
         e[i] = r[i] \/ (/\ i > 1 /\ IsLimit(r[i - 1]) /\ r[i] \in DOMAIN Number
                         /\ IsMax(e[i]))
    /\ \A i \in Len(r) + 1 .. Len(e) :
         IsMax(e[i]) \/ (IsLimit(e[i]) /\ i < Len(e) /\ IsMax(e[i + 1]))

WithinLimit(e) == \E i : FirstLimit(e, i) /\ ~TooLarge(e, i)

LEMMA LimitWords == "LIMIT" \in SqlWords /\ "max" \in SqlWords /\ "max" # "LIMIT"
                    /\ Number["max"] = MaxLimit /\ MaxLimit \in Nat
<1>1. "LIMIT" \in Keywords /\ "max" \in DOMAIN Number
  BY KeywordWords, WordKinds
<1>2. QED
  BY <1>1, SqlAssumption DEF SqlWords

\* enforce_limit does that, and its answer is within the limit.
LEMMA LimitEnforced ==
    ASSUME NEW r \in Seq(SqlWords)
    PROVE  Limited(EnforceLimit(r), r) /\ WithinLimit(EnforceLimit(r))
<1>1. CASE NoLimit(r) /\ EnforceLimit(r) = r \o <<"LIMIT", "max">>
  <2> DEFINE e == r \o <<"LIMIT", "max">>
  <2>1. /\ e \in Seq(SqlWords) /\ Len(e) = Len(r) + 2 /\ Len(r) \in Nat
        /\ \A i \in 1 .. Len(r) : e[i] = r[i]
        /\ IsLimit(e[Len(r) + 1]) /\ IsMax(e[Len(r) + 2])
    BY LimitWords DEF IsLimit, IsMax
  <2> HIDE DEF e
  <2>2. Limited(e, r)
    BY <2>1 DEF Limited
  <2>3. FirstLimit(e, Len(r) + 1)
    BY <1>1, <2>1 DEF FirstLimit, NoLimit
  <2>4. Number[e[Len(r) + 2]] = MaxLimit
    BY <2>1, LimitWords DEF IsMax
  <2>5. ~TooLarge(e, Len(r) + 1)
    <3>1. (Len(r) + 1) + 1 = Len(r) + 2
      BY <2>1
    <3>2. ~(MaxLimit > MaxLimit)
      BY LimitWords
    <3>3. QED
      BY <2>4, <3>1, <3>2, Zenon DEF TooLarge
  <2>6. QED
    BY <1>1, <2>2, <2>3, <2>5 DEF e, WithinLimit
<1>2. ASSUME NEW i, FirstLimit(r, i), TooLarge(r, i),
             EnforceLimit(r) = [r EXCEPT ![i + 1] = "max"]
      PROVE  Limited(EnforceLimit(r), r) /\ WithinLimit(EnforceLimit(r))
  <2> DEFINE e == [r EXCEPT ![i + 1] = "max"]
  <2>0. i \in 1 .. Len(r) /\ i + 1 \in 1 .. Len(r) /\ Len(r) \in Nat /\ IsLimit(r[i])
    BY <1>2 DEF FirstLimit, TooLarge
  <2>1. /\ e \in Seq(SqlWords) /\ Len(e) = Len(r)
        /\ \A j \in 1 .. Len(r) : j # i + 1 => e[j] = r[j]
        /\ IsMax(e[i + 1])
    BY <2>0, LimitWords DEF IsMax
  <2> HIDE DEF e
  <2>2. Limited(e, r)
    <3>1. r[i + 1] \in DOMAIN Number /\ i + 1 > 1 /\ (i + 1) - 1 = i
      BY <1>2, <2>0, SqlAssumption DEF TooLarge
    <3>2. QED
      BY <2>0, <2>1, <3>1 DEF Limited
  <2>3. FirstLimit(e, i)
    BY <1>2, <2>0, <2>1 DEF FirstLimit
  <2>4. Number[e[i + 1]] = MaxLimit
    BY <2>1, LimitWords DEF IsMax
  <2>5. ~TooLarge(e, i)
    <3>1. ~(MaxLimit > MaxLimit)
      BY LimitWords
    <3>2. QED
      BY <2>4, <3>1, Zenon DEF TooLarge
  <2>6. QED
    BY <1>2, <2>2, <2>3, <2>5 DEF e, WithinLimit
<1>3. ASSUME NEW i, FirstLimit(r, i), ~TooLarge(r, i), EnforceLimit(r) = r
      PROVE  Limited(EnforceLimit(r), r) /\ WithinLimit(EnforceLimit(r))
  <2>1. Limited(r, r)
    BY DEF Limited
  <2>2. QED
    BY <1>3, <2>1, Zenon DEF WithinLimit
<1>4. QED
  BY <1>1, <1>2, <1>3, LimitCases, Zenon

\* Once within the limit, always left alone.
LEMMA LimitStays ==
    ASSUME NEW e \in Seq(SqlWords), WithinLimit(e)
    PROVE  EnforceLimit(e) = e
<1>1. PICK i : FirstLimit(e, i) /\ ~TooLarge(e, i)
  BY DEF WithinLimit
<1>2. ~NoLimit(e)
  BY <1>1 DEF FirstLimit, NoLimit
<1>3. ASSUME NEW j, FirstLimit(e, j) PROVE ~TooLarge(e, j)
  BY <1>1, <1>3, FirstLimitUnique, Zenon
<1>4. QED
  BY <1>2, <1>3, LimitCases, Zenon

\* FROM, JOIN and LIMIT are neither table names nor numbers.
LEMMA Distinct ==
    ASSUME NEW w \in TableKeywords \cup {"LIMIT"}
    PROVE  /\ w \notin Tables \cup QualifiedNames /\ w \notin DOMAIN Number /\ ~IsMax(w)
           /\ w \in TableKeywords => ~IsLimit(w)
<1>1. w \in Keywords \/ w \in Loose
  BY KeywordWords DEF TableKeywords
<1>2. w \notin Tables \cup QualifiedNames /\ w \notin DOMAIN Number
  BY <1>1, WordKinds
<1>3. ~IsMax(w)
  BY <1>2, WordKinds DEF IsMax
<1>4. w \in TableKeywords => ~IsLimit(w)
  BY KeywordWords, WordKinds DEF IsLimit, TableKeywords
<1>5. QED
  BY <1>2, <1>3, <1>4

\* Putting the schema before table names leaves a table after every keyword.
LEMMA RenamedNames ==
    ASSUME NEW r, NEW s, Renamed(r, s), NamesTables(s)
    PROVE  NamesTables(r)
<1>1. ASSUME NEW i \in DOMAIN r, r[i] \in TableKeywords
      PROVE  i < Len(r) /\ r[i + 1] \in Tables \cup QualifiedNames
  <2>1. i \in 1 .. Len(s) /\ Len(r) = Len(s) /\ Len(s) \in Nat /\ DOMAIN s = 1 .. Len(s)
    BY DEF Renamed
  <2>2. s[i] = r[i]
    <3>1. r[i] \notin Tables /\ r[i] \notin QualifiedNames
      BY <1>1, Distinct
    <3>2. QED
      BY <2>1, <3>1, RenamedKeeps
  <2>3. i < Len(s) /\ s[i + 1] \in Tables \cup QualifiedNames
    BY <1>1, <2>1, <2>2 DEF NamesTables
  <2>4. r[i + 1] = s[i + 1] \/ (s[i + 1] \in Tables /\ r[i + 1] = Qualified[s[i + 1]])
    BY <2>1, <2>3 DEF Renamed
  <2>5. QED
    BY <2>1, <2>3, <2>4, WordKinds
<1>2. QED
  BY <1>1 DEF NamesTables

\* Enforcing the limit keeps the keywords and the tables they name.
LEMMA LimitedKeeps ==
    ASSUME NEW e, NEW r, Limited(e, r), NEW i \in 1 .. Len(r), NEW w, w \notin DOMAIN Number
    PROVE  e[i] = w <=> r[i] = w
<1>1. e[i] = r[i] \/ (r[i] \in DOMAIN Number /\ IsMax(e[i]))
  BY DEF Limited
<1>2. e[i] = r[i] \/ (r[i] \in DOMAIN Number /\ e[i] \in DOMAIN Number)
  BY <1>1, WordKinds DEF IsMax
<1>3. QED
  BY <1>2

LEMMA LimitedNames ==
    ASSUME NEW e, NEW r, Limited(e, r), NamesTables(r),
           NEW i \in 1 .. Len(e), e[i] \in TableKeywords
    PROVE  /\ i < Len(r) /\ r[i] = e[i] /\ e[i + 1] = r[i + 1]
           /\ e[i + 1] \in Tables \cup QualifiedNames
<1>1. Len(r) \in Nat /\ Len(e) \in Nat /\ Len(r) <= Len(e) /\ DOMAIN r = 1 .. Len(r)
  BY DEF Limited
<1>2. e[i] \notin DOMAIN Number /\ ~IsMax(e[i]) /\ ~IsLimit(e[i])
  BY Distinct
<1>3. i \in 1 .. Len(r)
  <2>1. i \notin Len(r) + 1 .. Len(e)
    BY <1>2 DEF Limited
  <2>2. QED
    BY <1>1, <2>1
<1>4. r[i] = e[i]
  BY <1>2, <1>3, LimitedKeeps
<1>5. i < Len(r) /\ r[i + 1] \in Tables \cup QualifiedNames
  BY <1>1, <1>3, <1>4 DEF NamesTables
<1>6. r[i + 1] \notin DOMAIN Number /\ i + 1 \in 1 .. Len(r)
  BY <1>1, <1>3, <1>5, WordKinds
<1>7. e[i + 1] = r[i + 1]
  BY <1>6, LimitedKeeps
<1>8. QED
  BY <1>4, <1>5, <1>7

LEMMA LimitedFollowing ==
    ASSUME NEW e, NEW r, Limited(e, r), NamesTables(r), NEW kw \in {"FROM", "JOIN"}
    PROVE  Following(e, kw) = Following(r, kw) /\ \A i \in Following(r, kw) : e[i] = r[i]
<1>1. Len(r) \in Nat /\ Len(e) \in Nat /\ Len(r) <= Len(e)
      /\ DOMAIN r = 1 .. Len(r) /\ DOMAIN e = 1 .. Len(e)
  BY DEF Limited
<1>2. ASSUME NEW i \in Following(e, kw)
      PROVE  i \in Following(r, kw) /\ e[i] = r[i]
  <2>1. i \in 1 .. Len(e) /\ i > 1 /\ e[i - 1] = kw
    BY <1>1, <1>2 DEF Following
  <2>2. i - 1 \in 1 .. Len(e) /\ (i - 1) + 1 = i
    BY <1>1, <2>1
  <2>3. i - 1 < Len(r) /\ r[i - 1] = e[i - 1] /\ e[i] = r[i]
    BY <2>1, <2>2, LimitedNames DEF TableKeywords
  <2>4. QED
    BY <1>1, <2>1, <2>2, <2>3 DEF Following
<1>3. ASSUME NEW i \in Following(r, kw)
      PROVE  i \in Following(e, kw)
  <2>1. i \in 1 .. Len(r) /\ i > 1 /\ r[i - 1] = kw
    BY <1>1, <1>3 DEF Following
  <2>2. i - 1 \in 1 .. Len(r) /\ kw \notin DOMAIN Number
    BY <1>1, <2>1, Distinct DEF TableKeywords
  <2>3. e[i - 1] = kw
    BY <2>1, <2>2, LimitedKeeps
  <2>4. QED
    BY <1>1, <2>1, <2>3 DEF Following
<1>4. QED
  BY <1>2, <1>3

LEMMA LimitedTables ==
    ASSUME NEW e, NEW r, Limited(e, r), NamesTables(r), PrefixDone(r)
    PROVE  NamesTables(e) /\ PrefixDone(e)
<1>1. DOMAIN e = 1 .. Len(e) /\ DOMAIN r = 1 .. Len(r) /\ Len(r) <= Len(e)
      /\ Len(r) \in Nat /\ Len(e) \in Nat
  BY DEF Limited
<1>2. NamesTables(e)
  <2>1. ASSUME NEW i \in 1 .. Len(e), e[i] \in TableKeywords
        PROVE  i < Len(e) /\ e[i + 1] \in Tables \cup QualifiedNames
    <3>1. i < Len(r) /\ e[i + 1] \in Tables \cup QualifiedNames
      BY <2>1, LimitedNames
    <3>2. QED
      BY <1>1, <3>1
  <2>2. QED
    BY <1>1, <2>1 DEF NamesTables
<1>3. ASSUME NEW kw \in {"FROM", "JOIN"}
      PROVE  AlreadyQualified(e, kw) \/ \A i \in Following(e, kw) : e[i] \notin Tables
  <2>1. Following(e, kw) = Following(r, kw) /\ \A i \in Following(r, kw) : e[i] = r[i]
    BY LimitedFollowing
  <2>2. CASE AlreadyQualified(r, kw)
    <3>1. PICK i \in Following(r, kw) : r[i] \in QualifiedNames
      BY <2>2 DEF AlreadyQualified, Following
    <3>2. i \in Following(e, kw) /\ e[i] \in QualifiedNames
      BY <2>1, <3>1
    <3>3. QED
      BY <3>2 DEF AlreadyQualified, Following
  <2>3. CASE \A i \in Following(r, kw) : r[i] \notin Tables
    BY <2>1, <2>3
  <2>4. QED
    BY <2>2, <2>3 DEF PrefixDone
<1>4. QED
  BY <1>2, <1>3 DEF PrefixDone

\* No word of the query is forbidden.
Forbidden(w) == w = ";" \/ w = "$$" \/ w \in Banned
IsSelect(w) == w = "SELECT"
Clean(q) == \A i \in 1 .. Len(q) : ~Forbidden(q[i])

\* Table names, numbers, LIMIT and "max" are not forbidden.
LEMMA ForbiddenWords ==
    /\ \A w \in Tables \cup QualifiedNames : ~Forbidden(w)
    /\ \A w : IsLimit(w) \/ IsMax(w) \/ IsSelect(w) => ~Forbidden(w)
<1>1. \A w \in Tables \cup QualifiedNames : w \notin Keywords /\ w \notin Banned
  BY WordKinds
<1>2. \A w \in Tables \cup QualifiedNames : ~Forbidden(w)
  BY <1>1, KeywordWords DEF Forbidden
<1>3. "max" \notin Keywords /\ "max" \notin Banned
  BY WordKinds
<1>4. \A w : IsMax(w) => ~Forbidden(w)
  BY <1>3, KeywordWords DEF Forbidden, IsMax
<1>5. "LIMIT" \notin Banned /\ "SELECT" \notin Banned
  BY KeywordWords, WordKinds
<1>6. \A w : IsLimit(w) \/ IsSelect(w) => ~Forbidden(w)
  BY <1>5 DEF Forbidden, IsLimit, IsSelect
<1>7. QED
  BY <1>2, <1>4, <1>6, Zenon

\* A clean query is accepted unless it is too long.
LEMMA CleanIsAccepted ==
    ASSUME NEW e \in Seq(SqlWords), Clean(e), Len(e) <= MaxWords, Len(e) # 0, IsSelect(e[1])
    PROVE  Accepted(e) /\ TrimEnd(e) = e
<1>1. \A i \in DOMAIN e : ~Semicolon(e[i])
  <2>1. \A w : Semicolon(w) => Forbidden(w)
    BY DEF Forbidden, Semicolon
  <2>2. DOMAIN e = 1 .. Len(e)
    OBVIOUS
  <2>3. QED
    BY <2>1, <2>2, Zenon DEF Clean
<1>2. TrimEnd(e) = e
  BY <1>1, TrimEndNothing
<1>3. ASSUME NEW w, Forbidden(w) PROVE ~Occurs(e, w)
  BY <1>3 DEF Clean, Occurs
<1>4. Forbidden(";") /\ Forbidden("$$") /\ \A w \in Banned : Forbidden(w)
  BY DEF Forbidden
<1>5. ~Occurs(TrimEnd(e), ";") /\ ~Occurs(e, "$$") /\ \A w \in Banned : ~Occurs(e, w)
  BY <1>2, <1>3, <1>4, Zenon
<1>6. e # <<>> /\ Head(e) = "SELECT"
  BY DEF IsSelect
<1>7. ASSUME Len(e) > 1 PROVE e[2] # ";"
  <2>1. 2 \in DOMAIN e
    BY <1>7
  <2>2. ~Semicolon(e[2])
    BY <1>1, <2>1, Zenon
  <2>3. QED
    BY <2>2, Zenon DEF Semicolon
<1>8. QED
  BY <1>2, <1>5, <1>6, <1>7, Zenon DEF Accepted

\* What is known of the query once its last semicolons are gone.
Trimmed(s, q) ==
    /\ s \in Seq(SqlWords) /\ NamesTables(s) /\ Clean(s) /\ Len(s) # 0 /\ IsSelect(s[1])
    /\ Len(s) <= Len(q) /\ \A i \in 1 .. Len(s) : s[i] = q[i]

LEMMA AcceptedIsTrimmed ==
    ASSUME NEW q \in Seq(SqlWords), NamesTables(q), Accepted(q)
    PROVE  Trimmed(TrimEnd(q), q)
<1>1. PICK n \in 0 .. Len(q) : /\ TrimEnd(q) = SubSeq(q, 1, n)
                               /\ \A i \in n + 1 .. Len(q) : Semicolon(q[i])
  BY TrimEndCuts
<1> DEFINE s == TrimEnd(q)
<1>2. /\ s \in Seq(SqlWords) /\ Len(s) = n /\ Len(q) \in Nat
      /\ \A i \in 1 .. n : s[i] = q[i]
  BY <1>1
<1>3. /\ \A i \in 1 .. Len(s) : s[i] # ";"
      /\ \A i \in 1 .. Len(q) : q[i] # "$$" /\ q[i] \notin Banned
  <2>1. ~Occurs(s, ";") /\ ~Occurs(q, "$$") /\ \A w \in Banned : ~Occurs(q, w)
    BY Zenon DEF Accepted
  <2> HIDE DEF s
  <2>2. DOMAIN s = 1 .. Len(s)
    BY <1>2
  <2>3. DOMAIN q = 1 .. Len(q)
    OBVIOUS
  <2>4. QED
    BY <2>1, <2>2, <2>3, Zenon DEF Occurs
<1>4. Len(q) # 0 /\ IsSelect(q[1])
  <2>1. q # <<>> /\ IsSelect(Head(q))
    BY Zenon DEF Accepted, IsSelect
  <2>2. QED
    BY <2>1
<1> HIDE DEF s
<1>5. Clean(s)
  <2>1. ASSUME NEW i \in 1 .. Len(s) PROVE ~Forbidden(s[i])
    <3>1. i \in 1 .. Len(q) /\ s[i] = q[i]
      BY <1>2
    <3>2. s[i] # ";" /\ s[i] # "$$" /\ s[i] \notin Banned
      BY <1>3, <3>1, Zenon
    <3>3. QED
      BY <3>2, Zenon DEF Forbidden
  <2>2. QED
    BY <2>1, Zenon DEF Clean
<1>6. n # 0
  <2>1. ~Semicolon(q[1])
    BY <1>4 DEF Semicolon, IsSelect
  <2>2. 1 \notin n + 1 .. Len(q)
    BY <1>1, <2>1, Zenon
  <2>3. QED
    BY <1>2, <1>4, <2>2
<1>7. ASSUME NEW i \in 1 .. n, s[i] \in TableKeywords
      PROVE  i < n /\ s[i + 1] \in Tables \cup QualifiedNames
  <2>1. i \in DOMAIN q /\ q[i] \in TableKeywords
    BY <1>2, <1>7
  <2>2. i < Len(q) /\ q[i + 1] \in Tables \cup QualifiedNames
    BY <2>1 DEF NamesTables
  <2>3. ~Semicolon(q[i + 1])
    BY <2>2, ForbiddenWords DEF Forbidden, Semicolon
  <2>4. i + 1 \in 1 .. n
    BY <1>1, <1>2, <2>2, <2>3
  <2>5. QED
    BY <1>2, <2>2, <2>4
<1>8. NamesTables(s)
  BY <1>2, <1>7 DEF NamesTables
<1>9. IsSelect(s[1])
  BY <1>2, <1>4, <1>6
<1>10. QED
  BY <1>2, <1>5, <1>6, <1>8, <1>9 DEF Trimmed, s

\* What is known of the sanitised query e, through the query r with the
\* schema and the query s without semicolons.
Cleaned(e, r, s) ==
    /\ Limited(e, r) /\ WithinLimit(e) /\ Renamed(r, s)
    /\ NamesTables(r) /\ PrefixDone(e) /\ NamesTables(e)
    /\ Clean(e) /\ Len(e) # 0 /\ IsSelect(e[1])

LEMMA SanitisedIsCleaned ==
    ASSUME NEW q, NEW s, Trimmed(s, q)
    PROVE  Cleaned(EnforceLimit(AddPrefixes(s)), AddPrefixes(s), s)
<1> DEFINE r == AddPrefixes(s)
           e == EnforceLimit(r)
<1>1. s \in Seq(SqlWords) /\ NamesTables(s) /\ Clean(s) /\ Len(s) # 0 /\ IsSelect(s[1])
  BY DEF Trimmed
<1>2. Renamed(r, s) /\ PrefixDone(r)
  BY <1>1, PrefixesAdded
<1>3. r \in Seq(SqlWords)
  BY <1>2 DEF Renamed
<1>4. Limited(e, r) /\ WithinLimit(e)
  BY <1>3, LimitEnforced
<1> HIDE DEF r, e
<1>5. NamesTables(r)
  BY <1>1, <1>2, RenamedNames
<1>6. NamesTables(e) /\ PrefixDone(e)
  BY <1>2, <1>4, <1>5, LimitedTables
<1>7. Len(r) = Len(s) /\ Len(s) \in Nat /\ Len(e) \in Nat /\ Len(e) >= Len(r)
  BY <1>2, <1>4 DEF Renamed, Limited
<1>8. Clean(r)
  <2>1. ASSUME NEW i \in 1 .. Len(s) PROVE ~Forbidden(r[i])
    <3>1. r[i] = s[i] \/ (s[i] \in Tables /\ r[i] = Qualified[s[i]])
      BY <1>2 DEF Renamed
    <3>2. r[i] = s[i] \/ r[i] \in QualifiedNames
      BY <3>1, WordKinds
    <3>3. ~Forbidden(s[i])
      BY <1>1 DEF Clean
    <3>4. QED
      BY <3>2, <3>3, ForbiddenWords
  <2>2. QED
    BY <1>7, <2>1 DEF Clean
<1>9. Clean(e)
  <2>1. ASSUME NEW i \in 1 .. Len(e) PROVE ~Forbidden(e[i])
    <3>1. CASE i \in 1 .. Len(r)
      <4>1. e[i] = r[i] \/ IsMax(e[i])
        BY <1>4, <3>1 DEF Limited
      <4>2. ~Forbidden(r[i])
        BY <1>8, <3>1 DEF Clean
      <4>3. QED
        BY <4>1, <4>2, ForbiddenWords
    <3>2. CASE i \in Len(r) + 1 .. Len(e)
      <4>1. IsMax(e[i]) \/ IsLimit(e[i])
        BY <1>4, <3>2 DEF Limited
      <4>2. QED
        BY <4>1, ForbiddenWords
    <3>3. QED
      BY <1>7, <3>1, <3>2
  <2>2. QED
    BY <2>1 DEF Clean
<1>10. Len(e) # 0 /\ IsSelect(e[1])
  <2>1. 1 \in 1 .. Len(s) /\ 1 \in 1 .. Len(r) /\ Len(e) # 0
    BY <1>1, <1>7
  <2>2. r[1] = s[1]
    BY <1>2, <2>1 DEF Renamed, AfterKeyword
  <2>3. e[1] = r[1]
    BY <1>4, <2>1 DEF Limited
  <2>4. QED
    BY <1>1, <2>1, <2>2, <2>3
<1>11. QED
  BY <1>2, <1>4, <1>5, <1>6, <1>9, <1>10 DEF Cleaned, e, r

LEMMA SanitisedStays ==
    ASSUME NEW q \in Seq(SqlWords), NamesTables(q)
    PROVE  SanitisedIsFixed(q)
<1> SUFFICES ASSUME Accepted(q), Len(Sanitised(q)) <= MaxWords
             PROVE  Accepted(Sanitised(q)) /\ Sanitised(Sanitised(q)) = Sanitised(q)
  BY Zenon DEF SanitisedIsFixed
<1> DEFINE s == TrimEnd(q)
           r == AddPrefixes(s)
           e == EnforceLimit(r)
<1>1. Sanitised(q) = e
  BY Zenon DEF Sanitised
<1>2. Cleaned(e, r, s)
  BY AcceptedIsTrimmed, SanitisedIsCleaned, Zenon
<1> HIDE DEF e
<1>3. e \in Seq(SqlWords) /\ WithinLimit(e) /\ PrefixDone(e) /\ NamesTables(e)
      /\ Clean(e) /\ Len(e) # 0 /\ IsSelect(e[1])
  BY <1>2, Zenon DEF Cleaned, Limited
<1>4. Len(e) <= MaxWords
  BY <1>1, Zenon
<1>5. Accepted(e) /\ TrimEnd(e) = e
  BY <1>3, <1>4, CleanIsAccepted, Zenon
<1>6. AddPrefixes(e) = e /\ EnforceLimit(e) = e
  BY <1>3, PrefixesStay, LimitStays, Zenon
<1>7. Sanitised(e) = e
  BY <1>5, <1>6, Zenon DEF Sanitised
<1>8. QED
  BY <1>1, <1>5, <1>7, Zenon

\* A keyword that occurs at most once is followed by at most one word.
LEMMA SingleFollowing ==
    ASSUME NEW S, IsFiniteSet(S), Cardinality(S) <= 1, NEW i \in S, NEW j \in S
    PROVE  i = j
<1>1. Cardinality(S) \in Nat
  BY FS_CardinalityType
<1>2. Cardinality(S) # 0
  BY FS_EmptySet
<1>3. Cardinality(S) = 1
  BY <1>1, <1>2
<1>4. \E x : S = {x}
  BY <1>3, FS_Singleton
<1>5. QED
  BY <1>4

\* The places after a keyword stay the same up to the end.
LEMMA FollowingStays ==
    ASSUME NEW q \in Seq(SqlWords), NEW s, NEW r, NEW e, Trimmed(s, q), Cleaned(e, r, s),
           NEW kw \in {"FROM", "JOIN"}
    PROVE  Following(e, kw) \in SUBSET Following(q, kw) /\ IsFiniteSet(Following(q, kw))
<1>1. Following(e, kw) = Following(r, kw)
  BY LimitedFollowing DEF Cleaned
<1>2. Following(r, kw) = Following(s, kw)
  BY RenamedFollowing DEF Cleaned
<1>3. s \in Seq(SqlWords) /\ Len(s) <= Len(q) /\ \A i \in 1 .. Len(s) : s[i] = q[i]
  BY DEF Trimmed
<1>4. Following(s, kw) \in SUBSET Following(q, kw)
  BY <1>3 DEF Following
<1>5. IsFiniteSet(1 .. Len(q))
  BY FS_Interval
<1>6. Following(q, kw) \in SUBSET (1 .. Len(q))
  BY DEF Following
<1>7. QED
  BY <1>1, <1>2, <1>4, <1>5, <1>6, FS_Subset

\* And no other spelling of a keyword appears.
LEMMA LooseStays ==
    ASSUME NEW q \in Seq(SqlWords), NEW s, NEW r, NEW e, Trimmed(s, q), Cleaned(e, r, s),
           NEW i \in 1 .. Len(e), e[i] \in Loose
    PROVE  i \in 1 .. Len(q) /\ q[i] = e[i]
<1>1. Limited(e, r) /\ Renamed(r, s) /\ NamesTables(r)
  BY DEF Cleaned
<1>2. e[i] \in TableKeywords /\ e[i] \notin Tables /\ e[i] \notin QualifiedNames
  BY WordKinds DEF TableKeywords
<1>3. i < Len(r) /\ r[i] = e[i]
  BY <1>1, <1>2, LimitedNames
<1>4. Len(r) = Len(s) /\ Len(s) \in Nat /\ Len(s) <= Len(q) /\ Len(q) \in Nat
  BY <1>1 DEF Renamed, Trimmed
<1>5. i \in 1 .. Len(s) /\ i \in 1 .. Len(q)
  BY <1>3, <1>4
<1>6. s[i] = e[i]
  BY <1>1, <1>2, <1>3, <1>5, RenamedKeeps
<1>7. QED
  BY <1>5, <1>6 DEF Trimmed

LEMMA TablesPrefixed ==
    ASSUME NEW q \in Seq(SqlWords), NamesTables(q)
    PROVE  PlainTablesPrefixed(q)
<1> DEFINE Single(kw) == Cardinality(Following(q, kw)) <= 1
           Plain(e, kw) == \A i \in Following(e, kw) : e[i] \notin Tables
           NoLoose == \A w \in Loose : ~Occurs(q, w)
           s == TrimEnd(q)
           r == AddPrefixes(s)
           e == EnforceLimit(r)
<1>0. ASSUME Accepted(q) PROVE Trimmed(s, q) /\ Cleaned(e, r, s)
  BY <1>0, AcceptedIsTrimmed, SanitisedIsCleaned, Zenon
<1>2. Sanitised(q) = e
  BY Zenon DEF Sanitised
<1> HIDE DEF s, r, e
<1>1. ASSUME Accepted(q), NEW kw \in {"FROM", "JOIN"}, Single(kw)
      PROVE  Plain(e, kw)
  <2>1. Trimmed(s, q) /\ Cleaned(e, r, s)
    BY <1>0, <1>1, Zenon
  <2>2. Following(e, kw) \in SUBSET Following(q, kw) /\ IsFiniteSet(Following(q, kw))
    BY <2>1, FollowingStays, Zenon
  <2>3. AlreadyQualified(e, kw) \/ Plain(e, kw)
    BY <2>1, Zenon DEF Cleaned, PrefixDone
  <2>4. CASE AlreadyQualified(e, kw)
    <3>1. PICK j \in Following(e, kw) : e[j] \in QualifiedNames
      BY <2>4 DEF AlreadyQualified, Following
    <3>2. ASSUME NEW i \in Following(e, kw) PROVE e[i] \notin Tables
      <4>1. i = j
        BY <1>1, <2>2, SingleFollowing, Zenon
      <4>2. QED
        BY <3>1, <4>1, WordKinds
    <3>3. QED
      BY <3>2
  <2>5. QED
    BY <2>3, <2>4
<1>3. ASSUME Accepted(q), Single("FROM"), Single("JOIN")
      PROVE  Plain(e, "FROM") /\ Plain(e, "JOIN")
  BY <1>1, <1>3
<1>4. ASSUME Accepted(q), NoLoose, Plain(e, "FROM"), Plain(e, "JOIN"),
             NEW i \in DOMAIN e, AfterKeyword(e, i)
      PROVE  e[i] \notin Tables
  <2>1. Trimmed(s, q) /\ Cleaned(e, r, s)
    BY <1>0, <1>4, Zenon
  <2>2. e \in Seq(SqlWords)
    BY <2>1, Zenon DEF Cleaned, Limited
  <2>3. i > 1 /\ i - 1 \in 1 .. Len(e)
    BY <1>4, <2>2 DEF AfterKeyword
  <2>4. e[i - 1] \in TableKeywords
    BY <1>4, Zenon DEF AfterKeyword
  <2>5. e[i - 1] \notin Loose
    <3>1. ASSUME e[i - 1] \in Loose PROVE FALSE
      <4>1. i - 1 \in 1 .. Len(q) /\ q[i - 1] = e[i - 1]
        BY <2>1, <2>3, <3>1, LooseStays
      <4>2. i - 1 \in DOMAIN q
        BY <4>1
      <4>3. Occurs(q, e[i - 1])
        BY <4>1, <4>2, Zenon DEF Occurs
      <4>4. QED
        BY <1>4, <3>1, <4>3, Zenon
    <3>2. QED
      BY <3>1
  <2>6. e[i - 1] = "FROM" \/ e[i - 1] = "JOIN"
    BY <2>4, <2>5 DEF TableKeywords
  <2>7. i \in Following(e, "FROM") \/ i \in Following(e, "JOIN")
    BY <2>3, <2>6 DEF Following
  <2>8. QED
    BY <1>4, <2>7, Zenon
<1>5. ASSUME Accepted(q), NoLoose, Single("FROM"), Single("JOIN")
      PROVE  \A i \in DOMAIN e : AfterKeyword(e, i) => e[i] \notin Tables
  BY <1>3, <1>4, <1>5, Zenon
<1>6. QED
  BY <1>2, <1>5, Zenon DEF PlainTablesPrefixed

\* The query e ends in a LIMIT that is small enough.
EndsBounded(e) ==
    /\ Len(e) > 1 /\ IsLimit(e[Len(e) - 1])
    /\ e[Len(e)] \in DOMAIN Number /\ Number[e[Len(e)]] <= MaxLimit

\* The only LIMIT, if any, ends the query t with a number that parses.
EndLimit(t) == \A i \in 1 .. Len(t) : IsLimit(t[i]) => i + 1 = Len(t) /\ t[i + 1] \in Whole

LEMMA EndLimitRenamed ==
    ASSUME NEW r, NEW s, Renamed(r, s), EndLimit(s)
    PROVE  EndLimit(r)
<1>1. Len(r) = Len(s) /\ Len(s) \in Nat
  BY DEF Renamed
<1>2. SUFFICES ASSUME NEW i \in 1 .. Len(s), IsLimit(r[i])
               PROVE  i + 1 = Len(s) /\ r[i + 1] \in Whole
  BY <1>1 DEF EndLimit
<1>3. s[i] = r[i]
  <2>1. r[i] \notin Tables /\ r[i] \notin QualifiedNames
    BY <1>2, Distinct DEF IsLimit
  <2>2. QED
    BY <2>1, RenamedKeeps
<1>4. i + 1 = Len(s) /\ s[i + 1] \in Whole
  BY <1>2, <1>3 DEF EndLimit
<1>5. s[i + 1] \notin Tables
  BY <1>4, SqlAssumption
<1>6. i + 1 \in 1 .. Len(s)
  BY <1>1, <1>4
<1>7. r[i + 1] = s[i + 1]
  BY <1>5, <1>6 DEF Renamed
<1>8. QED
  BY <1>4, <1>7

\* enforce_limit makes such a query end in a small enough LIMIT.
LEMMA LimitBounds ==
    ASSUME NEW r \in Seq(SqlWords), EndLimit(r)
    PROVE  EndsBounded(EnforceLimit(r))
<1>0. MaxLimit \in Nat /\ Number["max"] = MaxLimit /\ "max" \in DOMAIN Number
  BY LimitWords, WordKinds, Zenon
<1>00. \A w : IsMax(w) => w \in DOMAIN Number /\ Number[w] <= MaxLimit
  BY <1>0 DEF IsMax
<1>1. CASE NoLimit(r) /\ EnforceLimit(r) = r \o <<"LIMIT", "max">>
  <2> DEFINE e == r \o <<"LIMIT", "max">>
  <2>1. /\ Len(e) = Len(r) + 2 /\ Len(r) \in Nat
        /\ IsLimit(e[Len(r) + 1]) /\ IsMax(e[Len(r) + 2])
    BY LimitWords DEF IsLimit, IsMax
  <2> HIDE DEF e
  <2>2. Len(e) > 1 /\ IsLimit(e[Len(e) - 1]) /\ IsMax(e[Len(e)])
    BY <2>1
  <2>3. EndsBounded(e)
    BY <1>00, <2>2, Zenon DEF EndsBounded
  <2>4. QED
    BY <1>1, <2>3 DEF e
<1>2. ASSUME NEW i, FirstLimit(r, i), TooLarge(r, i),
             EnforceLimit(r) = [r EXCEPT ![i + 1] = "max"]
      PROVE  EndsBounded(EnforceLimit(r))
  <2> DEFINE e == [r EXCEPT ![i + 1] = "max"]
  <2>1. i \in 1 .. Len(r) /\ i + 1 = Len(r) /\ Len(r) \in Nat /\ IsLimit(r[i])
    BY <1>2 DEF FirstLimit, EndLimit
  <2>2. Len(e) = Len(r) /\ e[i] = r[i] /\ IsMax(e[i + 1])
    BY <2>1, LimitWords DEF IsMax
  <2> HIDE DEF e
  <2>3. Len(e) > 1 /\ Len(e) - 1 = i /\ Len(e) = i + 1
    BY <2>1, <2>2
  <2>4. IsLimit(e[Len(e) - 1]) /\ IsMax(e[Len(e)])
    BY <2>1, <2>2, <2>3
  <2>5. EndsBounded(e)
    BY <1>00, <2>3, <2>4, Zenon DEF EndsBounded
  <2>6. QED
    BY <1>2, <2>5 DEF e
<1>3. ASSUME NEW i, FirstLimit(r, i), ~TooLarge(r, i), EnforceLimit(r) = r
      PROVE  EndsBounded(EnforceLimit(r))
  <2>1. /\ i \in 1 .. Len(r) /\ i + 1 = Len(r) /\ Len(r) \in Nat /\ IsLimit(r[i])
        /\ r[i + 1] \in Whole
    BY <1>3 DEF FirstLimit, EndLimit
  <2>2. Len(r) > 1 /\ Len(r) - 1 = i /\ i < Len(r)
    BY <2>1
  <2>3. r[Len(r)] \in DOMAIN Number
    BY <2>1, SqlAssumption
  <2>4. ~(Number[r[Len(r)]] > MaxLimit)
    BY <1>3, <2>1, <2>2, Zenon DEF TooLarge
  <2>5. Number[r[Len(r)]] \in Nat
    BY <2>3, SqlAssumption
  <2>6. Number[r[Len(r)]] <= MaxLimit
    BY <1>0, <2>4, <2>5
  <2>7. IsLimit(r[Len(r) - 1])
    BY <2>1, <2>2
  <2>8. QED
    BY <1>3, <2>2, <2>3, <2>6, <2>7, Zenon DEF EndsBounded
<1>4. QED
  BY <1>1, <1>2, <1>3, LimitCases, Zenon

LEMMA PlainBounded ==
    ASSUME NEW q \in Seq(SqlWords), NamesTables(q)
    PROVE  PlainIsBounded(q)
<1> DEFINE t == TrimEnd(q)
           r == AddPrefixes(t)
           e == EnforceLimit(r)
           Numbered == \A i \in DOMAIN t : t[i] = "LIMIT" => i + 1 = Len(t) /\ t[i + 1] \in Whole
           Bounded == /\ Len(e) > 1 /\ e[Len(e) - 1] = "LIMIT"
                      /\ e[Len(e)] \in DOMAIN Number /\ Number[e[Len(e)]] <= MaxLimit
<1>1. Sanitised(q) = e
  BY Zenon DEF Sanitised
<1>2. ASSUME Accepted(q), Numbered PROVE Bounded
  <2>1. Trimmed(t, q) /\ Cleaned(e, r, t)
    BY <1>2, AcceptedIsTrimmed, SanitisedIsCleaned, Zenon
  <2> HIDE DEF t, r
  <2>2. t \in Seq(SqlWords) /\ Renamed(r, t) /\ r \in Seq(SqlWords)
    BY <2>1, Zenon DEF Cleaned, Renamed
  <2>3. DOMAIN t = 1 .. Len(t)
    BY <2>2
  <2>4. EndLimit(t)
    BY <1>2, <2>3, Zenon DEF EndLimit, IsLimit
  <2>5. EndLimit(r)
    BY <2>2, <2>4, EndLimitRenamed, Zenon
  <2>6. EndsBounded(e)
    BY <2>2, <2>5, LimitBounds, Zenon
  <2>7. QED
    BY <2>6, Zenon DEF EndsBounded, IsLimit
<1>3. PlainIsBounded(q) <=> (Accepted(q) /\ Numbered => Bounded)
  BY <1>1, Zenon DEF PlainIsBounded
<1>4. QED
  BY <1>2, <1>3, Zenon

\* The input is a sequence of words with a table after every FROM and JOIN.
SqlInput ==
    input.kind = "sql" => input.query \in Seq(SqlWords) /\ NamesTables(input.query)

(* parser.rs:31, :150 and :184: of a query of any length, whatever tables  *)
(* there are and whatever MAX_LIMIT is, the sanitised form is accepted     *)
(* again and left as it is, names every table of a plain query with its    *)
(* schema, and ends in a LIMIT of at most MAX_LIMIT if the query had none  *)
(* or ended in a LIMIT with a number that parses as u64.                   *)
THEOREM QueriesAlwaysSanitised == SqlInput => QueriesSanitised
<1> SUFFICES ASSUME SqlInput, input.kind = "sql"
             PROVE  /\ SanitisedIsFixed(input.query)
                    /\ PlainTablesPrefixed(input.query)
                    /\ PlainIsBounded(input.query)
  BY Zenon DEF QueriesSanitised
<1>1. input.query \in Seq(SqlWords) /\ NamesTables(input.query)
  BY Zenon DEF SqlInput
<1>2. QED
  BY <1>1, SanitisedStays, TablesPrefixed, PlainBounded, Zenon

=============================================================================
