---------------------------- MODULE PlannerLoop -----------------------------
(***************************************************************************)
(* planner::plan as the loop it is, one iteration per step, in unsigned    *)
(* arithmetic that wraps at Modulus (2^64 in a release build).  Module     *)
(* Planner gives the ranges in closed form; here the loop is shown to      *)
(* compute them.                                                           *)
(***************************************************************************)
EXTENDS Integers, Sequences, Planner

CONSTANTS
    Blocks,        \* block numbers: start_block, checkpoint and current_block
    Chunks,        \* chunk sizes
    Modulus,       \* unsigned integers are 0 .. Modulus - 1
    NoCheckpoint

\* A chunk of zero blocks is not excluded by the configuration's validation;
\* the loop does not end for it, and nothing is claimed.  No overflow: block
\* numbers and chunk sizes that occur are far below 2^64.
ASSUME LoopAssumption ==
    /\ Blocks \subseteq Nat
    /\ Chunks \subseteq Nat \ {0}
    /\ Modulus \in Nat
    /\ \A b \in Blocks, k \in Chunks : b + k < Modulus
    /\ NoCheckpoint \notin Nat

VARIABLES
    checkpoint, startBlock, current, chunk,   \* the arguments
    pc,            \* "entry", "loop" or "done"
    from,          \* the loop variable
    ranges,        \* the list built so far
    total          \* total_blocks of the result

args == <<checkpoint, startBlock, current, chunk>>
vars == <<args, pc, from, ranges, total>>

Wrap(n) == IF n < 0 THEN n + Modulus ELSE IF n < Modulus THEN n ELSE n - Modulus

start == PlanFrom(checkpoint, NoCheckpoint, startBlock)

Init ==
    /\ checkpoint \in Blocks \cup {NoCheckpoint}
    /\ startBlock \in Blocks
    /\ current \in Blocks
    /\ chunk \in Chunks
    /\ pc = "entry"
    /\ from = 0
    /\ ranges = <<>>
    /\ total = 0

\* Nothing to do: the empty plan.
ReturnEmpty ==
    /\ pc = "entry"
    /\ start > current
    /\ pc' = "done"
    /\ UNCHANGED <<args, from, ranges, total>>

Enter ==
    /\ pc = "entry"
    /\ start <= current
    /\ pc' = "loop"
    /\ from' = start
    /\ UNCHANGED <<args, ranges, total>>

\* Mutant: the end of a range is taken as exclusive.
LastOfHalfOpen(f) == IF Wrap(f + chunk) <= current THEN Wrap(f + chunk) ELSE current

LastOf(f) == LET last == Wrap(f + chunk - 1) IN IF last <= current THEN last ELSE current

\* Mutant: the next range starts at the end of the previous one.
IterateOverlapping ==
    /\ pc = "loop"
    /\ from <= current
    /\ ranges' = Append(ranges, [from |-> from, to |-> LastOf(from)])
    /\ from' = IF LastOf(from) = from THEN from + 1 ELSE LastOf(from)
    /\ UNCHANGED <<args, pc, total>>

Iterate ==
    /\ pc = "loop"
    /\ from <= current
    /\ ranges' = Append(ranges, [from |-> from, to |-> LastOf(from)])
    /\ from' = Wrap(LastOf(from) + 1)
    /\ UNCHANGED <<args, pc, total>>

Return ==
    /\ pc = "loop"
    /\ from > current
    /\ pc' = "done"
    /\ total' = current - start + 1
    /\ UNCHANGED <<args, from, ranges>>

Next == ReturnEmpty \/ Enter \/ Iterate \/ Return

Spec == Init /\ [][Next]_vars

-----------------------------------------------------------------------------
(* Properties. *)

\* The plan is complete and nothing is fetched twice: each block from the
\* first one planned to the current one lies in exactly one range, no range
\* reaches outside, and no range is longer than the node's block range limit.
TilesBlocks ==
    pc = "done" =>
        /\ \A b \in start .. current :
              \E i \in DOMAIN ranges :
                 /\ b \in ranges[i].from .. ranges[i].to
                 /\ \A j \in DOMAIN ranges : b \in ranges[j].from .. ranges[j].to => j = i
        /\ \A i \in DOMAIN ranges :
              /\ start <= ranges[i].from /\ ranges[i].to <= current
              /\ ranges[i].to - ranges[i].from < chunk

\* The loop computes the ranges of module Planner, which the coordinator's
\* model indexes: the i-th entry is the i-th range, there are no further
\* ranges, and the total is right.
MatchesPlanner ==
    pc = "done" =>
        /\ \A i \in 1 .. Len(ranges) :
              ranges[i] = [from |-> RangeFrom(start, chunk, i - 1),
                           to |-> RangeTo(start, current, chunk, i - 1)]
        /\ ~HasRange(start, current, chunk, Len(ranges))
        /\ total = TotalBlocks(start, current)

=============================================================================
