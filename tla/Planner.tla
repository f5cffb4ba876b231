------------------------------ MODULE Planner ------------------------------
(***************************************************************************)
(* What the backfill planner computes (forge-index-sync,                   *)
(* backfill/planner.rs): the block interval [start, current] cut into      *)
(* consecutive ranges of `chunk' blocks, the last one possibly shorter.    *)
(* The planner builds the list with a while loop (module PlannerLoop); the *)
(* operators below say directly what its i-th entry is, counting from 0 as *)
(* the coordinator's range_idx does.                                       *)
(***************************************************************************)
EXTENDS Integers

\* Mutant: no fallback to the start block.
PlanFromNoFallback(checkpoint, none, startBlock) == checkpoint

\* The first block a plan covers: the checkpoint if there is one, else the
\* contract's configured start_block.
PlanFrom(checkpoint, none, startBlock) ==
    IF checkpoint = none THEN startBlock ELSE checkpoint

RangeFrom(start, chunk, i) == start + i * chunk

RangeTo(start, current, chunk, i) ==
    LET last == RangeFrom(start, chunk, i) + chunk - 1
    IN  IF last <= current THEN last ELSE current

\* The plan has an i-th range: range_idx < plan.ranges.len().
HasRange(start, current, chunk, i) == RangeFrom(start, chunk, i) <= current

\* The number of blocks of the i-th range.
RangeLen(start, current, chunk, i) ==
    RangeTo(start, current, chunk, i) - RangeFrom(start, chunk, i) + 1

\* BackfillPlan.total_blocks.
TotalBlocks(start, current) == IF start > current THEN 0 ELSE current - start + 1
=============================================================================
