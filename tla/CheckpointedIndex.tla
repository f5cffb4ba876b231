------------------------- MODULE CheckpointedIndex --------------------------
(***************************************************************************)
(* What the backfill promises the outside world, without plans, ranges,    *)
(* buffers or processes: events become persisted and stay so, and a        *)
(* contract's checkpoint may only be set to a block below which all of its *)
(* events are persisted.  A checkpoint may be set back (that costs work,   *)
(* never data); it is never removed.                                       *)
(***************************************************************************)
EXTENDS Integers

CONSTANTS Contracts, Events, StartBlock, NoCheckpoint

VARIABLES
    persisted,     \* the events whose effect survives a crash
    mark           \* [Contracts -> Nat \cup {NoCheckpoint}]

absVars == <<persisted, mark>>

Complete(c, b) ==
    \A e \in Events :
        e.contract = c /\ StartBlock[c] <= e.block /\ e.block < b => e \in persisted

AbsInit ==
    /\ persisted \subseteq Events
    /\ mark = [c \in Contracts |-> NoCheckpoint]

Persist ==
    /\ persisted \subseteq persisted'
    /\ persisted' \subseteq Events
    /\ UNCHANGED mark

SetMark(c) ==
    /\ mark'[c] \in Nat
    /\ Complete(c, mark'[c])
    /\ mark' = [mark EXCEPT ![c] = mark'[c]]
    /\ UNCHANGED persisted

AbsNext == Persist \/ \E c \in Contracts : SetMark(c)

AbsSpec == AbsInit /\ [][AbsNext]_absVars
=============================================================================
