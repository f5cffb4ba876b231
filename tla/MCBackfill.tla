---------------------------- MODULE MCBackfill ------------------------------
(* Small instances of the backfill for TLC. *)
EXTENDS Backfill

Ev(c, b, i) == [contract |-> c, block |-> b, logIndex |-> i]

\* Two contracts on chain A that start at different blocks, one on chain B.
McChainOf == [p |-> "A", q |-> "A", r |-> "B"]
McStartBlock == [p |-> 0, q |-> 1, r |-> 2]
McChunkSize == [A |-> 2, B |-> 1]
McEvents == {Ev("p", 0, 0), Ev("p", 2, 0), Ev("q", 2, 0), Ev("q", 2, 1), Ev("r", 3, 0)}
McWritesTo == [e \in McEvents |-> IF e.block = 0 THEN {"t1", "t2"} ELSE {"t1"}]
McMayFail == {Ev("p", 2, 0)}

\* One chain, one contract of two ranges, for the temporal properties.
LiveChainOf == [p |-> "A"]
LiveStartBlock == [p |-> 0]
LiveChunkSize == [A |-> 2]
LiveEvents == {Ev("p", 0, 0), Ev("p", 1, 0), Ev("p", 2, 0)}
LiveWritesTo == [e \in LiveEvents |-> IF e.block = 0 THEN {"t1", "t2"} ELSE {"t1"}]
LiveMayFail == {Ev("p", 0, 0)}
=============================================================================
