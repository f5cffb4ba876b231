----------------------------- MODULE ReorgStore -----------------------------
(***************************************************************************)
(* One user table and its shadow table (db/src/reorg.rs): record_flush     *)
(* stores the inverse of every write, rollback_from_block replays the      *)
(* inverses statement by statement, without a transaction, and             *)
(* clear_before_block drops those of finalised blocks (realtime/           *)
(* finality.rs).                                                           *)
(*                                                                         *)
(* A row has a text column and a number column.  The replay reads every    *)
(* column as a String; sqlx refuses that for a column that is not text,    *)
(* and the refusal becomes NULL.  The primary key is a text column.        *)
(*                                                                         *)
(* Who calls record_flush is not in the repository: the caller here writes *)
(* one row and records its inverse, as its comment asks, in one step that  *)
(* does not fail (record_flush itself inserts row by row and may stop).    *)
(***************************************************************************)
EXTENDS Integers, Sequences, FiniteSets

CONSTANTS
    Keys, Texts, Numbers,
    Null,          \* SQL NULL
    Absent,        \* no row
    Depth,         \* confirmed_depth: no reorganisation reaches a finalised block
    MaxBlock,      \* bound: blocks
    MaxWrites      \* bound: shadow rows at a time

ASSUME StoreAssumption ==
    /\ Absent \notin [text : Texts, number : Numbers \cup {Null}]
    /\ Depth \in Nat
    /\ MaxBlock \in Nat /\ MaxWrites \in Nat

VARIABLES
    table,         \* [Keys -> row or Absent]
    shadow,        \* sequence of [key, row, op, block] in the order of insertion
    now,           \* the block being indexed
    top,           \* history: the highest block indexed so far
    pc,            \* "idle", "replay", "interrupted", "restored"
    fork,          \* the block a rollback goes back to
    rows,          \* positions of the shadow rows a rollback has still to replay
    asOf,          \* history: [block -> the table at its end]
    tied           \* history: some rollback met two shadow rows of a key in a block

vars == <<table, shadow, now, top, pc, fork, rows, asOf, tied>>

Init ==
    /\ table = [k \in Keys |-> Absent]
    /\ shadow = <<>>
    /\ now = 1
    /\ top = 1
    /\ pc = "idle"
    /\ fork = 0
    /\ rows = {}
    /\ asOf = [b \in 0..MaxBlock |-> table]
    /\ tied = FALSE

\* FinalityTracker.
IsFinalized(b, current) == b + Depth <= current

\* Mutant: the confirmations are not awaited.
FinalizedAtOnce(current) == current + 1

FinalizedBlock(current) == IF current >= Depth THEN current - Depth ELSE 0

-----------------------------------------------------------------------------

\* Operation::inverse, with the row that the replay needs.
Inverse(k, old, new) ==
    [key |-> k, row |-> IF old = Absent THEN new ELSE old, block |-> now,
     op |-> IF old = Absent THEN "DELETE" ELSE IF new = Absent THEN "INSERT" ELSE "UPDATE"]

NextBlock ==
    /\ pc = "idle"
    /\ now < MaxBlock
    /\ now' = now + 1
    /\ top' = IF now = top THEN now' ELSE top
    /\ UNCHANGED <<table, shadow, pc, fork, rows, asOf, tied>>

\* The caller inserts, updates or deletes a row; record_flush appends the inverse.
RecordFlush(k, new) ==
    /\ pc = "idle"
    /\ Len(shadow) < MaxWrites
    /\ new # Absent \/ table[k] # Absent
    /\ table' = [table EXCEPT ![k] = new]
    /\ shadow' = Append(shadow, Inverse(k, table[k], new))
    /\ asOf' = [b \in 0..MaxBlock |-> IF b >= now THEN table' ELSE asOf[b]]
    /\ UNCHANGED <<now, top, pc, fork, rows, tied>>

\* SELECT ... WHERE _block_number >= fork.  The fork of a call after a failed one
\* is not above the fork of that one.
Affected(f) == {i \in 1..Len(shadow) : shadow[i].block >= f}

\* DELETE leaves the rows at the other positions, in their order.
Keep(s, P) ==
    LET F[i \in 0..Len(s)] ==
            IF i = 0 THEN <<>>
            ELSE IF i \in P THEN Append(F[i - 1], s[i]) ELSE F[i - 1]
    IN  F[Len(s)]

StartRollback(f) ==
    /\ \/ pc = "idle" /\ f <= now /\ ~IsFinalized(f, top)
       \/ pc = "interrupted" /\ f = fork
    /\ pc' = "replay"
    /\ fork' = f
    /\ rows' = Affected(f)
    /\ tied' = (tied \/ \E i, j \in Affected(f) :
                    i # j /\ shadow[i].key = shadow[j].key /\ shadow[i].block = shadow[j].block)
    /\ UNCHANGED <<table, shadow, now, top, asOf>>

\* Read back from text: what is not text is NULL.
AsText(r) == [r EXCEPT !.number = Null]

\* The statement for one shadow row: an INSERT finds the key taken and does
\* nothing, an UPDATE or DELETE may find no row.
Undone(e) ==
    CASE e.op = "DELETE" -> Absent
      [] e.op = "INSERT" -> IF table[e.key] = Absent THEN AsText(e.row) ELSE table[e.key]
      [] e.op = "UPDATE" -> IF table[e.key] = Absent THEN Absent ELSE AsText(e.row)

\* Mutant: no ORDER BY.
AnyOrder(i) == TRUE

\* ORDER BY _block_number DESC: rows of one block come in any order.
InOrder(i) == \A j \in rows : shadow[j].block <= shadow[i].block

Replay(i) ==
    /\ pc = "replay"
    /\ i \in rows
    /\ InOrder(i)
    /\ table' = [table EXCEPT ![shadow[i].key] = Undone(shadow[i])]
    /\ rows' = rows \ {i}
    /\ UNCHANGED <<shadow, now, top, pc, fork, asOf, tied>>

\* A statement fails or the process dies: what was replayed stays.
Interrupt ==
    /\ pc = "replay"
    /\ pc' = "interrupted"
    /\ rows' = {}
    /\ UNCHANGED <<table, shadow, now, top, fork, asOf, tied>>

\* The replayed shadow rows are deleted, in one statement.
CleanUp ==
    /\ pc = "replay"
    /\ rows = {}
    /\ pc' = "restored"
    /\ shadow' = Keep(shadow, 1..Len(shadow) \ Affected(fork))
    /\ UNCHANGED <<table, now, top, fork, rows, asOf, tied>>

\* Indexing goes on from the fork.
Resume ==
    /\ pc = "restored"
    /\ pc' = "idle"
    /\ now' = fork
    /\ asOf' = [b \in 0..MaxBlock |-> IF b >= fork - 1 THEN table ELSE asOf[b]]
    /\ UNCHANGED <<table, shadow, top, fork, rows, tied>>

\* clear_before_block up to the finalised block.
ClearBefore ==
    /\ pc = "idle"
    /\ shadow' = Keep(shadow, Affected(FinalizedBlock(now)))
    /\ shadow' # shadow
    /\ UNCHANGED <<table, now, top, pc, fork, rows, asOf, tied>>

Next ==
    \/ NextBlock \/ ClearBefore
    \/ \E k \in Keys, new \in [text : Texts, number : Numbers] \cup {Absent} : RecordFlush(k, new)
    \/ \E f \in 1..MaxBlock : StartRollback(f)
    \/ \E i \in 1..MaxWrites : Replay(i)
    \/ Interrupt \/ CleanUp \/ Resume

Spec == Init /\ [][Next]_vars

-----------------------------------------------------------------------------
(* Properties. *)

\* Rows r and s agree on what a replay can restore.
SameText(r, s) == (r = Absent) = (s = Absent) /\ (r # Absent => r.text = s.text)

\* rollback_from_block: after it, also after attempts that failed half-way, the
\* table has the rows and text columns of the end of the block before the fork,
\* unless a key was written twice in one of the undone blocks.
RollbackRestores ==
    (pc = "restored" /\ ~tied) => \A k \in Keys : SameText(table[k], asOf[fork - 1][k])

\* What pruning left is enough to undo every block that is not final: a row
\* whose text differs from the end of block b has a shadow row above b.
ShadowSuffices ==
    (pc = "idle" /\ ~tied) =>
        \A k \in Keys, b \in 0..(now - 1) :
            (~IsFinalized(b + 1, top) /\ ~SameText(table[k], asOf[b][k])) =>
                \E i \in 1..Len(shadow) : shadow[i].key = k /\ shadow[i].block > b
=============================================================================
