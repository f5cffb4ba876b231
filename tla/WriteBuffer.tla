---------------------------- MODULE WriteBuffer -----------------------------
(***************************************************************************)
(* The in-memory write buffer of forge-index-db (buffer.rs): handlers      *)
(* append rows to a Vec per table, and flush_all takes each table's rows   *)
(* and sends them to Postgres as one INSERT, one UPDATE per row and one    *)
(* DELETE.  Nothing wraps these statements in a transaction, and rows that *)
(* were taken are dropped when a statement fails.                          *)
(*                                                                         *)
(* The module follows single rows, by the number they were accepted under, *)
(* through the buffer, a flusher's hands and the database; what the        *)
(* statements do to the table is in BufferedReplay.  Flushers are the      *)
(* tasks that may call flush_all concurrently: the coordinator, and the    *)
(* task of start_background_flush where an application spawns it.          *)
(*                                                                         *)
(* A row here carries its primary key and, for an UPDATE, a column to set. *)
(* The code passes over a DELETE by another column and an UPDATE that sets *)
(* nothing without a statement; both would count as executed.              *)
(***************************************************************************)
EXTENDS Integers, FiniteSets

CONSTANTS
    Tables,        \* the table names handlers use
    SchemaTables,  \* those of them that the schema declares, with a primary key
    Flushers,
    MaxSize,       \* max_size, rows per table
    MaxRows        \* bound: rows accepted in a behaviour

ASSUME BufferAssumption ==
    /\ SchemaTables \subseteq Tables
    /\ MaxSize \in Nat
    /\ MaxRows \in Nat

VARIABLES
    buffers,       \* [Tables -> set of rows]; a Vec's order is that of the numbers
    entries,       \* the tables that have an entry in the map
    op,            \* [Rows -> the operation the row was tagged with]
    accepted,      \* number of rows accepted so far
    applied,       \* rows whose statement has been executed
    lost,          \* [Flushers -> rows its flushes have dropped]
    pc,            \* [Flushers -> where its flush_all is]
    todo,          \* [Flushers -> tables its flush_all has not reached]
    hand,          \* [Flushers -> rows it has taken and not yet executed]
    asked          \* [Flushers -> schema tables' rows when it called flush_all]

vars == <<buffers, entries, op, accepted, applied, lost, pc, todo, hand, asked>>

Kinds == {"INSERT", "UPDATE", "DELETE"}

Rows == 0 .. MaxRows - 1

BufferedIn(tables) == UNION {buffers[t] : t \in tables}

Held == UNION {hand[f] : f \in Flushers}
Lost == UNION {lost[f] : f \in Flushers}

OfKind(rows, kind) == {r \in rows : op[r] = kind}

Init ==
    /\ buffers = [t \in Tables |-> {}]
    /\ entries = {}
    /\ op = [r \in Rows |-> "none"]
    /\ accepted = 0
    /\ applied = {}
    /\ lost = [f \in Flushers |-> {}]
    /\ pc = [f \in Flushers |-> "idle"]
    /\ todo = [f \in Flushers |-> {}]
    /\ hand = [f \in Flushers |-> {}]
    /\ asked = [f \in Flushers |-> {}]

-----------------------------------------------------------------------------
(* A handler writes. *)

Push(t, kind) ==
    /\ accepted < MaxRows
    /\ accepted' = accepted + 1
    /\ buffers' = [buffers EXCEPT ![t] = @ \cup {accepted}]
    /\ entries' = entries \cup {t}
    /\ op' = [op EXCEPT ![accepted] = kind]
    /\ UNCHANGED <<applied, lost, pc, todo, hand, asked>>

\* insert, which returns BufferFull and changes nothing at max_size rows.
Insert(t) ==
    /\ Cardinality(buffers[t]) < MaxSize
    /\ Push(t, "INSERT")

\* update and delete do not look at max_size.
Update(t) == Push(t, "UPDATE")
Delete(t) == Push(t, "DELETE")

-----------------------------------------------------------------------------
(* flush_all *)

\* The names in the map are collected first; a table without rows is skipped later.
BeginFlush(f) ==
    /\ pc[f] \in {"idle", "ok", "err"}
    /\ pc' = [pc EXCEPT ![f] = "next"]
    /\ todo' = [todo EXCEPT ![f] = entries]
    /\ asked' = [asked EXCEPT ![f] = BufferedIn(SchemaTables)]
    /\ UNCHANGED <<buffers, entries, op, accepted, applied, lost, hand>>

\* Mutant: the rows are copied, and stay in the buffer.
TakeCopy(f, t) ==
    /\ pc[f] = "next"
    /\ t \in todo[f] \cap SchemaTables
    /\ hand' = [hand EXCEPT ![f] = buffers[t]]
    /\ todo' = [todo EXCEPT ![f] = @ \ {t}]
    /\ pc' = [pc EXCEPT ![f] = IF buffers[t] = {} THEN "next" ELSE "insert"]
    /\ UNCHANGED <<buffers, entries, op, accepted, applied, lost, asked>>

\* flush_table takes all rows of the table under the entry's lock.
Take(f, t) ==
    /\ pc[f] = "next"
    /\ t \in todo[f] \cap SchemaTables
    /\ buffers' = [buffers EXCEPT ![t] = {}]
    /\ hand' = [hand EXCEPT ![f] = buffers[t]]
    /\ todo' = [todo EXCEPT ![f] = @ \ {t}]
    /\ pc' = [pc EXCEPT ![f] = IF buffers[t] = {} THEN "next" ELSE "insert"]
    /\ UNCHANGED <<entries, op, accepted, applied, lost, asked>>

\* A table the schema does not know has no columns and no primary key: its rows
\* are taken, no statement is sent, and they are counted as flushed.
TakeUnknown(f, t) ==
    /\ pc[f] = "next"
    /\ t \in todo[f] \ SchemaTables
    /\ buffers' = [buffers EXCEPT ![t] = {}]
    /\ lost' = [lost EXCEPT ![f] = @ \cup buffers[t]]
    /\ todo' = [todo EXCEPT ![f] = @ \ {t}]
    /\ UNCHANGED <<entries, op, accepted, applied, pc, hand, asked>>

\* The kind of rows the flush is busy with, and where it goes after them.
KindAt(f) ==
    CASE pc[f] = "insert" -> "INSERT"
      [] pc[f] = "update" -> "UPDATE"
      [] pc[f] = "delete" -> "DELETE"

AfterPhase(f) ==
    CASE pc[f] = "insert" -> "update"
      [] pc[f] = "update" -> "delete"
      [] pc[f] = "delete" -> "next"

\* The next statement of f's flush sends these rows: all inserts, the first of
\* the updates, all deletes.
IsStatement(f, rows) ==
    LET left == OfKind(hand[f], KindAt(f))
    IN  /\ pc[f] \in {"insert", "update", "delete"}
        /\ rows # {}
        /\ IF pc[f] = "update"
             THEN \E r \in left : rows = {r} /\ \A q \in left : r <= q
             ELSE rows = left

Execute(f, rows) ==
    /\ IsStatement(f, rows)
    /\ applied' = applied \cup rows
    /\ hand' = [hand EXCEPT ![f] = @ \ rows]
    /\ UNCHANGED <<buffers, entries, op, accepted, lost, pc, todo, asked>>

NextPhase(f) ==
    /\ pc[f] \in {"insert", "update", "delete"}
    /\ OfKind(hand[f], KindAt(f)) = {}
    /\ pc' = [pc EXCEPT ![f] = AfterPhase(f)]
    /\ UNCHANGED <<buffers, entries, op, accepted, applied, lost, todo, hand, asked>>

\* Mutant: a failed statement is skipped and the flush goes on.
StatementFailsSkipped(f, rows, done) ==
    /\ IsStatement(f, rows)
    /\ done \in {{}, rows}
    /\ applied' = applied \cup done
    /\ lost' = [lost EXCEPT ![f] = @ \cup (hand[f] \ done)]
    /\ hand' = [hand EXCEPT ![f] = {}]
    /\ pc' = [pc EXCEPT ![f] = "next"]
    /\ UNCHANGED <<buffers, entries, op, accepted, todo, asked>>

\* A statement fails, or was executed and only its answer is lost: the rest of
\* the taken rows is dropped, the tables not yet reached keep theirs, and
\* flush_all returns the error.
StatementFails(f, rows, done) ==
    /\ IsStatement(f, rows)
    /\ done \in {{}, rows}
    /\ applied' = applied \cup done
    /\ lost' = [lost EXCEPT ![f] = @ \cup (hand[f] \ done)]
    /\ hand' = [hand EXCEPT ![f] = {}]
    /\ todo' = [todo EXCEPT ![f] = {}]
    /\ pc' = [pc EXCEPT ![f] = "err"]
    /\ UNCHANGED <<buffers, entries, op, accepted, asked>>

ReturnOk(f) ==
    /\ pc[f] = "next"
    /\ todo[f] = {}
    /\ pc' = [pc EXCEPT ![f] = "ok"]
    /\ UNCHANGED <<buffers, entries, op, accepted, applied, lost, todo, hand, asked>>

Flush(f) ==
    \/ BeginFlush(f)
    \/ \E t \in Tables : Take(f, t) \/ TakeUnknown(f, t)
    \/ \E rows \in SUBSET hand[f] : Execute(f, rows)
    \/ NextPhase(f)
    \/ \E rows \in SUBSET hand[f] : \E done \in {{}, rows} : StatementFails(f, rows, done)
    \/ ReturnOk(f)

Write(t) == Insert(t) \/ Update(t) \/ Delete(t)

Next == (\E t \in Tables : Write(t)) \/ (\E f \in Flushers : Flush(f))

Spec == Init /\ [][Next]_vars

-----------------------------------------------------------------------------
(* Properties. *)

\* Every variable has its type.
TypeOK ==
    /\ buffers \in [Tables -> SUBSET Rows]
    /\ entries \subseteq Tables
    /\ op \in [Rows -> Kinds \cup {"none"}]
    /\ accepted \in 0 .. MaxRows
    /\ applied \subseteq Rows
    /\ lost \in [Flushers -> SUBSET Rows]
    /\ pc \in [Flushers -> {"idle", "next", "insert", "update", "delete", "ok", "err"}]
    /\ todo \in [Flushers -> SUBSET Tables]
    /\ hand \in [Flushers -> SUBSET Rows]
    /\ asked \in [Flushers -> SUBSET Rows]

\* Every accepted row is in exactly one place: in the buffer, in the hands of
\* one flusher, executed, or dropped by a flush.  In particular two concurrent
\* flushes never execute a row twice, and none falls between them.
SingleOwner ==
    /\ BufferedIn(Tables) \cup Held \cup applied \cup Lost = 0 .. accepted - 1
    /\ \A t, u \in Tables : t # u => buffers[t] \cap buffers[u] = {}
    /\ \A f, g \in Flushers : f # g => hand[f] \cap hand[g] = {}
    /\ Held \cap (BufferedIn(Tables) \cup applied \cup Lost) = {}
    /\ BufferedIn(Tables) \cap (applied \cup Lost) = {}
    /\ applied \cap Lost = {}

\* When flush_all returns Ok, every row of the schema's tables that was buffered
\* when it was called has been executed, unless another flusher has taken it,
\* who still holds it or has dropped it.  The coordinator moves the checkpoints
\* on the strength of this, and may do so because the runner starts no other
\* flusher; with the background flush an Ok would not be enough.
FlushMakesDurable ==
    \A f \in Flushers : pc[f] = "ok" =>
        \A r \in asked[f] :
            r \in applied \/ \E g \in Flushers \ {f} : r \in hand[g] \/ r \in lost[g]
=============================================================================
