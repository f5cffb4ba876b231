--------------------------- MODULE BufferedReplay ---------------------------
(***************************************************************************)
(* What the statements of a flush do to a row, when ranges are flushed in  *)
(* parts, lost in a crash and processed again.                             *)
(*                                                                         *)
(* Handlers issue insert, update and delete in the order of the events;    *)
(* flush_table (buffer.rs) sends one range's writes as one INSERT with ON  *)
(* CONFLICT DO NOTHING, then one UPDATE per row, then one DELETE.  Each    *)
(* statement is committed by itself.  The checkpoint may lag behind: it is *)
(* written after the flush and its error is ignored, and a checkpoint that *)
(* cannot be read counts as none (coordinator.rs).                         *)
(*                                                                         *)
(* Statements on different primary keys do not affect each other, so one   *)
(* key is followed: the database holds its value, or Absent.               *)
(*                                                                         *)
(* A handler writes blindly, the same in every run, or it counts: it reads *)
(* the row with find_one (context.rs, query.rs), which asks the database   *)
(* and not the buffer, and inserts or updates the next number.             *)
(***************************************************************************)
EXTENDS Integers

CONSTANTS
    MaxValue,      \* bound: values written blindly are 1..MaxValue
    MaxCount,      \* bound: no failure above this count
    Absent,
    Ranges,        \* bound: number of block ranges
    RangeWrites    \* bound: writes to the key within one range

ASSUME ReplayAssumption ==
    /\ Ranges \in Nat
    /\ RangeWrites \in Nat
    /\ MaxValue \in Nat /\ MaxCount \in Nat
    /\ Absent \notin Nat

Writes == [kind : {"INSERT", "UPDATE"}, value : 1 .. MaxValue]
          \cup [kind : {"DELETE"}, value : {Absent}]

NoWrite == [kind |-> "none", value |-> Absent]

VARIABLES
    counting,      \* whether the handler counts
    ends,          \* [0 .. Ranges -> number of writes up to the end of the range]
    writes,        \* what the handlers write, one range's writes after another's
    begun,         \* history: ranges in which events were counted
    again,         \* history: those that were counted more than once
    cut,           \* history: a run ended behind the stored checkpoint
    value,         \* the committed value of the key
    checkpoint,    \* the first range a restart works on
    range,         \* the range the run is at; 0 if the process is down
    left           \* the writes of the current flush still to be executed

replayVars == <<counting, ends, writes, begun, again, cut, value, checkpoint, range, left>>

\* The writes of range r, and whether it has any.
WritesOf(r) == ends[r - 1] + 1 .. ends[r]
HasWrites(r) == ends[r - 1] < ends[r]

Least(P) == CHOOSE i \in P : \A j \in P : i <= j

-----------------------------------------------------------------------------
(* The effect of statements. *)

\* ON CONFLICT DO NOTHING, UPDATE ... WHERE pk = ..., DELETE ... WHERE pk IN ...
Apply(v, w) ==
    CASE w.kind = "INSERT" -> IF v = Absent THEN w.value ELSE v
      [] w.kind = "UPDATE" -> IF v = Absent THEN Absent ELSE w.value
      [] w.kind = "DELETE" -> Absent

WritesOfKind(P, kind) == {i \in P : writes[i].kind = kind}

\* The next statement flush_table sends of the writes P: all inserts, the first
\* of the updates, all deletes.  Its first row for the key decides: a second
\* insert meets a conflict, a second delete finds no row.
Statement(P) ==
    LET inserts == WritesOfKind(P, "INSERT")
        updates == WritesOfKind(P, "UPDATE")
    IN  IF inserts # {} THEN inserts
        ELSE IF updates # {} THEN {Least(updates)}
        ELSE P

-----------------------------------------------------------------------------
(* What handlers write.  They insert rows that do not exist, update and delete
   rows that do; and within one range a row is not written against the order
   of the flush, as when it is deleted and inserted again. *)

\* The key's values when the n writes of w are executed once each and in order:
\* entry i is its value after the first i of them.
Given(w, n) ==
    LET given[i \in 0 .. n] == IF i = 0 THEN Absent ELSE Apply(given[i - 1], w[i])
    IN  given

AllWrites == ends[Ranges]

OnlySensibleWrites ==
    \A i \in 1 .. AllWrites :
        (writes[i].kind = "INSERT") <=> (Given(writes, AllWrites)[i - 1] = Absent)

Rank == [INSERT |-> 1, UPDATE |-> 2, DELETE |-> 3]

InFlushOrder ==
    \A r \in 1 .. Ranges : \A i, j \in WritesOf(r) :
        i < j => Rank[writes[i].kind] <= Rank[writes[j].kind]

ReplayInit ==
    /\ ends \in [0 .. Ranges -> 0 .. Ranges * RangeWrites]
    /\ ends[0] = 0
    /\ \A r \in 1 .. Ranges : ends[r] \in ends[r - 1] .. ends[r - 1] + RangeWrites
    /\ \/ /\ counting = FALSE
          /\ writes \in [1 .. AllWrites -> Writes]
          /\ OnlySensibleWrites
          /\ InFlushOrder
       \/ /\ counting = TRUE
          /\ writes = [i \in 1 .. AllWrites |-> NoWrite]
    /\ begun = {}
    /\ again = {}
    /\ cut = FALSE
    /\ value = Absent
    /\ checkpoint = 1
    /\ range = 0
    /\ left = {}

-----------------------------------------------------------------------------
(* The runs. *)

\* What a handler writes that counts an event of a range: within a range nothing
\* is flushed, so every find_one returns the value v the range began with.
Count(v) ==
    [kind |-> IF v = Absent THEN "INSERT" ELSE "UPDATE",
     value |-> (IF v = Absent THEN 0 ELSE v) + 1]

\* The handlers process range r: their writes are buffered, then flushed.
Begin(r) ==
    /\ writes' = IF counting /\ r <= Ranges
                   THEN [i \in DOMAIN writes |->
                           IF i \in WritesOf(r) THEN Count(value) ELSE writes[i]]
                   ELSE writes
    /\ range' = r
    /\ left' = IF r <= Ranges THEN WritesOf(r) ELSE {}
    /\ begun' = IF counting THEN begun \cup {r} ELSE begun
    /\ again' = again \cup ({r} \cap begun)
    /\ UNCHANGED <<counting, ends, cut, value>>

\* A run starts at the checkpoint, or at the first range if it cannot be read.
BootAt(first) ==
    /\ range = 0
    /\ first = checkpoint \/ first = 1
    /\ Begin(first)
    /\ UNCHANGED checkpoint

ExecuteStatement ==
    /\ left # {}
    /\ value' = Apply(value, writes[Least(Statement(left))])
    /\ left' = left \ Statement(left)
    /\ UNCHANGED <<counting, ends, writes, begun, again, cut, checkpoint, range>>

\* Mutant: on an error the rows still at hand are given up and the run goes on.
FlushFailsIgnored ==
    /\ left # {}
    /\ left' = {}
    /\ UNCHANGED <<counting, ends, writes, begun, again, cut, value, checkpoint, range>>

\* The run ends where it is, and the rows still at hand are lost.
EndRun ==
    /\ value \in {Absent} \cup (1 .. MaxCount)
    /\ range' = 0
    /\ left' = {}
    /\ cut' = (cut \/ range < checkpoint)
    /\ UNCHANGED <<counting, ends, writes, begun, again, value, checkpoint>>

\* A statement fails and the run ends, or the process dies at any point.
FlushFails == left # {} /\ EndRun

CrashRun == range # 0 /\ EndRun

\* Mutant: the run goes on while rows are still at hand.
NextRangeEarly(saved) ==
    /\ range \in 1 .. Ranges
    /\ checkpoint' = IF saved THEN range + 1 ELSE checkpoint
    /\ Begin(range + 1)

\* The flush is complete: the checkpoint is written, or fails to be, and the
\* run goes on to the next range.
NextRange(saved) ==
    /\ range \in 1 .. Ranges
    /\ left = {}
    /\ checkpoint' = IF saved THEN range + 1 ELSE checkpoint
    /\ Begin(range + 1)

ReplayNext ==
    \/ \E first \in 1 .. Ranges + 1 : BootAt(first)
    \/ ExecuteStatement
    \/ FlushFails
    \/ CrashRun
    \/ \E saved \in BOOLEAN : NextRange(saved)

ReplaySpec == ReplayInit /\ [][ReplayNext]_replayVars

-----------------------------------------------------------------------------
(* Properties. *)

\* Replay converges: when a run reaches the end of the backfill, the key has
\* the value that the handlers' blind writes, executed once each and in their
\* order, give it, however often ranges were flushed in part and processed
\* again, from a checkpoint that lags behind or, when it could not be read, from
\* the first range.  The exception is a run behind the stored checkpoint that
\* is interrupted: the next one skips the ranges it did not get to, and a row
\* that one of them deletes stays.
ReplayConverges ==
    (~counting /\ ~cut /\ range = Ranges + 1) => value = Given(writes, AllWrites)[AllWrites]

\* find_one (context.rs:62) and the flush at the end of a range: a handler that
\* counts with find_one counts every event, through failed flushes, crashes and
\* lost checkpoints, if no range has two events of the key (the second read does
\* not see the row that the first one buffered) and none with an event was begun
\* twice (an event is counted again when its range is).
CountsEvents ==
    /\ counting /\ range = Ranges + 1
    /\ \A r \in 1 .. Ranges : ends[r] <= ends[r - 1] + 1
    /\ \A r \in again : r > Ranges \/ ~HasWrites(r)
    => value = IF AllWrites = 0 THEN Absent ELSE AllWrites
=============================================================================
