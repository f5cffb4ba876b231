------------------------------ MODULE RpcCache ------------------------------
(***************************************************************************)
(* The log cache between the backfill worker and the node: CachedRpcClient *)
(* get_logs (cached_client.rs) over RpcCacheStore get_logs and put_logs    *)
(* (cache/store.rs).  A query is a window: block range, addresses, topics. *)
(*                                                                         *)
(* The table's primary key is (chain_id, block_number, log_index), without *)
(* the window (migrations.rs), so a log has one row and that row belongs   *)
(* to one window; a window without logs is marked by a sentinel whose key  *)
(* (-1, -1) is the same for all windows.  Inserts are ON CONFLICT DO       *)
(* NOTHING, one statement per log, without a transaction.                  *)
(*                                                                         *)
(* One chain, whose logs do not change: no reorganisation.  Windows with   *)
(* different answers have different keys: the workers ask for topics at    *)
(* position 0 only, so that the empty positions which the store leaves out *)
(* of the key tell no two of their queries apart.                          *)
(***************************************************************************)
EXTENDS Integers, FiniteSets

CONSTANTS
    Clients,       \* tasks that call get_logs
    Windows,
    Logs,
    Match,         \* [Windows -> SUBSET Logs], what the node answers
    Sentinel,      \* the key of the row for an empty result
    Free           \* no row with this key

ASSUME CacheAssumption ==
    /\ Match \in [Windows -> SUBSET Logs]
    /\ Sentinel \notin Logs
    /\ Free \notin Windows

VARIABLES
    rows,          \* [Keys -> Windows \cup {Free}], the window each row was stored for
    pc,            \* [Clients -> where its call is]
    win,           \* [Clients -> the window it asks for]
    left,          \* [Clients -> keys put_logs has still to insert]
    answer,        \* [Clients -> the logs it returns]
    torn           \* history: windows whose last put_logs stopped half-way

vars == <<rows, pc, win, left, answer, torn>>

Keys == Logs \cup {Sentinel}

RowsOf(w) == {k \in Keys : rows[k] = w}

Init ==
    /\ rows = [k \in Keys |-> Free]
    /\ pc = [c \in Clients |-> "idle"]
    /\ win \in [Clients -> Windows]
    /\ left = [c \in Clients |-> {}]
    /\ answer = [c \in Clients |-> {}]
    /\ torn = {}

-----------------------------------------------------------------------------

Ask(c, w) ==
    /\ pc[c] \in {"idle", "returned"}
    /\ pc' = [pc EXCEPT ![c] = "count"]
    /\ win' = [win EXCEPT ![c] = w]
    /\ UNCHANGED <<rows, left, answer, torn>>

\* SELECT COUNT(*) for the window.
Count(c) ==
    /\ pc[c] = "count"
    /\ pc' = [pc EXCEPT ![c] = IF RowsOf(win[c]) = {} THEN "fetch" ELSE "select"]
    /\ UNCHANGED <<rows, win, left, answer, torn>>

\* Mutant: the rows of the block range, whichever query they were stored for.
SelectRange(c) ==
    /\ pc[c] = "select"
    /\ answer' = [answer EXCEPT ![c] = {l \in Logs : rows[l] # Free}]
    /\ pc' = [pc EXCEPT ![c] = "returned"]
    /\ UNCHANGED <<rows, win, left, torn>>

\* The window's rows, without the sentinel.
Select(c) ==
    /\ pc[c] = "select"
    /\ answer' = [answer EXCEPT ![c] = RowsOf(win[c]) \ {Sentinel}]
    /\ pc' = [pc EXCEPT ![c] = "returned"]
    /\ UNCHANGED <<rows, win, left, torn>>

\* An error of either query counts as a miss.
LookupFails(c) ==
    /\ pc[c] \in {"count", "select"}
    /\ pc' = [pc EXCEPT ![c] = "fetch"]
    /\ UNCHANGED <<rows, win, left, answer, torn>>

\* The node answers; put_logs inserts its logs, or the sentinel if there are none.
Fetch(c) ==
    /\ pc[c] = "fetch"
    /\ answer' = [answer EXCEPT ![c] = Match[win[c]]]
    /\ left' = [left EXCEPT ![c] = IF Match[win[c]] = {} THEN {Sentinel} ELSE Match[win[c]]]
    /\ pc' = [pc EXCEPT ![c] = "put"]
    /\ UNCHANGED <<rows, win, torn>>

FetchFails(c) ==
    /\ pc[c] = "fetch"
    /\ pc' = [pc EXCEPT ![c] = "idle"]
    /\ UNCHANGED <<rows, win, left, answer, torn>>

\* INSERT ... ON CONFLICT DO NOTHING of one row.
PutRow(c, k) ==
    /\ pc[c] = "put"
    /\ k \in left[c]
    /\ rows' = [rows EXCEPT ![k] = IF @ = Free THEN win[c] ELSE @]
    /\ left' = [left EXCEPT ![c] = @ \ {k}]
    /\ UNCHANGED <<pc, win, answer, torn>>

\* Mutant: put_logs is not awaited to its end.
PutDoneEarly(c) ==
    /\ pc[c] = "put"
    /\ torn' = torn \ {win[c]}
    /\ left' = [left EXCEPT ![c] = {}]
    /\ pc' = [pc EXCEPT ![c] = "returned"]
    /\ UNCHANGED <<rows, win, answer>>

PutDone(c) ==
    /\ pc[c] = "put"
    /\ left[c] = {}
    /\ torn' = torn \ {win[c]}
    /\ pc' = [pc EXCEPT ![c] = "returned"]
    /\ UNCHANGED <<rows, win, left, answer>>

\* An insert fails; get_logs ignores it and returns the node's answer.
PutFails(c) ==
    /\ pc[c] = "put"
    /\ left[c] # {}
    /\ left' = [left EXCEPT ![c] = {}]
    /\ torn' = torn \cup {win[c]}
    /\ pc' = [pc EXCEPT ![c] = "returned"]
    /\ UNCHANGED <<rows, win, answer>>

\* The process dies; the rows stay.
Crash ==
    /\ pc' = [c \in Clients |-> "idle"]
    /\ left' = [c \in Clients |-> {}]
    /\ torn' = torn \cup {win[c] : c \in {d \in Clients : left[d] # {}}}
    /\ UNCHANGED <<rows, win, answer>>

Step(c) ==
    \/ \E w \in Windows : Ask(c, w)
    \/ Count(c) \/ Select(c) \/ LookupFails(c)
    \/ Fetch(c) \/ FetchFails(c)
    \/ \E k \in Keys : PutRow(c, k)
    \/ PutDone(c) \/ PutFails(c)

Next == Crash \/ \E c \in Clients : Step(c)

Spec == Init /\ [][Next]_vars

-----------------------------------------------------------------------------
(* Properties. *)

\* Every variable has its type.
TypeOK ==
    /\ rows \in [Keys -> Windows \cup {Free}]
    /\ pc \in [Clients -> {"idle", "count", "select", "fetch", "put", "returned"}]
    /\ win \in [Clients -> Windows]
    /\ left \in [Clients -> SUBSET Keys]
    /\ answer \in [Clients -> SUBSET Logs]
    /\ torn \subseteq Windows

\* The cache adds nothing: whatever fails and whoever else stores rows at the
\* same time, get_logs returns only logs the node would return for the window.
AnswersSound == \A c \in Clients : pc[c] = "returned" => answer[c] \subseteq Match[win[c]]

\* All logs of window w are stored for it.
Stored(w) == Match[w] \subseteq RowsOf(w)

\* Some client is storing window w.
BeingPut(w) == \E c \in Clients : pc[c] = "put" /\ win[c] = w

\* Window w has a log that another window has too.
Shared(w) == \E v \in Windows \ {w} : Match[v] \cap Match[w] # {}

\* A window that is taken for cached is stored entirely, as the worker takes for
\* granted when it decodes the logs and the coordinator moves the checkpoint past
\* them.  The exceptions are a window whose last put_logs was interrupted, one
\* that another client is storing at this moment, and one that shares a log
\* with another window.
HitsComplete ==
    \A c \in Clients : pc[c] = "select" =>
        Stored(win[c]) \/ win[c] \in torn \/ BeingPut(win[c]) \/ Shared(win[c])

-----------------------------------------------------------------------------
(* What the documentation says and the code does not do. *)

\* docs/architecture.md: on a miss the response is stored for future use.  The
\* part of it that an interrupted put_logs has stored is taken for the whole.
InterruptedPutIsHarmless ==
    \A c \in Clients : pc[c] = "select" =>
        Stored(win[c]) \/ BeingPut(win[c]) \/ Shared(win[c])

=============================================================================
