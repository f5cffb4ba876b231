-------------------------- MODULE WriteBufferProofs -------------------------
(***************************************************************************)
(* Proofs about the write buffer, for any number of tables, rows and       *)
(* concurrent flushers: every accepted row has exactly one owner, and a    *)
(* flush_all that returns Ok has executed every row it was asked to flush  *)
(* that no other flusher took.  And about ranges repeated after a crash    *)
(* (module BufferedReplay), for any number of ranges and writes: blind     *)
(* writes converge, and what a handler that reads first counts.            *)
(***************************************************************************)
EXTENDS WriteBuffer, BufferedReplay, FiniteSetTheorems, WellFoundedInduction, TLAPS

\* A flusher holds rows only between taking a table and its last statement,
\* and when it is past a kind it holds no row of that kind.  Every accepted row
\* is tagged with one of the three kinds.
HandInv ==
    /\ \A r \in 0 .. accepted - 1 : op[r] \in Kinds
    /\ \A f \in Flushers :
          /\ pc[f] \in {"idle", "next", "ok", "err"} => hand[f] = {}
          /\ pc[f] \in {"update", "delete"} => OfKind(hand[f], "INSERT") = {}
          /\ pc[f] = "delete" => OfKind(hand[f], "UPDATE") = {}

(***************************************************************************)
(* SingleOwner with its unions spelled out row by row, which is the form   *)
(* the provers can follow.                                                 *)
(***************************************************************************)
RowInv ==
    /\ \A r : r \in 0 .. accepted - 1 <=>
           \/ \E t \in Tables : r \in buffers[t]
           \/ \E f \in Flushers : r \in hand[f]
           \/ r \in applied
           \/ \E f \in Flushers : r \in lost[f]
    /\ \A t, u \in Tables : \A r \in buffers[t] : r \in buffers[u] => t = u
    /\ \A f, g \in Flushers : \A r \in hand[f] : r \in hand[g] => f = g
    /\ \A f \in Flushers, t \in Tables : \A r \in hand[f] : r \notin buffers[t]
    /\ \A f, g \in Flushers : \A r \in hand[f] : r \notin applied /\ r \notin lost[g]
    /\ \A t \in Tables : \A r \in buffers[t] : r \notin applied
    /\ \A t \in Tables, g \in Flushers : \A r \in buffers[t] : r \notin lost[g]
    /\ \A g \in Flushers : \A r \in applied : r \notin lost[g]

\* Every step keeps the types.
LEMMA TypeStep == TypeOK /\ [Next]_vars => TypeOK'
<1> SUFFICES ASSUME TypeOK, [Next]_vars
             PROVE  TypeOK'
  OBVIOUS
<1> USE BufferAssumption
<1>1. ASSUME NEW t \in Tables, NEW kind \in Kinds, Push(t, kind)
      PROVE  TypeOK'
  <2>1. accepted \in Rows /\ accepted' \in 0 .. MaxRows
    BY <1>1 DEF TypeOK, Push, Rows
  <2>2. QED
    BY <1>1, <2>1 DEF TypeOK, Push
<1>2. ASSUME NEW f \in Flushers, BeginFlush(f)
      PROVE  TypeOK'
  <2>1. BufferedIn(SchemaTables) \subseteq Rows
    BY BufferAssumption DEF TypeOK, BufferedIn
  <2>2. QED
    BY <1>2, <2>1 DEF TypeOK, BeginFlush
<1>3. ASSUME NEW f \in Flushers, NEW t \in Tables, Take(f, t)
      PROVE  TypeOK'
  BY <1>3 DEF TypeOK, Take
<1>4. ASSUME NEW f \in Flushers, NEW rows \in SUBSET hand[f], Execute(f, rows)
      PROVE  TypeOK'
  BY <1>4 DEF TypeOK, Execute
<1>5. ASSUME NEW f \in Flushers, NextPhase(f)
      PROVE  TypeOK'
  BY <1>5 DEF TypeOK, NextPhase, AfterPhase
<1>6. ASSUME NEW f \in Flushers, NEW rows \in SUBSET hand[f], NEW done, StatementFails(f, rows, done)
      PROVE  TypeOK'
  <2>1. applied' \subseteq Rows /\ hand[f] \subseteq Rows
    BY <1>6 DEF TypeOK, StatementFails
  <2>2. QED
    BY <1>6, <2>1 DEF TypeOK, StatementFails
<1>7. ASSUME NEW f \in Flushers, ReturnOk(f)
      PROVE  TypeOK'
  BY <1>7 DEF TypeOK, ReturnOk
<1>8. ASSUME NEW f \in Flushers, NEW t \in Tables, TakeUnknown(f, t)
      PROVE  TypeOK'
  BY <1>8 DEF TypeOK, TakeUnknown
<1>9. CASE UNCHANGED vars
  BY <1>9 DEF TypeOK, vars
<1>10. QED
  BY <1>1, <1>2, <1>3, <1>4, <1>5, <1>6, <1>7, <1>8, <1>9
     DEF Next, Write, Insert, Update, Delete, Flush, Kinds

\* Every variable of the write buffer keeps its type.
THEOREM TypeCorrect == Spec => []TypeOK
<1>1. Init => TypeOK
  BY BufferAssumption DEF Init, TypeOK
<1>2. QED
  BY <1>1, TypeStep, PTL DEF Spec

\* Every step keeps the order of a flush: inserts, updates, deletes.
LEMMA HandStep == TypeOK /\ HandInv /\ RowInv /\ [Next]_vars => HandInv'
<1> SUFFICES ASSUME TypeOK, HandInv, RowInv, [Next]_vars
             PROVE  HandInv'
  OBVIOUS
<1>1. ASSUME NEW t \in Tables, NEW kind \in Kinds, Push(t, kind)
      PROVE  HandInv'
  <2>1. \A f \in Flushers : accepted \notin hand[f]
    BY BufferAssumption DEF RowInv, TypeOK
  <2>2. \A r \in 0 .. accepted' - 1 : op'[r] \in Kinds
    BY <1>1, BufferAssumption DEF TypeOK, HandInv, Push, Rows
  <2>3. QED
    BY <1>1, <2>1, <2>2 DEF TypeOK, HandInv, Push, OfKind
<1>2. ASSUME NEW f \in Flushers, BeginFlush(f)
      PROVE  HandInv'
  BY <1>2 DEF TypeOK, HandInv, BeginFlush, OfKind
<1>3. ASSUME NEW f \in Flushers, NEW t \in Tables, Take(f, t)
      PROVE  HandInv'
  BY <1>3 DEF TypeOK, HandInv, Take, OfKind
<1>4. ASSUME NEW f \in Flushers, NEW rows \in SUBSET hand[f], Execute(f, rows)
      PROVE  HandInv'
  BY <1>4 DEF TypeOK, HandInv, Execute, IsStatement, OfKind
<1>5. ASSUME NEW f \in Flushers, NextPhase(f)
      PROVE  HandInv'
  <2>1. pc[f] = "delete" => hand[f] = {}
    <3>1. \A r \in hand[f] : op[r] \in Kinds
      BY DEF RowInv, HandInv
    <3>2. QED
      BY <1>5, <3>1 DEF HandInv, NextPhase, KindAt, OfKind, Kinds
  <2>2. QED
    BY <1>5, <2>1 DEF TypeOK, HandInv, NextPhase, AfterPhase, KindAt, OfKind
<1>6. ASSUME NEW f \in Flushers, NEW rows \in SUBSET hand[f], NEW done, StatementFails(f, rows, done)
      PROVE  HandInv'
  BY <1>6 DEF TypeOK, HandInv, StatementFails, OfKind
<1>7. ASSUME NEW f \in Flushers, ReturnOk(f)
      PROVE  HandInv'
  BY <1>7 DEF TypeOK, HandInv, ReturnOk, OfKind
<1>8. ASSUME NEW f \in Flushers, NEW t \in Tables, TakeUnknown(f, t)
      PROVE  HandInv'
  BY <1>8 DEF TypeOK, HandInv, TakeUnknown, OfKind
<1>9. CASE UNCHANGED vars
  BY <1>9 DEF HandInv, vars, OfKind
<1>10. QED
  BY <1>1, <1>2, <1>3, <1>4, <1>5, <1>6, <1>7, <1>8, <1>9
     DEF Next, Write, Insert, Update, Delete, Flush, Kinds

\* The two forms say the same; this direction is the one needed.
LEMMA RowInvOwner == TypeOK /\ RowInv => SingleOwner
<1> SUFFICES ASSUME TypeOK, RowInv
             PROVE  SingleOwner
  OBVIOUS
<1>1. \A r : r \in BufferedIn(Tables) <=> \E t \in Tables : r \in buffers[t]
  BY DEF BufferedIn
<1>2. \A r : r \in Held <=> \E f \in Flushers : r \in hand[f]
  BY DEF Held
<1>3. \A r : r \in Lost <=> \E f \in Flushers : r \in lost[f]
  BY DEF Lost
<1>4. BufferedIn(Tables) \cup Held \cup applied \cup Lost = 0 .. accepted - 1
  <2>1. \A r : r \in BufferedIn(Tables) \cup Held \cup applied \cup Lost <=> r \in 0 .. accepted - 1
    BY <1>1, <1>2, <1>3 DEF RowInv
  <2>2. QED
    BY <2>1
<1>5. ASSUME NEW r
      PROVE  /\ r \in Held => r \notin BufferedIn(Tables) /\ r \notin applied /\ r \notin Lost
             /\ r \in BufferedIn(Tables) => r \notin applied /\ r \notin Lost
             /\ r \in applied => r \notin Lost
  <2>1. ASSUME r \in Held
        PROVE  r \notin BufferedIn(Tables) /\ r \notin applied /\ r \notin Lost
    <3>1. PICK f \in Flushers : r \in hand[f]
      BY <1>2, <2>1
    <3>2. QED
      BY <1>1, <1>3, <3>1 DEF RowInv
  <2>2. ASSUME r \in BufferedIn(Tables)
        PROVE  r \notin applied /\ r \notin Lost
    <3>1. PICK t \in Tables : r \in buffers[t]
      BY <1>1, <2>2
    <3>2. QED
      BY <1>1, <1>3, <3>1 DEF RowInv
  <2>3. ASSUME r \in applied
        PROVE  r \notin Lost
    BY <1>3, <2>3 DEF RowInv
  <2>4. QED
    BY <2>1, <2>2, <2>3
<1>6. /\ \A t, u \in Tables : t # u => buffers[t] \cap buffers[u] = {}
      /\ \A f, g \in Flushers : f # g => hand[f] \cap hand[g] = {}
  BY DEF RowInv
<1>7. QED
  BY <1>4, <1>5, <1>6 DEF SingleOwner

\* Every step hands each row from one place to exactly one other.
LEMMA OwnerStep == TypeOK /\ HandInv /\ RowInv /\ [Next]_vars => RowInv'
<1> SUFFICES ASSUME TypeOK, HandInv, RowInv, [Next]_vars
             PROVE  RowInv'
  OBVIOUS
<1> USE BufferAssumption
<1>1. ASSUME NEW t \in Tables, NEW kind \in Kinds, Push(t, kind)
      PROVE  RowInv'
  <2>1. /\ buffers'[t] = buffers[t] \cup {accepted}
        /\ \A u \in Tables : u # t => buffers'[u] = buffers[u]
        /\ UNCHANGED <<applied, lost, hand>>
    BY <1>1 DEF TypeOK, Push
  <2>2. \A r : r \in 0 .. accepted' - 1 <=> r \in 0 .. accepted - 1 \/ r = accepted
    BY <1>1 DEF TypeOK, Push
  <2>3. accepted \notin 0 .. accepted - 1
    BY DEF TypeOK
  <2>4. QED
    BY <2>1, <2>2, <2>3 DEF RowInv
<1>2. ASSUME NEW f \in Flushers, BeginFlush(f)
      PROVE  RowInv'
  BY <1>2 DEF RowInv, BeginFlush
<1>3. ASSUME NEW f \in Flushers, NEW t \in Tables, Take(f, t)
      PROVE  RowInv'
  <2>1. /\ buffers'[t] = {} /\ hand'[f] = buffers[t] /\ hand[f] = {}
        /\ \A u \in Tables : u # t => buffers'[u] = buffers[u]
        /\ \A g \in Flushers : g # f => hand'[g] = hand[g]
        /\ UNCHANGED <<applied, lost, accepted>>
    BY <1>3 DEF TypeOK, HandInv, Take
  <2>2. QED
    BY <2>1 DEF RowInv
<1>4. ASSUME NEW f \in Flushers, NEW rows \in SUBSET hand[f], Execute(f, rows)
      PROVE  RowInv'
  <2>1. /\ hand'[f] = hand[f] \ rows
        /\ \A g \in Flushers : g # f => hand'[g] = hand[g]
        /\ applied' = applied \cup rows
        /\ UNCHANGED <<buffers, lost, accepted>>
    BY <1>4 DEF TypeOK, Execute
  <2>2. QED
    BY <2>1 DEF RowInv
<1>5. ASSUME NEW f \in Flushers, NextPhase(f)
      PROVE  RowInv'
  BY <1>5 DEF RowInv, NextPhase
<1>6. ASSUME NEW f \in Flushers, NEW rows \in SUBSET hand[f],
             NEW done \in {{}, rows}, StatementFails(f, rows, done)
      PROVE  RowInv'
  <2>1. /\ hand'[f] = {}
        /\ \A g \in Flushers : g # f => hand'[g] = hand[g]
        /\ applied' = applied \cup done
        /\ lost'[f] = lost[f] \cup (hand[f] \ done)
        /\ \A g \in Flushers : g # f => lost'[g] = lost[g]
        /\ UNCHANGED <<buffers, accepted>>
    BY <1>6 DEF TypeOK, StatementFails
  <2>2. done \subseteq hand[f]
    OBVIOUS
  <2>3. QED
    BY <2>1, <2>2 DEF RowInv
<1>7. ASSUME NEW f \in Flushers, ReturnOk(f)
      PROVE  RowInv'
  BY <1>7 DEF RowInv, ReturnOk
<1>8. ASSUME NEW f \in Flushers, NEW t \in Tables, TakeUnknown(f, t)
      PROVE  RowInv'
  <2>1. /\ buffers'[t] = {} /\ lost'[f] = lost[f] \cup buffers[t]
        /\ \A g \in Flushers : g # f => lost'[g] = lost[g]
        /\ \A u \in Tables : u # t => buffers'[u] = buffers[u]
        /\ UNCHANGED <<applied, hand, accepted>>
    BY <1>8 DEF TypeOK, TakeUnknown
  <2>2. QED
    BY <2>1 DEF RowInv
<1>9. CASE UNCHANGED vars
  BY <1>9 DEF RowInv, vars
<1>10. QED
  BY <1>1, <1>2, <1>3, <1>4, <1>5, <1>6, <1>7, <1>8, <1>9
     DEF Next, Write, Insert, Update, Delete, Flush, Kinds

\* flush_all sees every table that holds rows: it has an entry in the map.
EntryInv == \A t \in Tables : buffers[t] # {} => t \in entries

\* Every step keeps EntryInv.
LEMMA EntryStep == TypeOK /\ EntryInv /\ [Next]_vars => EntryInv'
<1> SUFFICES ASSUME TypeOK, EntryInv, [Next]_vars
             PROVE  EntryInv'
  OBVIOUS
<1>1. ASSUME NEW t \in Tables, NEW kind \in Kinds, Push(t, kind)
      PROVE  EntryInv'
  BY <1>1 DEF TypeOK, EntryInv, Push
<1>2. ASSUME NEW f \in Flushers, Flush(f)
      PROVE  EntryInv'
  BY <1>2 DEF TypeOK, EntryInv, Flush, BeginFlush, Take, TakeUnknown, Execute, NextPhase,
              StatementFails, ReturnOk
<1>3. CASE UNCHANGED vars
  BY <1>3 DEF EntryInv, vars
<1>4. QED
  BY <1>1, <1>2, <1>3 DEF Next, Write, Insert, Update, Delete, Kinds

\* Row r is out of flusher f's sight: another one has taken it.
Elsewhere(f, r) == \E g \in Flushers \ {f} : r \in hand[g] \/ r \in lost[g]

\* Every row that a flush_all in progress was asked for is executed, in its hand,
\* taken by another flusher, or still buffered in a table it has not reached;
\* once it has returned Ok, only the first and the third are left.
AskedInv ==
    \A f \in Flushers :
        /\ pc[f] \in {"next", "insert", "update", "delete"} =>
             \A r \in asked[f] : \/ r \in applied
                                 \/ r \in hand[f]
                                 \/ Elsewhere(f, r)
                                 \/ \E t \in todo[f] \cap SchemaTables : r \in buffers[t]
        /\ pc[f] = "ok" => \A r \in asked[f] : r \in applied \/ Elsewhere(f, r)

\* Every step keeps AskedInv.
LEMMA AskedStep == TypeOK /\ HandInv /\ EntryInv /\ AskedInv /\ [Next]_vars => AskedInv'
<1> SUFFICES ASSUME TypeOK, HandInv, EntryInv, AskedInv, [Next]_vars
             PROVE  AskedInv'
  OBVIOUS
<1>0. \A f \in Flushers : todo[f] \subseteq Tables
  BY DEF TypeOK
<1>1. ASSUME NEW t \in Tables, NEW kind \in Kinds, Push(t, kind)
      PROVE  AskedInv'
  <2>1. \A u \in Tables : buffers[u] \subseteq buffers'[u]
    BY <1>1 DEF TypeOK, Push
  <2>2. QED
    BY <1>0, <1>1, <2>1 DEF AskedInv, Elsewhere, Push
<1>2. ASSUME NEW f \in Flushers, BeginFlush(f)
      PROVE  AskedInv'
  <2>1. /\ pc'[f] = "next" /\ todo'[f] = entries /\ asked'[f] = BufferedIn(SchemaTables)
        /\ \A g \in Flushers : g # f => pc'[g] = pc[g] /\ todo'[g] = todo[g] /\ asked'[g] = asked[g]
        /\ UNCHANGED <<buffers, entries, applied, hand, lost>>
    BY <1>2 DEF TypeOK, BeginFlush
  <2>2. \A r \in BufferedIn(SchemaTables) : \E t \in entries \cap SchemaTables : r \in buffers[t]
    BY BufferAssumption DEF BufferedIn, EntryInv
  <2>3. QED
    BY <2>1, <2>2 DEF AskedInv, Elsewhere
<1>3. ASSUME NEW f \in Flushers, NEW t \in Tables, Take(f, t)
      PROVE  AskedInv'
  <2>1. /\ hand'[f] = buffers[t] /\ hand[f] = {} /\ todo'[f] = todo[f] \ {t}
        /\ \A u \in Tables : u # t => buffers'[u] = buffers[u]
        /\ \A g \in Flushers : g # f => /\ hand'[g] = hand[g] /\ todo'[g] = todo[g]
                                        /\ pc'[g] = pc[g]
        /\ pc[f] = "next" /\ pc'[f] \in {"next", "insert"}
        /\ UNCHANGED <<applied, asked, lost>>
    BY <1>3 DEF TypeOK, HandInv, Take
  <2>2. QED
    BY <1>0, <2>1 DEF AskedInv, Elsewhere
<1>4. ASSUME NEW f \in Flushers, NEW rows \in SUBSET hand[f], Execute(f, rows)
      PROVE  AskedInv'
  <2>1. /\ hand'[f] = hand[f] \ rows
        /\ \A g \in Flushers : g # f => hand'[g] = hand[g]
        /\ applied' = applied \cup rows
        /\ pc[f] \in {"insert", "update", "delete"}
        /\ UNCHANGED <<buffers, pc, todo, asked, lost>>
    BY <1>4 DEF TypeOK, Execute, IsStatement
  <2>2. QED
    BY <2>1 DEF AskedInv, Elsewhere
<1>5. ASSUME NEW f \in Flushers, NextPhase(f)
      PROVE  AskedInv'
  <2>1. /\ pc[f] \in {"insert", "update", "delete"} /\ pc'[f] \in {"update", "delete", "next"}
        /\ \A g \in Flushers : g # f => pc'[g] = pc[g]
    BY <1>5 DEF TypeOK, NextPhase, AfterPhase
  <2>2. QED
    BY <1>5, <2>1 DEF AskedInv, Elsewhere, NextPhase
<1>6. ASSUME NEW f \in Flushers, NEW rows \in SUBSET hand[f], NEW done, StatementFails(f, rows, done)
      PROVE  AskedInv'
  <2>1. /\ pc'[f] = "err" /\ hand'[f] = {}
        /\ lost'[f] = lost[f] \cup (hand[f] \ done)
        /\ applied' = applied \cup done
        /\ \A g \in Flushers : g # f => /\ hand'[g] = hand[g] /\ lost'[g] = lost[g]
                                        /\ pc'[g] = pc[g] /\ todo'[g] = todo[g]
        /\ UNCHANGED <<buffers, asked>>
    BY <1>6 DEF TypeOK, StatementFails
  <2>2. QED
    BY <2>1 DEF AskedInv, Elsewhere
<1>7. ASSUME NEW f \in Flushers, ReturnOk(f)
      PROVE  AskedInv'
  <2>1. hand[f] = {} /\ todo[f] = {} /\ pc[f] = "next"
    BY <1>7 DEF HandInv, ReturnOk
  <2>2. /\ pc'[f] = "ok" /\ UNCHANGED <<asked, applied, hand, lost, todo, buffers>>
        /\ \A g \in Flushers : g # f => pc'[g] = pc[g]
    BY <1>7 DEF TypeOK, ReturnOk
  <2>3. QED
    BY <2>1, <2>2 DEF AskedInv, Elsewhere
<1>8. ASSUME NEW f \in Flushers, NEW t \in Tables, TakeUnknown(f, t)
      PROVE  AskedInv'
  <2>1. /\ todo'[f] = todo[f] \ {t} /\ t \notin SchemaTables
        /\ \A u \in Tables : u # t => buffers'[u] = buffers[u]
        /\ \A g \in Flushers : g # f => todo'[g] = todo[g]
        /\ \A g \in Flushers : lost[g] \subseteq lost'[g]
        /\ UNCHANGED <<applied, asked, hand, pc>>
    BY <1>8 DEF TypeOK, TakeUnknown
  <2>2. QED
    BY <1>0, <2>1 DEF AskedInv, Elsewhere
<1>9. CASE UNCHANGED vars
  BY <1>9 DEF AskedInv, Elsewhere, vars
<1>10. QED
  BY <1>1, <1>2, <1>3, <1>4, <1>5, <1>6, <1>7, <1>8, <1>9
     DEF Next, Write, Insert, Update, Delete, Flush, Kinds

\* The invariants hold initially.
LEMMA InvInit == Init => TypeOK /\ HandInv /\ RowInv /\ EntryInv /\ AskedInv
<1> SUFFICES ASSUME Init
             PROVE  TypeOK /\ HandInv /\ RowInv /\ EntryInv /\ AskedInv
  OBVIOUS
<1>1. TypeOK
  BY BufferAssumption DEF Init, TypeOK
<1>2. HandInv /\ RowInv
  BY DEF Init, HandInv, RowInv, OfKind
<1>3. EntryInv /\ AskedInv
  BY DEF Init, EntryInv, AskedInv
<1>4. QED
  BY <1>1, <1>2, <1>3

\* Every accepted row is in exactly one place, whatever the number of
\* concurrent flushers and however their steps interleave and fail.
THEOREM OneOwner == Spec => []SingleOwner
<1> DEFINE Inv == TypeOK /\ HandInv /\ RowInv
<1>1. Init => Inv
  BY InvInit
<1>2. Inv /\ [Next]_vars => Inv'
  BY TypeStep, HandStep, OwnerStep
<1>3. Inv => SingleOwner
  BY RowInvOwner
<1>4. QED
  BY <1>1, <1>2, <1>3, PTL DEF Spec

\* A flush_all that returned Ok has executed every row that was buffered when it
\* was called and that no concurrent flusher took, for any number of tables, rows,
\* flushers and failed flushes before it.
THEOREM FlushIsDurable == Spec => []FlushMakesDurable
<1> DEFINE Inv == TypeOK /\ HandInv /\ RowInv /\ EntryInv /\ AskedInv
<1>1. Init => Inv
  BY InvInit
<1>2. Inv /\ [Next]_vars => Inv'
  BY TypeStep, HandStep, OwnerStep, EntryStep, AskedStep
<1>3. Inv => FlushMakesDurable
  BY DEF AskedInv, Elsewhere, FlushMakesDurable
<1>4. QED
  BY <1>1, <1>2, <1>3, PTL DEF Spec

\* Where nobody else flushes, as in the runner, Ok means that all of them are
\* executed.
COROLLARY LoneFlushIsDurable ==
    ASSUME \A f, g \in Flushers : f = g
    PROVE  Spec => [](\A f \in Flushers : pc[f] = "ok" => asked[f] \subseteq applied)
<1>1. FlushMakesDurable => \A f \in Flushers : pc[f] = "ok" => asked[f] \subseteq applied
  BY DEF FlushMakesDurable
<1>2. QED
  BY <1>1, FlushIsDurable, PTL
-----------------------------------------------------------------------------
(***************************************************************************)
(* What the flushed statements do to a row (module BufferedReplay).        *)
(***************************************************************************)

\* A row's history in which a row is inserted where there is none: first, or
\* after it was deleted.
Alternates(w, n) ==
    \A i \in 1 .. n :
        /\ w[i] \in Writes
        /\ w[i].kind = "INSERT" <=> (i = 1 \/ w[i - 1].kind = "DELETE")

Outcome(w, n) == IF n = 0 THEN Absent ELSE w[n].value

\* The writes after the first p, executed on the value v, give the history's
\* outcome: they delete the row and build it up again, or they start with an
\* insert that is followed by an update, or v is what the next one expects.
Settles(w, n, p, v) ==
    \/ \E i \in p + 1 .. n : w[i].kind = "DELETE"
    \/ p = n /\ v = Outcome(w, n)
    \/ /\ p < n
       /\ w[p + 1].kind = "UPDATE" => v # Absent
       /\ w[p + 1].kind = "INSERT" /\ p + 1 = n => v \in {Absent, w[n].value}

\* Every set of naturals that is not empty has a least element.
LEMMA LeastNatural ==
    ASSUME NEW T \in SUBSET Nat, T # {}
    PROVE  \E n \in T : \A m \in T : n <= m
<1> DEFINE R == {ss \in Nat \X Nat : ss[1] < ss[2]}
<1>1. IsWellFoundedOn(R, Nat)
  BY NatLessThanWellFounded, Zenon DEF OpToRel
<1>2. PICK n \in T : \A y \in T : ~(<<y, n>> \in R)
  BY <1>1, WFMin, Zenon
<1>3. ASSUME NEW m \in T
      PROVE  n <= m
  <2>1. ~(m < n)
    <3>1. ASSUME m < n PROVE <<m, n>> \in R
      <4>1. <<m, n>> \in Nat \X Nat /\ <<m, n>>[1] < <<m, n>>[2]
        BY <3>1
      <4>2. QED
        BY <4>1, Zenon
    <3>2. QED
      BY <1>2, <3>1, Zenon
  <2>2. QED
    BY <2>1
<1>4. QED
  BY <1>3

\* The fields of a write that a handler makes.
LEMMA WriteFields ==
    ASSUME NEW x \in Writes
    PROVE  /\ x.kind \in {"INSERT", "UPDATE", "DELETE"}
           /\ x.kind = "DELETE" <=> x.value = Absent
  BY ReplayAssumption DEF Writes

\* The recursion of Given has a solution, for any writes.
LEMMA GivenExists ==
    ASSUME NEW w, NEW n \in Nat
    PROVE  \E F : F = [i \in 0 .. n |-> IF i = 0 THEN Absent ELSE Apply(F[i - 1], w[i])]
<1> DEFINE Solves(F, m) ==
             F = [i \in 0 .. m |-> IF i = 0 THEN Absent ELSE Apply(F[i - 1], w[i])]
           T == {m \in Nat : ~\E F : Solves(F, m)}
<1> SUFFICES ASSUME T # {} PROVE FALSE
  OBVIOUS
<1>1. PICK m \in T : \A k \in T : m <= k
  BY LeastNatural
<1>2. CASE m = 0
  <2>1. Solves([i \in 0 .. 0 |-> Absent], 0)
    OBVIOUS
  <2>2. QED
    BY <1>1, <1>2, <2>1
<1>3. CASE m # 0
  <2>1. m - 1 \in Nat /\ m - 1 \notin T
    BY <1>1, <1>3
  <2>2. PICK F : Solves(F, m - 1)
    BY <2>1
  <2> DEFINE G == [i \in 0 .. m |-> IF i = m THEN Apply(F[m - 1], w[m]) ELSE F[i]]
  <2>3. ASSUME NEW i \in 0 .. m
        PROVE  G[i] = IF i = 0 THEN Absent ELSE Apply(G[i - 1], w[i])
    <3>1. CASE i = 0
      BY <1>3, <2>2, <3>1
    <3>2. CASE i = m
      <4>1. m - 1 \in 0 .. m /\ m - 1 # m
        BY <1>1, <1>3
      <4>2. QED
        BY <1>3, <3>2, <4>1
    <3>3. CASE i # 0 /\ i # m
      <4>1. i \in 0 .. m - 1 /\ i - 1 \in 0 .. m /\ i - 1 # m
        BY <1>1, <3>3
      <4>2. F[i] = Apply(F[i - 1], w[i])
        BY <2>2, <3>3, <4>1
      <4>3. QED
        BY <3>3, <4>1, <4>2
    <3>4. QED
      BY <3>1, <3>2, <3>3
  <2>4. Solves(G, m)
    BY <2>3
  <2>5. QED
    BY <1>1, <2>4
<1>4. QED
  BY <1>2, <1>3

\* Given follows the recursion it is defined by.
LEMMA GivenSteps ==
    ASSUME NEW w, NEW n \in Nat
    PROVE  /\ Given(w, n)[0] = Absent
           /\ \A i \in 1 .. n : Given(w, n)[i] = Apply(Given(w, n)[i - 1], w[i])
<1> DEFINE Solution(F) ==
             F = [i \in 0 .. n |-> IF i = 0 THEN Absent ELSE Apply(F[i - 1], w[i])]
<1>1. Given(w, n) = CHOOSE F : Solution(F)
  BY DEF Given
<1>2. \E F : Solution(F)
  BY GivenExists
<1>3. Solution(Given(w, n))
  BY <1>1, <1>2, Zenon
<1>4. QED
  BY <1>3

\* Sensible writes alternate, and the last of them decides.
LEMMA SensibleAlternates ==
    ASSUME NEW w, NEW n \in Nat, \A i \in 1 .. n : w[i] \in Writes,
           \A i \in 1 .. n : (w[i].kind = "INSERT") <=> (Given(w, n)[i - 1] = Absent)
    PROVE  Alternates(w, n) /\ Given(w, n)[n] = Outcome(w, n)
<1>1. ASSUME NEW i \in 1 .. n
      PROVE  Given(w, n)[i] = w[i].value
  <2>1. Given(w, n)[i] = Apply(Given(w, n)[i - 1], w[i])
    BY GivenSteps
  <2>2. w[i].kind \in {"INSERT", "UPDATE", "DELETE"} /\ (w[i].kind = "DELETE" <=> w[i].value = Absent)
    BY WriteFields
  <2>3. QED
    BY <2>1, <2>2 DEF Apply
<1>2. Given(w, n)[n] = Outcome(w, n)
  BY <1>1, GivenSteps DEF Outcome
<1>3. ASSUME NEW i \in 1 .. n
      PROVE  w[i].kind = "INSERT" <=> (i = 1 \/ w[i - 1].kind = "DELETE")
  <2>1. CASE i = 1
    BY <2>1, GivenSteps
  <2>2. CASE i # 1
    <3>1. i - 1 \in 1 .. n
      BY <2>2
    <3>2. Given(w, n)[i - 1] = w[i - 1].value
      BY <1>1, <3>1
    <3>3. w[i - 1].kind = "DELETE" <=> w[i - 1].value = Absent
      BY <3>1, WriteFields
    <3>4. QED
      BY <2>2, <3>2, <3>3
  <2>3. QED
    BY <2>1, <2>2
<1>4. QED
  BY <1>2, <1>3 DEF Alternates

\* Executing the next write keeps the rest settled.
LEMMA SettlesNext ==
    ASSUME NEW w, NEW n \in Nat, NEW p \in 0 .. n, NEW v, p < n,
           Alternates(w, n), Settles(w, n, p, v)
    PROVE  Settles(w, n, p + 1, Apply(v, w[p + 1]))
<1> DEFINE x == w[p + 1]
<1>1. p + 1 \in 1 .. n /\ x \in Writes
  BY DEF Alternates
<1>2. x.kind \in {"INSERT", "UPDATE", "DELETE"} /\ (x.kind = "DELETE" <=> x.value = Absent)
  BY <1>1, WriteFields
<1>3. p + 1 < n => /\ p + 2 \in 1 .. n
                   /\ w[p + 2].kind \in {"INSERT", "UPDATE", "DELETE"}
                   /\ w[p + 2].kind = "INSERT" <=> x.kind = "DELETE"
  <2>1. ASSUME p + 1 < n PROVE p + 2 \in 1 .. n /\ p + 2 # 1 /\ (p + 2) - 1 = p + 1
    BY <2>1
  <2>2. ASSUME p + 1 < n
        PROVE  /\ w[p + 2].kind \in {"INSERT", "UPDATE", "DELETE"}
               /\ w[p + 2].kind = "INSERT" <=> x.kind = "DELETE"
    <3>1. w[p + 2] \in Writes /\ (w[p + 2].kind = "INSERT" <=> x.kind = "DELETE")
      BY <2>1, <2>2 DEF Alternates
    <3>2. QED
      BY <3>1, WriteFields
  <2>3. QED
    BY <2>1, <2>2
<1>4. p + 1 = n => Outcome(w, n) = x.value
  BY DEF Outcome
<1>5. CASE \E i \in p + 2 .. n : w[i].kind = "DELETE"
  BY <1>5 DEF Settles
<1>6. CASE ~\E i \in p + 2 .. n : w[i].kind = "DELETE"
  <2>1. p + 1 < n => w[p + 2].kind # "DELETE"
    BY <1>6
  <2>2. CASE x.kind = "DELETE"
    <3>1. Apply(v, x) = Absent
      BY <2>2 DEF Apply
    <3>2. QED
      BY <1>2, <1>3, <1>4, <2>2, <3>1 DEF Settles
  <2>3. CASE x.kind # "DELETE"
    <3>1. ~\E i \in p + 1 .. n : w[i].kind = "DELETE"
      <4>1. \A i \in p + 1 .. n : i = p + 1 \/ i \in p + 2 .. n
        OBVIOUS
      <4>2. QED
        BY <1>6, <2>3, <4>1
    <3>2. /\ x.kind = "UPDATE" => v # Absent
          /\ x.kind = "INSERT" /\ p + 1 = n => v \in {Absent, w[n].value}
      BY <3>1 DEF Settles
    <3>3. Apply(v, x) # Absent /\ (p + 1 = n => Apply(v, x) = x.value)
      BY <1>2, <2>3, <3>2 DEF Apply
    <3>4. QED
      BY <1>3, <1>4, <2>1, <2>3, <3>3 DEF Settles
  <2>4. QED
    BY <2>2, <2>3
<1>7. QED
  BY <1>5, <1>6

\* Executing any of the writes after p again keeps them settled from p on.
LEMMA SettlesAgain ==
    ASSUME NEW w, NEW n \in Nat, NEW p \in 0 .. n, NEW v, NEW j \in p + 1 .. n,
           Alternates(w, n), Settles(w, n, p, v)
    PROVE  Settles(w, n, p, Apply(v, w[j]))
<1>1. CASE \E i \in p + 1 .. n : w[i].kind = "DELETE"
  BY <1>1 DEF Settles
<1>2. CASE ~\E i \in p + 1 .. n : w[i].kind = "DELETE"
  <2>1. p < n /\ p + 1 \in 1 .. n /\ j \in 1 .. n
    OBVIOUS
  <2>2. /\ w[p + 1].kind = "UPDATE" => v # Absent
        /\ w[p + 1].kind = "INSERT" /\ p + 1 = n => v \in {Absent, w[n].value}
    BY <1>2, <2>1 DEF Settles
  <2>3. w[j] \in Writes /\ w[p + 1] \in Writes
    BY <2>1 DEF Alternates
  <2>4. /\ w[j].kind \in {"INSERT", "UPDATE"} /\ w[j].value # Absent
        /\ w[p + 1].kind \in {"INSERT", "UPDATE"}
    BY <1>2, <2>1, <2>3, WriteFields
  <2>5. v # Absent => Apply(v, w[j]) # Absent
    BY <2>4 DEF Apply
  <2>6. ASSUME w[p + 1].kind = "INSERT", p + 1 = n
        PROVE  Apply(v, w[j]) \in {Absent, w[n].value}
    <3>1. j = n
      BY <2>6
    <3>2. QED
      BY <2>2, <2>6, <3>1 DEF Apply
  <2>7. QED
    BY <2>1, <2>2, <2>5, <2>6 DEF Settles
<1>3. QED
  BY <1>1, <1>2

-----------------------------------------------------------------------------
(* The invariant of replay. *)

ReplayType ==
    /\ counting \in BOOLEAN /\ cut \in BOOLEAN
    /\ ends \in [0 .. Ranges -> Nat]
    /\ ends[0] = 0
    /\ \A r, s \in 0 .. Ranges : r <= s => ends[r] <= ends[s]
    /\ checkpoint \in 1 .. Ranges + 1
    /\ range \in 0 .. Ranges + 1
    /\ DOMAIN writes = 1 .. AllWrites

\* Where the writes end that the run has to execute in its range.
RangeEnd(r) == IF r <= Ranges THEN ends[r] ELSE AllWrites

\* The rest of the flush is a final part of the range's writes.
LeftFrom(p) ==
    /\ ends[range - 1] <= p
    /\ p <= RangeEnd(range)
    /\ left = p + 1 .. RangeEnd(range)

SettlesFrom(p) == Settles(writes, AllWrites, p, value)

\* Within a range only the first write is an insert, only the last a delete.
InsertFirstDeleteLast ==
    \A r \in 1 .. Ranges : \A i, j \in WritesOf(r) :
        i < j => writes[i].kind # "DELETE" /\ writes[j].kind # "INSERT"

\* With blind writes the value is always one from which the whole history, and
\* unless a run was cut short the rest of this run and of the next one, leads
\* to the outcome.
BlindInv ==
    /\ Alternates(writes, AllWrites)
    /\ InsertFirstDeleteLast
    /\ Given(writes, AllWrites)[AllWrites] = Outcome(writes, AllWrites)
    /\ SettlesFrom(0)
    /\ ~cut /\ (range = 0 \/ range >= checkpoint) => SettlesFrom(ends[checkpoint - 1])
    /\ range = 0 => left = {}
    /\ range # 0 => \E p \in 0 .. AllWrites : LeftFrom(p) /\ (~cut => SettlesFrom(p))

\* Lengths that do not decrease from one range to the next do not decrease.
LEMMA EndsMonotone ==
    ASSUME NEW e \in [0 .. Ranges -> Nat],
           \A r \in 1 .. Ranges : e[r - 1] <= e[r]
    PROVE  \A r, s \in 0 .. Ranges : r <= s => e[r] <= e[s]
<1> USE ReplayAssumption
<1> DEFINE T == {s \in 0 .. Ranges : \E r \in 0 .. Ranges : r <= s /\ ~(e[r] <= e[s])}
<1> SUFFICES ASSUME T # {} PROVE FALSE
  OBVIOUS
<1>1. T \in SUBSET Nat
  OBVIOUS
<1>2. PICK s \in T : \A k \in T : s <= k
  BY <1>1, LeastNatural
<1>3. PICK r \in 0 .. Ranges : r <= s /\ ~(e[r] <= e[s])
  BY <1>2
<1>4. s \in 1 .. Ranges /\ s - 1 \in 0 .. Ranges /\ r <= s - 1
  BY <1>2, <1>3
<1>5. s - 1 \notin T
  BY <1>2, <1>4
<1>6. e[r] <= e[s - 1] /\ e[s - 1] <= e[s]
  BY <1>4, <1>5
<1>7. QED
  BY <1>3, <1>4, <1>6

\* The first states of the replay have the types.
LEMMA ReplayTypeInit == ReplayInit => ReplayType
<1> SUFFICES ASSUME ReplayInit PROVE ReplayType
  OBVIOUS
<1> USE ReplayAssumption
<1>1. Ranges * RangeWrites \in Nat
  OBVIOUS
<1>2. ends \in [0 .. Ranges -> Nat] /\ ends[0] = 0
  BY <1>1 DEF ReplayInit
<1>3. \A r \in 1 .. Ranges : ends[r - 1] <= ends[r]
  BY <1>2 DEF ReplayInit
<1>4. \A r, s \in 0 .. Ranges : r <= s => ends[r] <= ends[s]
  BY <1>2, <1>3, EndsMonotone
<1>5. DOMAIN writes = 1 .. AllWrites
  BY DEF ReplayInit
<1>6. counting \in BOOLEAN /\ cut \in BOOLEAN /\ checkpoint = 1 /\ range = 0
  BY DEF ReplayInit
<1>7. QED
  BY <1>2, <1>4, <1>5, <1>6 DEF ReplayType

\* Every step of the replay keeps the types.
LEMMA ReplayTypeStep == ReplayType /\ [ReplayNext]_replayVars => ReplayType'
<1> SUFFICES ASSUME ReplayType, [ReplayNext]_replayVars PROVE ReplayType'
  OBVIOUS
<1> USE ReplayAssumption
<1>1. ASSUME NEW r \in 1 .. Ranges + 1, Begin(r), checkpoint' \in 1 .. Ranges + 1
      PROVE  ReplayType'
  <2>1. DOMAIN writes' = DOMAIN writes
    BY <1>1 DEF Begin
  <2>2. QED
    BY <1>1, <2>1 DEF Begin, ReplayType, AllWrites
<1>2. ASSUME NEW first \in 1 .. Ranges + 1, BootAt(first) PROVE ReplayType'
  BY <1>1, <1>2 DEF BootAt, ReplayType
<1>3. CASE ExecuteStatement
  BY <1>3 DEF ExecuteStatement, ReplayType, AllWrites
<1>4. CASE EndRun
  BY <1>4 DEF EndRun, ReplayType, AllWrites
<1>5. ASSUME NEW saved \in BOOLEAN, NextRange(saved) PROVE ReplayType'
  <2>1. range + 1 \in 1 .. Ranges + 1 /\ checkpoint' \in 1 .. Ranges + 1
    BY <1>5 DEF NextRange, ReplayType
  <2>2. QED
    BY <1>1, <1>5, <2>1 DEF NextRange
<1>6. CASE UNCHANGED replayVars
  BY <1>6 DEF replayVars, ReplayType, AllWrites
<1>7. QED
  BY <1>2, <1>3, <1>4, <1>5, <1>6 DEF ReplayNext, FlushFails, CrashRun

\* The lengths of the history and of its parts.
LEMMA ReplayBounds ==
    ASSUME ReplayType
    PROVE  /\ AllWrites \in Nat
           /\ \A r \in 1 .. Ranges + 1 :
                 /\ ends[r - 1] \in 0 .. AllWrites
                 /\ RangeEnd(r) \in 0 .. AllWrites
                 /\ ends[r - 1] <= RangeEnd(r)
<1> USE ReplayAssumption
<1>1. AllWrites \in Nat /\ AllWrites = ends[Ranges]
  BY DEF ReplayType, AllWrites
<1>2. ASSUME NEW r \in 1 .. Ranges + 1
      PROVE  /\ ends[r - 1] \in 0 .. AllWrites
             /\ RangeEnd(r) \in 0 .. AllWrites
             /\ ends[r - 1] <= RangeEnd(r)
  <2>1. r - 1 \in 0 .. Ranges /\ Ranges \in 0 .. Ranges
    OBVIOUS
  <2>2. ends[r - 1] \in 0 .. AllWrites
    BY <1>1, <2>1 DEF ReplayType
  <2>3. CASE r <= Ranges
    <3>1. r \in 0 .. Ranges /\ r - 1 <= r
      BY <2>3
    <3>2. ends[r] \in Nat /\ ends[r - 1] <= ends[r] /\ ends[r] <= AllWrites
      BY <1>1, <2>1, <3>1 DEF ReplayType
    <3>3. QED
      BY <2>2, <2>3, <3>2 DEF RangeEnd
  <2>4. CASE ~(r <= Ranges)
    BY <1>1, <2>2, <2>4 DEF RangeEnd
  <2>5. QED
    BY <2>3, <2>4
<1>3. QED
  BY <1>1, <1>2

-----------------------------------------------------------------------------
(* Blind writes. *)

\* Sensible writes in flush order start a range with its insert, if it has one,
\* and end it with its delete.
LEMMA FlushOrderShape ==
    ASSUME ReplayType, Alternates(writes, AllWrites), InFlushOrder
    PROVE  InsertFirstDeleteLast
<1> SUFFICES ASSUME NEW r \in 1 .. Ranges, NEW i \in WritesOf(r), NEW j \in WritesOf(r), i < j
             PROVE  writes[i].kind # "DELETE" /\ writes[j].kind # "INSERT"
  BY DEF InsertFirstDeleteLast
<1> USE ReplayAssumption
<1>1. /\ r \in 1 .. Ranges + 1 /\ r <= Ranges
      /\ ends[r - 1] \in Nat /\ ends[r] \in Nat /\ ends[r] <= AllWrites /\ AllWrites \in Nat
  BY ReplayBounds DEF RangeEnd
<1>2. /\ i \in 1 .. AllWrites /\ j \in 1 .. AllWrites
      /\ i + 1 \in WritesOf(r) /\ i + 1 \in 1 .. AllWrites
      /\ j - 1 \in WritesOf(r) /\ j - 1 \in 1 .. AllWrites
      /\ i < i + 1 /\ j - 1 < j /\ i + 1 # 1 /\ j # 1 /\ (i + 1) - 1 = i
  BY <1>1 DEF WritesOf
<1>3. writes[i].kind = "DELETE" => writes[i + 1].kind = "INSERT"
  BY <1>2 DEF Alternates
<1>4. writes[j].kind = "INSERT" => writes[j - 1].kind = "DELETE"
  BY <1>2 DEF Alternates
<1>5. Rank["DELETE"] = 3 /\ Rank["INSERT"] = 1
  BY DEF Rank
<1>6. Rank[writes[i].kind] <= Rank[writes[i + 1].kind]
  BY <1>2 DEF InFlushOrder
<1>7. Rank[writes[j - 1].kind] <= Rank[writes[j].kind]
  BY <1>2 DEF InFlushOrder
<1>8. QED
  BY <1>3, <1>4, <1>5, <1>6, <1>7

\* The first states satisfy the invariant of blind writes.
LEMMA BlindInit == ReplayInit /\ ~counting => BlindInv
<1> SUFFICES ASSUME ReplayInit, ~counting PROVE BlindInv
  OBVIOUS
<1>1. ReplayType
  BY ReplayTypeInit
<1>2. AllWrites \in Nat /\ checkpoint - 1 = 0 /\ ends[0] = 0
  BY <1>1, ReplayBounds DEF ReplayInit
<1>3. /\ \A i \in 1 .. AllWrites : writes[i] \in Writes
      /\ OnlySensibleWrites
      /\ InFlushOrder
  BY DEF ReplayInit
<1>4. Alternates(writes, AllWrites) /\ Given(writes, AllWrites)[AllWrites] = Outcome(writes, AllWrites)
  BY <1>2, <1>3, SensibleAlternates DEF OnlySensibleWrites
<1>5. InsertFirstDeleteLast
  BY <1>1, <1>3, <1>4, FlushOrderShape
<1>6. value = Absent /\ range = 0 /\ left = {}
  BY DEF ReplayInit
<1>7. SettlesFrom(0)
  <2>1. AllWrites = 0 => Outcome(writes, AllWrites) = Absent
    BY DEF Outcome
  <2>2. AllWrites # 0 => writes[0 + 1].kind = "INSERT"
    BY <1>2, <1>4 DEF Alternates
  <2>3. QED
    BY <1>2, <1>6, <2>1, <2>2 DEF SettlesFrom, Settles
<1>8. QED
  BY <1>2, <1>4, <1>5, <1>6, <1>7 DEF BlindInv

\* With blind writes every statement is the next write.
LEMMA NextStatement ==
    ASSUME ReplayType, BlindInv, left # {}, range # 0, NEW p \in 0 .. AllWrites, LeftFrom(p)
    PROVE  /\ range <= Ranges /\ p < ends[range] /\ p < AllWrites
           /\ Statement(left) = {p + 1}
           /\ Least(Statement(left)) = p + 1
<1> USE ReplayAssumption
<1>1. range \in 1 .. Ranges + 1
  BY DEF ReplayType
<1>2. /\ RangeEnd(range) \in 0 .. AllWrites /\ AllWrites \in Nat
      /\ ends[range - 1] \in 0 .. AllWrites
  BY <1>1, ReplayBounds
<1>3. p < RangeEnd(range) /\ left = p + 1 .. RangeEnd(range) /\ ends[range - 1] <= p
  BY <1>2 DEF LeftFrom
<1>4. range <= Ranges
  BY <1>1, <1>2, <1>3 DEF RangeEnd, AllWrites
<1>5. RangeEnd(range) = ends[range] /\ range \in 1 .. Ranges
  BY <1>1, <1>4 DEF RangeEnd
<1>6. \A i \in left : i \in WritesOf(range) /\ i \in 1 .. AllWrites /\ p + 1 <= i
  BY <1>2, <1>3, <1>5 DEF WritesOf
<1>7. p + 1 \in left
  BY <1>2, <1>3
<1>8. \A i \in left : i # p + 1 => writes[i].kind # "INSERT" /\ writes[p + 1].kind # "DELETE"
  BY <1>2, <1>5, <1>6, <1>7 DEF BlindInv, InsertFirstDeleteLast
<1>9. \A i \in left : writes[i].kind \in {"INSERT", "UPDATE", "DELETE"}
  BY <1>6, WriteFields DEF BlindInv, Alternates
<1>10. Least({p + 1}) = p + 1
  BY <1>2 DEF Least
<1>11. range <= Ranges /\ p < ends[range] /\ p < AllWrites
  BY <1>2, <1>3, <1>4, <1>5
<1>12. CASE writes[p + 1].kind = "INSERT"
  <2>1. WritesOfKind(left, "INSERT") = {p + 1}
    BY <1>7, <1>8, <1>12 DEF WritesOfKind
  <2>2. QED
    BY <1>10, <1>11, <2>1 DEF Statement
<1>13. CASE writes[p + 1].kind = "UPDATE"
  <2>1. WritesOfKind(left, "INSERT") = {}
    BY <1>7, <1>8, <1>13 DEF WritesOfKind
  <2>2. p + 1 \in WritesOfKind(left, "UPDATE") /\ \A i \in WritesOfKind(left, "UPDATE") : p + 1 <= i
    BY <1>6, <1>7, <1>13 DEF WritesOfKind
  <2>3. \A i \in WritesOfKind(left, "UPDATE") : i \in Nat
    BY <1>6 DEF WritesOfKind
  <2>4. Least(WritesOfKind(left, "UPDATE")) = p + 1
    BY <1>2, <2>2, <2>3 DEF Least
  <2>5. Statement(left) = {p + 1}
    BY <2>1, <2>2, <2>4 DEF Statement
  <2>6. QED
    BY <1>10, <1>11, <2>5
<1>14. CASE writes[p + 1].kind = "DELETE"
  <2>1. left = {p + 1}
    BY <1>7, <1>8, <1>14
  <2>2. WritesOfKind(left, "INSERT") = {} /\ WritesOfKind(left, "UPDATE") = {}
    BY <1>14, <2>1 DEF WritesOfKind
  <2>3. Statement(left) = {p + 1}
    BY <2>1, <2>2 DEF Statement
  <2>4. QED
    BY <1>10, <1>11, <2>3
<1>15. QED
  BY <1>7, <1>9, <1>12, <1>13, <1>14

\* Entering range r keeps the invariant of blind writes, if the writes from
\* there on, and those from the checkpoint on, are settled.
LEMMA BlindBegin ==
    ASSUME ReplayType, BlindInv, ~counting, NEW r \in 1 .. Ranges + 1, Begin(r),
           checkpoint' \in 1 .. Ranges + 1,
           ~cut => SettlesFrom(ends[r - 1]),
           ~cut /\ r >= checkpoint' => SettlesFrom(ends[checkpoint' - 1])
    PROVE  BlindInv'
<1> USE ReplayAssumption
<1>1. /\ writes' = writes /\ ends' = ends /\ value' = value /\ cut' = cut /\ range' = r
      /\ left' = IF r <= Ranges THEN WritesOf(r) ELSE {}
  BY DEF Begin
<1>2. AllWrites' = AllWrites /\ RangeEnd(r)' = RangeEnd(r) /\ \A p : SettlesFrom(p)' = SettlesFrom(p)
  BY <1>1 DEF AllWrites, RangeEnd, SettlesFrom
<1>3. InsertFirstDeleteLast'
  BY <1>1 DEF BlindInv, InsertFirstDeleteLast, WritesOf
<1>4. /\ ends[r - 1] \in 0 .. AllWrites /\ RangeEnd(r) \in 0 .. AllWrites
      /\ ends[r - 1] <= RangeEnd(r) /\ AllWrites \in Nat
  BY ReplayBounds
<1>5. left' = ends[r - 1] + 1 .. RangeEnd(r)
  <2>1. CASE r <= Ranges
    BY <1>1, <2>1 DEF RangeEnd, WritesOf
  <2>2. CASE ~(r <= Ranges)
    <3>1. r - 1 = Ranges /\ RangeEnd(r) = ends[r - 1]
      BY <2>2 DEF RangeEnd, AllWrites
    <3>2. QED
      BY <1>1, <1>4, <2>2, <3>1
  <2>3. QED
    BY <2>1, <2>2
<1>6. \E p \in 0 .. AllWrites' : LeftFrom(p)' /\ (~cut' => SettlesFrom(p)')
  <2>1. PICK p \in 0 .. AllWrites' : p = ends[r - 1]
    BY <1>2, <1>4
  <2>2. LeftFrom(p)'
    BY <1>1, <1>2, <1>4, <1>5, <2>1 DEF LeftFrom
  <2>3. ~cut' => SettlesFrom(p)'
    BY <1>1, <1>2, <2>1
  <2>4. QED
    BY <2>2, <2>3
<1>7. range' # 0
  BY <1>1
<1>8. ~cut' /\ range' >= checkpoint' => Settles(writes', AllWrites', ends'[checkpoint' - 1], value')
  BY <1>1, <1>2 DEF SettlesFrom
<1>9. QED
  BY <1>1, <1>2, <1>3, <1>6, <1>7, <1>8 DEF BlindInv, SettlesFrom

\* Executing a statement keeps the invariant of blind writes.
LEMMA BlindExecute ==
    ASSUME ReplayType, BlindInv, ExecuteStatement
    PROVE  BlindInv'
<1> USE ReplayAssumption
<1>1. /\ writes' = writes /\ ends' = ends /\ cut' = cut /\ range' = range /\ checkpoint' = checkpoint
      /\ value' = Apply(value, writes[Least(Statement(left))])
      /\ left' = left \ Statement(left) /\ left # {}
  BY DEF ExecuteStatement
<1>2. range # 0
  BY <1>1 DEF BlindInv
<1>3. PICK p \in 0 .. AllWrites : LeftFrom(p) /\ (~cut => SettlesFrom(p))
  BY <1>2 DEF BlindInv
<1>4. /\ range <= Ranges /\ p < ends[range] /\ p < AllWrites
      /\ Statement(left) = {p + 1}
      /\ Least(Statement(left)) = p + 1
  BY <1>1, <1>2, <1>3, NextStatement
<1>5. value' = Apply(value, writes[p + 1]) /\ left' = left \ {p + 1}
  BY <1>1, <1>4
<1>6. AllWrites' = AllWrites /\ AllWrites \in Nat /\ RangeEnd(range)' = RangeEnd(range)
  BY <1>1, ReplayBounds DEF AllWrites, RangeEnd
<1>7. Alternates(writes, AllWrites)
  BY DEF BlindInv
<1>8. InsertFirstDeleteLast'
  BY <1>1 DEF BlindInv, InsertFirstDeleteLast, WritesOf
<1>9. SettlesFrom(0)'
  <2>1. p + 1 \in 0 + 1 .. AllWrites /\ Settles(writes, AllWrites, 0, value) /\ 0 \in 0 .. AllWrites
    BY <1>4, <1>6 DEF BlindInv, SettlesFrom
  <2>2. Settles(writes, AllWrites, 0, Apply(value, writes[p + 1]))
    BY <1>6, <1>7, <2>1, SettlesAgain
  <2>3. QED
    BY <1>1, <1>5, <1>6, <2>2 DEF SettlesFrom
<1>10. range \in 1 .. Ranges /\ checkpoint \in 1 .. Ranges + 1
  BY <1>2, <1>4 DEF ReplayType
<1>11. RangeEnd(range) = ends[range] /\ ends[range] \in 0 .. AllWrites /\ ends[range - 1] \in 0 .. AllWrites
  BY <1>4, <1>10, ReplayBounds DEF RangeEnd
<1>12. ~cut /\ range >= checkpoint => SettlesFrom(ends[checkpoint - 1])'
  <2> SUFFICES ASSUME ~cut, range >= checkpoint PROVE SettlesFrom(ends[checkpoint - 1])'
    OBVIOUS
  <2> DEFINE b == ends[checkpoint - 1]
  <2>1. b \in 0 .. AllWrites
    BY <1>10, ReplayBounds
  <2>2. b <= ends[range - 1]
    <3>1. checkpoint - 1 \in 0 .. Ranges /\ range - 1 \in 0 .. Ranges /\ checkpoint - 1 <= range - 1
      BY <1>10
    <3>2. QED
      BY <3>1 DEF ReplayType
  <2>3. ends[range - 1] <= p
    BY <1>3 DEF LeftFrom
  <2>4. p + 1 \in b + 1 .. AllWrites
    BY <1>4, <1>6, <1>11, <2>1, <2>2, <2>3
  <2>5. Settles(writes, AllWrites, b, value)
    BY DEF BlindInv, SettlesFrom
  <2> HIDE DEF b
  <2>6. Settles(writes, AllWrites, b, Apply(value, writes[p + 1]))
    BY <1>6, <1>7, <2>1, <2>4, <2>5, SettlesAgain
  <2>7. QED
    BY <1>1, <1>5, <1>6, <2>6 DEF SettlesFrom, b
<1>13. LeftFrom(p + 1)'
  <2>1. left = p + 1 .. ends[range] /\ ends[range - 1] <= p
    BY <1>3, <1>11 DEF LeftFrom
  <2>2. left' = (p + 1) + 1 .. ends[range]
    BY <1>4, <1>5, <1>11, <2>1
  <2>3. QED
    BY <1>1, <1>4, <1>6, <1>11, <2>1, <2>2 DEF LeftFrom
<1>14. ~cut => SettlesFrom(p + 1)'
  <2>1. ~cut => Settles(writes, AllWrites, p, value)
    BY <1>3 DEF SettlesFrom
  <2>2. ~cut => Settles(writes, AllWrites, p + 1, Apply(value, writes[p + 1]))
    BY <1>4, <1>6, <1>7, <2>1, SettlesNext
  <2>3. QED
    BY <1>1, <1>5, <1>6, <2>2 DEF SettlesFrom
<1>15. p + 1 \in 0 .. AllWrites'
  BY <1>4, <1>6
<1>16. \E q \in 0 .. AllWrites' : LeftFrom(q)' /\ (~cut' => SettlesFrom(q)')
  BY <1>1, <1>13, <1>14, <1>15
<1>17. ~cut' /\ (range' = 0 \/ range' >= checkpoint') => Settles(writes', AllWrites', ends'[checkpoint' - 1], value')
  BY <1>1, <1>2, <1>12 DEF SettlesFrom
<1>18. QED
  BY <1>1, <1>2, <1>6, <1>8, <1>9, <1>16, <1>17 DEF BlindInv, SettlesFrom

\* Every step of a replay of blind writes keeps their invariant.
LEMMA BlindStep ==
    ReplayType /\ ~counting /\ BlindInv /\ [ReplayNext]_replayVars => BlindInv'
<1> SUFFICES ASSUME ReplayType, ~counting, BlindInv, [ReplayNext]_replayVars PROVE BlindInv'
  OBVIOUS
<1> USE ReplayAssumption
<1>1. ASSUME NEW first \in 1 .. Ranges + 1, BootAt(first) PROVE BlindInv'
  <2>1. range = 0 /\ checkpoint' = checkpoint /\ Begin(first) /\ (first = checkpoint \/ first = 1)
    BY <1>1 DEF BootAt
  <2>2. checkpoint \in 1 .. Ranges + 1 /\ ends[0] = 0
    BY DEF ReplayType
  <2>3. ~cut => SettlesFrom(ends[checkpoint - 1])
    BY <2>1 DEF BlindInv
  <2>4. SettlesFrom(0)
    BY DEF BlindInv
  <2>5. ~cut => SettlesFrom(ends[first - 1])
    BY <2>1, <2>2, <2>3, <2>4
  <2>6. QED
    BY <2>1, <2>2, <2>3, <2>5, BlindBegin
<1>2. CASE ExecuteStatement
  BY <1>2, BlindExecute
<1>3. CASE EndRun
  <2>1. /\ writes' = writes /\ ends' = ends /\ value' = value /\ checkpoint' = checkpoint
        /\ range' = 0 /\ left' = {} /\ cut' = (cut \/ range < checkpoint)
    BY <1>3 DEF EndRun
  <2>2. AllWrites' = AllWrites
    BY <2>1 DEF AllWrites
  <2>3. InsertFirstDeleteLast'
    BY <2>1 DEF BlindInv, InsertFirstDeleteLast, WritesOf
  <2>4. ~cut' => ~cut /\ range >= checkpoint
    <3>1. ~cut' => ~cut /\ ~(range < checkpoint)
      BY <2>1, Zenon
    <3>2. ~(range < checkpoint) => range >= checkpoint
      BY DEF ReplayType
    <3>3. QED
      BY <3>1, <3>2, Zenon
  <2>5. ~cut' => Settles(writes', AllWrites', ends'[checkpoint' - 1], value')
    BY <2>1, <2>2, <2>4 DEF BlindInv, SettlesFrom
  <2>6. QED
    BY <2>1, <2>2, <2>3, <2>5 DEF BlindInv, SettlesFrom
<1>4. ASSUME NEW saved \in BOOLEAN, NextRange(saved) PROVE BlindInv'
  <2>1. /\ range \in 1 .. Ranges /\ left = {} /\ Begin(range + 1)
        /\ checkpoint' = IF saved THEN range + 1 ELSE checkpoint
    BY <1>4 DEF NextRange
  <2>2. PICK p \in 0 .. AllWrites : LeftFrom(p) /\ (~cut => SettlesFrom(p))
    BY <2>1 DEF BlindInv
  <2>3. RangeEnd(range) = ends[range] /\ ends[range] \in 0 .. AllWrites /\ AllWrites \in Nat
    BY <2>1, ReplayBounds DEF RangeEnd
  <2>4. p = ends[range]
    BY <2>1, <2>2, <2>3 DEF LeftFrom
  <2>5. ~cut => SettlesFrom(ends[range])
    BY <2>2, <2>4
  <2>6. range + 1 \in 1 .. Ranges + 1 /\ (range + 1) - 1 = range /\ checkpoint \in 1 .. Ranges + 1
    BY <2>1 DEF ReplayType
  <2>7. ~cut /\ range + 1 >= checkpoint' => SettlesFrom(ends[checkpoint' - 1])
    <3>1. CASE checkpoint' = range + 1
      BY <2>5, <2>6, <3>1
    <3>2. CASE checkpoint' # range + 1
      <4>1. checkpoint' = checkpoint /\ (range + 1 >= checkpoint => range >= checkpoint)
        BY <2>1, <2>6, <3>2
      <4>2. QED
        BY <4>1 DEF BlindInv
    <3>3. QED
      BY <3>1, <3>2
  <2>8. checkpoint' \in 1 .. Ranges + 1 /\ (~cut => SettlesFrom(ends[(range + 1) - 1]))
    BY <2>1, <2>5, <2>6
  <2>9. QED
    BY <2>1, <2>6, <2>7, <2>8, BlindBegin
<1>5. CASE UNCHANGED replayVars
  BY <1>5 DEF replayVars, BlindInv, InsertFirstDeleteLast, WritesOf, AllWrites, SettlesFrom, LeftFrom, RangeEnd
<1>6. QED
  BY <1>1, <1>2, <1>3, <1>4, <1>5 DEF ReplayNext, FlushFails, CrashRun

-----------------------------------------------------------------------------
(* A handler that counts. *)

\* The ranges before r that have events, and the count they give.
Busy(r) == {q \in 1 .. Ranges : q < r /\ HasWrites(q)}
CountBefore(r) == IF Cardinality(Busy(r)) = 0 THEN Absent ELSE Cardinality(Busy(r))

\* No range with events was begun twice; none from r on was begun at all.
NoneAgain == \A r \in again : r > Ranges \/ ~HasWrites(r)
BegunBelow(r) == \A q \in begun : q < r \/ q > Ranges \/ ~HasWrites(q)

\* In the middle of a range's flush: either nothing of it is executed, or its
\* first statement is, and the rest of it changes nothing.
MidFlush ==
    IF range <= Ranges /\ left = WritesOf(range) /\ HasWrites(range)
      THEN /\ value = CountBefore(range)
           /\ \A i \in left : writes[i] = Count(value)
      ELSE /\ value = CountBefore(range + 1)
           /\ \A i \in left : writes[i].kind = "UPDATE" /\ writes[i].value = value

\* As long as no range with events was begun twice, the value counts those
\* before the checkpoint, if none was begun later, and those before the current
\* range, with or without it, if none was begun after it.
CountInv ==
    /\ begun \subseteq 1 .. Ranges + 1
    /\ \A q \in 1 .. checkpoint - 1 : q \in begun
    /\ \A q \in 1 .. range : q \in begun
    /\ range # 0 /\ range < checkpoint => range \in again
    /\ range \in 1 .. Ranges => left \subseteq WritesOf(range)
    /\ range \notin 1 .. Ranges => left = {}
    /\ NoneAgain /\ BegunBelow(checkpoint) => value = CountBefore(checkpoint)
    /\ NoneAgain /\ range # 0 /\ BegunBelow(range + 1) => MidFlush

\* One more range with events is one more event that counts.
LEMMA BusyNext ==
    ASSUME ReplayType, NEW r \in 1 .. Ranges + 1
    PROVE  /\ Cardinality(Busy(r)) \in Nat
           /\ r \in 1 .. Ranges /\ HasWrites(r) => Cardinality(Busy(r + 1)) = Cardinality(Busy(r)) + 1
           /\ ~(r \in 1 .. Ranges /\ HasWrites(r)) => Busy(r + 1) = Busy(r)
<1> USE ReplayAssumption
<1>1. IsFiniteSet(1 .. Ranges)
  BY FS_Interval
<1>2. IsFiniteSet(Busy(r))
  BY <1>1, FS_Subset DEF Busy
<1>3. Cardinality(Busy(r)) \in Nat
  BY <1>2, FS_CardinalityType
<1>4. ASSUME r \in 1 .. Ranges, HasWrites(r)
      PROVE  Cardinality(Busy(r + 1)) = Cardinality(Busy(r)) + 1
  <2>1. Busy(r + 1) = Busy(r) \cup {r}
    BY <1>4 DEF Busy
  <2>2. r \notin Busy(r)
    BY DEF Busy
  <2>3. QED
    BY <1>2, <2>1, <2>2, FS_AddElement
<1>5. ASSUME ~(r \in 1 .. Ranges /\ HasWrites(r))
      PROVE  Busy(r + 1) = Busy(r)
  BY <1>5 DEF Busy
<1>6. QED
  BY <1>3, <1>4, <1>5

\* The count after a range with events is what the handler writes in it.
LEMMA CountNext ==
    ASSUME ReplayType, NEW r \in 1 .. Ranges + 1
    PROVE  /\ r \in 1 .. Ranges /\ HasWrites(r) =>
                /\ CountBefore(r + 1) # Absent
                /\ Apply(CountBefore(r), Count(CountBefore(r))) = CountBefore(r + 1)
                /\ CountBefore(r) # Absent => Count(CountBefore(r)).value = CountBefore(r + 1)
           /\ ~(r \in 1 .. Ranges /\ HasWrites(r)) => CountBefore(r + 1) = CountBefore(r)
<1> USE ReplayAssumption
<1>1. /\ Cardinality(Busy(r)) \in Nat
      /\ r \in 1 .. Ranges /\ HasWrites(r) => Cardinality(Busy(r + 1)) = Cardinality(Busy(r)) + 1
      /\ ~(r \in 1 .. Ranges /\ HasWrites(r)) => Busy(r + 1) = Busy(r)
  BY BusyNext
<1>2. ASSUME r \in 1 .. Ranges, HasWrites(r)
      PROVE  /\ CountBefore(r + 1) # Absent
             /\ Apply(CountBefore(r), Count(CountBefore(r))) = CountBefore(r + 1)
             /\ CountBefore(r) # Absent => Count(CountBefore(r)).value = CountBefore(r + 1)
  <2>1. CountBefore(r + 1) = Cardinality(Busy(r)) + 1
    BY <1>1, <1>2 DEF CountBefore
  <2>2. CASE Cardinality(Busy(r)) = 0
    <3>1. CountBefore(r) = Absent
      BY <2>2 DEF CountBefore
    <3>2. QED
      BY <1>1, <2>1, <2>2, <3>1 DEF Apply, Count
  <2>3. CASE Cardinality(Busy(r)) # 0
    <3>1. CountBefore(r) = Cardinality(Busy(r)) /\ CountBefore(r) # Absent
      BY <1>1, <2>3 DEF CountBefore
    <3>2. QED
      BY <1>1, <2>1, <3>1 DEF Apply, Count
  <2>4. QED
    BY <2>2, <2>3
<1>3. ~(r \in 1 .. Ranges /\ HasWrites(r)) => CountBefore(r + 1) = CountBefore(r)
  BY <1>1 DEF CountBefore
<1>4. QED
  BY <1>2, <1>3

\* Before the first range with events nothing is counted.
LEMMA NothingCounted ==
    ASSUME NEW r, Busy(r) = {}
    PROVE  CountBefore(r) = Absent
  BY FS_EmptySet DEF CountBefore

\* The first states satisfy the invariant of counting.
LEMMA CountInit == ReplayInit => CountInv
<1> SUFFICES ASSUME ReplayInit PROVE CountInv
  OBVIOUS
<1> USE ReplayAssumption
<1>1. begun = {} /\ again = {} /\ value = Absent /\ checkpoint = 1 /\ range = 0 /\ left = {}
  BY DEF ReplayInit
<1>2. Busy(1) = {}
  BY DEF Busy
<1>3. CountBefore(checkpoint) = Absent
  BY <1>1, <1>2, NothingCounted
<1>4. QED
  BY <1>1, <1>3 DEF CountInv

\* Entering range r keeps the invariant of counting, if the value counts what
\* it should for r and for the checkpoint.
LEMMA CountBegin ==
    ASSUME ReplayType, CountInv, counting, NEW r \in 1 .. Ranges + 1, Begin(r),
           checkpoint' \in 1 .. Ranges + 1,
           \A q \in 1 .. checkpoint' - 1 : q \in begun,
           \A q \in 1 .. r - 1 : q \in begun,
           NoneAgain /\ BegunBelow(r) => value = CountBefore(r),
           NoneAgain /\ BegunBelow(checkpoint') => value = CountBefore(checkpoint')
    PROVE  CountInv'
<1> USE ReplayAssumption
<1>1. /\ ends' = ends /\ value' = value /\ range' = r /\ begun' = begun \cup {r}
      /\ again' = again \cup ({r} \cap begun)
      /\ left' = IF r <= Ranges THEN WritesOf(r) ELSE {}
  BY DEF Begin
<1>2. /\ \A q : HasWrites(q)' = HasWrites(q) /\ WritesOf(q)' = WritesOf(q)
      /\ \A q : Busy(q)' = Busy(q)
  BY <1>1 DEF HasWrites, WritesOf, Busy
<1>3. \A q : CountBefore(q)' = CountBefore(q)
  BY <1>2 DEF CountBefore
<1>4. begun' \subseteq 1 .. Ranges + 1
  BY <1>1 DEF CountInv
<1>5. \A q \in 1 .. checkpoint' - 1 : q \in begun'
  BY <1>1
<1>6. \A q \in 1 .. range' : q \in begun'
  BY <1>1
<1>7. range' # 0 /\ range' < checkpoint' => range' \in again'
  <2>1. \A c \in 1 .. Ranges + 1 : r < c => r \in 1 .. c - 1
    OBVIOUS
  <2>2. r < checkpoint' => r \in begun
    BY <2>1
  <2>3. QED
    BY <1>1, <2>2
<1>8. /\ range' \in 1 .. Ranges => left' \subseteq WritesOf(range)'
      /\ range' \notin 1 .. Ranges => left' = {}
  BY <1>1, <1>2 DEF WritesOf
<1>9. NoneAgain' => NoneAgain
  BY <1>1, <1>2 DEF NoneAgain
<1>10. \A q \in begun : q \in begun'
  BY <1>1
<1>11. NoneAgain' /\ BegunBelow(checkpoint)' => value' = CountBefore(checkpoint)'
  <2>1. ASSUME \A q \in begun' : q < checkpoint' \/ q > Ranges \/ ~HasWrites(q)'
        PROVE  BegunBelow(checkpoint')
    BY <1>2, <1>10, <2>1 DEF BegunBelow
  <2>2. QED
    BY <1>1, <1>3, <1>9, <2>1 DEF BegunBelow
<1>12. ASSUME NoneAgain', \A q \in begun' : q < r + 1 \/ q > Ranges \/ ~HasWrites(q)'
       PROVE  MidFlush'
  <2>1. BegunBelow(r)
    <3>1. SUFFICES ASSUME NEW q \in begun PROVE q < r \/ q > Ranges \/ ~HasWrites(q)
      BY DEF BegunBelow
    <3>2. CASE q = r
      <4>1. r \in again'
        BY <1>1, <3>2
      <4>2. r > Ranges \/ ~HasWrites(r)
        BY <1>2, <1>12, <4>1 DEF NoneAgain
      <4>3. QED
        BY <3>2, <4>2
    <3>3. CASE q # r
      <4>1. q \in 1 .. Ranges + 1 /\ (q < r + 1 \/ q > Ranges \/ ~HasWrites(q))
        BY <1>2, <1>10, <1>12 DEF CountInv
      <4>2. QED
        BY <3>3, <4>1
    <3>4. QED
      BY <3>2, <3>3
  <2>2. value = CountBefore(r)
    BY <1>9, <1>12, <2>1
  <2>3. CASE r <= Ranges /\ HasWrites(r)
    <3>1. left' = WritesOf(r) /\ r \in 1 .. Ranges
      BY <1>1, <2>3
    <3>2. ASSUME NEW i \in WritesOf(r) PROVE writes'[i] = Count(value)
      <4>1. i \in DOMAIN writes
        BY <3>1, ReplayBounds DEF ReplayType, WritesOf, RangeEnd
      <4>2. writes'[i] = Count(value)
        BY <3>1, <3>2, <4>1 DEF Begin
      <4>3. QED
        BY <4>2 DEF Count
    <3>3. QED
      BY <1>1, <1>2, <1>3, <2>2, <2>3, <3>1, <3>2 DEF MidFlush
  <2>4. CASE ~(r <= Ranges /\ HasWrites(r))
    <3>1. CountBefore(r + 1) = CountBefore(r)
      BY <2>4, CountNext
    <3>2. left' = {}
      <4>1. CASE r <= Ranges
        <5>1. ends[r - 1] \in Nat /\ RangeEnd(r) \in Nat /\ RangeEnd(r) = ends[r]
          BY <4>1, ReplayBounds DEF RangeEnd
        <5>2. QED
          BY <1>1, <2>4, <4>1, <5>1 DEF WritesOf, HasWrites
      <4>2. CASE ~(r <= Ranges)
        BY <1>1, <4>2
      <4>3. QED
        BY <4>1, <4>2
    <3>3. QED
      BY <1>1, <1>2, <1>3, <2>2, <2>4, <3>1, <3>2 DEF MidFlush
  <2>5. QED
    BY <2>3, <2>4
<1>13. NoneAgain' /\ range' # 0 /\ BegunBelow(range + 1)' => MidFlush'
  BY <1>1, <1>12 DEF BegunBelow
<1>14. QED
  BY <1>4, <1>5, <1>6, <1>7, <1>8, <1>11, <1>13 DEF CountInv

\* The first of a set of positions is one of them.
LEMMA LeastIn ==
    ASSUME NEW P \in SUBSET Nat, P # {}
    PROVE  Least(P) \in P
  BY LeastNatural DEF Least

\* A statement of writes that are all inserts has them all.
LEMMA StatementOfInserts ==
    ASSUME \A i \in left : writes[i].kind = "INSERT", left # {}
    PROVE  Statement(left) = left
<1>1. WritesOfKind(left, "INSERT") = left
  BY DEF WritesOfKind
<1>2. QED
  BY <1>1 DEF Statement

\* A statement of writes that are all updates has the first of them.
LEMMA StatementOfUpdates ==
    ASSUME \A i \in left : writes[i].kind = "UPDATE", left \in SUBSET Nat, left # {}
    PROVE  /\ Statement(left) = {Least(left)}
           /\ Least(Statement(left)) = Least(left)
           /\ Least(left) \in left
<1>1. WritesOfKind(left, "INSERT") = {} /\ WritesOfKind(left, "UPDATE") = left
  BY DEF WritesOfKind
<1>2. Statement(left) = {Least(left)}
  BY <1>1 DEF Statement
<1>3. Least(left) \in left /\ Least(left) \in Nat
  BY LeastIn
<1>4. \A x \in Nat : Least({x}) = x
  BY DEF Least
<1>5. QED
  BY <1>2, <1>3, <1>4

\* Executing a statement keeps the invariant of counting.
LEMMA CountExecute ==
    ASSUME ReplayType, CountInv, ExecuteStatement
    PROVE  CountInv'
<1> USE ReplayAssumption
<1>1. /\ writes' = writes /\ ends' = ends /\ begun' = begun /\ again' = again /\ range' = range
      /\ checkpoint' = checkpoint
      /\ value' = Apply(value, writes[Least(Statement(left))])
      /\ left' = left \ Statement(left) /\ left # {}
  BY DEF ExecuteStatement
<1>2. /\ \A q : HasWrites(q)' = HasWrites(q) /\ WritesOf(q)' = WritesOf(q)
      /\ \A q : Busy(q)' = Busy(q)
  BY <1>1 DEF HasWrites, WritesOf, Busy
<1>3. \A q : CountBefore(q)' = CountBefore(q)
  BY <1>2 DEF CountBefore
<1>4. range \in 1 .. Ranges /\ left \subseteq WritesOf(range)
  BY <1>1 DEF CountInv
<1>5. range \in 1 .. Ranges + 1 /\ range <= Ranges /\ ends[range - 1] \in Nat /\ ends[range] \in Nat
  BY <1>4, ReplayBounds DEF RangeEnd
<1>6. HasWrites(range) /\ left \in SUBSET Nat
  <2>1. \A i \in left : i \in Nat /\ ends[range - 1] < i /\ i <= ends[range]
    BY <1>4, <1>5 DEF WritesOf
  <2>2. PICK i \in left : TRUE
    BY <1>1
  <2>3. ends[range - 1] < ends[range]
    BY <1>5, <2>1, <2>2
  <2>4. QED
    BY <2>1, <2>3 DEF HasWrites
<1>7. NoneAgain' = NoneAgain /\ BegunBelow(checkpoint)' = BegunBelow(checkpoint)
      /\ BegunBelow(range + 1)' = BegunBelow(range + 1)
  BY <1>1, <1>2 DEF NoneAgain, BegunBelow
<1>8. ~(NoneAgain /\ BegunBelow(checkpoint))
  <2>1. range \in begun
    BY <1>4 DEF CountInv
  <2>2. BegunBelow(checkpoint) => range < checkpoint
    BY <1>5, <1>6, <2>1 DEF BegunBelow
  <2>3. range < checkpoint => range \in again
    BY <1>4 DEF CountInv
  <2>4. range \in again => ~NoneAgain
    BY <1>5, <1>6 DEF NoneAgain
  <2>5. QED
    BY <2>2, <2>3, <2>4
<1>9. ASSUME NoneAgain, BegunBelow(range + 1)
      PROVE  MidFlush'
  <2>1. MidFlush
    BY <1>4, <1>9 DEF CountInv
  <2>2. /\ CountBefore(range + 1) # Absent
        /\ Apply(CountBefore(range), Count(CountBefore(range))) = CountBefore(range + 1)
        /\ CountBefore(range) # Absent => Count(CountBefore(range)).value = CountBefore(range + 1)
    BY <1>4, <1>5, <1>6, CountNext
  <2>3. SUFFICES /\ left' # WritesOf(range)
                 /\ value' = CountBefore(range + 1)
                 /\ \A i \in left' : writes[i].kind = "UPDATE" /\ writes[i].value = CountBefore(range + 1)
    BY <1>1, <1>2, <1>3 DEF MidFlush
  <2>4. CASE left = WritesOf(range)
    <3>1. value = CountBefore(range) /\ \A i \in left : writes[i] = Count(value)
      BY <1>5, <1>6, <2>1, <2>4 DEF MidFlush
    <3>2. CASE value = Absent
      <4>1. \A i \in left : writes[i].kind = "INSERT"
        BY <3>1, <3>2 DEF Count
      <4>2. Statement(left) = left
        BY <1>1, <4>1, StatementOfInserts
      <4>3. Least(left) \in left
        BY <1>1, <1>6, LeastIn
      <4>4. value' = CountBefore(range + 1)
        BY <1>1, <2>2, <3>1, <4>2, <4>3
      <4>5. left' = {}
        BY <1>1, <4>2
      <4>6. QED
        BY <1>1, <2>4, <4>4, <4>5
    <3>3. CASE value # Absent
      <4>1. \A i \in left : writes[i].kind = "UPDATE" /\ writes[i].value = CountBefore(range + 1)
        BY <2>2, <3>1, <3>3 DEF Count
      <4>2. /\ Statement(left) = {Least(left)}
            /\ Least(Statement(left)) = Least(left)
            /\ Least(left) \in left
        BY <1>1, <1>6, <4>1, StatementOfUpdates
      <4>3. value' = CountBefore(range + 1)
        BY <1>1, <2>2, <3>1, <4>2
      <4>4. QED
        BY <1>1, <2>4, <4>1, <4>2, <4>3
    <3>4. QED
      BY <3>2, <3>3
  <2>5. CASE left # WritesOf(range)
    <3>1. /\ value = CountBefore(range + 1)
          /\ \A i \in left : writes[i].kind = "UPDATE" /\ writes[i].value = value
      BY <2>1, <2>5 DEF MidFlush
    <3>2. /\ Statement(left) = {Least(left)}
          /\ Least(Statement(left)) = Least(left)
          /\ Least(left) \in left
      BY <1>1, <1>6, <3>1, StatementOfUpdates
    <3>3. value' = value
      BY <1>1, <2>2, <3>1, <3>2 DEF Apply
    <3>4. left' # WritesOf(range)
      BY <1>1, <1>4, <2>5
    <3>5. QED
      BY <1>1, <3>1, <3>3, <3>4
  <2>6. QED
    BY <2>4, <2>5
<1>10. /\ range' \in 1 .. Ranges => left' \subseteq WritesOf(range)'
       /\ range' \notin 1 .. Ranges => left' = {}
  BY <1>1, <1>2, <1>4
<1>11. NoneAgain' /\ BegunBelow(checkpoint)' => value' = CountBefore(checkpoint)'
  BY <1>7, <1>8
<1>12. NoneAgain' /\ range' # 0 /\ BegunBelow(range + 1)' => MidFlush'
  BY <1>7, <1>9
<1>13. QED
  BY <1>1, <1>10, <1>11, <1>12 DEF CountInv

\* Every step of a run with a handler that counts keeps its invariant.
LEMMA CountStep ==
    ReplayType /\ counting /\ CountInv /\ [ReplayNext]_replayVars => CountInv'
<1> SUFFICES ASSUME ReplayType, counting, CountInv, [ReplayNext]_replayVars PROVE CountInv'
  OBVIOUS
<1> USE ReplayAssumption
<1>0. NoneAgain /\ BegunBelow(checkpoint) => value = CountBefore(checkpoint)
  BY DEF CountInv
<1>1. ASSUME NEW first \in 1 .. Ranges + 1, BootAt(first) PROVE CountInv'
  <2>1. range = 0 /\ checkpoint' = checkpoint /\ Begin(first) /\ (first = checkpoint \/ first = 1)
    BY <1>1 DEF BootAt
  <2>2. checkpoint \in 1 .. Ranges + 1
    BY DEF ReplayType
  <2>3. \A q \in 1 .. checkpoint - 1 : q \in begun
    BY DEF CountInv
  <2>4. \A q \in 1 .. first - 1 : q \in begun
    BY <2>1, <2>2, <2>3
  <2>5. NoneAgain /\ BegunBelow(first) => value = CountBefore(first)
    <3>1. CASE first = checkpoint
      BY <1>0, <3>1
    <3>2. CASE first = 1
      <4> SUFFICES ASSUME NoneAgain, BegunBelow(first) PROVE value = CountBefore(first)
        OBVIOUS
      <4>1. \A q \in begun : q \in 1 .. Ranges + 1 /\ (q > Ranges \/ ~HasWrites(q))
        BY <3>2 DEF CountInv, BegunBelow
      <4>2. BegunBelow(checkpoint)
        BY <4>1 DEF BegunBelow
      <4>3. Busy(checkpoint) = {} /\ Busy(first) = {}
        BY <2>2, <2>3, <3>2, <4>1 DEF Busy
      <4>4. QED
        BY <1>0, <4>2, <4>3, NothingCounted
    <3>3. QED
      BY <2>1, <3>1, <3>2
  <2>6. QED
    BY <1>0, <2>1, <2>2, <2>3, <2>4, <2>5, CountBegin
<1>2. CASE ExecuteStatement
  BY <1>2, CountExecute
<1>3. CASE EndRun
  <2>1. /\ ends' = ends /\ value' = value /\ checkpoint' = checkpoint /\ begun' = begun
        /\ again' = again /\ range' = 0 /\ left' = {}
    BY <1>3 DEF EndRun
  <2>2. \A q : HasWrites(q)' = HasWrites(q) /\ Busy(q)' = Busy(q)
    BY <2>1 DEF HasWrites, Busy
  <2>3. NoneAgain' = NoneAgain /\ BegunBelow(checkpoint)' = BegunBelow(checkpoint)
    BY <2>1, <2>2 DEF NoneAgain, BegunBelow
  <2>4. CountBefore(checkpoint)' = CountBefore(checkpoint)
    BY <2>1, <2>2 DEF CountBefore
  <2>5. QED
    BY <2>1, <2>3, <2>4 DEF CountInv
<1>4. ASSUME NEW saved \in BOOLEAN, NextRange(saved) PROVE CountInv'
  <2>1. /\ range \in 1 .. Ranges /\ left = {} /\ Begin(range + 1)
        /\ checkpoint' = IF saved THEN range + 1 ELSE checkpoint
    BY <1>4 DEF NextRange
  <2>2. range + 1 \in 1 .. Ranges + 1 /\ (range + 1) - 1 = range /\ checkpoint \in 1 .. Ranges + 1
    BY <2>1 DEF ReplayType
  <2>3. checkpoint' \in 1 .. Ranges + 1
    BY <2>1, <2>2
  <2>4. \A q \in 1 .. (range + 1) - 1 : q \in begun
    BY <2>2 DEF CountInv
  <2>5. NoneAgain /\ BegunBelow(range + 1) => value = CountBefore(range + 1)
    <3>1. NoneAgain /\ BegunBelow(range + 1) => MidFlush
      BY <2>1 DEF CountInv
    <3>2. HasWrites(range) => left # WritesOf(range)
      <4>1. ends[range - 1] \in Nat /\ ends[range] \in Nat
        BY <2>1, ReplayBounds DEF RangeEnd
      <4>2. HasWrites(range) => ends[range] \in WritesOf(range)
        BY <4>1 DEF HasWrites, WritesOf
      <4>3. QED
        BY <2>1, <4>2
    <3>3. QED
      BY <3>1, <3>2 DEF MidFlush
  <2>6. checkpoint' = range + 1 \/ checkpoint' = checkpoint
    BY <2>1
  <2>7. \A q \in 1 .. checkpoint' - 1 : q \in begun
    BY <2>4, <2>6 DEF CountInv
  <2>8. NoneAgain /\ BegunBelow(checkpoint') => value = CountBefore(checkpoint')
    BY <1>0, <2>5, <2>6
  <2>9. QED
    BY <2>1, <2>2, <2>3, <2>4, <2>5, <2>7, <2>8, CountBegin
<1>5. CASE UNCHANGED replayVars
  BY <1>5 DEF replayVars, CountInv, NoneAgain, BegunBelow, HasWrites, WritesOf, CountBefore, Busy, MidFlush
<1>6. QED
  BY <1>1, <1>2, <1>3, <1>4, <1>5 DEF ReplayNext, FlushFails, CrashRun

-----------------------------------------------------------------------------
\* What the handlers are does not change.
LEMMA CountingFixed == [ReplayNext]_replayVars => counting' = counting
  BY DEF ReplayNext, BootAt, Begin, ExecuteStatement, FlushFails, CrashRun, EndRun, NextRange, replayVars

ReplayInv == ReplayType /\ (counting => CountInv) /\ (~counting => BlindInv)

\* The invariant holds in every state of every replay.
LEMMA ReplayInvariant == ReplaySpec => []ReplayInv
<1>1. ReplayInit => ReplayInv
  BY ReplayTypeInit, BlindInit, CountInit DEF ReplayInv
<1>2. ReplayInv /\ [ReplayNext]_replayVars => ReplayInv'
  BY ReplayTypeStep, BlindStep, CountStep, CountingFixed DEF ReplayInv
<1>3. QED
  BY <1>1, <1>2, PTL DEF ReplaySpec

\* flush_table (buffer.rs) and the coordinator's checkpoint: replaying blind
\* writes converges, for any number of ranges and writes, wherever flushes
\* fail, processes die and checkpoint writes are lost.
THEOREM ReplayConvergesAlways == ReplaySpec => []ReplayConverges
<1>1. ReplayInv => ReplayConverges
  <2> SUFFICES ASSUME ReplayInv, ~counting, ~cut, range = Ranges + 1
               PROVE  value = Given(writes, AllWrites)[AllWrites]
    BY DEF ReplayConverges
  <2> USE ReplayAssumption
  <2>1. ReplayType /\ BlindInv
    BY DEF ReplayInv
  <2>2. PICK p \in 0 .. AllWrites : LeftFrom(p) /\ SettlesFrom(p)
    BY <2>1 DEF BlindInv
  <2>3. AllWrites \in Nat
    BY <2>1, ReplayBounds
  <2>4. p = AllWrites
    BY <2>2, <2>3 DEF LeftFrom, AllWrites
  <2>5. value = Outcome(writes, AllWrites)
    BY <2>2, <2>3, <2>4 DEF SettlesFrom, Settles
  <2>6. QED
    BY <2>1, <2>5 DEF BlindInv
<1>2. QED
  BY <1>1, ReplayInvariant, PTL

\* Where no range has two events, the ranges with events are as many as the events.
LEMMA BusyEvents ==
    ASSUME ReplayType, \A r \in 1 .. Ranges : ends[r] <= ends[r - 1] + 1
    PROVE  \A r \in 0 .. Ranges : Cardinality(Busy(r + 1)) = ends[r]
<1> USE ReplayAssumption
<1> DEFINE T == {r \in Nat : r <= Ranges /\ Cardinality(Busy(r + 1)) # ends[r]}
<1>1. SUFFICES ASSUME T # {} PROVE FALSE
  OBVIOUS
<1>2. PICK m \in T : \A k \in T : m <= k
  BY <1>1, LeastNatural
<1>3. CASE m = 0
  <2>1. Busy(0 + 1) = {}
    BY DEF Busy
  <2>2. Cardinality(Busy(0 + 1)) = 0
    BY <2>1, FS_EmptySet
  <2>3. QED
    BY <1>2, <1>3, <2>2 DEF ReplayType
<1>4. CASE m # 0
  <2>1. m \in 1 .. Ranges /\ m - 1 \in Nat /\ m - 1 <= Ranges /\ m - 1 \notin T /\ (m - 1) + 1 = m
    BY <1>2, <1>4
  <2>2. Cardinality(Busy(m)) = ends[m - 1]
    BY <2>1
  <2>3. /\ HasWrites(m) => Cardinality(Busy(m + 1)) = Cardinality(Busy(m)) + 1
        /\ ~HasWrites(m) => Busy(m + 1) = Busy(m)
    BY <2>1, BusyNext
  <2>4. ends[m] \in Nat /\ ends[m - 1] \in Nat /\ ends[m - 1] <= ends[m]
    BY <2>1 DEF ReplayType
  <2>5. ends[m] <= ends[m - 1] + 1
    BY <2>1
  <2>6. Cardinality(Busy(m + 1)) = ends[m]
    BY <2>2, <2>3, <2>4, <2>5 DEF HasWrites
  <2>7. QED
    BY <1>2, <2>6
<1>5. QED
  BY <1>3, <1>4

\* DbContext::find_one (context.rs) reads the database and not the buffer: a
\* handler that counts what it reads counts every event, if no range has two of
\* them and none with one is processed twice, for any number of ranges.
THEOREM CountsEventsAlways == ReplaySpec => []CountsEvents
<1>1. ReplayInv => CountsEvents
  <2> SUFFICES ASSUME ReplayInv, counting, range = Ranges + 1, NoneAgain,
                      \A r \in 1 .. Ranges : ends[r] <= ends[r - 1] + 1
               PROVE  value = IF AllWrites = 0 THEN Absent ELSE AllWrites
    BY DEF CountsEvents, NoneAgain
  <2> USE ReplayAssumption
  <2>1. ReplayType /\ CountInv
    BY DEF ReplayInv
  <2>2. BegunBelow(range + 1)
    BY <2>1 DEF CountInv, BegunBelow
  <2>3. MidFlush
    BY <2>1, <2>2 DEF CountInv
  <2>4. value = CountBefore(range + 1)
    BY <2>3 DEF MidFlush
  <2>5. Busy(range + 1) = Busy(Ranges + 1)
    BY DEF Busy
  <2>6. Cardinality(Busy(Ranges + 1)) = AllWrites
    BY <2>1, BusyEvents DEF AllWrites
  <2>7. QED
    BY <2>4, <2>5, <2>6 DEF CountBefore
<1>2. QED
  BY <1>1, ReplayInvariant, PTL
=============================================================================
