--------------------------- MODULE BackfillProofs ---------------------------
(***************************************************************************)
(* Proofs about the backfill, for any number of chains, contracts, events  *)
(* and tables, any chunk size and any buffer size: type correctness, that  *)
(* checkpoints never run ahead of the committed data, that readiness is    *)
(* truthful, and that the backfill implements CheckpointedIndex.           *)
(***************************************************************************)
EXTENDS Backfill, FiniteSetTheorems, TLAPS

\* Event e's effect is committed, or sits in the write buffer, or its handler
\* returned an error.
Held(e) == e \in failed \/ \A t \in WritesTo[e] : e \in buffer[t] \/ e \in db[t]

\* The first block the round at range_idx has not been preceded by.
Frontier(c, i) ==
    IF From(c, i) <= target[ChainOf[c]] THEN From(c, i) ELSE target[ChainOf[c]] + 1

\* The buffer is empty outside the handler and flush phases, and while
\* flushing only the tables still to be flushed hold rows.
BufferInv ==
    /\ phase \notin {"handle", "flush"} => \A t \in Tables : buffer[t] = {}
    /\ phase = "flush" => \A t \in Tables : t \notin toFlush => buffer[t] = {}

\* Chains finished in this run are indexed up to their target; the current
\* one up to the frontier of its current round.
CoverageInv ==
    /\ phase \in Running => chain \in todo
    /\ phase = "ready" => todo = {}
    /\ phase # "down" =>
         \A c \in Contracts : ChainOf[c] \notin todo => Covered(c, target[ChainOf[c]] + 1)
    /\ phase \in Running =>
         \A c \in ContractsOn(chain) : Covered(c, Frontier(c, rangeIdx))

\* Where the events of the current round are, phase by phase.
RoundInv ==
    /\ phase = "fetch" =>
         \A c \in Active : c \notin toFetch => EventsIn(c, rangeIdx) \subseteq pending
    /\ phase = "handle" =>
         \A c \in Active : \A e \in EventsIn(c, rangeIdx) : e \in pending \/ Held(e)
    /\ phase = "flush" =>
         \A c \in Active : \A e \in EventsIn(c, rangeIdx) : Held(e)
    /\ phase = "ckpt" =>
         \A c \in Active : \A e \in EventsIn(c, rangeIdx) : Persisted(e)
    /\ phase \in {"flush", "ckpt"} => toCkpt \subseteq Active

IInv == TypeOK /\ CheckpointSafety /\ BufferInv /\ CoverageInv /\ RoundInv

-----------------------------------------------------------------------------
(* The ranges of a plan. *)

\* Consecutive ranges follow each other without a gap, and every range that
\* exists is nonempty and ends at the current block at the latest.
LEMMA RangeFacts ==
    ASSUME NEW start \in Nat, NEW current \in Nat, NEW chunk \in Nat \ {0}, NEW i \in Nat
    PROVE  /\ RangeFrom(start, chunk, i) \in Nat
           /\ RangeFrom(start, chunk, i + 1) = RangeFrom(start, chunk, i) + chunk
           /\ RangeTo(start, current, chunk, i) \in Nat
           /\ HasRange(start, current, chunk, i) =>
                RangeLen(start, current, chunk, i) \in Nat
<1>1. i * chunk \in Nat /\ (i + 1) * chunk = i * chunk + chunk
  OBVIOUS
<1>2. RangeFrom(start, chunk, i) \in Nat
  BY <1>1 DEF RangeFrom
<1>3. RangeFrom(start, chunk, i + 1) = RangeFrom(start, chunk, i) + chunk
  BY <1>1 DEF RangeFrom
<1>4. QED
  BY <1>2, <1>3 DEF RangeTo, HasRange, RangeLen

\* The next range begins a chunk further on.
LEMMA RangeNext ==
    ASSUME NEW start \in Nat, NEW chunk \in Nat \ {0}, NEW i \in Nat
    PROVE  /\ RangeFrom(start, chunk, 0) = start
           /\ RangeFrom(start, chunk, i) \in Nat
           /\ RangeFrom(start, chunk, i + 1) = RangeFrom(start, chunk, i) + chunk
<1>1. i * chunk \in Nat /\ (i + 1) * chunk = i * chunk + chunk /\ 0 * chunk = 0
  OBVIOUS
<1>2. QED
  BY <1>1 DEF RangeFrom

-----------------------------------------------------------------------------
(* Type correctness. *)

\* What the end of a run does to the types.
LEMMA GoDownType ==
    ASSUME TypeOK, GoDown, ConstantsAssumption
    PROVE  /\ phase' \in Phases /\ todo' \subseteq Chains /\ chain' \in Chains
           /\ target' \in [Chains -> Nat] /\ planStart' \in [Contracts -> Nat]
           /\ rangeIdx' \in Nat /\ toFetch' \subseteq Contracts /\ pending' \subseteq Events
           /\ buffer' \in [Tables -> SUBSET Events] /\ toFlush' \subseteq Tables
           /\ toCkpt' \subseteq Contracts /\ processed' \in Nat
BY DEF TypeOK, GoDown, Phases

\* Every action keeps the variables in their types.
LEMMA TypeStep == TypeOK /\ [Next]_vars => TypeOK'
<1> SUFFICES ASSUME TypeOK, [Next]_vars
             PROVE  TypeOK'
  OBVIOUS
<1> USE ConstantsAssumption
<1>1. CASE Boot
  BY <1>1 DEF TypeOK, Boot, durable, rangeVars, Phases
<1>2. ASSUME NEW ch \in Chains, NEW unread \in SUBSET Contracts, StartChain(ch, unread)
      PROVE  TypeOK'
  <2>1. planStart' \in [Contracts -> Nat]
    BY <1>2 DEF TypeOK, StartChain, PlanFrom
  <2>2. target' \in [Chains -> Nat]
    BY <1>2 DEF TypeOK, StartChain
  <2>3. QED
    BY <1>2, <2>1, <2>2 DEF TypeOK, StartChain, durable, Phases
<1>3. CASE BlockNumberFails
  BY <1>3, GoDownType DEF TypeOK, BlockNumberFails, durable
<1>4. CASE BeginRange
  BY <1>4 DEF TypeOK, BeginRange, Active, ContractsOn, durable, planVars, Phases
<1>5. CASE EndChain
  BY <1>5 DEF TypeOK, EndChain, durable, rangeVars, Phases
<1>6. ASSUME NEW c \in Contracts, Fetch(c)
      PROVE  TypeOK'
  BY <1>6 DEF TypeOK, Fetch, EventsIn, durable, planVars, Phases
<1>7. CASE FetchFails
  BY <1>7, GoDownType DEF TypeOK, FetchFails, durable
<1>8. ASSUME NEW e \in Events, HandlerOk(e)
      PROVE  TypeOK'
  BY <1>8 DEF TypeOK, HandlerOk, AddRows, durable, planVars
<1>9. ASSUME NEW e \in Events, NEW tabs \in SUBSET Tables, HandlerErr(e, tabs)
      PROVE  TypeOK'
  BY <1>9 DEF TypeOK, HandlerErr, AddRows, planVars
<1>10. ASSUME NEW e \in Events, HandlerPanics(e)
       PROVE  TypeOK'
  BY <1>10, GoDownType DEF TypeOK, HandlerPanics, durable
<1>11. CASE BeginFlush
  BY <1>11 DEF TypeOK, BeginFlush, Active, ContractsOn, durable, planVars, Phases
<1>12. ASSUME NEW t \in Tables, FlushTable(t)
       PROVE  TypeOK'
  BY <1>12 DEF TypeOK, FlushTable, planVars, Phases
<1>13. ASSUME NEW t \in Tables, NEW rows \in SUBSET Events, FlushFails(t, rows)
       PROVE  TypeOK'
  <2>1. db' \in [Tables -> SUBSET Events]
    BY <1>13 DEF TypeOK, FlushFails
  <2>2. QED
    BY <1>13, <2>1, GoDownType DEF TypeOK, FlushFails
<1>14. ASSUME NEW c \in Contracts, PutCheckpoint(c)
       PROVE  TypeOK'
  <2>1. To(c, rangeIdx) \in Nat
    BY RangeFacts DEF TypeOK, To
  <2>2. QED
    BY <1>14, <2>1 DEF TypeOK, PutCheckpoint, planVars
<1>15. ASSUME NEW c \in Contracts, PutCheckpointFails(c)
       PROVE  TypeOK'
  BY <1>15 DEF TypeOK, PutCheckpointFails, durable, planVars
<1>16. CASE RecordRange
  <2>1. PICK c \in Contracts : IsLongest(c) /\ processed' = processed + BlocksIn(c)
    BY <1>16 DEF RecordRange
  <2>2. BlocksIn(c) \in Nat
    BY <2>1, RangeFacts DEF TypeOK, IsLongest, BlocksIn, Active, ContractsOn, Has
  <2>3. QED
    BY <1>16, <2>1, <2>2 DEF TypeOK, RecordRange, durable, planVars, Phases
<1>17. CASE SignalReady
  BY <1>17 DEF TypeOK, SignalReady, durable, planVars, rangeVars, Phases
<1>18. CASE Shutdown
  <2>1. db' \in [Tables -> SUBSET Events]
    BY <1>18 DEF TypeOK, Shutdown
  <2>2. QED
    BY <1>18, <2>1, GoDownType DEF TypeOK, Shutdown
<1>19. CASE Crash
  BY <1>19, GoDownType DEF TypeOK, Crash, durable
<1>20. ASSUME NEW ch \in Chains, NewBlock(ch)
       PROVE  TypeOK'
  BY <1>20 DEF TypeOK, NewBlock, planVars, rangeVars
<1>21. CASE UNCHANGED vars
  BY <1>21 DEF TypeOK, vars, durable, planVars, rangeVars
<1>22. QED
  BY <1>1, <1>2, <1>3, <1>4, <1>5, <1>6, <1>7, <1>8, <1>9, <1>10, <1>11, <1>12, <1>13,
     <1>14, <1>15, <1>16, <1>17, <1>18, <1>19, <1>20, <1>21
     DEF Next, Progress, Swallowed, RunEnds

\* Every variable keeps its type in every behaviour of the backfill.
THEOREM TypeCorrect == Spec => []TypeOK
<1>1. Init => TypeOK
  BY ConstantsAssumption DEF Init, TypeOK, Phases
<1>2. QED
  BY <1>1, TypeStep, PTL DEF Spec

-----------------------------------------------------------------------------
(* Facts every step shares. *)

\* Committed rows and recorded handler errors are never taken back.
LEMMA DataGrows ==
    ASSUME TypeOK, [Next]_vars
    PROVE  /\ failed \subseteq failed'
           /\ \A t \in Tables : db[t] \subseteq db'[t]
           /\ \A e \in Events : Persisted(e) => Persisted(e)'
<1>1. failed \subseteq failed'
  BY DEF Next, Progress, Swallowed, RunEnds, vars, durable, Boot, StartChain, BlockNumberFails,
         BeginRange, EndChain, Fetch, FetchFails, HandlerOk, HandlerErr, HandlerPanics,
         BeginFlush, FlushTable, FlushFails, PutCheckpoint, PutCheckpointFails, RecordRange,
         SignalReady, Shutdown, Crash, NewBlock
<1>2. ASSUME NEW t \in Tables
      PROVE  db[t] \subseteq db'[t]
  <2>1. ASSUME NEW u \in Tables, FlushTable(u)
        PROVE  db[t] \subseteq db'[t]
    BY <2>1 DEF TypeOK, FlushTable
  <2>2. ASSUME NEW u \in Tables, NEW rows \in SUBSET Events, FlushFails(u, rows)
        PROVE  db[t] \subseteq db'[t]
    BY <2>2 DEF TypeOK, FlushFails
  <2>3. CASE Shutdown
    BY <2>3 DEF Shutdown
  <2>4. CASE UNCHANGED db
    BY <2>4
  <2>5. QED
    BY <2>1, <2>2, <2>3, <2>4
       DEF Next, Progress, Swallowed, RunEnds, vars, durable, Boot, StartChain,
           BlockNumberFails, BeginRange, EndChain, Fetch, FetchFails, HandlerOk, HandlerErr,
           HandlerPanics, BeginFlush, PutCheckpoint, PutCheckpointFails, RecordRange,
           SignalReady, Crash, NewBlock
<1>3. ASSUME NEW e \in Events, Persisted(e)
      PROVE  Persisted(e)'
  BY <1>1, <1>2, <1>3, ConstantsAssumption DEF Persisted
<1>4. QED
  BY <1>1, <1>2, <1>3

\* While the plans and range_idx stand still, so does all that is derived from them.
LEMMA SamePlan ==
    ASSUME UNCHANGED <<planVars, rangeIdx>>
    PROVE  /\ Active' = Active
           /\ ContractsOn(chain)' = ContractsOn(chain)
           /\ \A c \in Contracts : EventsIn(c, rangeIdx)' = EventsIn(c, rangeIdx)
           /\ \A c \in Contracts : Frontier(c, rangeIdx)' = Frontier(c, rangeIdx)
BY DEF planVars, Active, ContractsOn, Has, EventsIn, From, To, Frontier

\* Steps that leave the checkpoints alone keep CheckpointSafety.
LEMMA SafetyKept ==
    ASSUME TypeOK, CheckpointSafety, UNCHANGED checkpoint,
           \A e \in Events : Persisted(e) => Persisted(e)'
    PROVE  CheckpointSafety'
BY DEF CheckpointSafety, Covered

\* Steps within one round keep CoverageInv.
LEMMA CoverageKept ==
    ASSUME CoverageInv, UNCHANGED <<planVars, rangeIdx>>, phase \in Running, phase' \in Running,
           \A e \in Events : Persisted(e) => Persisted(e)'
    PROVE  CoverageInv'
<1>1. ASSUME NEW c \in Contracts, ChainOf[c] \notin todo
      PROVE  Covered(c, target[ChainOf[c]] + 1)'
  BY <1>1 DEF CoverageInv, Covered, planVars, Running
<1>2. ASSUME NEW c \in ContractsOn(chain)
      PROVE  Covered(c, Frontier(c, rangeIdx))'
  BY <1>2, SamePlan DEF CoverageInv, Covered, ContractsOn
<1>3. QED
  BY <1>1, <1>2, SamePlan DEF CoverageInv, planVars, ContractsOn, Running

\* Whatever ends a run leaves a state that satisfies the invariant.
LEMMA DownStep ==
    ASSUME IInv, TypeOK', GoDown, UNCHANGED checkpoint,
           \A e \in Events : Persisted(e) => Persisted(e)'
    PROVE  IInv'
<1>1. CheckpointSafety'
  BY SafetyKept DEF IInv
<1>2. BufferInv' /\ CoverageInv' /\ RoundInv'
  BY DEF GoDown, BufferInv, CoverageInv, RoundInv, Running
<1>3. QED
  BY <1>1, <1>2 DEF IInv

-----------------------------------------------------------------------------
(* The inductive step, one step per action. *)

\* A round completed for contract c: its events up to the end of its range are
\* persisted, so the frontier moves to the next range.
LEMMA RoundCovers ==
    ASSUME TypeOK, ConstantsAssumption, NEW c \in Contracts,
           Covered(c, Frontier(c, rangeIdx)),
           Has(c, rangeIdx) => \A e \in EventsIn(c, rangeIdx) : Persisted(e)
    PROVE  /\ Covered(c, Frontier(c, rangeIdx + 1))
           /\ Has(c, rangeIdx) => Covered(c, To(c, rangeIdx) + 1)
<1> DEFINE tgt == target[ChainOf[c]]
           size == ChunkSize[ChainOf[c]]
<1>1. /\ planStart[c] \in Nat /\ tgt \in Nat /\ rangeIdx \in Nat
      /\ size \in Nat /\ size > 0
      /\ \A e \in Events : e.block \in Nat
      /\ StartBlock[c] \in Nat
  BY DEF TypeOK, ConstantsAssumption
<1>2. /\ From(c, rangeIdx) \in Nat
      /\ From(c, rangeIdx + 1) = From(c, rangeIdx) + size
      /\ To(c, rangeIdx) = IF From(c, rangeIdx) + size - 1 <= tgt
                             THEN From(c, rangeIdx) + size - 1 ELSE tgt
      /\ Has(c, rangeIdx) <=> From(c, rangeIdx) <= tgt
  BY <1>1, RangeFacts DEF From, To, Has, RangeTo, HasRange
<1>3. ASSUME Has(c, rangeIdx)
      PROVE  Covered(c, To(c, rangeIdx) + 1)
  BY <1>1, <1>2, <1>3 DEF Covered, EventsIn, Frontier
<1>4. Covered(c, Frontier(c, rangeIdx + 1))
  BY <1>1, <1>2, <1>3 DEF Covered, Frontier
<1>5. QED
  BY <1>3, <1>4

\* The checkpoint put_checkpoint writes is covered by committed data.
LEMMA PutCovers ==
    ASSUME IInv, NEW c \in Contracts, PutCheckpoint(c)
    PROVE  c \in Active /\ Covered(c, To(c, rangeIdx) + 1)
<1>1. c \in Active /\ c \in ContractsOn(chain) /\ Has(c, rangeIdx)
  BY DEF IInv, PutCheckpoint, RoundInv, Active
<1>2. QED
  BY <1>1, ConstantsAssumption, RoundCovers
     DEF IInv, PutCheckpoint, RoundInv, CoverageInv, Running

\* The invariant is inductive.
LEMMA InvStep == IInv /\ [Next]_vars => IInv'
<1> SUFFICES ASSUME IInv, [Next]_vars
             PROVE  IInv'
  OBVIOUS
<1> USE ConstantsAssumption
<1>a. TypeOK /\ TypeOK'
  BY TypeStep DEF IInv
<1>b. /\ failed \subseteq failed'
      /\ \A t \in Tables : db[t] \subseteq db'[t]
      /\ \A e \in Events : Persisted(e) => Persisted(e)'
  BY <1>a, DataGrows
<1>1. CASE Boot
  <2>1. CheckpointSafety'
    BY <1>1, <1>a, <1>b, SafetyKept DEF IInv, Boot, durable
  <2>2. BufferInv' /\ RoundInv'
    BY <1>1 DEF IInv, Boot, rangeVars, BufferInv, RoundInv
  <2>3. CoverageInv'
    BY <1>1 DEF Boot, CoverageInv, Running
  <2>4. QED
    BY <1>a, <2>1, <2>2, <2>3 DEF IInv
<1>2. ASSUME NEW ch \in Chains, NEW unread \in SUBSET Contracts, StartChain(ch, unread)
      PROVE  IInv'
  <2>1. CheckpointSafety'
    BY <1>2, <1>a, <1>b, SafetyKept DEF IInv, StartChain, durable
  <2>2. BufferInv' /\ RoundInv'
    BY <1>2 DEF IInv, StartChain, BufferInv, RoundInv
  <2>3. ASSUME NEW c \in Contracts, ChainOf[c] \notin todo
        PROVE  Covered(c, target[ChainOf[c]] + 1)'
    BY <1>2, <1>a, <1>b, <2>3 DEF IInv, TypeOK, StartChain, CoverageInv, Covered
  <2>4. ASSUME NEW c \in Contracts, ChainOf[c] = ch
        PROVE  Covered(c, Frontier(c, rangeIdx))'
    <3>1. From(c, rangeIdx)' = planStart'[c]
      BY <1>2, <1>a, <2>4 DEF TypeOK, StartChain, From, RangeFrom
    <3>2. Covered(c, planStart'[c])
      BY <1>2, <1>a, <2>4
         DEF IInv, TypeOK, StartChain, CheckpointSafety, Covered, PlanFrom
    <3>3. Frontier(c, rangeIdx)' <= planStart'[c]
      BY <3>1, <1>a DEF TypeOK, Frontier
    <3>4. QED
      BY <3>2, <3>3, <1>a, <1>b DEF TypeOK, Covered, Frontier, From, RangeFrom
  <2>5. CoverageInv'
    BY <1>2, <2>3, <2>4 DEF StartChain, CoverageInv, ContractsOn
  <2>6. QED
    BY <1>a, <2>1, <2>2, <2>5 DEF IInv
<1>3. CASE BlockNumberFails
  BY <1>3, <1>a, <1>b, DownStep DEF BlockNumberFails, durable
<1>4. CASE BeginRange
  <2>1. CheckpointSafety'
    BY <1>4, <1>a, <1>b, SafetyKept DEF IInv, BeginRange, durable
  <2>2. CoverageInv'
    BY <1>4, <1>b, CoverageKept DEF IInv, BeginRange, Running
  <2>3. BufferInv' /\ RoundInv'
    BY <1>4, SamePlan DEF IInv, BeginRange, BufferInv, RoundInv, Active
  <2>4. QED
    BY <1>a, <2>1, <2>2, <2>3 DEF IInv
<1>5. CASE EndChain
  <2>1. CheckpointSafety'
    BY <1>5, <1>a, <1>b, SafetyKept DEF IInv, EndChain, durable
  <2>2. BufferInv' /\ RoundInv'
    BY <1>5 DEF IInv, EndChain, rangeVars, BufferInv, RoundInv
  <2>3. ASSUME NEW c \in Contracts, ChainOf[c] = chain
        PROVE  Covered(c, target[ChainOf[c]] + 1)
    BY <1>5, <1>a, <2>3
       DEF IInv, EndChain, CoverageInv, Running, Active, ContractsOn, Has, HasRange,
           Frontier, From
  <2>4. CoverageInv'
    BY <1>5, <1>b, <2>3 DEF IInv, EndChain, CoverageInv, Covered, Running
  <2>5. QED
    BY <1>a, <2>1, <2>2, <2>4 DEF IInv
<1>6. ASSUME NEW c \in Contracts, Fetch(c)
      PROVE  IInv'
  <2>1. CheckpointSafety'
    BY <1>6, <1>a, <1>b, SafetyKept DEF IInv, Fetch, durable
  <2>2. CoverageInv'
    BY <1>6, <1>b, CoverageKept DEF IInv, Fetch, Running
  <2>3. BufferInv'
    BY <1>6 DEF IInv, Fetch, BufferInv
  <2>4. ASSUME NEW d \in Active, d \notin toFetch'
        PROVE  EventsIn(d, rangeIdx) \subseteq pending'
    BY <1>6, <2>4 DEF IInv, RoundInv, Fetch
  <2>5. RoundInv'
    BY <1>6, <2>4, SamePlan DEF Fetch, RoundInv, Active, ContractsOn
  <2>6. QED
    BY <1>a, <2>1, <2>2, <2>3, <2>5 DEF IInv
<1>7. CASE FetchFails
  BY <1>7, <1>a, <1>b, DownStep DEF FetchFails, durable
<1>8. ASSUME NEW e \in Events, HandlerOk(e)
      PROVE  IInv'
  <2>1. CheckpointSafety'
    BY <1>8, <1>a, <1>b, SafetyKept DEF IInv, HandlerOk, durable
  <2>2. CoverageInv'
    BY <1>8, <1>b, CoverageKept DEF IInv, HandlerOk, Running
  <2>3. BufferInv'
    BY <1>8 DEF HandlerOk, BufferInv
  <2>4. ASSUME NEW f \in Events, Held(f) \/ f = e
        PROVE  Held(f)'
    BY <1>8, <1>a, <2>4 DEF TypeOK, HandlerOk, AddRows, Held, durable
  <2>5. RoundInv'
    BY <1>8, <2>4, SamePlan DEF IInv, HandlerOk, RoundInv, Active, ContractsOn, EventsIn
  <2>6. QED
    BY <1>a, <2>1, <2>2, <2>3, <2>5 DEF IInv
<1>9. ASSUME NEW e \in Events, NEW tabs \in SUBSET Tables, HandlerErr(e, tabs)
      PROVE  IInv'
  <2>1. CheckpointSafety'
    BY <1>9, <1>a, <1>b, SafetyKept DEF IInv, HandlerErr
  <2>2. CoverageInv'
    BY <1>9, <1>b, CoverageKept DEF IInv, HandlerErr, Running
  <2>3. BufferInv'
    BY <1>9 DEF HandlerErr, BufferInv
  <2>4. ASSUME NEW f \in Events, Held(f) \/ f = e
        PROVE  Held(f)'
    BY <1>9, <1>a, <2>4 DEF TypeOK, HandlerErr, AddRows, Held
  <2>5. RoundInv'
    BY <1>9, <2>4, SamePlan DEF IInv, HandlerErr, RoundInv, Active, ContractsOn, EventsIn
  <2>6. QED
    BY <1>a, <2>1, <2>2, <2>3, <2>5 DEF IInv
<1>10. ASSUME NEW e \in Events, HandlerPanics(e)
       PROVE  IInv'
  BY <1>10, <1>a, <1>b, DownStep DEF HandlerPanics, durable
<1>11. CASE BeginFlush
  <2>1. CheckpointSafety'
    BY <1>11, <1>a, <1>b, SafetyKept DEF IInv, BeginFlush, durable
  <2>2. CoverageInv'
    BY <1>11, <1>b, CoverageKept DEF IInv, BeginFlush, Running
  <2>3. BufferInv'
    BY <1>11 DEF BeginFlush, BufferInv
  <2>4. ASSUME NEW f \in Events, Held(f)
        PROVE  Held(f)' /\ (toFlush' = {} => Persisted(f)')
    BY <1>11, <2>4, <1>a DEF TypeOK, BeginFlush, Held, Persisted, durable
  <2>5. RoundInv'
    BY <1>11, <2>4, SamePlan DEF IInv, BeginFlush, RoundInv, Active, ContractsOn, EventsIn
  <2>6. QED
    BY <1>a, <2>1, <2>2, <2>3, <2>5 DEF IInv
<1>12. ASSUME NEW t \in Tables, FlushTable(t)
       PROVE  IInv'
  <2>1. CheckpointSafety'
    BY <1>12, <1>a, <1>b, SafetyKept DEF IInv, FlushTable
  <2>2. CoverageInv'
    BY <1>12, <1>b, CoverageKept DEF IInv, FlushTable, Running
  <2>3. BufferInv'
    BY <1>12, <1>a DEF IInv, TypeOK, FlushTable, BufferInv
  <2>4. ASSUME NEW f \in Events, Held(f)
        PROVE  Held(f)'
    BY <1>12, <2>4, <1>a DEF TypeOK, FlushTable, Held
  <2>5. ASSUME NEW f \in Events, Held(f), toFlush' = {}
        PROVE  Persisted(f)'
    BY <1>12, <2>3, <2>4, <2>5 DEF FlushTable, BufferInv, Held, Persisted
  <2>6. RoundInv'
    BY <1>12, <2>4, <2>5, SamePlan
       DEF IInv, FlushTable, RoundInv, Active, ContractsOn, EventsIn
  <2>7. QED
    BY <1>a, <2>1, <2>2, <2>3, <2>6 DEF IInv
<1>13. ASSUME NEW t \in Tables, NEW rows \in SUBSET Events, FlushFails(t, rows)
       PROVE  IInv'
  BY <1>13, <1>a, <1>b, DownStep DEF FlushFails
<1>14. ASSUME NEW c \in Contracts, PutCheckpoint(c)
       PROVE  IInv'
  <2>1. c \in Active /\ Covered(c, To(c, rangeIdx) + 1)
    BY <1>14, PutCovers
  <2>2. CheckpointSafety'
    BY <1>14, <1>a, <1>b, <2>1 DEF IInv, TypeOK, PutCheckpoint, CheckpointSafety, Covered
  <2>3. CoverageInv'
    BY <1>14, <1>b, CoverageKept DEF IInv, PutCheckpoint, Running
  <2>4. BufferInv' /\ RoundInv'
    BY <1>14, <1>b, SamePlan
       DEF IInv, PutCheckpoint, BufferInv, RoundInv, Active, ContractsOn, EventsIn
  <2>5. QED
    BY <1>a, <2>2, <2>3, <2>4 DEF IInv
<1>15. ASSUME NEW c \in Contracts, PutCheckpointFails(c)
       PROVE  IInv'
  <2>1. CheckpointSafety'
    BY <1>15, <1>a, <1>b, SafetyKept DEF IInv, PutCheckpointFails, durable
  <2>2. CoverageInv'
    BY <1>15, <1>b, CoverageKept DEF IInv, PutCheckpointFails, Running
  <2>3. BufferInv' /\ RoundInv'
    BY <1>15, <1>b, SamePlan
       DEF IInv, PutCheckpointFails, BufferInv, RoundInv, Active, ContractsOn, EventsIn
  <2>4. QED
    BY <1>a, <2>1, <2>2, <2>3 DEF IInv
<1>16. CASE RecordRange
  <2>1. CheckpointSafety'
    BY <1>16, <1>a, <1>b, SafetyKept DEF IInv, RecordRange, durable
  <2>2. BufferInv' /\ RoundInv'
    BY <1>16 DEF IInv, RecordRange, BufferInv, RoundInv
  <2>3. ASSUME NEW c \in ContractsOn(chain)
        PROVE  Covered(c, Frontier(c, rangeIdx))'
    <3>1. Covered(c, Frontier(c, rangeIdx + 1))
      BY <1>16, <1>a, RoundCovers
         DEF IInv, RecordRange, CoverageInv, RoundInv, Running, Active, ContractsOn
    <3>2. Frontier(c, rangeIdx)' = Frontier(c, rangeIdx + 1)
      BY <1>16 DEF RecordRange, planVars, Frontier, From
    <3>3. QED
      BY <3>1, <3>2, <1>b DEF Covered
  <2>4. CoverageInv'
    BY <1>16, <1>b, <2>3 DEF IInv, RecordRange, planVars, CoverageInv, Covered, Running, ContractsOn
  <2>5. QED
    BY <1>a, <2>1, <2>2, <2>4 DEF IInv
<1>17. CASE SignalReady
  <2>1. CheckpointSafety'
    BY <1>17, <1>a, <1>b, SafetyKept DEF IInv, SignalReady, durable
  <2>2. BufferInv' /\ RoundInv'
    BY <1>17 DEF IInv, SignalReady, rangeVars, BufferInv, RoundInv
  <2>3. CoverageInv'
    BY <1>17, <1>b DEF IInv, SignalReady, planVars, CoverageInv, Covered, Running
  <2>4. QED
    BY <1>a, <2>1, <2>2, <2>3 DEF IInv
<1>18. CASE Shutdown
  BY <1>18, <1>a, <1>b, DownStep DEF Shutdown
<1>19. CASE Crash
  BY <1>19, <1>a, <1>b, DownStep DEF Crash, durable
<1>20. ASSUME NEW ch \in Chains, NewBlock(ch)
       PROVE  IInv'
  <2>1. UNCHANGED <<checkpoint, db, failed, phase, planVars, rangeVars>>
    BY <1>20 DEF NewBlock
  <2>2. QED
    BY <1>a, <2>1, SamePlan
       DEF IInv, CheckpointSafety, BufferInv, CoverageInv, RoundInv, Covered, Persisted, Held,
           planVars, rangeVars, ContractsOn, Active, EventsIn, Frontier, From, To, Has, Running
<1>21. CASE UNCHANGED vars
  BY <1>21, <1>a
     DEF IInv, CheckpointSafety, BufferInv, CoverageInv, RoundInv, Covered, Persisted, Held,
         vars, durable, planVars, rangeVars, ContractsOn, Active, EventsIn, Frontier, From,
         To, Has, Running
<1>22. QED
  BY <1>1, <1>2, <1>3, <1>4, <1>5, <1>6, <1>7, <1>8, <1>9, <1>10, <1>11, <1>12, <1>13,
     <1>14, <1>15, <1>16, <1>17, <1>18, <1>19, <1>20, <1>21
     DEF Next, Progress, Swallowed, RunEnds

\* The invariant holds initially.
LEMMA InvInit == Init => IInv
BY ConstantsAssumption
   DEF Init, IInv, TypeOK, CheckpointSafety, BufferInv, CoverageInv, RoundInv, Phases, Running

\* The invariant holds in every reachable state.
LEMMA Invariance == Spec => []IInv
BY InvInit, InvStep, PTL DEF Spec

\* No checkpoint ever runs ahead of the committed data, for any configuration.
THEOREM CheckpointIsSafe == Spec => []CheckpointSafety
<1>1. IInv => CheckpointSafety
  BY DEF IInv
<1>2. QED
  BY <1>1, Invariance, PTL

\* When the runner signals readiness every contract is indexed up to its target.
THEOREM ReadyIsTruthful == Spec => []ReadyMeansIndexed
<1>1. IInv => ReadyMeansIndexed
  BY DEF IInv, CoverageInv, ReadyMeansIndexed
<1>2. QED
  BY <1>1, Invariance, PTL

-----------------------------------------------------------------------------
(* Refinement. *)

\* The backfill implements CheckpointedIndex: every one of its steps persists
\* more events, sets one checkpoint to a covered block, or changes neither.
THEOREM Refinement == Spec => ImplementsCheckpointedIndex
<1> DEFINE P == {e \in Events : Persisted(e)}
<1>1. Init => Index!AbsInit
  BY DEF Init, Index!AbsInit
<1>2. IInv /\ [Next]_vars => [Index!AbsNext]_(Index!absVars)
  <2> SUFFICES ASSUME IInv, [Next]_vars
               PROVE  [Index!AbsNext]_(Index!absVars)
    OBVIOUS
  <2>1. P \subseteq P' /\ P' \subseteq Events
    BY DataGrows DEF IInv
  <2>2. CASE UNCHANGED checkpoint
    BY <2>1, <2>2 DEF Index!AbsNext, Index!Persist
  <2>3. ASSUME NEW c \in Contracts, PutCheckpoint(c)
        PROVE  Index!AbsNext
    <3>1. UNCHANGED <<failed, db>>
      BY <2>3 DEF PutCheckpoint
    <3>2. /\ To(c, rangeIdx) \in Nat
          /\ checkpoint' = [checkpoint EXCEPT ![c] = To(c, rangeIdx) + 1]
          /\ checkpoint'[c] = To(c, rangeIdx) + 1
      BY <2>3, RangeFacts, ConstantsAssumption DEF IInv, TypeOK, PutCheckpoint, To
    <3>3. Index!Complete(c, checkpoint'[c])
      BY <2>3, <3>2, PutCovers DEF Index!Complete, Covered
    <3>4. UNCHANGED P
      <4>1. \A e \in Events : Persisted(e)' <=> Persisted(e)
        BY <3>1 DEF Persisted
      <4>2. QED
        BY <4>1
    <3>5. Index!SetMark(c)
      <4>1. checkpoint' = [checkpoint EXCEPT ![c] = checkpoint'[c]]
        BY <3>2
      <4>2. checkpoint'[c] \in Nat
        BY <3>2
      <4>3. QED
        BY ONLY <4>1, <4>2, <3>3, <3>4 DEF Index!SetMark
    <3>6. QED
      BY <3>5 DEF Index!AbsNext
  <2>4. QED
    BY <2>2, <2>3
       DEF Next, Progress, Swallowed, RunEnds, vars, durable, Boot, StartChain,
           BlockNumberFails, BeginRange, EndChain, Fetch, FetchFails, HandlerOk, HandlerErr,
           HandlerPanics, BeginFlush, FlushTable, FlushFails, PutCheckpointFails, RecordRange,
           SignalReady, Shutdown, Crash, NewBlock
<1>3. QED
  BY <1>1, <1>2, Invariance, PTL DEF Spec, ImplementsCheckpointedIndex, Index!AbsSpec

-----------------------------------------------------------------------------
(* The order of the handlers. *)

\* The merged events are those of ranges of the current round, so none is beyond
\* the end of its contract's range; between rounds there are none.
PendingInv ==
    /\ phase \in {"fetch", "handle"} =>
         \A e \in pending :
            e.contract \in ContractsOn(chain) /\ e.block <= To(e.contract, rangeIdx)
    /\ phase \notin {"fetch", "handle"} => pending = {}
    /\ phase = "fetch" => toFetch \subseteq ContractsOn(chain)

\* Every step keeps the merged events within the round.
LEMMA PendingStep == PendingInv /\ [Next]_vars => PendingInv'
<1> SUFFICES ASSUME PendingInv, [Next]_vars
             PROVE  PendingInv'
  OBVIOUS
<1>1. ASSUME GoDown
      PROVE  PendingInv'
  BY <1>1 DEF GoDown, PendingInv
<1>2. CASE BeginRange
  BY <1>2 DEF BeginRange, PendingInv, planVars, Active, ContractsOn
<1>3. ASSUME NEW c \in Contracts, Fetch(c)
      PROVE  PendingInv'
  <2>1. /\ phase = "fetch" /\ phase' \in {"fetch", "handle"} /\ UNCHANGED <<planVars, rangeIdx>>
        /\ c \in toFetch /\ toFetch' \subseteq toFetch
        /\ pending' = pending \cup EventsIn(c, rangeIdx)
    BY <1>3 DEF Fetch
  <2>2. \A d : To(d, rangeIdx)' = To(d, rangeIdx)
    BY <2>1 DEF To, planVars
  <2>3. \A e \in pending' :
           e.contract \in ContractsOn(chain) /\ e.block <= To(e.contract, rangeIdx)
    BY <2>1 DEF PendingInv, EventsIn
  <2>4. QED
    BY <2>1, <2>2, <2>3 DEF PendingInv, planVars, ContractsOn
<1>4. ASSUME pending' \subseteq pending, phase = "handle", phase' = "handle",
             UNCHANGED <<planVars, rangeIdx>>
      PROVE  PendingInv'
  BY <1>4 DEF PendingInv, planVars, ContractsOn, To
<1>5. ASSUME UNCHANGED pending, pending = {}, phase' # "fetch"
      PROVE  PendingInv'
  BY <1>5 DEF PendingInv
<1>6. ASSUME UNCHANGED <<pending, phase, toFetch, planVars, rangeIdx>>
      PROVE  PendingInv'
  BY <1>6 DEF PendingInv, planVars, ContractsOn, To
<1>7. ASSUME NEW e \in Events, HandlerOk(e)
      PROVE  PendingInv'
  BY <1>4, <1>7 DEF HandlerOk
<1>8. ASSUME NEW e \in Events, NEW tabs \in SUBSET Tables, HandlerErr(e, tabs)
      PROVE  PendingInv'
  BY <1>4, <1>8 DEF HandlerErr
<1>9. ASSUME NEW ch \in Chains, NewBlock(ch)
      PROVE  PendingInv'
  BY <1>6, <1>9 DEF NewBlock, rangeVars
<1>10. CASE UNCHANGED vars
  BY <1>6, <1>10 DEF vars, rangeVars
<1>11. QED
  BY <1>1, <1>2, <1>3, <1>5, <1>7, <1>8, <1>9, <1>10
     DEF Next, Progress, Swallowed, RunEnds, Boot, StartChain, BlockNumberFails, EndChain,
         FetchFails, HandlerPanics, BeginFlush, FlushTable, FlushFails, PutCheckpoint,
         PutCheckpointFails, RecordRange, SignalReady, Shutdown, Crash, rangeVars, PendingInv

\* For any configuration, the handlers of contracts whose plans start at the same
\* block are called in block order, within a round and from round to round.
THEOREM HandlersInBlockOrder == Spec => []AlignedBlockOrder
<1>1. Init => PendingInv
  BY DEF Init, PendingInv
<1>2. TypeOK /\ PendingInv => AlignedBlockOrder
  <2> SUFFICES ASSUME TypeOK, PendingInv, phase = "handle",
                      NEW e \in pending, NEW f \in pending \cup Later, IsNext(e),
                      planStart[e.contract] = planStart[f.contract]
               PROVE  ~Before(f, e)
    BY DEF AlignedBlockOrder
  <2>0. /\ e \in Events /\ f \in Events
        /\ e.block \in Nat /\ e.logIndex \in Nat /\ f.block \in Nat /\ f.logIndex \in Nat
    BY ConstantsAssumption DEF TypeOK, Later
  <2>1. CASE f \in pending
    BY <2>0, <2>1 DEF IsNext, Before
  <2>2. CASE f \in Later
    <3>1. /\ ChainOf[e.contract] = chain /\ ChainOf[f.contract] = chain
          /\ e.contract \in Contracts /\ e.block <= To(e.contract, rangeIdx)
          /\ From(f.contract, rangeIdx + 1) <= f.block
      BY <2>2 DEF PendingInv, Later, ContractsOn
    <3>2. /\ planStart[e.contract] \in Nat /\ target[chain] \in Nat /\ rangeIdx \in Nat
          /\ ChunkSize[chain] \in Nat \ {0}
      BY <3>1, ConstantsAssumption DEF TypeOK
    <3>3. From(f.contract, rangeIdx + 1) = From(e.contract, rangeIdx) + ChunkSize[chain]
      <4>1. /\ From(f.contract, rangeIdx + 1)
                 = RangeFrom(planStart[e.contract], ChunkSize[chain], rangeIdx + 1)
            /\ From(e.contract, rangeIdx)
                 = RangeFrom(planStart[e.contract], ChunkSize[chain], rangeIdx)
        BY <3>1 DEF From
      <4>2. RangeFrom(planStart[e.contract], ChunkSize[chain], rangeIdx + 1)
              = RangeFrom(planStart[e.contract], ChunkSize[chain], rangeIdx) + ChunkSize[chain]
        BY <3>2, RangeNext
      <4>3. QED
        BY <4>1, <4>2
    <3>4. From(e.contract, rangeIdx) \in Nat
      BY <3>1, <3>2, RangeFacts DEF From
    <3>5. To(e.contract, rangeIdx) <= From(e.contract, rangeIdx) + ChunkSize[chain] - 1
      BY <3>1, <3>2, <3>4 DEF To, From, RangeTo
    <3>6. To(e.contract, rangeIdx) \in Nat
      BY <3>1, <3>2, RangeFacts DEF To
    <3>7. e.block < f.block
      BY <2>0, <3>1, <3>2, <3>3, <3>4, <3>5, <3>6
    <3>8. QED
      BY <2>0, <3>7 DEF Before
  <2>3. QED
    BY <2>1, <2>2
<1>3. QED
  BY <1>1, <1>2, PendingStep, TypeCorrect, PTL DEF Spec

-----------------------------------------------------------------------------
(* The direction of the checkpoints. *)

\* A contract whose plan was made from its checkpoint has not been checkpointed
\* beyond the round it is in; once its checkpoint of the round is written, not
\* beyond the next one.
Ahead(c) == IF phase = "ckpt" /\ c \notin toCkpt THEN From(c, rangeIdx + 1) ELSE From(c, rangeIdx)

ResumeInv ==
    phase \in Running =>
        \A c \in ContractsOn(chain) :
            checkpoint[c] # NoCheckpoint /\ planStart[c] # StartBlock[c] => checkpoint[c] <= Ahead(c)

\* The first blocks of two consecutive ranges of one plan.
LEMMA FromFacts ==
    ASSUME TypeOK, NEW c \in Contracts
    PROVE  /\ From(c, rangeIdx) \in Nat /\ From(c, rangeIdx + 1) \in Nat
           /\ From(c, rangeIdx) < From(c, rangeIdx + 1)
           /\ To(c, rangeIdx) \in Nat /\ To(c, rangeIdx) < From(c, rangeIdx + 1)
           /\ Has(c, rangeIdx) => From(c, rangeIdx) <= To(c, rangeIdx)
<1> DEFINE ps == planStart[c]
           cs == ChunkSize[ChainOf[c]]
           tgt == target[ChainOf[c]]
<1>1. ps \in Nat /\ cs \in Nat \ {0} /\ tgt \in Nat /\ rangeIdx \in Nat
  BY ConstantsAssumption DEF TypeOK
<1>2. /\ From(c, rangeIdx) = RangeFrom(ps, cs, rangeIdx)
      /\ From(c, rangeIdx + 1) = RangeFrom(ps, cs, rangeIdx + 1)
      /\ To(c, rangeIdx) = RangeTo(ps, tgt, cs, rangeIdx)
      /\ Has(c, rangeIdx) <=> RangeFrom(ps, cs, rangeIdx) <= tgt
  BY DEF From, To, Has, HasRange
<1> HIDE DEF ps, cs, tgt
<1>3. /\ RangeFrom(ps, cs, rangeIdx) \in Nat
      /\ RangeFrom(ps, cs, rangeIdx + 1) = RangeFrom(ps, cs, rangeIdx) + cs
  BY <1>1, RangeNext
<1>4. RangeTo(ps, tgt, cs, rangeIdx) \in Nat
  BY <1>1, RangeFacts
<1>5. QED
  BY <1>1, <1>2, <1>3, <1>4 DEF RangeTo

\* Every step keeps checkpoints from running ahead of their round.
LEMMA ResumeStep == IInv /\ ResumeInv /\ [Next]_vars => ResumeInv'
<1> SUFFICES ASSUME IInv, ResumeInv, [Next]_vars
             PROVE  ResumeInv'
  OBVIOUS
<1>0. TypeOK
  BY DEF IInv
<1>1. ASSUME phase' \notin Running
      PROVE  ResumeInv'
  BY <1>1 DEF ResumeInv
<1>2. ASSUME NEW ch \in Chains, NEW unread \in SUBSET Contracts, StartChain(ch, unread)
      PROVE  ResumeInv'
  <2> SUFFICES ASSUME NEW c \in Contracts, ChainOf[c] = ch, checkpoint[c] # NoCheckpoint,
                      planStart'[c] # StartBlock[c]
               PROVE  checkpoint[c] <= Ahead(c)'
    BY <1>2 DEF StartChain, durable, ResumeInv, ContractsOn
  <2>1. planStart'[c] = checkpoint[c] /\ checkpoint[c] \in Nat
    BY <1>0, <1>2 DEF StartChain, PlanFrom, TypeOK
  <2>2. From(c, rangeIdx)' = planStart'[c]
    <3>1. From(c, rangeIdx)' = RangeFrom(planStart'[c], ChunkSize[ChainOf[c]], 0)
      BY <1>2 DEF StartChain, From
    <3>2. planStart'[c] \in Nat /\ ChunkSize[ChainOf[c]] \in Nat \ {0}
      BY <2>1, ConstantsAssumption
    <3>3. QED
      BY <3>1, <3>2, RangeNext
  <2>3. QED
    BY <1>2, <2>1, <2>2 DEF StartChain, Ahead
<1>3. ASSUME UNCHANGED <<checkpoint, planVars, rangeIdx>>, phase \in Running,
             phase' \in Running, phase # "ckpt"
      PROVE  ResumeInv'
  <2> SUFFICES ASSUME NEW c \in ContractsOn(chain), checkpoint[c] # NoCheckpoint,
                      planStart[c] # StartBlock[c]
               PROVE  checkpoint[c] <= Ahead(c)'
    BY <1>3 DEF ResumeInv, planVars, ContractsOn
  <2>1. c \in Contracts /\ checkpoint[c] \in Nat
    BY <1>0 DEF TypeOK, ContractsOn
  <2>2. checkpoint[c] <= From(c, rangeIdx)
    BY <1>3 DEF ResumeInv, Ahead
  <2>3. Ahead(c)' \in {From(c, rangeIdx), From(c, rangeIdx + 1)}
    BY <1>3 DEF Ahead, From, planVars
  <2>4. QED
    BY <1>0, <2>1, <2>2, <2>3, FromFacts
<1>4. ASSUME UNCHANGED <<checkpoint, planVars, rangeIdx, phase, toCkpt>>
      PROVE  ResumeInv'
  BY <1>4 DEF ResumeInv, planVars, ContractsOn, Ahead, From
<1>5. ASSUME NEW d \in Contracts, PutCheckpoint(d) \/ PutCheckpointFails(d)
      PROVE  ResumeInv'
  <2>0. /\ phase = "ckpt" /\ phase' = "ckpt" /\ UNCHANGED <<planVars, rangeIdx>>
        /\ toCkpt' = toCkpt \ {d} /\ d \in toCkpt
        /\ \A c \in Contracts : \/ checkpoint'[c] = checkpoint[c]
                                \/ c = d /\ checkpoint'[c] = To(c, rangeIdx) + 1
    BY <1>0, <1>5 DEF PutCheckpoint, PutCheckpointFails, TypeOK, durable
  <2> SUFFICES ASSUME NEW c \in ContractsOn(chain), checkpoint'[c] # NoCheckpoint,
                      planStart[c] # StartBlock[c]
               PROVE  checkpoint'[c] <= Ahead(c)'
    BY <2>0 DEF ResumeInv, planVars, ContractsOn
  <2>1. c \in Contracts /\ checkpoint[c] \in Nat \cup {NoCheckpoint}
    BY <1>0 DEF TypeOK, ContractsOn
  <2>2. Ahead(c)' = IF c \notin toCkpt \/ c = d THEN From(c, rangeIdx + 1) ELSE From(c, rangeIdx)
    BY <2>0 DEF Ahead, From, planVars
  <2>3. CASE c = d
    <3>1. Ahead(c)' = From(c, rangeIdx + 1) /\ Ahead(c) = From(c, rangeIdx)
      BY <2>0, <2>2, <2>3 DEF Ahead
    <3>2. CASE checkpoint'[c] = To(c, rangeIdx) + 1
      BY <1>0, <2>1, <3>1, <3>2, FromFacts
    <3>3. CASE checkpoint'[c] = checkpoint[c]
      <4>1. checkpoint[c] <= From(c, rangeIdx) /\ checkpoint[c] \in Nat
        BY <2>0, <2>1, <3>1, <3>3 DEF ResumeInv, Running
      <4>2. QED
        BY <1>0, <2>1, <3>1, <3>3, <4>1, FromFacts
    <3>4. QED
      BY <2>0, <2>1, <3>2, <3>3
  <2>4. CASE c # d
    <3>1. checkpoint'[c] = checkpoint[c] /\ Ahead(c)' = Ahead(c)
      BY <2>0, <2>1, <2>2, <2>4 DEF Ahead
    <3>2. QED
      BY <2>0, <3>1 DEF ResumeInv, Running
  <2>5. QED
    BY <2>3, <2>4
<1>6. CASE RecordRange
  <2>0. /\ phase = "ckpt" /\ phase' = "range" /\ UNCHANGED <<checkpoint, planVars>>
        /\ rangeIdx' = rangeIdx + 1 /\ toCkpt = {}
    BY <1>6 DEF RecordRange, durable
  <2> SUFFICES ASSUME NEW c \in ContractsOn(chain), checkpoint[c] # NoCheckpoint,
                      planStart[c] # StartBlock[c]
               PROVE  checkpoint[c] <= Ahead(c)'
    BY <2>0 DEF ResumeInv, planVars, ContractsOn
  <2>1. Ahead(c)' = From(c, rangeIdx + 1) /\ Ahead(c) = From(c, rangeIdx + 1)
    BY <2>0 DEF Ahead, From, planVars
  <2>2. QED
    BY <2>0, <2>1 DEF ResumeInv, Running
<1>7. CASE UNCHANGED vars
  BY <1>4, <1>7 DEF vars, durable, rangeVars
<1>8. ASSUME NEW ch \in Chains, NewBlock(ch)
      PROVE  ResumeInv'
  BY <1>4, <1>8 DEF NewBlock, rangeVars
<1>9. QED
  BY <1>1, <1>2, <1>3, <1>5, <1>6, <1>7, <1>8
     DEF Next, Progress, Swallowed, RunEnds, Running, GoDown, durable, Boot, BlockNumberFails,
         BeginRange, EndChain, Fetch, FetchFails, HandlerOk, HandlerErr, HandlerPanics,
         BeginFlush, FlushTable, FlushFails, SignalReady, Shutdown, Crash

\* For any configuration, a checkpoint only moves back in a run that could not
\* read it and planned the contract from its start block.
THEOREM CheckpointsMoveForward == Spec => CheckpointMovesBackOnlyWhenUnread
<1> DEFINE Forward == \A c \in Contracts :
              checkpoint[c] # NoCheckpoint /\ checkpoint'[c] # checkpoint[c]
                => \/ checkpoint'[c] > checkpoint[c]
                   \/ planStart[c] = StartBlock[c]
<1>1. Init => ResumeInv
  BY DEF Init, ResumeInv, Running
<1>2. IInv /\ ResumeInv /\ [Next]_vars => Forward
  <2> SUFFICES ASSUME IInv, ResumeInv, [Next]_vars, NEW c \in Contracts,
                      checkpoint[c] # NoCheckpoint, checkpoint'[c] # checkpoint[c],
                      planStart[c] # StartBlock[c]
               PROVE  checkpoint'[c] > checkpoint[c]
    OBVIOUS
  <2>0. TypeOK /\ checkpoint[c] \in Nat
    BY DEF IInv, TypeOK
  <2>1. PICK d \in Contracts : PutCheckpoint(d)
    BY DEF Next, Progress, Swallowed, RunEnds, vars, durable, Boot, StartChain,
           BlockNumberFails, BeginRange, EndChain, Fetch, FetchFails, HandlerOk, HandlerErr,
           HandlerPanics, BeginFlush, FlushTable, FlushFails, PutCheckpointFails, RecordRange,
           SignalReady, Shutdown, Crash, NewBlock
  <2>2. c = d /\ checkpoint'[c] = To(c, rangeIdx) + 1
    BY <2>0, <2>1 DEF PutCheckpoint, TypeOK
  <2>3. c \in Active
    BY <2>1, <2>2, PutCovers
  <2>4. c \in ContractsOn(chain) /\ Has(c, rangeIdx)
    BY <2>3 DEF Active
  <2>5. checkpoint[c] <= From(c, rangeIdx)
    BY <2>1, <2>2, <2>4 DEF PutCheckpoint, ResumeInv, Ahead, Running
  <2>6. QED
    BY <2>0, <2>2, <2>4, <2>5, FromFacts
<1>3. QED
  BY <1>1, <1>2, ResumeStep, Invariance, PTL DEF Spec, CheckpointMovesBackOnlyWhenUnread

-----------------------------------------------------------------------------
(* Sums over finite sets.  MapThenSumSet is a recursive function on the     *)
(* subsets of its argument; that there is one, and what it returns, is      *)
(* proved with a least counterexample.                                      *)

\* A nonempty set of naturals has a least element.
LEMMA LeastNatural ==
    ASSUME NEW T \in SUBSET Nat, T # {}
    PROVE  \E n \in T : \A m \in T : n <= m
<1> DEFINE R == {ss \in Nat \X Nat : ss[1] < ss[2]}
<1>1. IsWellFoundedOn(R, Nat)
  BY NatLessThanWellFounded, Zenon DEF OpToRel
<1>2. PICK n \in T : \A y \in T : ~(<<y, n>> \in R)
  BY <1>1, WFMin, Zenon
<1>3. ASSUME NEW m \in T
      PROVE  n <= m
  <2>1. ~(m < n)
    <3>1. ASSUME m < n PROVE <<m, n>> \in R
      <4>1. <<m, n>> \in Nat \X Nat /\ <<m, n>>[1] < <<m, n>>[2]
        BY <3>1
      <4>2. QED
        BY <4>1, Zenon
    <3>2. QED
      BY <1>2, <3>1, Zenon
  <2>2. QED
    BY <2>1
<1>4. QED
  BY <1>3

\* The element a sum takes out of a set.
Chosen(s) == CHOOSE x \in s : TRUE

\* The recursion of MapThenSumSet for the values of function f.
SumsOn(g, D, f) ==
    \A s \in D : g[s] = IF s = {} THEN 0 ELSE f[Chosen(s)] + g[s \ {Chosen(s)}]

Sized(S, n) == {s \in SUBSET S : Cardinality(s) <= n}

\* Taking the chosen element out of a subset of a finite set.
LEMMA ChosenFacts ==
    ASSUME NEW S, IsFiniteSet(S), NEW s \in SUBSET S
    PROVE  /\ Cardinality(s) \in Nat /\ Cardinality(s) <= Cardinality(S)
           /\ Cardinality(s) = 0 <=> s = {}
           /\ s # {} => /\ Chosen(s) \in s
                        /\ s \ {Chosen(s)} \in SUBSET S
                        /\ Cardinality(s \ {Chosen(s)}) = Cardinality(s) - 1
<1>1. IsFiniteSet(s) /\ Cardinality(s) \in Nat /\ Cardinality(s) <= Cardinality(S)
  BY FS_Subset, FS_CardinalityType
<1>2. Cardinality(s) = 0 <=> s = {}
  BY <1>1, FS_EmptySet
<1>3. QED
  BY <1>1, <1>2, FS_RemoveElement DEF Chosen

\* There is a function with that recursion on the subsets of any size.
LEMMA SumExists ==
    ASSUME NEW S, IsFiniteSet(S), NEW f \in [S -> Nat], NEW k \in Nat
    PROVE  \E g \in [Sized(S, k) -> Nat] : SumsOn(g, Sized(S, k), f)
<1> DEFINE T == {n \in Nat : ~ \E g \in [Sized(S, n) -> Nat] : SumsOn(g, Sized(S, n), f)}
<1> SUFFICES ASSUME k \in T
             PROVE  FALSE
  OBVIOUS
<1>1. PICK n \in T : \A m \in T : n <= m
  BY LeastNatural
<1>2. CASE n = 0
  <2> DEFINE g == [s \in Sized(S, 0) |-> 0]
  <2>1. ASSUME NEW s \in Sized(S, 0) PROVE s = {}
    <3>1. s \in SUBSET S /\ Cardinality(s) <= 0
      BY DEF Sized
    <3>2. Cardinality(s) \in Nat /\ (Cardinality(s) = 0 <=> s = {})
      BY <3>1, ChosenFacts
    <3>3. QED
      BY <3>1, <3>2
  <2>2. g \in [Sized(S, 0) -> Nat] /\ SumsOn(g, Sized(S, 0), f)
    BY <2>1 DEF SumsOn
  <2>3. QED
    BY <1>2, <2>2
<1>3. CASE n # 0
  <2>1. n - 1 \in Nat /\ n - 1 \notin T
    BY <1>1, <1>3
  <2>2. PICK h \in [Sized(S, n - 1) -> Nat] : SumsOn(h, Sized(S, n - 1), f)
    BY <2>1
  <2> DEFINE g == [s \in Sized(S, n) |->
                     IF s = {} THEN 0 ELSE f[Chosen(s)] + h[s \ {Chosen(s)}]]
  <2>3. \A s \in Sized(S, n) :
           s # {} => /\ s \ {Chosen(s)} \in Sized(S, n - 1)
                     /\ s \ {Chosen(s)} \in Sized(S, n)
                     /\ Chosen(s) \in S
    BY <1>1, ChosenFacts DEF Sized
  <2>4. g \in [Sized(S, n) -> Nat]
    BY <2>2, <2>3
  <2>5. \A s \in Sized(S, n - 1) : s \in Sized(S, n) /\ h[s] = g[s]
    BY <1>1, <2>2, ChosenFacts DEF SumsOn, Sized
  <2>6. SumsOn(g, Sized(S, n), f)
    BY <2>3, <2>5 DEF SumsOn
  <2>7. QED
    BY <2>4, <2>6
<1>4. QED
  BY <1>2, <1>3

\* A sum of naturals is a natural and at least each of its terms.
LEMMA SumBounds ==
    ASSUME NEW S, IsFiniteSet(S), NEW f \in [S -> Nat], NEW g, SumsOn(g, SUBSET S, f)
    PROVE  g[S] \in Nat /\ \A x \in S : f[x] <= g[S]
<1> DEFINE Good(s) == g[s] \in Nat /\ \A x \in s : f[x] <= g[s]
           T == {n \in Nat : \E s \in SUBSET S : Cardinality(s) = n /\ ~Good(s)}
<1> SUFFICES ASSUME ~Good(S)
             PROVE  FALSE
  OBVIOUS
<1>1. Cardinality(S) \in T
  BY ChosenFacts
<1>2. PICK n \in T : \A m \in T : n <= m
  BY <1>1, LeastNatural
<1>3. PICK s \in SUBSET S : Cardinality(s) = n /\ ~Good(s)
  BY <1>2
<1>4. s # {}
  BY <1>3 DEF SumsOn
<1> DEFINE y == Chosen(s)
           r == s \ {y}
<1>5. /\ y \in s /\ r \in SUBSET S /\ Cardinality(r) = n - 1
      /\ g[s] = f[y] + g[r]
  BY <1>3, <1>4, ChosenFacts DEF SumsOn
<1>6. Good(r)
  <2>1. Cardinality(r) \in Nat /\ Cardinality(r) \notin T
    BY <1>2, <1>5, ChosenFacts
  <2>2. QED
    BY <1>5, <2>1
<1>7. f[y] \in Nat /\ \A x \in s : f[x] \in Nat
  BY <1>5
<1>8. Good(s)
  <2>1. g[s] \in Nat
    BY <1>5, <1>6, <1>7
  <2>2. ASSUME NEW x \in s PROVE f[x] <= g[s]
    <3>1. CASE x = y
      BY <1>5, <1>6, <1>7, <3>1
    <3>2. CASE x \in r
      <4>1. f[x] <= g[r] /\ g[r] \in Nat
        BY <1>6, <3>2
      <4>2. QED
        BY <1>5, <1>7, <4>1
    <3>3. QED
      BY <3>1, <3>2
  <2>3. QED
    BY <2>1, <2>2
<1>9. QED
  BY <1>3, <1>8

-----------------------------------------------------------------------------
(* Progress. *)

\* total_blocks is a natural and no smaller than the plan of any contract.
LEMMA PlannedFacts ==
    ASSUME TypeOK
    PROVE  /\ PlannedBlocks \in Nat
           /\ \A c \in ContractsOn(chain) :
                TotalBlocks(planStart[c], target[chain]) <= PlannedBlocks
<1> DEFINE S == ContractsOn(chain)
           F(c) == TotalBlocks(planStart[c], target[chain])
           f == [c \in S |-> F(c)]
           H(g) == g = [s \in SUBSET S |->
                          IF s = {} THEN 0
                          ELSE F(CHOOSE x \in s : TRUE) + g[s \ {CHOOSE x \in s : TRUE}]]
<1>1. IsFiniteSet(S)
  BY ConstantsAssumption, FS_Subset DEF ContractsOn
<1>2. f \in [S -> Nat]
  BY DEF TotalBlocks, TypeOK, ContractsOn
<1>3. Sized(S, Cardinality(S)) = SUBSET S /\ Cardinality(S) \in Nat
  BY <1>1, ChosenFacts DEF Sized
<1>4. PICK g \in [SUBSET S -> Nat] : SumsOn(g, SUBSET S, f)
  <2> HIDE DEF S, f
  <2>1. \E g \in [Sized(S, Cardinality(S)) -> Nat] : SumsOn(g, Sized(S, Cardinality(S)), f)
    BY <1>1, <1>2, <1>3, SumExists
  <2>2. QED
    BY <1>3, <2>1
<1>5. \A s \in SUBSET S : s # {} => Chosen(s) \in S /\ f[Chosen(s)] = F(Chosen(s))
  BY <1>1, ChosenFacts
<1>6. H(g)
  BY <1>4, <1>5 DEF SumsOn, Chosen
<1> DEFINE h == CHOOSE k : H(k)
<1>7. PlannedBlocks = h[S]
  BY DEF PlannedBlocks, MapThenSumSet, MapThenFoldSet
<1>8. H(h)
  BY <1>6
<1>9. SumsOn(h, SUBSET S, f)
  <2> HIDE DEF h
  <2>1. \A s \in SUBSET S : h[s] = IF s = {} THEN 0 ELSE F(Chosen(s)) + h[s \ {Chosen(s)}]
    BY <1>8 DEF Chosen
  <2>2. QED
    BY <1>5, <2>1 DEF SumsOn
<1>10. h[S] \in Nat /\ \A x \in S : f[x] <= h[S]
  <2> HIDE DEF h, S, f
  <2>1. QED
    BY <1>1, <1>2, <1>9, SumBounds
<1>11. QED
  BY <1>7, <1>10

\* The rounds done so far recorded at most a full chunk each, and together no
\* more than the plan of some one contract.
ProgressInv ==
    phase \in Running =>
        /\ processed <= rangeIdx * ChunkSize[chain]
        /\ \/ processed = 0
           \/ \E c \in ContractsOn(chain) :
                processed <= TotalBlocks(planStart[c], target[chain])

\* One round: the recorded blocks of contract c's range after i full chunks.
LEMMA RoundRecords ==
    ASSUME NEW start \in Nat, NEW current \in Nat, NEW chunk \in Nat \ {0}, NEW i \in Nat,
           HasRange(start, current, chunk, i), NEW p \in Nat, p <= i * chunk
    PROVE  /\ p + RangeLen(start, current, chunk, i) <= (i + 1) * chunk
           /\ p + RangeLen(start, current, chunk, i) <= TotalBlocks(start, current)
<1>1. i * chunk \in Nat /\ (i + 1) * chunk = i * chunk + chunk
  OBVIOUS
<1>2. QED
  BY <1>1 DEF HasRange, RangeLen, RangeTo, RangeFrom, TotalBlocks

LEMMA ProgressStep == TypeOK /\ ProgressInv /\ [Next]_vars => ProgressInv'
<1> SUFFICES ASSUME TypeOK, ProgressInv, [Next]_vars
             PROVE  ProgressInv'
  OBVIOUS
<1>1. ASSUME phase' \notin Running
      PROVE  ProgressInv'
  BY <1>1 DEF ProgressInv
<1>2. ASSUME NEW ch \in Chains, NEW unread \in SUBSET Contracts, StartChain(ch, unread)
      PROVE  ProgressInv'
  <2>1. processed' = 0 /\ rangeIdx' = 0 /\ ChunkSize[chain'] \in Nat
    BY <1>2, ConstantsAssumption DEF StartChain
  <2>2. QED
    BY <2>1 DEF ProgressInv
<1>3. ASSUME UNCHANGED <<planVars, rangeIdx, processed>>, phase \in Running
      PROVE  ProgressInv'
  BY <1>3 DEF ProgressInv, planVars, ContractsOn
<1>4. CASE RecordRange
  <2>0. /\ phase = "ckpt" /\ UNCHANGED planVars /\ rangeIdx' = rangeIdx + 1
    BY <1>4 DEF RecordRange
  <2>1. PICK c \in Contracts : IsLongest(c) /\ processed' = processed + BlocksIn(c)
    BY <1>4 DEF RecordRange
  <2>2. c \in ContractsOn(chain) /\ ChainOf[c] = chain /\ Has(c, rangeIdx)
    BY <2>1 DEF IsLongest, Active, ContractsOn
  <2>3. /\ planStart[c] \in Nat /\ target[chain] \in Nat /\ rangeIdx \in Nat
        /\ processed \in Nat /\ ChunkSize[chain] \in Nat \ {0}
    BY ConstantsAssumption DEF TypeOK
  <2>4. processed <= rangeIdx * ChunkSize[chain]
    BY <2>0 DEF ProgressInv, Running
  <2>5. HasRange(planStart[c], target[chain], ChunkSize[chain], rangeIdx)
    BY <2>2 DEF Has
  <2>6. /\ processed' <= (rangeIdx + 1) * ChunkSize[chain]
        /\ processed' <= TotalBlocks(planStart[c], target[chain])
    BY <2>1, <2>3, <2>4, <2>5, RoundRecords DEF BlocksIn
  <2>7. QED
    BY <2>0, <2>2, <2>6 DEF ProgressInv, planVars, ContractsOn
<1>5. CASE UNCHANGED <<phase, planVars, rangeIdx, processed>>
  BY <1>5 DEF ProgressInv, planVars, ContractsOn
<1>6. QED
  BY <1>1, <1>2, <1>3, <1>4, <1>5
     DEF Next, Progress, Swallowed, RunEnds, Running, GoDown, vars, durable, rangeVars, Boot,
         BlockNumberFails, BeginRange, EndChain, Fetch, FetchFails, HandlerOk, HandlerErr,
         HandlerPanics, BeginFlush, FlushTable, FlushFails, PutCheckpoint, PutCheckpointFails,
         SignalReady, Shutdown, Crash, NewBlock

\* For any plans, the progress a chain's backfill reports stays within the
\* total it announced: recording the longest range of each round never adds up
\* to more than the sum of the plans.
THEOREM ProgressStaysWithinTotal == Spec => []ProgressWithinTotal
<1>1. Init => ProgressInv
  BY DEF Init, ProgressInv, Running
<1>2. TypeOK /\ ProgressInv => ProgressWithinTotal
  <2> SUFFICES ASSUME TypeOK, ProgressInv, phase \in Running
               PROVE  processed <= PlannedBlocks
    BY DEF ProgressWithinTotal
  <2>1. processed \in Nat /\ PlannedBlocks \in Nat
    BY PlannedFacts DEF TypeOK
  <2>2. CASE processed = 0
    BY <2>1, <2>2
  <2>3. ASSUME NEW c \in ContractsOn(chain),
               processed <= TotalBlocks(planStart[c], target[chain])
        PROVE  processed <= PlannedBlocks
    <3>1. TotalBlocks(planStart[c], target[chain]) \in Nat
      BY DEF TotalBlocks, TypeOK, ContractsOn
    <3>2. TotalBlocks(planStart[c], target[chain]) <= PlannedBlocks
      BY PlannedFacts
    <3>3. QED
      BY <2>1, <2>3, <3>1, <3>2
  <2>4. QED
    BY <2>2, <2>3 DEF ProgressInv
<1>3. QED
  BY <1>1, <1>2, ProgressStep, TypeCorrect, PTL DEF Spec
=============================================================================
