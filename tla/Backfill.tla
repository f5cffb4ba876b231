----------------------------- MODULE Backfill -------------------------------
(***************************************************************************)
(* The historical sync of forge-index: the runner takes the chains one     *)
(* after the other, and for each one the BackfillCoordinator plans the     *)
(* block ranges of every contract, fetches and merges the events of the    *)
(* i-th range of all contracts, hands them to the user's handlers, flushes *)
(* the write buffer to Postgres and moves the checkpoints.                 *)
(*                                                                         *)
(* The process may crash between any two steps, every await on the RPC     *)
(* node or on Postgres may fail, and a handler may return an error or      *)
(* panic.  Whatever ends a run, the operator boots the indexer again and   *)
(* it resumes from the checkpoints stored in ponder_sync.checkpoints.      *)
(*                                                                         *)
(* The coordinator is the only task that touches the write buffer (the     *)
(* background flush task exists but the runner never spawns it), so the    *)
(* take-and-execute of one table is a single step here.                    *)
(*                                                                         *)
(* The worker's get_logs is taken to answer as the node would.  Between    *)
(* the two is the log cache, and module RpcCache shows when that is so.    *)
(***************************************************************************)
EXTENDS Integers, FiniteSets, FiniteSetsExt, Planner

CONSTANTS
    Chains,        \* the chains that have at least one contract
    Contracts,     \* contract names; a name deployed on two chains counts twice
    ChainOf,       \* [Contracts -> Chains]
    StartBlock,    \* [Contracts -> Nat], ContractConfig.start_block
    Tables,        \* user tables
    Events,        \* the logs of all contracts that will ever be on the chains
    WritesTo,      \* [Events -> SUBSET Tables], tables the event's handler inserts into
    MayFail,       \* the events whose handler may return an error of its own
    ChunkSize,     \* [Chains -> Nat], max_block_range or DEFAULT_CHUNK_SIZE
    MaxSize,       \* WriteBuffer.max_size, in rows per table
    MaxBlock,      \* bound: the chains stop growing at this block
    NoCheckpoint   \* get_checkpoint returned None

ASSUME ConstantsAssumption ==
    /\ IsFiniteSet(Contracts)
    /\ ChainOf \in [Contracts -> Chains]
    /\ StartBlock \in [Contracts -> Nat]
    /\ Events \subseteq [contract : Contracts, block : Nat, logIndex : Nat]
    /\ WritesTo \in [Events -> SUBSET Tables]
    /\ ChunkSize \in [Chains -> Nat \ {0}]
    /\ MaxSize \in Nat
    /\ MaxBlock \in Nat
    /\ NoCheckpoint \notin Nat

VARIABLES
    \* Outside the process: the chains and what Postgres has committed.
    head,          \* [Chains -> Nat], the block number the node reports
    checkpoint,    \* [Contracts -> Nat \cup {NoCheckpoint}]
    db,            \* [Tables -> SUBSET Events], committed rows, by their event
    failed,        \* history: events for which some handler call returned Err
    \* Inside the process, lost when it dies.
    phase,         \* where the runner or the coordinator is
    todo,          \* chains whose backfill is not complete in this run
    chain,         \* the chain run_chain works on
    target,        \* [Chains -> Nat], current_block the plans were made for
    planStart,     \* [Contracts -> Nat], first block of each contract's plan
    rangeIdx,      \* range_idx
    toFetch,       \* contracts whose range is still to be fetched
    pending,       \* all_events not yet handed to a handler
    buffer,        \* [Tables -> SUBSET Events], WriteBuffer.buffers
    toFlush,       \* tables flush_all has still to flush
    toCkpt,        \* contracts whose checkpoint is still to be written
    processed      \* ChainProgress.processed_blocks of the current chain

durable == <<head, checkpoint, db, failed>>
planVars == <<todo, chain, target, planStart>>
rangeVars == <<rangeIdx, toFetch, pending, buffer, toFlush, toCkpt, processed>>
vars == <<durable, phase, planVars, rangeVars>>

Phases == {"down", "select", "range", "fetch", "handle", "flush", "ckpt", "ready"}

-----------------------------------------------------------------------------
(* The plans of the current run. *)

ContractsOn(ch) == {c \in Contracts : ChainOf[c] = ch}

From(c, i) == RangeFrom(planStart[c], ChunkSize[ChainOf[c]], i)
To(c, i) == RangeTo(planStart[c], target[ChainOf[c]], ChunkSize[ChainOf[c]], i)
Has(c, i) == HasRange(planStart[c], target[ChainOf[c]], ChunkSize[ChainOf[c]], i)

\* The contracts of the current chain with a range at the current index.
Active == {c \in ContractsOn(chain) : Has(c, rangeIdx)}

\* The logs the node returns for contract c's i-th range.
EventsIn(c, i) ==
    {e \in Events : e.contract = c /\ From(c, i) <= e.block /\ e.block <= To(c, i)}

\* The order all_events is sorted in.
Before(e, f) ==
    \/ e.block < f.block
    \/ e.block = f.block /\ e.logIndex < f.logIndex

\* The sum the coordinator reports as the chain's total_blocks.
PlannedBlocks ==
    MapThenSumSet(LAMBDA c : TotalBlocks(planStart[c], target[chain]), ContractsOn(chain))

\* Mutant: a full chunk, whatever the length of the range.
BlocksInFullChunk(c) == ChunkSize[chain]

\* The number of blocks of contract c's range at the current index.
BlocksIn(c) == RangeLen(planStart[c], target[chain], ChunkSize[chain], rangeIdx)

\* Contract c has the longest range of this round.
IsLongest(c) == c \in Active /\ \A d \in Active : BlocksIn(d) <= BlocksIn(c)

-----------------------------------------------------------------------------
(* The process. *)

Init ==
    /\ head \in [Chains -> 0 .. MaxBlock]
    /\ checkpoint = [c \in Contracts |-> NoCheckpoint]
    /\ db = [t \in Tables |-> {}]
    /\ failed = {}
    /\ phase = "down"
    /\ todo = {}
    /\ chain \in Chains
    /\ target = [ch \in Chains |-> 0]
    /\ planStart = [c \in Contracts |-> 0]
    /\ rangeIdx = 0
    /\ toFetch = {}
    /\ pending = {}
    /\ buffer = [t \in Tables |-> {}]
    /\ toFlush = {}
    /\ toCkpt = {}
    /\ processed = 0

\* The process is gone and with it everything it held in memory.
GoDown ==
    /\ phase' = "down"
    /\ todo' = {}
    /\ target' = [ch \in Chains |-> 0]
    /\ planStart' = [c \in Contracts |-> 0]
    /\ rangeIdx' = 0
    /\ toFetch' = {}
    /\ pending' = {}
    /\ buffer' = [t \in Tables |-> {}]
    /\ toFlush' = {}
    /\ toCkpt' = {}
    /\ processed' = 0
    /\ UNCHANGED chain

\* The runner reaches the backfill: a new, empty write buffer and every chain to do.
Boot ==
    /\ phase = "down"
    /\ phase' = "select"
    /\ todo' = Chains
    /\ UNCHANGED <<durable, chain, target, planStart, rangeVars>>

\* The runner asks the node for the current block and run_chain makes the
\* plans.  A checkpoint that cannot be read counts as absent.
StartChain(ch, unread) ==
    /\ phase = "select"
    /\ ch \in todo
    /\ unread \subseteq {c \in ContractsOn(ch) : checkpoint[c] # NoCheckpoint}
    /\ chain' = ch
    /\ target' = [target EXCEPT ![ch] = head[ch]]
    /\ planStart' = [c \in Contracts |->
                       IF ChainOf[c] # ch THEN planStart[c]
                       ELSE IF c \in unread THEN StartBlock[c]
                       ELSE PlanFrom(checkpoint[c], NoCheckpoint, StartBlock[c])]
    /\ rangeIdx' = 0
    /\ processed' = 0
    /\ phase' = "range"
    /\ UNCHANGED <<durable, todo, toFetch, pending, buffer, toFlush, toCkpt>>

\* get_block_number fails: the runner returns the error.
BlockNumberFails ==
    /\ phase = "select"
    /\ todo # {}
    /\ GoDown
    /\ UNCHANGED durable

\* The loop over range_idx: another round, or the chain is complete.
BeginRange ==
    /\ phase = "range"
    /\ Active # {}
    /\ phase' = "fetch"
    /\ toFetch' = Active
    /\ UNCHANGED <<durable, planVars, rangeIdx, pending, buffer, toFlush, toCkpt, processed>>

EndChain ==
    /\ phase = "range"
    /\ Active = {}
    /\ phase' = "select"
    /\ todo' = todo \ {chain}
    /\ UNCHANGED <<durable, chain, target, planStart, rangeVars>>

\* worker.fetch_range for one contract: the node's logs, decoded.  The last
\* contract ends the fetch loop.
Fetch(c) ==
    /\ phase = "fetch"
    /\ c \in toFetch
    /\ toFetch' = toFetch \ {c}
    /\ pending' = pending \cup EventsIn(c, rangeIdx)
    /\ phase' = IF toFetch' = {} THEN "handle" ELSE "fetch"
    /\ UNCHANGED <<durable, planVars, rangeIdx, buffer, toFlush, toCkpt, processed>>

\* Mutant: the error is logged and the contract's range skipped.
FetchFailsSkipped ==
    /\ phase = "fetch"
    /\ \E c \in toFetch : toFetch' = toFetch \ {c}
    /\ phase' = IF toFetch' = {} THEN "handle" ELSE "fetch"
    /\ UNCHANGED <<durable, planVars, rangeIdx, pending, buffer, toFlush, toCkpt, processed>>

\* An RPC or decode error of one contract ends the whole run.
FetchFails ==
    /\ phase = "fetch"
    /\ GoDown
    /\ UNCHANGED durable

-----------------------------------------------------------------------------
(* The handlers, called one after the other in the order of the sort. *)

\* Mutant: the merged events are not sorted.
IsNextUnsorted(e) == e \in pending

\* Two contracts may match one log.  The sort is stable and leaves the two events
\* in the order of the contracts; here either comes first.
IsNext(e) == e \in pending /\ \A f \in pending : ~Before(f, e)

\* WriteBuffer::insert refuses a row when the table's buffer is full.
HasRoom(t) == Cardinality(buffer[t]) < MaxSize

AddRows(e, tabs) ==
    buffer' = [t \in Tables |-> IF t \in tabs THEN buffer[t] \cup {e} ELSE buffer[t]]

\* The handler inserts all its rows and returns Ok.
HandlerOk(e) ==
    /\ phase = "handle"
    /\ IsNext(e)
    /\ \A t \in WritesTo[e] : HasRoom(t)
    /\ AddRows(e, WritesTo[e])
    /\ pending' = pending \ {e}
    /\ UNCHANGED <<durable, phase, planVars, rangeIdx, toFetch, toFlush, toCkpt, processed>>

\* The handler returns Err, by itself or because an insert returned BufferFull,
\* after it has inserted some of its rows.  The coordinator logs and goes on.
HandlerErr(e, tabs) ==
    /\ phase = "handle"
    /\ IsNext(e)
    /\ e \in MayFail \/ \E t \in WritesTo[e] : ~HasRoom(t)
    /\ tabs \subseteq {t \in WritesTo[e] : HasRoom(t)}
    /\ AddRows(e, tabs)
    /\ pending' = pending \ {e}
    /\ failed' = failed \cup {e}
    /\ UNCHANGED <<head, checkpoint, db, phase, planVars, rangeIdx, toFetch, toFlush,
                   toCkpt, processed>>

\* The handler panics: run_chain returns HandlerPanic, or the panic unwinds.
HandlerPanics(e) ==
    /\ phase = "handle"
    /\ IsNext(e)
    /\ e \in MayFail
    /\ GoDown
    /\ UNCHANGED durable

-----------------------------------------------------------------------------
(* flush_all, the checkpoints and the progress. *)

BeginFlush ==
    /\ phase = "handle"
    /\ pending = {}
    /\ toFlush' = {t \in Tables : buffer[t] # {}}
    /\ toCkpt' = Active
    /\ phase' = IF toFlush' = {} THEN "ckpt" ELSE "flush"
    /\ UNCHANGED <<durable, planVars, rangeIdx, toFetch, pending, buffer, processed>>

FlushTable(t) ==
    /\ phase = "flush"
    /\ t \in toFlush
    /\ db' = [db EXCEPT ![t] = @ \cup buffer[t]]
    /\ buffer' = [buffer EXCEPT ![t] = {}]
    /\ toFlush' = toFlush \ {t}
    /\ phase' = IF toFlush' = {} THEN "ckpt" ELSE "flush"
    /\ UNCHANGED <<head, checkpoint, failed, planVars, rangeIdx, toFetch, pending, toCkpt,
                   processed>>

\* Mutant: the flush error is logged and the coordinator goes on.
FlushFailsIgnored(t, rows) ==
    /\ phase = "flush"
    /\ t \in toFlush
    /\ rows \subseteq buffer[t]
    /\ db' = [db EXCEPT ![t] = @ \cup rows]
    /\ buffer' = [buffer EXCEPT ![t] = {}]
    /\ toFlush' = toFlush \ {t}
    /\ phase' = IF toFlush' = {} THEN "ckpt" ELSE "flush"
    /\ UNCHANGED <<head, checkpoint, failed, planVars, rangeIdx, toFetch, pending, toCkpt,
                   processed>>

\* A statement of the table's flush fails, or the process dies between two of
\* them: the statements before it stay committed, and the run is over.
FlushFails(t, rows) ==
    /\ phase = "flush"
    /\ t \in toFlush
    /\ rows \subseteq buffer[t]
    /\ db' = [db EXCEPT ![t] = @ \cup rows]
    /\ GoDown
    /\ UNCHANGED <<head, checkpoint, failed>>

\* Mutant: every contract gets the checkpoint of the round's earliest range.
PutCheckpointShared(c) ==
    /\ phase = "ckpt"
    /\ c \in toCkpt
    /\ toCkpt' = toCkpt \ {c}
    /\ checkpoint' = [checkpoint EXCEPT ![c] = Min({To(d, rangeIdx) : d \in Active}) + 1]
    /\ UNCHANGED <<head, db, failed, phase, planVars, rangeIdx, toFetch, pending, buffer,
                   toFlush, processed>>

\* Mutant: the checkpoint is one block too far.
PutCheckpointTooFar(c) ==
    /\ phase = "ckpt"
    /\ c \in toCkpt
    /\ toCkpt' = toCkpt \ {c}
    /\ checkpoint' = [checkpoint EXCEPT ![c] = To(c, rangeIdx) + 2]
    /\ UNCHANGED <<head, db, failed, phase, planVars, rangeIdx, toFetch, pending, buffer,
                   toFlush, processed>>

\* put_checkpoint, whose error the coordinator ignores.
PutCheckpoint(c) ==
    /\ phase = "ckpt"
    /\ c \in toCkpt
    /\ toCkpt' = toCkpt \ {c}
    /\ checkpoint' = [checkpoint EXCEPT ![c] = To(c, rangeIdx) + 1]
    /\ UNCHANGED <<head, db, failed, phase, planVars, rangeIdx, toFetch, pending, buffer,
                   toFlush, processed>>

PutCheckpointFails(c) ==
    /\ phase = "ckpt"
    /\ c \in toCkpt
    /\ toCkpt' = toCkpt \ {c}
    /\ UNCHANGED <<durable, phase, planVars, rangeIdx, toFetch, pending, buffer, toFlush,
                   processed>>

\* Mutant: the loop index is not advanced.
RecordRangeSameIndex ==
    /\ phase = "ckpt"
    /\ toCkpt = {}
    /\ phase' = "range"
    /\ UNCHANGED <<durable, planVars, rangeVars>>

\* progress.record, with the blocks of the longest range, and on to the next
\* range_idx.
RecordRange ==
    /\ phase = "ckpt"
    /\ toCkpt = {}
    /\ \E c \in Contracts : IsLongest(c) /\ processed' = processed + BlocksIn(c)
    /\ rangeIdx' = rangeIdx + 1
    /\ phase' = "range"
    /\ UNCHANGED <<durable, planVars, toFetch, pending, buffer, toFlush, toCkpt>>

-----------------------------------------------------------------------------
(* The end of a run, and the environment. *)

SignalReady ==
    /\ phase = "select"
    /\ todo = {}
    /\ phase' = "ready"
    /\ UNCHANGED <<durable, planVars, rangeVars>>

\* SIGINT or SIGTERM once ready: a last flush_all, then the process ends.
Shutdown ==
    /\ phase = "ready"
    /\ db' = [t \in Tables |-> db[t] \cup buffer[t]]
    /\ GoDown
    /\ UNCHANGED <<head, checkpoint, failed>>

\* The process is killed; before it is ready a signal does that too.
Crash ==
    /\ phase # "down"
    /\ GoDown
    /\ UNCHANGED durable

NewBlock(ch) ==
    /\ head[ch] < MaxBlock
    /\ head' = [head EXCEPT ![ch] = @ + 1]
    /\ UNCHANGED <<checkpoint, db, failed, phase, planVars, rangeVars>>

\* What the running process does when nothing goes wrong.
Progress ==
    \/ Boot
    \/ \E ch \in Chains : StartChain(ch, {})
    \/ BeginRange
    \/ EndChain
    \/ \E c \in Contracts : Fetch(c)
    \/ \E e \in Events : HandlerOk(e)
    \/ \E e \in Events, tabs \in SUBSET Tables : HandlerErr(e, tabs)
    \/ BeginFlush
    \/ \E t \in Tables : FlushTable(t)
    \/ \E c \in Contracts : PutCheckpoint(c)
    \/ RecordRange
    \/ SignalReady

\* Errors the run survives.
Swallowed ==
    \/ \E ch \in Chains, unread \in SUBSET Contracts : StartChain(ch, unread)
    \/ \E c \in Contracts : PutCheckpointFails(c)

\* Errors and events that end the run.
RunEnds ==
    \/ BlockNumberFails
    \/ FetchFails
    \/ \E e \in Events : HandlerPanics(e)
    \/ \E t \in Tables, rows \in SUBSET Events : FlushFails(t, rows)
    \/ Crash
    \/ Shutdown

Next ==
    \/ Progress
    \/ Swallowed
    \/ RunEnds
    \/ \E ch \in Chains : NewBlock(ch)

Spec == Init /\ [][Next]_vars

\* A running process keeps taking steps, and an operator restarts a dead one;
\* nothing is assumed of errors, signals or new blocks.
FairSpec == Spec /\ WF_vars(Progress)

-----------------------------------------------------------------------------
(* Properties. *)

Running == {"range", "fetch", "handle", "flush", "ckpt"}

\* Every variable has its type.
TypeOK ==
    /\ head \in [Chains -> Nat]
    /\ checkpoint \in [Contracts -> Nat \cup {NoCheckpoint}]
    /\ db \in [Tables -> SUBSET Events]
    /\ failed \subseteq Events
    /\ phase \in Phases
    /\ todo \subseteq Chains
    /\ chain \in Chains
    /\ target \in [Chains -> Nat]
    /\ planStart \in [Contracts -> Nat]
    /\ rangeIdx \in Nat
    /\ toFetch \subseteq Contracts
    /\ pending \subseteq Events
    /\ buffer \in [Tables -> SUBSET Events]
    /\ toFlush \subseteq Tables
    /\ toCkpt \subseteq Contracts
    /\ processed \in Nat

\* The effect of event e is safe from a crash: all its rows are committed, or
\* its handler reported an error, which the coordinator only logs.
Persisted(e) == e \in failed \/ \A t \in WritesTo[e] : e \in db[t]

\* Contract c is indexed from its start block up to, not including, block b.
Covered(c, b) ==
    \A e \in Events :
        e.contract = c /\ StartBlock[c] <= e.block /\ e.block < b => Persisted(e)

\* A stored checkpoint never runs ahead of the data: whatever crashes, fails or
\* is retried, every event of the contract below its checkpoint is persisted.
\* A restart resumes at the checkpoint, so an event it skipped would be lost
\* for good (flush_all before put_checkpoint in run_chain).
CheckpointSafety ==
    \A c \in Contracts : checkpoint[c] # NoCheckpoint => Covered(c, checkpoint[c])

\* The readiness signal is truthful: when the runner reports the backfill
\* complete, every contract of every chain is indexed up to the block its
\* chain's node reported in this run.
ReadyMeansIndexed ==
    phase = "ready" => \A c \in Contracts : Covered(c, target[ChainOf[c]] + 1)

\* Events of the current chain that lie in ranges this run has yet to reach.
Later ==
    {f \in Events : /\ f.contract \in ContractsOn(chain)
                    /\ From(f.contract, rangeIdx + 1) <= f.block
                    /\ f.block <= target[chain]}

\* Handlers see events in block order among the contracts whose plans start at
\* the same block, in particular among the events of one contract, across the sort of
\* a round and from one round to the next.  (Between contracts that start at
\* different blocks it does not hold: ranges are merged by index.)
AlignedBlockOrder ==
    phase = "handle" =>
        \A e \in pending, f \in pending \cup Later :
            IsNext(e) /\ planStart[e.contract] = planStart[f.contract] => ~Before(f, e)

\* Reported progress never exceeds 100%: the blocks recorded range by range
\* (the longest range of each round) stay within the sum of the plans.
ProgressWithinTotal ==
    phase \in Running => processed <= PlannedBlocks

\* A stored checkpoint moves back only in a run that could not read it and
\* planned the contract from its start block again.
CheckpointMovesBackOnlyWhenUnread ==
    [][\A c \in Contracts :
          checkpoint[c] # NoCheckpoint /\ checkpoint'[c] # checkpoint[c]
            => \/ checkpoint'[c] > checkpoint[c]
               \/ planStart[c] = StartBlock[c]]_vars

\* The backfill keeps the promise of CheckpointedIndex: no step unpersists an
\* event, and no step writes a checkpoint whose blocks are not all persisted.
Index == INSTANCE CheckpointedIndex
    WITH persisted <- {e \in Events : Persisted(e)}, mark <- checkpoint

ImplementsCheckpointedIndex == Index!AbsSpec

\* The backfill terminates: once nothing ends the run any more, the planned
\* ranges of all chains are worked off and readiness is signalled, however
\* many checkpoint reads and writes fail and handlers return errors.
BackfillCompletes == <>[][~RunEnds]_vars => <>(phase = "ready")

=============================================================================
