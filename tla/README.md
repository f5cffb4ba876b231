# TLA+ models of forge-index

forge-index reads the logs of EVM contracts from an RPC node, hands the decoded
events to user handlers, buffers what they write, stores it in Postgres and serves it
over GraphQL and SQL. These modules model the parts of it that carry state across
failures, threads and restarts, and the algorithms whose inputs are hard to cover with
tests; TLC checks them on small instances and TLAPS proves the main invariants for all
instances. `PROJECT.json` maps every definition to the lines it models.

1. [The system](#1-the-system) – inventory of components
2. [The modules](#2-the-modules) – how state and actions correspond to the code
3. [The runs](#3-the-runs) – what is checked, bounds, fairness
4. [Where code and documentation differ](#4-where-code-and-documentation-differ)
5. [The proofs](#5-the-proofs)
6. [What is not modelled, and further work](#6-what-is-not-modelled-and-further-work)

Paths below are relative to `src/crates/`.

## 1. The system

| component | state | operations | talks to |
|---|---|---|---|
| Runner (`forge-index/src/runner.rs`) | ready flag, the write buffer, chain list | set up database, backfill the chains one after the other, signal ready, wait for a signal, last flush | everything |
| Backfill planner (`forge-index-sync/src/backfill/planner.rs`) | none | `plan`: cut `[start, current]` into ranges | coordinator |
| Backfill coordinator (`.../backfill/coordinator.rs`) | plans, `range_idx`, merged events | `run_chain`: fetch, sort, call handlers, flush, write checkpoints | worker, registry, buffer, checkpoint store, progress |
| Backfill worker (`.../backfill/worker.rs`) | none | `fetch_range`: logs of a range, decoded | log cache, decoder |
| Progress (`.../backfill/progress.rs`) | blocks and events per chain | `record` | coordinator, telemetry |
| Write buffer (`forge-index-db/src/buffer.rs`) | rows per table | `insert`, `update`, `delete`, `flush_all`, background flush | handlers, Postgres |
| Checkpoint store (`forge-index-rpc/src/cache/store.rs`) | `ponder_sync.checkpoints` | get, put | coordinator |
| RPC log cache (`forge-index-rpc/src/cached_client.rs`, `cache/store.rs`) | `ponder_sync.rpc_cache_*` tables | `get_logs`, `put_logs`, blocks, transactions, eth_call | worker, node |
| Request deduplication (`forge-index-rpc/src/dedup.rs`) | `in_flight` map, channels | `dedup` | RPC client, retry |
| RPC client (`forge-index-rpc/src/client.rs`, `retry.rs`, `rate_limiter.rs`) | tokens, attempt counter | one method per RPC call, `with_retry`, `acquire` | deduplication, node |
| Realtime (`forge-index-sync/src/realtime/`) | subscription | process a block, reconnect, finality | detector, workers, buffer; never constructed by the runner |
| Reorg detector (`forge-index-sync/src/reorg/`) | window of 128 block hashes | `process_block`, `find_fork_point`, `handle_reorg` | realtime processor, block cache, reorg store |
| Reorg store (`forge-index-db/src/reorg.rs`) | shadow tables | record a flush, roll back, prune | reorg handler; `record_flush` and `clear_before_block` have no caller |
| Database manager (`forge-index-db/src/manager.rs`) | tables, `_forge_meta` | `setup`, `check_build_id` | runner |
| Database context (`forge-index-db/src/context.rs`, `query.rs`) | – | insert, update, delete, `find_one` | handlers, buffer, Postgres |
| Factory tracker (`forge-index-sync/src/factory.rs`) | child addresses | record, list | no caller |
| GraphQL API (`forge-index-api/src/graphql/`) | the schema, built once | single and list queries with filters and cursors | Postgres |
| SQL API (`forge-index-api/src/sql/`, `handlers/sql.rs`) | token bucket | validate, rewrite, execute | Postgres |
| Configuration (`forge-index-config`, `forge-index/src/builder.rs`) | – | build, validate, `to_create_sql` | runner, manager |
| ABI (`forge-index-core/src/abi/`) | events by selector | parse a JSON ABI, decode a log | worker |
| Command line (`forge-index-cli`) | child process, pending file events | `dev`, `start` | the indexer's process |
| Core types, telemetry, empty crates | – | data, output | – |

**How they interact.** One task runs the backfill: it awaits the worker, calls
handlers one at a time, awaits `flush_all` and then awaits one `put_checkpoint` per
contract. The handlers reach the buffer through their context. The worker's RPC
calls pass the log cache, and on a miss deduplication, rate limiter and retry, which
other tasks of the process use at the same time.

**What is hard here.**
- No transaction spans flush and checkpoint, nor the statements of a flush, nor the
  rows of a cached response. Each await is a place where the process may die with a
  part of the work committed.
- Several errors do not end the run: a checkpoint that cannot be read or written, a
  handler that returns `Err`, a cache lookup or store that fails. Each must be
  harmless by itself and in any combination with crashes.
- Contracts of one chain start and resume at different blocks, but advance together.
- The buffer, the in-flight map and the token bucket are shared between threads and are
  used in several lock acquisitions per operation.
- The node's chain forks at any moment, also between the calls with which the detector
  looks for the fork, and the caches keep what was read before.
- Two processes may start, migrate and serve one schema at the same time; nothing locks
  it.

**What makes each component correct.**
- *Planner*: the ranges tile the interval, without gap or overlap.
- *Coordinator*: no checkpoint ahead of the data; ready means indexed; events in
  block order; the backfill completes; progress stays within 100 %.
- *Write buffer*: no row lost or executed twice between concurrent flushes; `Ok` from
  `flush_all` means the rows are in the database; replay gives the same table.
- *Log cache*: an answer from the cache is the answer of the node.
- *RPC client*: one request per key, no stale answer, no caller left waiting, a bounded
  rate, and no error before the attempts are used up.
- *Realtime and reorg detector*: a reorganisation is seen only where there is one; after
  it the window follows the new chain; what is in the window was indexed.
- *Reorg store*: a rollback restores the table as of the fork, also when repeated, and
  pruning leaves enough for it.
- *Manager, runner, dev loop*: tables and shadow tables agree, a changed schema is
  noticed, the dev loop runs the latest source, a start ends in serving or stopping.
- *Configuration and schema*: what is accepted is wired to the right chain and handler,
  and can be migrated.
- *ABI*: the signature is the compiler's, decoding undoes encoding, short logs are
  refused.
- *API*: pages neither skip nor repeat rows beside a writer; names lead to their own
  table; sanitised queries are prefixed and bounded; bursts are bounded.

The hazards behind these properties are listed with their lines in `PROJECT.json`.

## 2. The modules

| module | models | composed with |
|---|---|---|
| `Planner` | what a plan contains, in closed form | used by `Backfill`, `PlannerLoop` |
| `PlannerLoop` | the loop of `BackfillPlanner::plan`, step by step | checked and proved equal to `Planner` |
| `Backfill` | runner, coordinator, worker, checkpoint store, handlers and buffer over whole runs | implements `CheckpointedIndex` |
| `CheckpointedIndex` | the abstract promise of a checkpointed index | – |
| `WriteBuffer` | `buffer.rs`: writers and concurrent `flush_all` calls, statement by statement | justifies the flush steps of `Backfill` |
| `BufferedReplay` | what partly flushed and replayed ranges do to a row | – |
| `RpcCache` | `get_logs` through the log cache | says when `Fetch` of `Backfill` is right |
| `RequestDedup` | `dedup()` for one key | extended by `RpcClient` |
| `RpcClient` | all calls of the client: token bucket, retries, deduplication | composes `RequestDedup` |
| `Realtime` | processor, subscriber, detector, handler, block and log cache, forking chain | – |
| `ReorgStore` | shadow tables, rollback, pruning at finality | what `HandleReorg` of `Realtime` would call |
| `Lifecycle` | manager, runner, API server, `forge dev`, `forge start` over one schema | uses that the backfill ends (`backfill_live`) |
| `Configuration` | build, validation, wiring, statements of a schema | – |
| `AbiParser`, `AbiDecoder` | types and signatures; logs | – |
| `GraphqlSchema`, `Paging` | names of the schema; list queries beside a writer | – |
| `SqlValidator`, `SqlEndpoint` | rewriting of a query; rate limit and statuses | – |
| `Input` | the variable that holds the input of an algorithm without state | extended by `Configuration`, `GraphqlSchema`, `SqlValidator` |
| `*Proofs` | theorems and proofs; `AlgorithmProofs` is about `PlannerLoop`, `SqlEndpoint`, `Paging`, `Configuration`, `GraphqlSchema` and `SqlValidator`, `RpcClientProofs` about `RequestDedup` too, `WriteBufferProofs` about `BufferedReplay` too | extend the modules they are about |
| `MC*` | instances and symmetry sets | extend the module they check |

`MCAlgorithms` runs `PlannerLoop`, `Paging`, `SqlEndpoint` and, as single inputs, the
other algorithms; a behaviour is one of them.

Definitions whose comment starts with "Mutant:" are not part of a specification. Each
is a plausible slip in the definition below it, and `PROJECT.json` names the property
that catches it.

### Backfill

`phase` says where the runner or the coordinator is. Four variables survive a crash:
`head` (the chains), `checkpoint`, `db` (committed rows, named by the event whose
handler wrote them) and the history variable `failed`. The others are the locals of
`run_chain` and the buffer, and `GoDown` clears them.

- `Boot`, `StartChain`, `EndChain`, `SignalReady`, `Shutdown`: the runner's loop over
  the chains. `StartChain(ch, unread)` reads the block number and makes all plans;
  the contracts in `unread` are those whose `get_checkpoint` failed, which
  `.ok().flatten()` turns into "no checkpoint".
- `BeginRange`, `Fetch`, `HandlerOk`, `HandlerErr`, `BeginFlush`, `FlushTable`,
  `PutCheckpoint`, `RecordRange`: one round of the loop over `range_idx`. The sort of
  the merged events is `IsNext`; events of two contracts that match one log compare as
  equal, and the model takes them in either order.
- `HandlerErr` covers both a handler's own error and an insert refused with
  `BufferFull`; either way the coordinator logs and goes on, with the rows inserted
  before the error still in the buffer.
- `BlockNumberFails`, `FetchFails`, `HandlerPanics`, `FlushFails`, `Crash` end a run.
  `FlushFails` leaves any part of the table's rows committed: more than the code can
  (it commits whole statements), which is sound for the safety properties.
- `NewBlock` lets the chains grow at any time.

Handlers here only insert; updates and deletes are in `BufferedReplay`. A row is in
the database for good once its table's flush has been executed, whether inserted
once or twice, because inserts are `ON CONFLICT DO NOTHING`.

### WriteBuffer and BufferedReplay

`WriteBuffer` follows each accepted row through `buffers`, one flusher's `hand`, and
`applied` or `lost`. `Take` is the removal of a table's rows under the map entry's
lock, `Execute` one SQL statement, `StatementFails` a statement that fails or whose
answer is lost. A table the schema does not declare is taken and dropped
(`TakeUnknown`), and `FlushMakesDurable` says nothing about it. `Flushers` has a
second member for applications that spawn `start_background_flush`; the runner
does not, so that `LoneFlushIsDurable` applies to it.

`BufferedReplay` follows one primary key through all ranges. `writes` is the whole
history, `ends` says where each range ends in it, and `left` are the numbers of the
writes that the current flush has still to execute; `Statement` is the next statement
that `flush_table` sends of them. The histories are all
those in which handlers insert absent rows and update or delete present ones
(`OnlySensibleWrites`) and do not go against the order of the flush within a range
(`InFlushOrder`); a row deleted and inserted again in one range does end up deleted,
since `flush_table` executes the deletes last. A run starts at the checkpoint, or at the
first range if it could not be read. `cut` remembers a run that was interrupted behind
the stored checkpoint: the one case in which the replay does not converge. With
`counting` the handler reads the row with `find_one` before it writes, and `again`
remembers the ranges that were begun twice. `find_one` does not see the rows that the
range has buffered, so `CountsEvents` speaks of ranges with at most one event of the key.

### RpcCache

A query is a *window* (block range, addresses, topics), and `Match` gives the node's
answer to it. `rows` maps a primary key – a log, or the sentinel key (-1, -1) – to
the window of the row that has it. `Count`, `Select`, `Fetch`, `PutRow`, `PutDone` are
the awaits of `get_logs` and `put_logs`; the history variable `torn` holds the windows
whose last `put_logs` stopped half-way. Postgres itself is external and modelled from
the statements the code sends. `HitsComplete` speaks of the state in which `Select`
reads: with `AnswersSound` it says when an answer from the cache is the node's.

### RequestDedup and RpcClient

Requests are numbered; a number stands for the request, its channel and its answer.
The map lookup with `entry()` is atomic (`Start`, `Subscribe`, `SeeOld`); the removal
of an old entry (`Evict`) and of a finished one (`Remove`) are separate uses of the
lock and remove whatever they find. A receiver gets what is broadcast after it
subscribed, and fails when both senders are dropped (`ChannelClosed`). The broadcast
channel is external (tokio).

`RpcClient` puts this into the client: a deduplicated call and a direct one
(`get_block_number`, `eth_call`) take a token, make up to five attempts with the delays
between them, and return. `Tick` is the clock that refills the bucket, ends delays and
ages requests, so that the 30 s of an entry pass while its owner backs off. Each action
is one of `RequestDedup` or leaves its variables alone.

### Realtime

`chain` is the node's chain as a function from numbers to branches; `Mine` and
`Reorganise` change it at any time and announce all new heads or only the tip. `pc`
follows the loop: `connect`, `wait` for a head, `walk` back to the fork one RPC call at
a time, `rollback`, `fetch` contract by contract and `Apply`. `window` is `ChainState`
as it is, with duplicates and holes; `blockCache` and `logCache` hold the hash of the
block that was canonical when the row was stored. Nothing invalidates them.

### ReorgStore

The table, the shadow rows in the order in which they were recorded, and the table's
contents at the end of each block (`asOf`), which is what a rollback should restore.
`Replay(i)` undoes one shadow row; rows of a block come in any order, as the query
gives no tie-break. `Interrupt` ends an attempt half-way, and `StartRollback` repeats
it; `Keep` is what a DELETE leaves of the shadow rows. Only text columns are restored by
the code (`AsText`), and `tied` marks keys that were written twice in one undone block.

### Lifecycle

Two processes, the child of `forge dev` and one started by hand, each with the runner's
steps (`CreateSchema`, `Migrate` statement by statement, `UpsertBuildId`,
`CheckBuildId`, `Wire`, `BackfillDone`, `ShutDown`), an API task and a program version.
`main` and `shadow` are the columns of a table and its shadow table, as the set of the one
schema that made it, or empty (`Absent`). The dev loop
builds, starts, watches, kills and restarts; `Edit` saves another version at any time,
one of which does not compile.

### The algorithms

- `AbiDecoder` counts offsets in slots and scales the widths down (a word has 6 bits, a
  u128 has 3), so that sign extension and truncation meet all their boundaries. The
  encoding of the Solidity ABI is defined beside it for reference.
- `AbiParser` has the text of a type as word, number, brackets and components.
- `Configuration` has the lookups by name in validation, builder and runner, and which
  statement of a migration Postgres accepts: references to a key made before, indexes
  over columns that exist, and a shadow table whose two columns are not there already.
  A key is the primary key or a column with a unique index of its own, which exists once
  the statements of its table are done. URLs of chains and ABIs may fail to parse where
  `validate` accepts them, and `run()` then stops.
- `GraphqlSchema` has a table name as its words, so that camel and Pascal case are what
  they do to the underscores; what the builder does with a name that is used twice is
  external (async-graphql).
- `Paging` has one column besides the key. The order, the comparison with the cursor
  and the filters are SQL's, NULL included. `AsJson` is what `row_to_json` and
  `serde_json` make of an order value before it gets into the cursor: a `NUMERIC` above
  u64 becomes an f64.
- `SqlValidator` has a query as a sequence of words and rewrites it as the code does.
  Words are of one kind only (`SqlAssumption`), and a table follows FROM and JOIN
  (`NamesTables`). Number words outside `Whole` (`1e9`, `5000.5`) do not parse as u64;
  FROM and JOIN in another spelling, or with other white space than one space behind
  them, are the words `Loose`. Comments and quoted strings are left out.
- `SqlEndpoint` counts time in the units in which a token is earned.

## 3. The runs

| run | states | what it shows |
|---|---|---|
| `backfill` | 928,370 | checkpoints never ahead of the data, truthful readiness, block order for plans with the same first block, progress within the total, checkpoints moving back only when unread, refinement of `CheckpointedIndex` |
| `backfill_live` | 3,240 | readiness is reached once nothing ends the run |
| `algorithms` | 834,349 | the planner's loop tiles the interval and equals the closed form; pages are complete and ascending while JSON keeps the order values; bursts are bounded; logs, signatures, configurations, schemas, GraphQL names and SQL queries come out right |
| `write_buffer` | 2,767,948 | two concurrent flushes: each row in exactly one place; `Ok` means durable, up to rows the other one took |
| `buffered_replay` | 2,387,848 | every row ends as its writes make it, unless a run behind the checkpoint was interrupted; a counting handler counts every event where no range has two and none is repeated |
| `rpc_client` | 163,262 | one request, current answers, live entries, a bounded rate, exhausted retries; every call returns |
| `rpc_cache` | 3,521,424 | the cache never adds a log, and loses one only in three ways |
| `realtime` | 1,292,224 | no false reorganisation; the window follows the fork and was indexed; announced heads are processed |
| `reorg_store` | 5,011,524 | a rollback restores the table; pruning leaves what it needs |
| `lifecycle` | 237,741 | table and shadow table agree; migrated tables exist; the dev loop runs the latest source; a start serves or ends |

The other two runs end in a violation; section 4 is about them.

**Bounds.**
- `MCBackfill`: two chains with different chunk sizes, three contracts. On chain A two
  contracts with different start blocks write to the same table, so rounds have ranges
  of different lengths, contracts leave the loop at different times and share the
  buffer, and one log matches both. Blocks up to 3 give full, cut and missing ranges, and heads from 0 on give
  plans that are empty. With `MaxSize = 1` the second event of a round is refused; one
  handler may fail by itself. Crashes and restarts are not bounded.
- The live run has one contract with two ranges (the property is about one process
  working off its plan), and unbounded swallowed errors.
- `PlannerLoop`: all blocks 0..6 and chunk sizes 1, 2, 3, 4, 7, with start after, at
  and before the current block. `Modulus` stands for 2^64; an assumption keeps the
  sums below it.
- `WriteBuffer`: three rows of any kind over two declared tables and an undeclared one,
  with two flushers: enough for each to hold rows and one more to arrive.
- `BufferedReplay`: four ranges with up to two writes to the key: insert, update,
  delete and insert again, in all splits over the ranges.
- `RpcClient`: two callers of one key with two calls in total and one direct caller; one
  token; two delays, the second longer than the dedup timeout, so that a late owner, an
  eviction and a second owner happen. A third caller that evicts the second owner's entry
  needs more calls than that; the proof of `EntryIsAlive` covers it.
- `RpcCache`: two clients; two windows that share a log, one with two logs of its own
  and an empty one.
- `Realtime`: five blocks, two reorganisations and a window of two, so that forks are
  within, at and below the window, and blocks are evicted. Workers of different
  contracts do the same, so one is enough.
- `ReorgStore`: one key (keys do not affect each other), four writes over four blocks, a
  finality depth of two.
- `Lifecycle`: four versions of the program: the second adds an indexed column, the third
  does not compile, the fourth adds a column without an index; one start by hand beside
  the dev loop.
- `MCAlgorithms`: blocks 0..6 and chunk sizes 1, 2, 3, 4, 7 (`Modulus` stands for 2^64; an
  assumption keeps the sums below it); tables of up to three rows with four order values, two of
  which JSON rounds to one number between them, two writes beside the reader, pages of 0
  to 2, and a client that gives up after six rows (a value rounded down brings the same
  page again for ever); a bucket of two over six units of time; logs of one or two
  parameters of 24 types; types with three brackets and tuples in tuples; two chains and
  two contracts; two tables with references; queries of six words; schemas of two tables
  with two words or three with one.

**Symmetry** is used for tables and flushers in `write_buffer`, which checks invariants
only.

**Deadlock** is checked except where the system may stop: calls that have been made
(`rpc_client`), a backfill at its end (`buffered_replay`), the loop after an error
(`realtime`), processes nobody starts again (`lifecycle`), algorithms that end
(`algorithms`).

**Fairness.**
- `Backfill`: weak fairness of `Progress`, the steps of a run in which nothing goes
  wrong. A running task is polled by the runtime, and someone restarts a dead
  process. Nothing is assumed of errors; `BackfillCompletes` is conditional on runs no
  longer being ended from some point on, and holds however many errors are swallowed.
- `RpcClient`: weak fairness of each caller's own steps and of the clock. `with_retry`
  makes at most five attempts, so a request ends. New calls are not assumed.
- `Realtime`: weak fairness of the loop, a task that waits for nothing while a head is
  announced. Nothing is assumed of the node.
- `Lifecycle`: weak fairness of the steps of each process, of its API task and of the
  dev loop. Nobody has to edit, signal or start anything.

## 4. Where code and documentation differ

Each run below checks one statement of the documentation, and TLC finds a behaviour of
the code that violates it. The quotes are in `PROJECT.json`.

| run | the code | the documentation |
|---|---|---|
| `rpc_cache_interrupted` | half of a response, once stored, is a hit | a response is stored for future use |
| `lifecycle_build_id` | the new id is stored before it is compared, so a changed schema is reported as `Same` | the check detects schema changes |

Differences that the passing runs state as the conditions of their properties:

- Handlers of contracts with different first blocks are not called in block order
  (`README.md:116`); `AlignedBlockOrder` is about those with the same first block.
- An insert into a full buffer fails and the event is passed by; it does not trigger a
  flush (`docs/architecture.md:142`). `ReadyMeansIndexed` counts such events as failed.
- After a checkpoint that could not be read, an interrupted replay can bring a deleted
  row back for good (`CHANGELOG.md:18`: restarts pick up where they left off);
  `ReplayConverges` excludes it with `cut`.
- The primary key of the log cache lacks the window (`docs/architecture.md:130`), so a log
  is stored for one window only; `HitsComplete` excludes windows that share logs.
- An evicted request that ends late removes its successor's entry, so two requests
  younger than 30 s can be in flight; `OneRequest` speaks of the time before any request
  is 30 s old.
- Retries do not take a token, and wait 2, 30, 30 and 30 s where the comment has 1, 2, 4,
  8; `RateHolds` counts first attempts.
- A reorganisation rolls back and goes on with the next block: nothing is indexed again
  from the fork point, and checkpoints stay (`docs/architecture.md:102`). A stream that
  ends is not opened again. `WindowIndexed` speaks of blocks that were processed.
- A rollback restores text columns only, and undoes two writes of a key in one block in
  any order; both are conditions of `RollbackRestores`.
- Nothing locks the schema (`docs/architecture.md:149`); `TablesAgree` holds unless
  migrations run beside each other or end early.
- Files saved before the watcher exists are not seen (`missed` in `DevRunsLatest`), and a
  changed `.env` restarts nothing, since the watcher ignores files whose name starts with a
  dot.
- A signal during the backfill ends the API and not the runner, which waits for a second
  one.
- List queries compare with the cursor by `>` in descending order as well; rows with NULL
  in the order column are lost after the first page; a numeric primary key gives no
  cursor; an empty `in` list selects everything. `PagesComplete` names each of them.
- The order value in a cursor is what `serde_json` makes of the row: a `NUMERIC` above u64
  becomes an f64 and the next page is compared with the rounded number, so that in
  ascending order rows are skipped, repeated, or come for ever
  (`docs/graphql-api.md:97`: "not truncated to a floating-point approximation").
  `PagesComplete` speaks of clients that received only order values JSON keeps (`Exact`).
- Signed integers of exactly 128 bits, static arrays of elements of several slots and
  dynamic values inside arrays or inner tuples are decoded wrongly; `Supported` excludes
  them. Of two parameters with one name the later is kept.
- Names of tables that meet the name of another table's list, page, filter or order, or
  of a shared type, replace it or end the build; `PlainTables` excludes them.
- Table names after the second FROM or JOIN are not prefixed, nor those after FROM or JOIN
  in mixed case or with other white space than one space behind; `PlainTablesPrefixed`
  excludes them.
- Only the first LIMIT is looked at, wherever it stands, and only a number that parses as
  u64 is clamped. A query with a LIMIT in a subquery, or with `LIMIT 1e9`, `LIMIT 5000.5`,
  `LIMIT ALL` or an expression, is answered without bound (`docs/sql-api.md:52`: "LIMIT >
  1000 is clamped to 1000"); `PlainIsBounded` speaks of queries without LIMIT and of those whose only
  LIMIT ends them with such a number.
- `validate` asks only that the URL of a chain is not empty and that an ABI is JSON; one
  that does not parse stops `run()` after the database was set up. It does not look at
  references and indexes either, which may stop the migration half-way; `AcceptedConfigsWork`
  names these cases.
- `find_one` reads the database only: a second event of a key in one range does not see
  the row that the first one buffered, and a range that is repeated is counted twice.
  `CountsEvents` excludes both.

Other differences that show in the code without a model:
- `plan` does not read `end_block`, which `docs/config-reference.md:49` calls the block
  to stop indexing at; a `max_block_range` of 0 is accepted and never ends.
- `update` and `delete` of the buffer do not look at `max_size`
  (`docs/performance.md:33`: 10,000 rows per table).
- After readiness the runner waits for a signal; nothing constructs the realtime
  pipeline that `docs/architecture.md:97` describes.
- All sentinel rows of the log cache have the key (-1, -1), so one empty window per
  chain can be remembered. The others are fetched again, which costs requests only.
- The SQL rate limit is one bucket for all clients (`docs/sql-api.md:70`: per IP).
- `totalCount` counts with the cursor's condition; columns of type BigInt get a filter
  without comparisons; the order direction is `ASC` or `DESC` where the docs write `desc`.
- The list query of a table `transfers` is called `transferss` (`schema_gen.rs:190` adds an
  s), where `docs/graphql-api.md:34` has `transfers`.
- Handlers registered with `setup` are dropped; the schema name that is validated is
  another than the one that is used.

## 5. The proofs

| theorem | states |
|---|---|
| `BackfillProofs!TypeCorrect`, `CheckpointIsSafe`, `ReadyIsTruthful` | `Spec => []TypeOK`, `[]CheckpointSafety`, `[]ReadyMeansIndexed` |
| `BackfillProofs!Refinement` | `Spec => Index!AbsSpec` |
| `BackfillProofs!HandlersInBlockOrder`, `CheckpointsMoveForward`, `ProgressStaysWithinTotal` | `[]AlignedBlockOrder`, the action property `CheckpointMovesBackOnlyWhenUnread`, `[]ProgressWithinTotal` |
| `AlgorithmProofs!LoopMatchesPlanner`, `PlanTilesBlocks` | the loop computes the closed form, and its ranges tile the interval |
| `AlgorithmProofs!LimiterBoundsBursts` | `SqlSpec => []BurstsBounded` |
| `AlgorithmProofs!PagesAreComplete` | `PagingSpec => []PagesComplete`, for any table, filter, limit, rounding of order values and writes beside the reader |
| `AlgorithmProofs!ConfigsAlwaysWork`, `GraphqlNamesAlwaysResolve`, `QueriesAlwaysSanitised` | `AcceptedConfigsWork`, `GraphqlNamesResolve`, `QueriesSanitised`, for every input of the right type |
| `WriteBufferProofs!TypeCorrect`, `OneOwner`, `FlushIsDurable` | `[]TypeOK`, `[]SingleOwner`, `[]FlushMakesDurable`, for any number of flushers |
| `WriteBufferProofs!LoneFlushIsDurable` | with one flusher, `Ok` means that every row asked for is executed |
| `WriteBufferProofs!ReplayConvergesAlways`, `CountsEventsAlways` | `[]ReplayConverges`, `[]CountsEvents`, for any number of ranges and writes |
| `RpcClientProofs!OneRequestInFlight`, `AnswersAreCurrent`, `EntriesAreAlive` | the three invariants of `dedup`, for any number of callers and calls |
| `RpcClientProofs!ClientDeduplicates` | the three invariants, in the client |
| `RpcClientProofs!ClientRateHolds`, `ClientRetriesAreExhausted` | `[]RateHolds`, `[]RetriesAreExhausted`, for any delays, tokens and methods |
| `RpcCacheProofs!CacheIsSound`, `CachedWindowsAreComplete` | `[]AnswersSound`, `[]HitsComplete`, under any failure |
| `RealtimeProofs!NeverFalseReorg`, `WindowIsIndexed`, `WindowAlwaysFollowsFork` | `[]NoFalseReorg`, `[]WindowIndexed`, the action property `WindowFollowsFork`, for any window and chain |
| `ReorgStoreProofs!RollbackAlwaysRestores`, `ShadowAlwaysSuffices` | `[]RollbackRestores`, `[]ShadowSuffices`, for any keys, writes, blocks and depth |
| `LifecycleProofs!TablesAlwaysAgree`, `DevAlwaysRunsLatest` | `[]TablesAgree`, `[]DevRunsLatest`, for any versions and starts |

They hold for every value of the constants that satisfies the module's `ASSUME`: in
`Backfill`, chunk sizes of at least one, start blocks and events of the right type, and
finitely many contracts, whose blocks are summed up; chains, tables and events may be
infinite. In `Realtime` and `ReorgStore` the values that stand for "none" are not hashes
or rows. The three theorems about inputs have one hypothesis each, that the input is of
its type (`ConfigInput`, a sequence of `SnakeNames`, `SqlInput`); TLC evaluates that the
inputs of the run `algorithms` are (`InputsAreTyped`). Types leave the length of names,
queries and schemas open. Before they were proved, the inductive invariants were checked by TLC on the
instances of the runs.

**Backfill.** `CheckpointSafety` is not inductive: that the checkpoint may be moved to
the end of the range depends on what happened since the range was begun. `IInv` adds
- `BufferInv`: outside a round the buffer is empty, and during a flush the tables that
  were done have empty buffers;
- `CoverageInv`: every contract of the chain is indexed from its start block up to the
  range of the current round, and chains that were completed are indexed up to their
  target. A plan starts at the start block or at the checkpoint, and for the latter
  this is `CheckpointSafety` of the earlier run;
- `RoundInv`: within a round, each event of the active ranges is still to be fetched,
  pending, buffered in the tables it is not yet committed to, persisted, or failed.

When the buffer has been flushed, `RoundInv` says that all events of the round are
persisted; with `CoverageInv` that is `CheckpointSafety` for the new checkpoint and
`CoverageInv` for the next round. The arithmetic of ranges is in lemmas about
`RangeFrom` and `RangeTo`. The refinement follows from the same invariant: a flush is
a `Persist` step, `PutCheckpoint` a `SetMark` step, the rest stutters.

The order of events holds because a pending event lies in the current range of its
contract, and ranges of plans with the same start are equal. The checkpoint moves
forward because a plan that does not start at the start block starts at the checkpoint.
Progress: a round records at most a chunk, and the rounds so far no more than the plan
of the contract with the longest one (`ProgressInv`), which is one term of the total.

**PlannerLoop and SqlEndpoint.** The loop invariant says that the ranges so far are those
of the closed form, and that `from` is the first block of the next; every block before
`from` is in one of them (`TileInv`). For the bursts, `RoomLeft` counts what is in the
bucket as well: what was let through since any moment and the tokens that could be taken
now stay within the bound, so that a request uses up room and a tick makes as much room
as it refills.

**Paging.** A page is characterised by its place in the order: it holds the first rows
behind the cursor, ascending, and a row it leaves out comes after its last one. `PageInv`
says that the rows received are in order and end at the cursor (`InOrder`), that a row
nobody wrote was received as it is (`Genuine`), and that of these rows the client has
exactly the selected ones up to the cursor (`Received`). They hold while the order values
received are exact, since only then the cursor stands at the last row; a client that has
received another one stays out of reach of the property. A concurrent write moves its key
to `touched` and disturbs none of the three.

**Configuration.** With names that are not repeated, the CHOOSE in `ChainId` and
`Workers` has one candidate, so that each worker key leads to its contract. For the
migration, after the i-th table everything is made, or some table up to the i-th breaks
a rule (`Upto`), where a table's references are sought among the primary keys and unique
indexes of the tables before it and its own primary key.

**GraphqlSchema.** A plain name loses nothing in `ToPascalCase`, which is therefore
injective on plain names; the four type names of a table are told apart by their last
words, which no plain name ends in, and so are the shared names. The last registration of
a name is then the only one.

**SqlValidator.** Four relations between a query and what becomes of it, one per step:
`Trimmed` (a prefix, without forbidden words), `Renamed` (words are equal, or a table name
after a keyword got its schema), `Limited` (the first number after LIMIT replaced, or a
LIMIT added) and `Cleaned`, their composition. After the loop over the table names no
occurrence of any of them is left after a keyword, unless a name after that keyword is
qualified (`PrefixDone`); a query that is so stays so under `EnforceLimit`, and the loop
and `EnforceLimit` leave it alone. That is the fixed point.

**WriteBuffer.** `SingleOwner` needs that a flusher holds rows only while it is in a
statement phase (else `Take` would overwrite them), that rows are below `accepted`,
and that a held row's kind has not been passed by yet. For `FlushIsDurable`: what was
asked for is in the buffer of a table still to do, in the flusher's hand, applied, or
was taken by another flusher; and a table with rows has an entry in the map, so that
`flush_all` reaches it.

**BufferedReplay.** A state in the middle of a replay has a value that no single
execution of the history has. `BlindInv` says instead from where it still leads to the
right one: the writes after the p-th *settle* a value (`Settles`) if one of them deletes
the row, or if p is the end and the value is the outcome, or if the next write finds what
it needs: an update a row, a last insert no row or its own value. The value always
settles from the beginning, from the checkpoint unless a run was cut short behind it, and
from the write at which the current flush is. Each statement preserves this because
within a range only the first write inserts and only the last deletes. For the counting
handler, `CountInv` says that the value is the number of ranges with events before the
checkpoint, or before the current range with or without it, as long as no range with
events has been begun twice and none later has been begun at all. Where no range has two
events, that is the number of events (`BusyEvents`).

**RequestDedup.** The owner invariant ties each request in flight to exactly one caller
at `request` or `remove`. While no request is old nobody evicts, so a request in
flight is the one in the map and a removal can only hit one's own entry. That a
received answer is current rests on subscribing under the lock.

**RpcClient.** Each action of the client is an action of `RequestDedup` or leaves its
variables alone (`ClientIsDedup`, by the shape of the definitions), so the invariants
carry over. For the rate, `load` and the tokens
together never exceed the capacity: a token taken adds one to the former and takes one
from the latter, a tick at least undoes it. For the retries, what a request holds at
each stage is tied to its attempt counter.

**RpcCache.** A row is stored only for a window its log matches; hence a log that one
window alone has is stored for that window or not at all. What a client has inserted of
such a window stays there, so a completed `put_logs` leaves all of it (`FullInv`).

**Realtime.** The argument is about announcements. A hash that is orphaned stays so,
because a reorganisation opens a new branch and the chain never gets shorter. When a
block is announced its parent is canonical, so every other hash of the parent's number
that was announced before is orphaned from then on. `RealInv` says this of all pairs of
announced heads, of window entries, and of an entry and a head (`HeadsInv`,
`WindowInv`), in terms of the chain as a value, so that a step of the chain is one lemma
(`Grows`). A mismatch between the stored hash and the parent of the received block is
then a fork. For the window after a fork, an entry above an orphaned one is orphaned,
and the walk has found the first that is not. `IndexInv` follows the contracts through
`Fetch` and `Apply`: done, missed or under way.

**ReorgStore.** `RollbackRestores` is about the end of a rollback; what has to be
invariant is what an attempt may begin with, since a failed one leaves rows that are
wrong at every key it has not come to the end of: an UPDATE finds no row, an INSERT finds
one. `StoreInv` says
- undoing a key to the end of any block that is not final gives the row it had then: the
  row before its oldest shadow row above that block, or if there is none the row in the
  table (`Undoes`);
- consecutive shadow rows of a key fit (`Linked`): a deletion is followed by an insertion
  and nothing else is, so a wrong row meets a DELETE before it matters;
- for a key without one, the row in the table is right enough (`Startable`): present if
  all its shadow rows are UPDATEs, absent or the right one if its only one is an INSERT.

`Startable` holds when the first attempt begins, because the last shadow row of a key
fits the table (`LastFits`), and for every later one, because each replayed statement
preserves it both for what is left of this attempt and for all that the next would
repeat. The shadow table is in block order, so the clean-up keeps its beginning and
pruning its end.

**Lifecycle.** Nothing is ever dropped, so what a process has seen by the statement it is
at still holds (`SetupInv`); without a torn migration at most one process migrates, and a
table without its shadow table is its (`ShadowInv`). The dev loop has built the current
source at each of its points or still has a notification (`DevInv`).

**Induction.** The library's induction theorems take an operator as a parameter, which
the provers cannot instantiate. Where a proof needs induction over numbers it takes a
least counterexample (`LeastNatural`, from the well-foundedness of `<`): that a sum over
the contracts exists and is at least each of its terms, what a recursive function
computes (`Keep`, `Given`, `Migrated`, `ToPascalCase`, `AddPrefixes`), and where a
sequence is cut. For a recursive function the lemma is that some function makes its steps
up to n, for every n (`MigrationSteps`, `KeptSteps`, `PrefixSteps`).

**Only model-checked.** Liveness (`BackfillCompletes`, `ClientCallsReturn`,
`HeadsAreProcessed`, `StartsOrStops`) is out of the prover's reach.
`LogsRoundTrip` and `SignaturesCanonical` are about types nested in types, on which the
decoder and the parser call themselves: `RECURSIVE` operators, and induction over data.

## 6. What is not modelled, and further work

Left out:

- telemetry, logging, metrics, rate estimates, file templates and code generation of the
  command line: output only;
- core types and the conversion of RPC answers, rows and values: stateless translation of
  data;
- the caches of transactions, receipts and `eth_call` results: one row by one key, written
  in one statement, and no code of the indexer calls them;
- the factory tracker: no code calls it. Factory contracts are modelled as the code treats
  them, with no tracked addresses;
- the RPC transport, but for the parsing of its URL: time-outs are failed attempts;
- data that the modules assume away, as their headers say: strings in logs that are not
  UTF-8 and array lengths beyond memory (`AbiDecoder`), table names outside snake case
  (`GraphqlSchema`), fractions of a token (`SqlEndpoint`), updates that set nothing and
  deletes by another column than the key (`WriteBuffer`), filters that differ in empty topic
  positions (`RpcCache`), a node that flips back to an earlier branch (`Realtime`) and a
  `record_flush` that fails half-way (`ReorgStore`);
- HTTP routes, middleware and the health, readiness and schema handlers: stateless reads;
- the crates that are empty.

Further work:

1. Proofs: decoding of logs whose types have no tuple in a tuple, for which the recursion
   could be over numbers.
2. `Backfill` over `RpcCache` instead of an ideal node: two runs whose last ranges are
   cut at different blocks give overlapping windows.
3. `Realtime` over `ReorgStore`, once the code records flushes.
