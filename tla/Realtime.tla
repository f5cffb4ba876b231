------------------------------ MODULE Realtime ------------------------------
(***************************************************************************)
(* Following the head of one chain after the backfill: the processor loop  *)
(* (realtime/processor.rs) over the block subscriber (subscriber.rs), the  *)
(* reorganisation detector (reorg/detector.rs) with its window of recent   *)
(* hashes (chain_state.rs), the reorganisation handler (reorg/handler.rs)  *)
(* and the cached RPC client whose block and log rows nothing invalidates. *)
(*                                                                         *)
(* The environment is the node: its canonical chain grows, or a suffix of  *)
(* it is replaced, at any moment, also between two calls of the loop.  A   *)
(* block hash is <<number, branch>>; every reorganisation opens a branch.  *)
(* eth_getLogs and eth_getBlockByNumber go by number, so they answer for   *)
(* the block that is canonical when the call is made.                      *)
(***************************************************************************)
EXTENDS Integers, Sequences, FiniteSets

CONSTANTS
    Contracts,     \* one worker each
    Capacity,      \* DEFAULT_CAPACITY: length of the window and depth of the walk
    MaxAttempts,   \* MAX_RECONNECT_ATTEMPTS
    MaxNumber,     \* bound: the highest block the node produces
    MaxBranch,     \* bound: reorganisations
    None

ASSUME RealtimeAssumption ==
    /\ Capacity \in Nat \ {0}
    /\ MaxAttempts \in Nat \ {0}
    /\ MaxNumber \in Nat /\ MaxBranch \in Nat
    /\ IsFiniteSet(Contracts)

VARIABLES
    chain,         \* [0..tip -> branch], the node's canonical chain
    heads,         \* announced blocks the loop has not received
    pc,            \* where the loop is
    attempt,       \* of connect
    block,         \* the block being processed
    cursor,        \* current_number of find_fork_point
    window,        \* ChainState: <<number, hash>> pairs
    blockCache,    \* ponder_sync.blocks: [number -> hash or None]
    logCache,      \* ponder_sync.logs: [contract -> [number -> hash or None]]
    todo,          \* workers that have not been asked about the block
    events,        \* all_events: <<contract, hash>>, the contract's logs in a block
    indexed,       \* <<contract, hash>> pairs whose handlers' writes are flushed
    decided,       \* history: the last Reorg decision, or None
    missed         \* history: <<contract, number>> whose fetch failed

vars == <<chain, heads, pc, attempt, block, cursor, window, blockCache, logCache,
          todo, events, indexed, decided, missed>>
node == <<chain, heads>>
caches == <<blockCache, logCache>>

Numbers == 0..MaxNumber
Hashes == Numbers \X (0..MaxBranch)

ASSUME NoneAssumption == None \notin Hashes

Tip == CHOOSE n \in DOMAIN chain : \A m \in DOMAIN chain : m <= n
Canonical(n) == <<n, chain[n]>>
Forked == \E n \in DOMAIN chain : chain[n] # 0

Init ==
    /\ chain = [n \in {0} |-> 0]
    /\ heads = <<>>
    /\ pc = "connect"
    /\ attempt = 1
    /\ block = None
    /\ cursor = 0
    /\ window = <<>>
    /\ blockCache = [n \in Numbers |-> None]
    /\ logCache = [c \in Contracts |-> [n \in Numbers |-> None]]
    /\ todo = {}
    /\ events = {}
    /\ indexed = {}
    /\ decided = None
    /\ missed = {}

-----------------------------------------------------------------------------
(* The node. *)

Header(ch, n) ==
    [number |-> n, hash |-> <<n, ch[n]>>, parent |-> IF n = 0 THEN None ELSE <<n - 1, ch[n - 1]>>]

\* The chain becomes ch; the subscription announces its blocks from first on.
Announce(ch, first, last) ==
    /\ pc # "stopped"
    /\ chain' = ch
    /\ heads' = IF pc = "connect" THEN heads
                ELSE heads \o [i \in 1..(last - first + 1) |-> Header(ch, first + i - 1)]
    /\ UNCHANGED <<pc, attempt, block, cursor, window, caches, todo, events, indexed,
                   decided, missed>>

Mine ==
    /\ Tip < MaxNumber
    /\ LET branch == chain[Tip]
       IN  Announce([n \in 0..(Tip + 1) |-> IF n \in DOMAIN chain THEN chain[n] ELSE branch],
                    Tip + 1, Tip + 1)

\* The blocks from number fork on are replaced by a longer branch that was never
\* canonical before (a node that flips back to an earlier one is left out); some
\* nodes announce each of its blocks, some only the new tip.
Reorganise ==
    \E fork \in 1..Tip, last \in (Tip + 1)..MaxNumber :
        /\ chain[Tip] < MaxBranch
        /\ LET ch == [n \in 0..last |-> IF n < fork THEN chain[n] ELSE chain[Tip] + 1]
           IN  \E first \in {fork, last} : Announce(ch, first, last)

-----------------------------------------------------------------------------
(* ChainState. *)

\* push: evict the oldest pair at capacity, append without looking at the order.
Push(w, n, h) == Append(IF Len(w) >= Capacity THEN Tail(w) ELSE w, <<n, h>>)

\* get_hash: the first pair of that number.
Positions(w, n) == {i \in 1..Len(w) : w[i][1] = n}
GetHash(w, n) ==
    IF Positions(w, n) = {} THEN None
    ELSE w[CHOOSE i \in Positions(w, n) : \A j \in Positions(w, n) : i <= j][2]

\* prune_above: drop pairs from the back while their number is above n.
Kept(w, n) == {i \in 1..Len(w) : w[i][1] <= n}
PruneAbove(w, n) ==
    IF Kept(w, n) = {} THEN <<>>
    ELSE SubSeq(w, 1, CHOOSE i \in Kept(w, n) : \A j \in Kept(w, n) : j <= i)

SaturatingSub(a, b) == IF a >= b THEN a - b ELSE 0

-----------------------------------------------------------------------------
(* NewBlockSubscriber. *)

Connect ==
    /\ pc = "connect"
    /\ pc' = "wait"
    /\ attempt' = 1
    /\ UNCHANGED <<node, block, cursor, window, caches, todo, events, indexed,
                   decided, missed>>

\* A failed attempt is repeated after a delay; the last one ends the loop.
ConnectFails ==
    /\ pc = "connect"
    /\ \/ attempt < MaxAttempts /\ attempt' = attempt + 1 /\ UNCHANGED pc
       \/ attempt = MaxAttempts /\ pc' = "stopped" /\ UNCHANGED attempt
    /\ UNCHANGED <<node, block, cursor, window, caches, todo, events, indexed, decided, missed>>

\* The stream ends when the connection does, and run returns Ok.
Disconnect ==
    /\ pc = "wait"
    /\ heads = <<>>
    /\ pc' = "stopped"
    /\ UNCHANGED <<node, attempt, block, cursor, window, caches, todo, events, indexed,
                   decided, missed>>

-----------------------------------------------------------------------------
(* ReorgDetector::process_block. *)

\* Mutant: the block's own hash is compared.
MismatchOwnHash(b) ==
    LET stored == GetHash(window, b.number - 1)
    IN  window # <<>> /\ b.number # 0 /\ stored # None /\ stored # b.hash

\* The window holds another hash for the parent.  A window without the parent,
\* or without any block, accepts the block.
Mismatch(b) ==
    LET stored == GetHash(window, b.number - 1)
    IN  window # <<>> /\ b.number # 0 /\ stored # None /\ stored # b.parent

\* The next block of the stream.
Receive ==
    /\ pc = "wait"
    /\ heads # <<>>
    /\ LET b == Head(heads)
       IN  /\ block' = b
           /\ heads' = Tail(heads)
           /\ \/ /\ ~Mismatch(b)
                 /\ window' = Push(window, b.number, b.hash)
                 /\ pc' = "fetch"
                 /\ todo' = Contracts
                 /\ UNCHANGED cursor
              \/ /\ Mismatch(b)
                 /\ cursor' = b.number - 1
                 /\ pc' = "walk"
                 /\ UNCHANGED <<window, todo>>
    /\ decided' = None
    /\ UNCHANGED <<chain, attempt, caches, events, indexed, missed>>

\* RpcCacheStore: the row of a number; a row that is there stays as it is.
GetBlock(n) == blockCache[n]
PutBlock(n, h) == blockCache' = [blockCache EXCEPT ![n] = IF @ = None THEN h ELSE @]

\* CachedRpcClient::get_block_by_number: a cached row wins over the node, and
\* what the node answers is stored unless the insert fails, which is ignored.
LookUp(n, h) ==
    \/ GetBlock(n) # None /\ h = GetBlock(n) /\ UNCHANGED blockCache
    \/ /\ GetBlock(n) = None
       /\ n \in DOMAIN chain
       /\ h = Canonical(n)
       /\ PutBlock(n, h) \/ UNCHANGED blockCache

\* Mutant: the window keeps the first block that differs.
DecideKeepsFork(fork) ==
    /\ window' = PruneAbove(window, fork)
    /\ decided' = fork
    /\ cursor' = 0
    /\ pc' = "rollback"

\* find_fork_point ends: prune the window, hand the decision to the handler.
Decide(fork) ==
    /\ window' = PruneAbove(window, SaturatingSub(fork, 1))
    /\ decided' = fork
    /\ cursor' = 0
    /\ pc' = "rollback"

\* Mutant: the walk does not move.
DescendStuck ==
    /\ cursor' = cursor
    /\ UNCHANGED <<window, decided, pc>>

\* The blocks differ: go one down, or give up with DeepReorg at the bottom.
Descend ==
    /\ UNCHANGED <<window, decided>>
    /\ \/ /\ cursor # 0 /\ cursor - 1 >= SaturatingSub(block.number, Capacity)
          /\ cursor' = cursor - 1
          /\ UNCHANGED pc
       \/ /\ cursor = 0 \/ cursor - 1 < SaturatingSub(block.number, Capacity)
          /\ pc' = "stopped"
          /\ UNCHANGED cursor

\* One round of find_fork_point: compare the node's block with the stored one
\* until they agree or the window knows no block.
Walk ==
    /\ pc = "walk"
    /\ \E h \in Hashes :
        /\ LookUp(cursor, h)
        /\ \/ GetHash(window, cursor) \in {None, h} /\ Decide(cursor + 1)
           \/ GetHash(window, cursor) \notin {None, h} /\ Descend
    /\ UNCHANGED <<node, attempt, block, logCache, todo, events, indexed, missed>>

\* Mutant: the block that revealed the fork enters the window all the same.
HandleReorgPushes ==
    /\ pc = "rollback"
    /\ pc' = "wait"
    /\ window' = Push(window, block.number, block.hash)
    /\ UNCHANGED <<node, attempt, block, cursor, caches, todo, events, indexed, decided, missed>>

\* ReorgHandler::handle_reorg: flush, then undo what the shadow tables hold at
\* or above the fork.  No code writes shadow rows (record_flush has no caller),
\* so no table changes, and neither do the checkpoints.  The loop continues
\* with the next block: the one that revealed the fork is not fetched.
HandleReorg ==
    /\ pc = "rollback"
    /\ pc' = "wait"
    /\ UNCHANGED <<node, attempt, block, cursor, window, caches, todo, events, indexed,
                   decided, missed>>

-----------------------------------------------------------------------------
(* Indexing one block. *)

\* fetch_range of one worker, over the log cache.  A range above the node's tip
\* has no logs.
Fetch(c) ==
    /\ pc = "fetch"
    /\ c \in todo
    /\ LET n == block.number
           h == IF logCache[c][n] # None THEN logCache[c][n]
                ELSE IF n \in DOMAIN chain THEN Canonical(n) ELSE None
       IN  /\ events' = IF h = None THEN events ELSE events \cup {<<c, h>>}
           /\ logCache' \in {logCache, [logCache EXCEPT ![c][n] = h]}
    /\ todo' = todo \ {c}
    /\ UNCHANGED <<node, pc, attempt, block, cursor, window, blockCache, indexed, decided, missed>>

\* An error of one worker is logged; the block goes on without its events.
FetchFails(c) ==
    /\ pc = "fetch"
    /\ c \in todo
    /\ todo' = todo \ {c}
    /\ missed' = missed \cup {<<c, block.number>>}
    /\ UNCHANGED <<node, pc, attempt, block, cursor, window, caches, events, indexed, decided>>

\* Handlers in log order, flush_all.  A handler's error is logged, no more.
Apply ==
    /\ pc = "fetch"
    /\ todo = {}
    /\ \E ok \in SUBSET events :
        /\ indexed' = indexed \cup ok
        /\ missed' = missed \cup {<<e[1], block.number>> : e \in events \ ok}
    /\ events' = {}
    /\ pc' = "wait"
    /\ UNCHANGED <<node, attempt, block, cursor, window, caches, todo, decided>>

\* An RPC error in the walk, a handler's panic, a failed flush or rollback ends the loop.
Fails ==
    /\ pc = "walk" \/ pc = "rollback" \/ (pc = "fetch" /\ todo = {})
    /\ pc' = "stopped"
    /\ UNCHANGED <<node, attempt, block, cursor, window, caches, todo, events, indexed,
                   decided, missed>>

Loop ==
    \/ Receive \/ Walk \/ HandleReorg \/ Apply
    \/ \E c \in Contracts : Fetch(c) \/ FetchFails(c)

Next ==
    \/ Mine \/ Reorganise
    \/ Connect \/ ConnectFails \/ Disconnect
    \/ Loop \/ Fails

\* The loop is a task of its own: it runs on as long as it has a block.
Spec == Init /\ [][Next]_vars /\ WF_vars(Loop)

-----------------------------------------------------------------------------
(* Properties. *)

\* A hash that is no longer, or was never, the canonical one of its number.
Orphaned(h) == h[1] \notin DOMAIN chain \/ h # Canonical(h[1])

\* process_block never takes a block of the chain it follows for a fork: when it
\* starts to search for one, the hash it stored for the parent is orphaned,
\* whatever was skipped, lost, cached or reorganised before.
NoFalseReorg == pc = "walk" => Orphaned(GetHash(window, block.number - 1))

\* The window has no holes and is in order.
Contiguous == \A i \in 2..Len(window) : window[i][1] - window[i - 1][1] \in {0, 1}

\* The detector decides on a fork: no orphaned hash is left in the window, as
\* process_block needs to recognise the next fork.  It takes a window without
\* holes and block rows that are not stale.
WindowFollowsFork ==
    [][(/\ pc = "walk" /\ pc' = "rollback"
        /\ Contiguous
        /\ \A n \in Numbers : blockCache[n] = None \/ ~Orphaned(blockCache[n]))
       => \A i \in 1..Len(window') : ~Orphaned(window'[i][2])]_vars

\* A block in the window was indexed: between two blocks, every contract's logs
\* of that number were applied or their loss was logged; on a chain that never
\* forked they were the logs of that very block.
WindowIndexed ==
    pc = "wait" =>
        \A i \in 1..Len(window), c \in Contracts :
            \/ <<c, window[i][1]>> \in missed
            \/ \E h \in Hashes : h[1] = window[i][1] /\ <<c, h>> \in indexed
                               /\ (~Forked => h = window[i][2])

\* The loop gets through whatever is announced, or it has stopped with an error:
\* the walk to the fork ends and nothing is waited for.
HeadsAreProcessed == heads # <<>> ~> (heads = <<>> \/ pc = "stopped")

=============================================================================
