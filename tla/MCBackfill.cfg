SPECIFICATION Spec
CONSTANTS
    Chains = {"A", "B"}
    Contracts = {"p", "q", "r"}
    ChainOf <- McChainOf
    StartBlock <- McStartBlock
    Tables = {"t1", "t2"}
    Events <- McEvents
    WritesTo <- McWritesTo
    MayFail <- McMayFail
    ChunkSize <- McChunkSize
    MaxSize = 1
    MaxBlock = 3
    NoCheckpoint = NoCheckpoint
INVARIANTS TypeOK CheckpointSafety ReadyMeansIndexed AlignedBlockOrder ProgressWithinTotal
PROPERTIES CheckpointMovesBackOnlyWhenUnread ImplementsCheckpointedIndex
