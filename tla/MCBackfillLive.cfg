SPECIFICATION FairSpec
CONSTANTS
    Chains = {"A"}
    Contracts = {"p"}
    ChainOf <- LiveChainOf
    StartBlock <- LiveStartBlock
    Tables = {"t1", "t2"}
    Events <- LiveEvents
    WritesTo <- LiveWritesTo
    MayFail <- LiveMayFail
    ChunkSize <- LiveChunkSize
    MaxSize = 2
    MaxBlock = 2
    NoCheckpoint = NoCheckpoint
PROPERTY BackfillCompletes
