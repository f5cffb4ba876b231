SPECIFICATION Spec
CONSTANTS
    Contracts = {"erc20"}
    Capacity = 2
    MaxAttempts = 3
    MaxNumber = 4
    MaxBranch = 2
    None = None
CHECK_DEADLOCK FALSE
INVARIANTS NoFalseReorg WindowIndexed
PROPERTIES WindowFollowsFork HeadsAreProcessed
