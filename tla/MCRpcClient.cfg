SPECIFICATION ClientSpec
CONSTANTS
    Callers = {"a", "b"}
    MaxCalls = 2
    Direct = {"d"}
    MaxDirect = 1
    Method = "get_logs"
    MaxTokens = 1
    Delays <- McDelays
    DedupTimeout = 2
INVARIANTS OneRequest AnswerIsCurrent EntryIsAlive RateHolds RetriesAreExhausted
PROPERTIES ClientCallsReturn
CHECK_DEADLOCK FALSE
