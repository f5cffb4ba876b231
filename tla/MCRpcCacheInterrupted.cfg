SPECIFICATION Spec
CONSTANTS
    Clients = {"a"}
    Windows = {"w1", "w2", "w3", "w4"}
    Logs = {"l1", "l2", "l3", "l4"}
    Match <- McMatch
    Sentinel = "sentinel"
    Free = "free"
INVARIANTS InterruptedPutIsHarmless
