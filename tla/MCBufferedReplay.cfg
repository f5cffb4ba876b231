SPECIFICATION ReplaySpec
CONSTANTS
    MaxValue = 2
    MaxCount = 5
    Absent = Absent
    Ranges = 4
    RangeWrites = 2
INVARIANTS ReplayConverges CountsEvents
CHECK_DEADLOCK FALSE
