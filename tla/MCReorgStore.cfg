SPECIFICATION Spec
CONSTANTS
    Keys = {"k1"}
    Texts = {"x", "y"}
    Numbers = {1}
    Null = Null
    Absent = Absent
    Depth = 2
    MaxBlock = 4
    MaxWrites = 4
INVARIANTS RollbackRestores ShadowSuffices
