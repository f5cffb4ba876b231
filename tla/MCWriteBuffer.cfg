SPECIFICATION Spec
CONSTANTS
    t1 = t1
    t2 = t2
    typo = typo
    coordinator = coordinator
    background = background
    Tables = {t1, t2, typo}
    SchemaTables = {t1, t2}
    Flushers = {coordinator, background}
    MaxSize = 2
    MaxRows = 3
INVARIANTS SingleOwner FlushMakesDurable
SYMMETRY Symmetry
