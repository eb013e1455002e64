SPECIFICATION MCSpec
CONSTANTS
    a = a
    b = b
    v = v
    Null = Null
    HostName = {a, b}
    Note = {v}
    MaxLocal = 2
    MaxUid = 2
    MaxId = 3
    MaxCalls = 4
SYMMETRY Symmetry
INVARIANTS ProductionIsNewest DiffIsPatch
PROPERTY ImplementsStore
CHECK_DEADLOCK FALSE
