CONSTANTS
    Rows = {r1, r2, r3}
    Producers = {p1, p2}
    FlushLoop = flusher
    BatchSize = 2
    MaxRetries = 2
SPECIFICATION Spec
INVARIANTS
    TypeOK
    NoSilentLoss
    CopiesAreUnsure
PROPERTIES
    RowsLeaveMemory
