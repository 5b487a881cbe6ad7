CONSTANTS
    Orders = {o1}
    Calls = {c1, c2, c3}
SPECIFICATION Spec
SYMMETRY Interchangeable
INVARIANTS
    TypeOK
    UntrackedWasRefused
    CancelledIsDead
    UnracedFillOnce
    FillRowsMatchEvents
PROPERTIES
    DeletedStaysDeleted
CHECK_DEADLOCK FALSE
