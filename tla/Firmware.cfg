SPECIFICATION Spec
CHECK_DEADLOCK FALSE
CONSTANTS
    Parts = 2
    MaxAttempts = 2
    MaxBoots = 3
    OldCount = 1
INVARIANTS
    TypeOK
    ReasonIsOwn
    CountKept
    EndsWhenRead
PROPERTY
    BrokenNeedsDisturbance
