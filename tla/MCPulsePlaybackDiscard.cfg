CONSTANTS
    Capacity = 2
    WriteSizes <- MCWriteSizes
    MaxBytes = 3
    MaxCredit = 2
    MaxPending = 1
SPECIFICATION Safety
PROPERTY DiscardStopsAtSnapshot
CHECK_DEADLOCK FALSE
