CONSTANTS
    Capacity = 2
    WriteSizes <- MCWriteSizes
    MaxBytes = 3
    MaxCredit = 2
    MaxPending = 1
SPECIFICATION Spec
INVARIANTS
    NoLostWakeup
PROPERTIES
    NothingPlayedAfterDiscard
    CallReturns
    PipeSpec
CHECK_DEADLOCK FALSE
