CONSTANTS
    Deadline = 3
    Idle = 2
    MayFork = TRUE
    FitsPipe = FALSE
    PipeSize = 1
    MaxTime = 3
SPECIFICATION Spec
INVARIANTS
    TypeOK
    LeavesNothingBehind
PROPERTIES
    OnlySilenceIsStopped
    DeliveredInFull
    EndsUnlessHeld
CHECK_DEADLOCK FALSE
