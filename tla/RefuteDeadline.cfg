CONSTANTS
    Deadline = 3
    Idle = 0
    MayFork = FALSE
    FitsPipe = FALSE
    PipeSize = 1
    MaxTime = 3
SPECIFICATION Spec
PROPERTIES
    DeadlineEnforced
CHECK_DEADLOCK FALSE
