SPECIFICATION Spec
CONSTANTS
    MaxThreads = 4
    Times = 3
    Busy = TRUE
INVARIANTS OneBody BodyStopped
CHECK_DEADLOCK FALSE
