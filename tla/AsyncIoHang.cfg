SPECIFICATION Spec
CONSTANTS
    MaxRuns = 1
    Pieces = 2
    Depth = 2
PROPERTY PauseReturns
CHECK_DEADLOCK FALSE
