SPECIFICATION Spec
CONSTANTS
    MaxRuns = 3
    Pieces = 4
    Depth = 2
INVARIANTS EventsMatch FlushedIsQuiet NothingLeftOver
PROPERTIES DeliveredInOrder CallReturns
CHECK_DEADLOCK FALSE
