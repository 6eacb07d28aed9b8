SPECIFICATION LiveSpec
CONSTANTS
    NumPins = 2
    MaxTime = 2
    MaxQueue = 1
    Graphs <- FourGraphs
INVARIANTS FinishedComplete
PROPERTIES SyncInOrder Gapless Finishes ReceiveReturns
CHECK_DEADLOCK FALSE
