SPECIFICATION FairSpec
CONSTANTS
    MinPackets = 1
    MaxPackets = 1
    HardCap = 1
    Lead = 1
    Graphs <- FourGraphs
INVARIANTS SeekTakesEffect Bounds
PROPERTIES Gapless EventuallyEos OpReturns
CHECK_DEADLOCK FALSE
