SPECIFICATION FairSpec
CONSTANTS
    MaxTime = 3
    MaxSubPic = 2
    Lookahead = 2
    StreamLines <- MCStreamLines
    PictureLines <- MCPictureLines
    FileLines <- MCFileLines
    NumProviders = 2
    Animated = {2}
    MayTear = TRUE
    MaxOps = 3
INVARIANTS NoStalePicture NoOverlap
PROPERTIES EventuallyShown
CHECK_DEADLOCK FALSE
