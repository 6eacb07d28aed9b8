SPECIFICATION Spec
CONSTANTS
    NumFiles = 4
    Inline = {3}
    MaxCloses = 2
INVARIANTS NoGraphReplaced AsWanted NoEmbrace
PROPERTIES ClosedIsReleased Settles WindowReturns
CHECK_DEADLOCK FALSE
