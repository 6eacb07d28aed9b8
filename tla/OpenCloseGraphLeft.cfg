SPECIFICATION Spec
CONSTANTS
    NumFiles = 2
    Inline = {}
    MaxCloses = 1
INVARIANT NoGraphLeft
CHECK_DEADLOCK FALSE
