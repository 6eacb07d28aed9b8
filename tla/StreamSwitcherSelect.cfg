SPECIFICATION Spec
CONSTANTS
    NumInputs = 2
    NumSplitters = 2
    Layouts <- AllLayouts
    LastPosition = 1
    PacketsPerPin = 1
INVARIANTS SoughtOnce FormatsAgree 
 
CHECK_DEADLOCK FALSE
