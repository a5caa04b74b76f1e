SPECIFICATION Spec
CONSTANTS
    Frames <- MCFrames
    MaxFrames = 3
    PayloadCuts = FALSE
INVARIANTS
    TypeOK
    MessagesIntact
    AssertionsHold
PROPERTIES
    CloseReachesManager
CHECK_DEADLOCK FALSE
