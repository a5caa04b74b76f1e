SPECIFICATION Spec
CONSTANTS
    Frames <- MCDivisible
    MaxFrames = 1
    PayloadCuts = TRUE
INVARIANTS
    MessagesIntact
CHECK_DEADLOCK FALSE
