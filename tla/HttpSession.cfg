SPECIFICATION Spec
CONSTANTS
    Requests <- MCRequests
    MaxRequests = 2
    MaxSize = 3
    Chunk = 2
    MaxFaults = 1
INVARIANTS
    TypeOK
    ResponsesInOrder
    AssertionsHold
PROPERTIES
    EveryRequestAnswered
CHECK_DEADLOCK FALSE
