\* The smallest instance.
SPECIFICATION Spec
CONSTANTS
    Limit = 0
    Data = 1
PROPERTY EndIsSeen
CHECK_DEADLOCK FALSE
