SPECIFICATION Spec
CONSTANTS
    old = old
    new = new
    odd = odd
    Versions = {old, new, odd}
    Valid = {old, new}
    Size <- MCSize
    Hole = Hole
    Calls = {c1, c2}
    MaxAsked = 1
    MaxEdits = 2
    MaxFaults = 0
INVARIANT AssertionsHold
CHECK_DEADLOCK FALSE
