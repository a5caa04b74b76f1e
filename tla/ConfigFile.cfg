SPECIFICATION Spec
CONSTANTS
    old = old
    new = new
    odd = odd
    Versions = {old, new, odd}
    Valid = {old, new}
    Size <- MCSize
    Hole = Hole
    Calls = {c1, c2}
    MaxAsked = 2
    MaxEdits = 2
    MaxFaults = 1
INVARIANT TypeOK
PROPERTY RulesCatchUp
PROPERTY DescriptorsReleased
CHECK_DEADLOCK FALSE
