CONSTANTS
    c1 = c1
    c2 = c2
    c3 = c3
    parent = parent
    child = child
    other = other
    NoCall = NoCall
    Calls = {c1, c2}
    Sessions = {parent, child}
    Ancestors <- MCAncestors
    MaxToolRounds = 2
    MaxAsked = 1
    Budgeted = {c2}
    Budget = 1
SPECIFICATION FairSpec
PROPERTIES EveryCallEnds LockReleased CeilingStops
