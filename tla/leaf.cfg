CONSTANTS
    c1 = c1
    c2 = c2
    c3 = c3
    parent = parent
    child = child
    other = other
    NoCall = NoCall
    Calls = {c1}
    Sessions = {parent}
    Ancestors <- MCAncestors
    MaxToolRounds = 2
    MaxAsked = 1
    Budgeted = {}
    Budget = 0
SPECIFICATION Spec
INVARIANT FailedRowNeverReplayed
