CONSTANTS
    c1 = c1
    c2 = c2
    c3 = c3
    parent = parent
    child = child
    other = other
    NoCall = NoCall
    Calls = {c1, c2}
    Sessions = {parent, child}
    Ancestors <- MCAncestors
    MaxToolRounds = 3
    MaxAsked = 1
    Budgeted = {}
    Budget = 0
SPECIFICATION Spec
SYMMETRY MCSymmetry
INVARIANTS TypeOK PointerSound RoundsChain ContinuedIsWhole ContinueStaysHome OutcomeStored
PROPERTY TreeSpec
