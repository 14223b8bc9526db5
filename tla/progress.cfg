CONSTANTS
    Adaptors <- MCAdaptors
    MaxPolls = 3
    MaxRounds = 3
SPECIFICATION Spec
INVARIANTS NothingRepaintsAfter
PROPERTIES RowChangesHands JobEnds
CHECK_DEADLOCK FALSE
