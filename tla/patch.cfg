CONSTANTS
    None = None
    User = 0
    Torn = 9
    Paths <- MCPaths
    Present <- MCPresent
    Patches <- MCPatches
    Retries = 1
    Unchecked = FALSE
    Forced = FALSE
    MaxFaults = 1
    MaxEdits = 1
    MaxRounds = 2
    Later <- MCLater
SPECIFICATION GeniSpec
INVARIANTS TypeOK GateHolds CommitsThePatch CommitIsTheTree LandedIsTested WorkIsReachable
PROPERTIES ComesToAnEnd
