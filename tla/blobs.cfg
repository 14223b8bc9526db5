CONSTANTS
    plain = plain
    forced = forced
    User = User
    Calls = {plain}
    Forced = {}
    MaxSlot = 2
    MaxEvents = 2
    MaxRounds = 1
SPECIFICATION Spec
INVARIANT OneBlobOneFile
