CONSTANTS
    plain = plain
    forced = forced
    User = User
    Calls = {plain, forced}
    Forced = {forced}
    MaxSlot = 2
    MaxEvents = 3
    MaxRounds = 2
SPECIFICATION Spec
INVARIANTS TypeOK PlacedWhole OutputsOnce OutputsKept
PROPERTIES UserFileKept PendingNamed
