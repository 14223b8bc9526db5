CONSTANTS
    plain = plain
    second = second
    overlaid = overlaid
    NoRow = NoRow
    Procs = {plain, second}
    Files = {1, 2}
    SourcesOf <- MCSourcesOf
    Depth = 2
    MaxEdits = 1
SPECIFICATION Spec
INVARIANT OneBuildNeverMismatches
