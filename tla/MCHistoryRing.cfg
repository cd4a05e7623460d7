\* The ring wraps around, the file is longer than the ring, two crashes.
CONSTANTS
    Cap = 3
    MaxSamples = 4
    MaxFile = 4
    MaxCrashes = 2
    Ticker = ticker
    Final = final
    None = None
SPECIFICATION Spec
INVARIANTS
    TypeOK
PROPERTIES
    LogSpec
    StoredMovesForward
CHECK_DEADLOCK FALSE
