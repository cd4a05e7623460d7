\* Two browsers, a status that changes, changes back or only ages.
CONSTANTS
    Clients = {c1, c2}
    Contents = {x, y}
    MaxUpdates = 2
    NoFrame = NoFrame
SPECIFICATION FairSpec
INVARIANTS
    TypeOK
    MissedOnlyWhenFull
PROPERTIES
    RoundsFinish
    ShowsSettledStatus
CHECK_DEADLOCK FALSE
