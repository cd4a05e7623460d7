\* Two ports, one refresh at a time, two changes.
CONSTANTS
    tty0 = tty0  tty1 = tty1  go1 = go1  go2 = go2
    Ports = {tty0, tty1}
    ATPorts = {tty0, tty1}
    FirstPort = tty0
    NoPort = NoPort
    Slots = {go1, go2}
    Discovery = Discovery
    ListTTL = 1
    ProbeTTL = 1
    MaxChanges = 2
SPECIFICATION FairSpec
INVARIANTS
    TypeOK
    OwnPortReady
PROPERTIES
    ListingMovesForward
    CatchesUp
    Finds
