\* Recovery of the AT path and completion of the requests, under fairness.
CONSTANTS
    p1 = p1  p2 = p2  m1 = m1  m2 = m2
    Poller = poller
    Requests = {r1}
    Ops = {"control"}
    Ports = {p1, p2}
    Modems = {m1, m2}
    PortsOf <- OnePortEach
    PortStates = {"at", "mute", "gone"}
    NoProc = NoProc
    NoPort = NoPort
    NoModem = NoModem
    FailStreakMax = 1
    ResetCooldown = 1
    RediscoverEvery = 1
SPECIFICATION FairSpec
PROPERTIES
    Recovers
    RequestsComplete
