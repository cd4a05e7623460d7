\* Two selections at the same time, on ports that answer.
CONSTANTS
    p1 = p1  p2 = p2  m1 = m1  m2 = m2
    Poller = poller
    Requests = {r1, r2}
    Ops = {"select"}
    Ports = {p1, p2}
    Modems = {m1, m2}
    PortsOf <- OnePortEach
    PortStates = {"at"}
    NoProc = NoProc
    NoPort = NoPort
    NoModem = NoModem
    FailStreakMax = 1
    ResetCooldown = 1
    RediscoverEvery = 1
SYMMETRY RequestSymmetry
SPECIFICATION Spec
INVARIANT
    SelectionBindsPort
