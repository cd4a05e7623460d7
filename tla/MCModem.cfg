\* The poller and one request of any kind: sharing of the port, and recovery.
CONSTANTS
    p1 = p1  p2 = p2  m1 = m1  m2 = m2
    Poller = poller
    Requests = {r1}
    Ops = {"poll", "setMode", "read", "control", "select", "usbReset"}
    Ports = {p1, p2}
    Modems = {m1, m2}
    PortsOf <- OnePortEach
    PortStates = {"at", "mute", "denied"}
    NoProc = NoProc
    NoPort = NoPort
    NoModem = NoModem
    FailStreakMax = 2
    ResetCooldown = 1
    RediscoverEvery = 1
SPECIFICATION Spec
INVARIANTS
    TypeOK
    SoleOwner
    OnePortPerSequence
    NoWaitCycle
    ResetPolicy
    PortClosedWhileProbing
