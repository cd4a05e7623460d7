\* Two overlapping requests, an MBIM and an RNDIS modem.
CONSTANTS
    mb = mb  rn = rn
    Requests = {r1, r2}
    Modems = {mb, rn}
    Mbim = {mb}
    WithNet = {mb, rn}
    FirstMBIM = mb
    FirstNet = rn
    NoModem = NoModem
SYMMETRY RequestSymmetry
SPECIFICATION Spec
INVARIANTS
    TypeOK
    ConnectedIsUp
    NothingLeftUp
    AutoDisconnectFindsSession
