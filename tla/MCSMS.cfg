\* Two handlers, two formats, one late answer, a text that says OK, one notification.
CONSTANTS
    r1 = r1
    r2 = r2
    k = k
    Requests = {r1, r2}
    Keys = {k}
    SendKeys = {k}
    NoProc = NoProc
    NoKey = NoKey
    Ops = {"sendUCS2", "sendMulti", "read"}
    RateMax = 1
    Window = 1
    QueueMax = 2
    Lookalikes = {"ok"}
    MaxURCs = 1
    MaxTimeouts = 1
    MaxLookalikes = 1
SPECIFICATION Spec
SYMMETRY RequestSymmetry
\* With the deadlines used up, the line waits for an answer that does not come.
CHECK_DEADLOCK FALSE
INVARIANTS
    TypeOK
    TransmitOnce
    RecordedWasSent
    OwnAnswers
    SubmittedAsMeant
    URCsAccounted
