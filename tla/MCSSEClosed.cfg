\* A browser that leaves while a frame is being sent.
CONSTANTS
    Clients = {c1, c2}
    Contents = {x, y}
    MaxUpdates = 2
    NoFrame = NoFrame
SYMMETRY ClientSymmetry
SPECIFICATION Spec
INVARIANT
    NoSendOnClosedChannel
CHECK_DEADLOCK FALSE
