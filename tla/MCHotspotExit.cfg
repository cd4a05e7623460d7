\* A start request racing the shutdown; no command fails, nothing crashes.
CONSTANTS
    Main = main
    Requests = {r1, r2}
    Ops = {"start"}
    Unreliable = {}
    MayCrash = FALSE
    NoProc = NoProc
SYMMETRY RequestSymmetry
SPECIFICATION Spec
INVARIANT
    NothingLeftAtExit
CHECK_DEADLOCK FALSE
