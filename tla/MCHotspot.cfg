\* Two requests, failing cleanups, daemons that die, crashes and the shutdown.
CONSTANTS
    Main = main
    Requests = {r1, r2}
    Ops = {"start", "stop", "status"}
    Unreliable = {"nat", "addr", "forwarding"}
    MayCrash = TRUE
    NoProc = NoProc
SYMMETRY RequestSymmetry
SPECIFICATION Spec
INVARIANTS
    TypeOK
    RoutedWhileRunning
    NothingLeftBehind
    StateSettles
CHECK_DEADLOCK FALSE
