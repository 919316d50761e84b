SPECIFICATION Spec

CONSTANTS
    Recorder = {r1, r2}
    Pass = {b1}
    NoProc = NoProc
    StaleAfter = 3
    MaxLag = 2
    StoreFails = TRUE
    MaxTime = 7
    MaxRows = 3
    MaxRebuilds = 0

PROPERTIES
    ImplementsClaim

CHECK_DEADLOCK FALSE
