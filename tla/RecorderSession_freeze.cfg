SPECIFICATION Spec

CONSTANTS
    Recorder = {r1, r2}
    Pass = {}
    NoProc = NoProc
    StaleAfter = 2
    MaxLag = 9
    StoreFails = FALSE
    MaxTime = 6
    MaxRows = 2
    MaxRebuilds = 1

INVARIANTS
    HolderRowOpen

PROPERTIES
    DowntimeCoversOutage
    LostClaimIsRetaken

CHECK_DEADLOCK FALSE
