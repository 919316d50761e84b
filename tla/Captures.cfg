SPECIFICATION FairSpec

CONSTANTS
    Channel = {c1, c2}
    Recording = {r1, r2}
    Slots = 2
    StoreFails = TRUE

INVARIANTS
    LiveRowStaysCapturing

PROPERTIES
    StrandedSettles
    ImplementsMarks

CHECK_DEADLOCK FALSE
