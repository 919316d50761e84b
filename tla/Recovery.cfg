SPECIFICATION FairSpec

CONSTANTS
    Channel = {c1, c2}
    MaxNow = 2
    Settle = 2

INVARIANTS
    NoRoundBesideCapture
    WindowKept

PROPERTIES
    LostIsRecovered

CHECK_DEADLOCK FALSE
