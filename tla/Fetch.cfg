SPECIFICATION FetchFairSpec

CONSTANT Session = {f1, f2}

INVARIANTS
    DoneHasRecording

PROPERTIES
    TerminalIsFinal
    MissedIsSettled

CHECK_DEADLOCK FALSE
