SPECIFICATION Spec

CONSTANTS
    Recording = {r1}
    Fetched = {}
    Longest = {}
    Watcher = {}
    Sweeper = {s}
    Recompressor = {e}
    Releaser = {g}
    Operator = {o}
    InProcess = TRUE
    KeepOriginal = TRUE
    FileLocks = TRUE
    StoreFails = TRUE
    ToolFails = TRUE
    ToolMissing = TRUE
    MayErase = FALSE
    MaxRemuxAttempts = 2
    MaxNames = 2
    MaxCrashes = 2
    Absent = Absent
    Partial = Partial
    Placeholder = Placeholder
    NoRow = NoRow
    NoPath = NoPath
    NoRecording = NoRecording

INVARIANTS
    PurgedIsRefused
    OriginalIsBeside

CHECK_DEADLOCK FALSE
