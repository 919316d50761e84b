SPECIFICATION Spec

CONSTANTS
    Recording = {r1, r2}
    Fetched = {r2}
    Longest = {}
    Watcher = {w1, w2}
    Sweeper = {s}
    Recompressor = {}
    Releaser = {}
    Operator = {}
    InProcess = FALSE
    KeepOriginal = FALSE
    FileLocks = TRUE
    StoreFails = FALSE
    ToolFails = TRUE
    ToolMissing = FALSE
    MayErase = TRUE
    MaxRemuxAttempts = 2
    MaxNames = 2
    MaxCrashes = 1
    Absent = Absent
    Partial = Partial
    Placeholder = Placeholder
    NoRow = NoRow
    NoPath = NoPath
    NoRecording = NoRecording

INVARIANTS
    AdoptsOwnMedia
    DeletedIsRefused

PROPERTIES
    OnlyCondemnedAreLost

CHECK_DEADLOCK FALSE
