SPECIFICATION FairSpec

CONSTANTS
    Recording = {r1, r2}
    Fetched = {r2}
    Longest = {r1}
    Watcher = {}
    Sweeper = {s}
    Recompressor = {}
    Releaser = {}
    Operator = {}
    InProcess = FALSE
    KeepOriginal = FALSE
    FileLocks = FALSE
    StoreFails = FALSE
    ToolFails = TRUE
    ToolMissing = FALSE
    MayErase = FALSE
    MaxRemuxAttempts = 2
    MaxNames = 3
    MaxCrashes = 1
    Absent = Absent
    Partial = Partial
    Placeholder = Placeholder
    NoRow = NoRow
    NoPath = NoPath
    NoRecording = NoRecording

INVARIANTS
    CompleteIsWhole

PROPERTIES
    PendingSettles

CHECK_DEADLOCK FALSE
