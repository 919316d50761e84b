SPECIFICATION Spec

CONSTANTS
    Recording = {r1}
    Fetched = {r1}
    Longest = {r1}
    Watcher = {}
    Sweeper = {s}
    Recompressor = {e}
    Releaser = {}
    Operator = {}
    InProcess = FALSE
    KeepOriginal = FALSE
    FileLocks = FALSE
    StoreFails = FALSE
    ToolFails = FALSE
    ToolMissing = FALSE
    MayErase = FALSE
    MaxRemuxAttempts = 2
    MaxNames = 2
    MaxCrashes = 1
    Absent = Absent
    Partial = Partial
    Placeholder = Placeholder
    NoRow = NoRow
    NoPath = NoPath
    NoRecording = NoRecording

INVARIANTS
    RecompressCostsNoBroadcast

CHECK_DEADLOCK FALSE
