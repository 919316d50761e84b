SPECIFICATION ProgramSpec

CONSTANTS
    Parts = {"holes", "catalogue", "importer", "watcher", "account", "calendar", "settings", "screen", "setup", "replace", "notices", "naming", "service", "audio", "sizes", "incoming", "pass", "titles", "silences", "webhook", "listing", "device", "plan", "encoding", "scheduler", "answers"}
    Nil = Nil
    MaxTime = 3
    MaxCaptures = 2
    MaxAttempts = 1
    MaxFaults = 0
    Window = 2
    Day = 5
    Files = 2
    CopyNamed = {3, 5}
    Import = {i1, i2}
    Broadcasters = 1
    MaxSize = 8
    MinFree = 2
    Volume = 10
    Expected = {2, 4}
    MaxTrash = 2
    Streams = 2
    QuietLimit = 3
    LongEnough = 2
    Refusals = 2
    Misses = 1
    Task = {t1, t2}
    Command = {c1}
    Free = Free
    Grants = 2
    Tokens = 1
    Hours = 2
    LastDay = 1
    West = {1}
    ChannelName = {n1, n2}
    Edits = 2
    Calls = 1
    Month = {1, 2}
    Channel = {1}
    Rec = {x1, x2}
    Presses = 5
    Process = {p1, p2}
    Root = {d1, d2}
    Schemas = 2
    Helper = {h1, h2}
    Longest = 3
    Recorder = {s1, s2, s3}
    Agent = {a1, a2}
    MaxUnits = 7
    AuthorText <- SomeAuthors
    TitleText <- SomeTitles
    Subscribers = 1
    Queue = 1
    MaxVerified = 1
    MaxProbed = 2
    MaxInt = 2047
    Sought = {b1, b2}
    Streamed = {l1}
    Channels = 2
    MaxConcurrent = 2
    Titled = {r1, r2}
    Called = {n1}
    Readings = 3
    MaxMuted = 3
    Events = 4
    QueueDepth = 2
    Owner = {n1, n2}
    Prolific = {n1}
    Archives = 3
    Since = 2
    PageSize = 1
    MaxPages = 2
    MaxDescribed = 2
    Lifetimes = {0, 4, 1000}
    Intervals = {0, 2, 1000}
    MaxPoll = 3
    MaxExpiry = 6
    SlowDownStep = 2
    Patience = 10
    MonthLengths = {2, 3}
    WeekLength = 2
    LastInstants = 7
    SettleTime = 1
    Caller = {p1, p2}
    Gpus = 1
    Old = 2
    Operations = 2
    Limit = 3
    MaxNoise = 3

INVARIANTS
    WrittenReadsBack
    OwnRowsAreOneShow
    WatchIsHonest
    SessionStands
    CalendarIsHonest
    MissedIsPursued
    InterfaceIsCurrent
    RecordingsKeepTheirForm
    RegistrationStands
    SilenceStands
    SinksAreHonest

PROPERTIES
    JoinedStands
    LibraryStands
    LimitsStand
    RecoveredIsKept

CONSTRAINT
    Unharmed

CHECK_DEADLOCK FALSE
