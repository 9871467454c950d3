CONSTANTS
    Parts = {"orphans"}
    Threads = {t1, t2}
    LeaseSize = 2
    FirstIno = 2
    MaxIno = 8
    MaxMounts = 3
    PutMayFail = TRUE
    Names = {a, b}
    NoThread = NoThread
    MaxHandles = 3
    MaxCrashes = 2
    CacheThreads = {c1, c2, c3}
    MaxInos = 2
    MaxVersion = 3
    Trio = {1, 2, 3}
    Page = 2
    MaxChanges = 3
    Pair = {1, 2}
    FirstName = "a"
    MaxNodes = 2
    MaxCalls = 3
    MaxStops = 1
    Conns = {1, 2}
    Addrs = {"addr"}
    MaxXid = 3
    MaxInFlight = 1
    MaxActive = 1
    TrimLimit = 2
    Retention = 0
    PipeSize = 1
    MaxSends = 4
    MaxTicks = 1
    None = None
SPECIFICATION InodesSpec
INVARIANT NoDanglingName
CHECK_DEADLOCK FALSE
