CONSTANTS
    Parts = {"file"}
    ChunkSize = 2
    Bytes = {1}
    MayCrash = TRUE
    MayFail = TRUE
    Size = 3
    Threads = {t1, t2}
    TrimBatch = 1
    HardLimit = 2
    MaxSize = 4
    InlineDeletes = 1
    MaxDrift = 1
    Conns = {n1, n2}
    Peer <- MCPeer
    Cert <- MCCert
    MaxInflight = 2
    MaxWrites = 1
    MaxBusy = 2
    None = None
    Callers = {l1, l2}
    Scale = 2
    Workloads <- MCWorkloads
    MaxServed = 3
    MaxEdits = 1
    MaxWait = 1
SPECIFICATION DataSpec
SYMMETRY Symmetry
PROPERTY GrowthReadsZeros
