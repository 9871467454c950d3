CONSTANTS
    Parts = {"9p", "http", "views"}
    Reqs = {1, 2}
    Conns = {n1, n2}
    None = None
    Names = {"a", "b"}
    FirstName = "a"
    Fids = {0, 1}
    Ops = {"attach", "walk", "xattrwalk", "lopen", "lcreate", "mknod", "unlinkat", "renameat", "rename",
           "link", "lock", "unlock", "xattrcreate", "clunk", "remove"}
    MaxRequests = 3
    MaxFiles = 2
    MaxHandles = 2
    MaxDir = 2
    Keys = {"k"}
    Kinds = {"put", "create", "delete", "chmod", "rename", "xattr", "move", "copy", "link"}
    MaxSources = 1
    MaxInos = 4
    MaxFaults = 1
    CacheSize = 1
    MaxReqs = 3
    MaxRunning = 2
    Snapshots = {"s1"}
    Commits <- MCCommits
    Capacity = 1
    MaxViews = 3
    Refs <- MCRefs
    MaxOther = 1
SPECIFICATION FrontendsSpec
SYMMETRY Symmetry
INVARIANTS FidsSound  KeysRunOnce  AnswersCurrent
PROPERTY MatchHonoured
CHECK_DEADLOCK FALSE
