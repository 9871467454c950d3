CONSTANTS
    Parts = {"locks", "tree", "commits"}
    Inos = {f}
    NoIno = NoIno
    MaxHandles = 2
    MaxOff = 3
    MaxLockCalls = 1
    TreeInos <- MCInos
    Names <- MCNames
    Root = 1
    Threads = {t1, t2}
    Stripe <- MCStripe
    NoThread = NoThread
    Trees <- MCTrees
    MaxCalls = 2
    Paths <- MCPaths
    Contents <- MCContents
    ChunkSize = 2
    Starts <- MCStarts
    CommitSets <- MCSets
    Roots <- MCRoots
    MaxCommits = 2
    MaxClients = 2
    MaxRestores = 2
    Part = "~"
    None = None
SPECIFICATION FilesSpec
SYMMETRY Symmetry
INVARIANTS TableSound NamespaceSound SomeCallRuns
    CommitsFaithful RestoresFaithful
PROPERTIES ImplementsByteLocks ImplementsTree
CHECK_DEADLOCK FALSE
