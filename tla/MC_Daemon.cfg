CONSTANTS
    N = 2
    Static = {1}
    Backends = {"fs", "blk", "snap"}
    Kind <- MCKind
    Consumed = {"fs"}
    Configs <- MCConfigs
    MaxChanges = 3
    None = None
    Procs = {p1, p2, p3}
    Operator = Operator
    Gone = Gone
    Parts = {"exports", "lease", "admin"}
    MaxReqs = 3
    MaxRunning = 2
    Volumes = {1, 2}
    Menus <- MCMenus
    MaxSize = 3
SPECIFICATION DaemonSpec
INVARIANTS  LeaseSound AnswersHold RepositoriesShared ViewsCurrent SizesFollow
PROPERTIES ExportsConverge StaleOwnerHarmless 
CHECK_DEADLOCK FALSE
