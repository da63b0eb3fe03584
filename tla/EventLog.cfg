\* Two emitting tasks, the tail and the replay over one connection at a time.
SPECIFICATION FairSpec
CONSTANTS
    s1 = s1
    w1 = w1
    t1 = t1
    t2 = t2
    Sessions <- OneSession
    Workspaces <- OneWorkspace
    WorkspaceOf <- SharedPlace1
    Tasks <- TwoTasks
    Statuses <- WorkRestOrEnd
    Capacity = 2
    MaxLog = 2
    MaxDrops = 2
    MaxRefused = 1
    MaxLocal = 1
INVARIANTS
    TypeOK
    NothingFallsBetween
    CursorIsNewestRow
PROPERTIES
    ReplayChangesNothing
    RemovedStaysRemoved
    StableConnectionCatchesUp
CHECK_DEADLOCK FALSE
