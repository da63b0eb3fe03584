SPECIFICATION FairSpec
CONSTANTS
    r1 = r1
    r2 = r2
    t1 = t1
    t2 = t2
    Reports <- TwoReports
    Tasks <- TwoTasks
    MaxPrompts = 0
    MaxFails = 1
    MaxDrops = 0
    MaxExits = 0
    MaxRestarts = 1
PROPERTIES
    EveryReportIsTold
    HoldIsAccountedFor
CHECK_DEADLOCK FALSE
