SPECIFICATION Spec
CONSTANTS
    r1 = r1
    r2 = r2
    t1 = t1
    t2 = t2
    Reports <- TwoReports
    Tasks <- TwoTasks
    MaxPrompts = 1
    MaxFails = 1
    MaxDrops = 1
    MaxExits = 1
    MaxRestarts = 0
SYMMETRY Symmetry
INVARIANTS
    TypeOK
    OnlyALineRetires
    
CHECK_DEADLOCK FALSE
