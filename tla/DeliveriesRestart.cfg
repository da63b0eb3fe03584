SPECIFICATION Spec
CONSTANTS
    r1 = r1
    r2 = r2
    t1 = t1
    t2 = t2
    Reports <- OneReport
    Tasks <- TwoTasks
    MaxPrompts = 1
    MaxFails = 0
    MaxDrops = 0
    MaxExits = 0
    MaxRestarts = 1
SYMMETRY Symmetry
PROPERTIES
    EveryStopMoves
CHECK_DEADLOCK FALSE
