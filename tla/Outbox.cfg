\* Two first messages for one workspace, in a window that moves and reloads.
SPECIFICATION FairSpec
CONSTANTS
    p1 = p1
    p2 = p2
    Parcels = {p1, p2}
    Files = 2
    MaxPolls = 2
    MaxMoves = 2
    MaxReloads = 1
    MaxTroubles = 1
INVARIANTS
    TypeOK
    
    NothingIsSaidTwice
    AtMostOneFileStrays
PROPERTIES
    TroubleIsSaid
CHECK_DEADLOCK FALSE
