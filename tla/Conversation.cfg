\* One reader who comes twice, one socket, one trouble; a page of one exchange.
SPECIFICATION FairSpec
CONSTANTS
    m1 = m1
    m2 = m2
    Composed = {m1}
    Noted = {m2}
    Scripts <- AllScripts
    PageSize = 1
    Readers = 1
    BusDepth = 2
    MaxVisits = 2
    MaxTroubles = 1
INVARIANTS
    TypeOK
    InOrder

    
    
CHECK_DEADLOCK FALSE
