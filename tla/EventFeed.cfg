SPECIFICATION FairSpec
CONSTANTS
    a = a
    b = b
    Writers <- TwoWriters
    BusDepth = 2
    OutDepth = 1
    MaxRows = 5
    MaxDrops = 2
INVARIANTS
    TypeOK
    SubscriptionDelivers
    ReconnectReplaysNothing
    ReconnectLeavesNoGap
PROPERTIES
    OpenSocketCatchesUp
CHECK_DEADLOCK FALSE
