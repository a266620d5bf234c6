SPECIFICATION FairSpec
CONSTANTS
    TopFloor = 3
    ByteSize = 6
    MaxFloors = 3
    HallCalls <- OneCall
    Selections <- TopOnly
    MaxRequests = 3
    DispatcherMayFail = FALSE
    Races <- LossyRaces
INVARIANT
    CarFollowsOrders
PROPERTY
    ServedUnlessTurned
