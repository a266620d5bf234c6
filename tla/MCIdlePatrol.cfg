SPECIFICATION FairSpec
CONSTANTS
    TopFloor = 3
    ByteSize = 6
    MaxFloors = 2
    HallCalls <- NoCalls
    Selections <- TopOnly
    MaxRequests = 1
    DispatcherMayFail = TRUE
    Races <- NoRaces
PROPERTY
    PatrolsEveryFloor
