SPECIFICATION Spec
CONSTANTS
    TopFloor = 3
    ByteSize = 5
    MaxFloors = 2
    HallCalls <- TwoCalls
    Selections <- TopOnly
    MaxRequests = 3
    DispatcherMayFail = TRUE
    Races <- TimingRaces
INVARIANTS
    TypeOK
    HeadsForAskedFloor
    WakesWithWork
PROPERTIES
    ImplementsService
    SupervisorMovesIdleCar
