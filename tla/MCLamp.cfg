SPECIFICATION Spec
CONSTANTS
    TopFloor = 3
    ByteSize = 5
    HallButtons <- BothWays
    FloorButtons <- LowerFloors
    MaxPresses = 2
    MaxBacklog = 2
    Races = {}
INVARIANT
    LampComesBack
CHECK_DEADLOCK FALSE
