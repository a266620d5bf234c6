SPECIFICATION Spec
CONSTANTS
    TopFloor = 3
    ByteSize = 5
    HallButtons <- Middle
    FloorButtons <- OuterFloors
    MaxPresses = 2
    MaxBacklog = 2
    Races = {"overshoot"}
INVARIANTS
    TypeOK
    FloorButtonsLit
    
    DisplayCurrent
CHECK_DEADLOCK FALSE
