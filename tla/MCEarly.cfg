SPECIFICATION Spec
CONSTANTS
    TopFloor = 3
    ByteSize = 5
    HallButtons = {}
    FloorButtons = {}
    MaxPresses = 0
    MaxBacklog = 2
    Races = {}
INVARIANT
    GuiSurvives
CHECK_DEADLOCK FALSE
