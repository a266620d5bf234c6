SPECIFICATION FairSpec
CONSTANTS
    TopFloor = 3
    ByteSize = 5
    MaxGap = 3
    MaxPresses = 1
INVARIANTS
    TypeOK
    OneDoorPhase
    DoorsShutOnTheWay
PROPERTIES
    DoorsOpenedBeforeTaskEnds
    ImplementsCar
    CompletesWhenLeftAlone
