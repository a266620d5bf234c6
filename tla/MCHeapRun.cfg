SPECIFICATION Spec
CONSTANTS
    TopFloor = 3
    MaxCopies = 2
    Run = "down"
INVARIANTS
    TypeOK
    DrainsInOrder
PROPERTY
    ImplementsFloorQueue
