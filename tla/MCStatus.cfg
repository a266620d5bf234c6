SPECIFICATION Spec
CONSTANTS
    TopFloor = 2
    ByteSize = 10
    MaxMessageLength = 10
    HallCalls <- OneOfEach
    Selections = {2}
    MaxCalls = 2
    MaxSelections = 1
    MaxPolls = 2
    MaxPending = 2
    SocketBuffer = 2
INVARIANTS
    TypeOK
    StreamInStep
    OnlySpoiltRemoved
PROPERTY
    CallsReported
CHECK_DEADLOCK FALSE
