SPECIFICATION Spec
CONSTANTS
    Elevators = {e1, e2}
    Calls = {c1}
    PoolSize = 2
    Failures = {"reset", "closed", "silent"}
    MaxFailures = 1
    MaxQueue = 3
SYMMETRY Alike
INVARIANT
    TypeOK
PROPERTY
    CallsKept
CHECK_DEADLOCK FALSE
