SPECIFICATION FairSpec
CONSTANTS
    Elevators = {e1, e2}
    Calls = {}
    PoolSize = 2
    Failures = {"reset", "closed", "silent"}
    MaxFailures = 2
    MaxQueue = 3
PROPERTY
    FailedRemoved
CHECK_DEADLOCK FALSE
