SPECIFICATION Spec
CONSTANTS
    Elevators = {e1, e2}
    Calls = {c1, c2}
    PoolSize = 2
    Failures = {"silent"}
    MaxFailures = 1
    MaxQueue = 3
SYMMETRY Alike
INVARIANT
    DispatcherSurvives
