SPECIFICATION Spec
CONSTANTS
    t1 = "t1"
    t2 = "t2"
    Callers <- MCCallers
    MaxCalls = 3
    MaxDeaths = 1
INVARIANT ClientMutexesOrdered
CHECK_DEADLOCK FALSE
