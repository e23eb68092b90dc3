SPECIFICATION Spec
CONSTANTS
    Values <- MCValues
    Start <- MCStart
    NbMappers = 2
    NbReducers = 2
    NbOfIteration = 3
    RetryCount = 0
    MaxTriggers = 1
    MaxFailures = 0
    MaxLost = 0
INVARIANTS RunsNbOfIterations
CHECK_DEADLOCK FALSE
