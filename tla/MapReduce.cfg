SPECIFICATION FairSpec
CONSTANTS
    Values <- MCValues
    Start <- MCStart
    NbMappers = 2
    NbReducers = 2
    NbOfIteration <- UntilNoneMoves
    RetryCount = 1
    MaxTriggers = 1
    MaxFailures = 2
    MaxLost = 1
INVARIANTS TypeOK PhasesApart
PROPERTIES ImplementsKMeans EventuallyEnds
CHECK_DEADLOCK FALSE
