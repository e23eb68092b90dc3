SPECIFICATION Spec
CONSTANTS
    Values <- FewValues
    Start <- FewStart
    NbMappers = 2
    NbReducers = 2
    NbOfIteration <- UntilNoneMoves
    RetryCount = 0
    MaxTriggers = 2
    MaxFailures = 1
    MaxLost = 1
INVARIANTS NoReducerThrows
CHECK_DEADLOCK FALSE
