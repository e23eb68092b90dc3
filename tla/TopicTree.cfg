SPECIFICATION FairSpec
CONSTANTS
    Threads = {t1, t2}
    NoCall = NoCall
    Keys <- MCKeys
    Patterns <- MCPatterns
    MaxCalls = 4
INVARIANTS TypeOK PrefixClosed LeavesWereAdded ReadersSeeCommitted
PROPERTIES Linearizable EveryCallReturns
CHECK_DEADLOCK FALSE
