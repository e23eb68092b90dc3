SPECIFICATION FairSpec
CONSTANTS
    Kinds <- AllKinds
    MaxCalls = 3
    MayDrop = TRUE
    MayThrow = TRUE
INVARIANTS
    TypeOK
    AsExpected
PROPERTIES
    ImplementsHandover
    CallReturns
    SubscriptionStarts
CHECK_DEADLOCK FALSE
