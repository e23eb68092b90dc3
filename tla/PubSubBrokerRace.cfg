SPECIFICATION Spec
CONSTANTS
    s1 = s1
    s2 = s2
    p1 = p1
    p2 = p2
    Subscribers = {s1, s2}
    Publishers = {p1}
    QueueNames = {"q1", "q2"}
    QueueOf <- SharedQueue
    PatternOf <- MCPatternOf
    TypeOf <- OwnTypeOf
    Publications <- MCPublications
    Quota <- TwoInARow
    Leaving = {}
    Retracted = {}
    None = None
INVARIANTS OneListenerPerQueue
CHECK_DEADLOCK FALSE
