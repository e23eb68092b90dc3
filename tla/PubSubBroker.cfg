SPECIFICATION FairSpec
CONSTANTS
    s1 = s1
    s2 = s2
    p1 = p1
    p2 = p2
    Subscribers = {s1, s2}
    Publishers = {p1}
    QueueNames = {"q1", "q2"}
    QueueOf <- OwnQueues
    PatternOf <- MCPatternOf
    TypeOf <- MCTypeOf
    Publications <- TwoPublications
    Quota <- TwoInARow
    Leaving = {}
    Retracted = {}
    None = None
INVARIANTS TypeOK NoMissedSubscriber ListenerEndsWithSubscriber
PROPERTIES ImplementsFeed EventuallyDelivered
CHECK_DEADLOCK FALSE
