SPECIFICATION Spec
CONSTANTS
    s1 = s1
    s2 = s2
    p1 = p1
    p2 = p2
    Subscribers = {s1, s2}
    Publishers = {p1, p2}
    QueueNames = {"q1", "q2"}
    QueueOf <- OwnQueues
    PatternOf <- MCPatternOf
    TypeOf <- MCTypeOf
    Publications <- WantedAndRetracted
    Quota <- OneEach
    Leaving = {s1}
    Retracted <- MCRetracted
    None = None
INVARIANTS RoutedAsSubscribed NoMissedSubscriber
PROPERTIES ImplementsFeed
CHECK_DEADLOCK FALSE
SYMMETRY AnyPublisher
