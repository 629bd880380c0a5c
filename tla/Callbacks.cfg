SPECIFICATION FairSpec
CONSTANTS
    t1 = t1  t2 = t2  p1 = p1  s1 = s1  s2 = s2
    Service = {t1, t2}
    Producer = {p1}
    Late = {}
    Main = main
    Subscriber = {s1, s2}
    AtStart = {s1}
    NoSubscriber = NoSubscriber
    NoEvent = NoEvent
    QueueLimit = 0
    MaxSteps = 2
INVARIANTS
    DeliveredInOrder
    CountExact
PROPERTIES
    ImplementsEventQueue
    ShutdownEnds
    TimerKeepsRunning
CHECK_DEADLOCK FALSE
