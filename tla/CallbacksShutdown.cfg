SPECIFICATION FairSpec
CONSTANTS
    t1 = t1  t2 = t2  p1 = p1  s1 = s1  s2 = s2
    Service = {t1}
    Producer = {p1}
    Late = {p1}
    Main = main
    Subscriber = {s1}
    AtStart = {}
    NoSubscriber = NoSubscriber
    NoEvent = NoEvent
    QueueLimit = 0
    MaxSteps = 2
PROPERTY
    ShutdownEnds
CHECK_DEADLOCK FALSE
