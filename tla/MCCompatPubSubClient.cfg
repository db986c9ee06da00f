SPECIFICATION FairSpec
CONSTANTS
    a = a
    p = p
    None = None
    Handlers = {h1}
    Tasks = {t1, t2}
    Channels = {a}
    Patterns = {p}
    Commands <- Mixed
    Streams = {w}
    Sockets = {w}
    QueueCapacity = 1
    PushCapacity = 1
    MaxMessages = 1
    MaxFaults = 1
CHECK_DEADLOCK FALSE
INVARIANTS
    AckedIsHeld
PROPERTIES
    CommandsAnswered
    TasksEnd
