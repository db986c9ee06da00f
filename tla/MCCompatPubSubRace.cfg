SPECIFICATION Spec
CONSTANTS
    a = a
    p = p
    None = None
    Handlers = {h1, h2}
    Tasks = {t1, t2}
    Channels = {a}
    Patterns = {p}
    Commands <- SubscribeOnly
    Streams = {}
    Sockets = {}
    QueueCapacity = 1
    PushCapacity = 2
    MaxMessages = 0
    MaxFaults = 0
CHECK_DEADLOCK FALSE
INVARIANTS
    AckedIsHeld
