SPECIFICATION Spec
CONSTANTS
    a = a
    p = p
    None = None
    Handlers = {h1, h2}
    Tasks = {t1, t2}
    Channels = {a}
    Patterns = {p}
    Commands <- SubscribeOnly
    Streams = {s}
    Sockets = {}
    QueueCapacity = 1
    PushCapacity = 2
    MaxMessages = 2
    MaxFaults = 1
CHECK_DEADLOCK FALSE
SYMMETRY Symmetry
INVARIANTS
    TypeOK
    EndIsAnnounced
    WaitingIsServed
    FramesInOrder
