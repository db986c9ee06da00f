SPECIFICATION FairSpec
CONSTANTS
    h = h
    g = g
    w = w
    None = None
    Subscribers = {h, g, w}
    Channels = {c1, c2, c3}
    Kind <- ThreeKinds
    QueueCap = 1
    RingCap = 1
    MaxMessages = 1
    MaxFaults = 0
CHECK_DEADLOCK FALSE
PROPERTIES
    CommandsAreChecked
