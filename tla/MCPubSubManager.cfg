SPECIFICATION Spec
CONSTANTS
    h = h
    g = g
    w = w
    None = None
    Subscribers = {h, g, w}
    Channels = {c1, c2}
    Kind <- ThreeKinds
    QueueCap = 1
    RingCap = 1
    MaxMessages = 3
    MaxFaults = 1
SYMMETRY ChannelSymmetry
INVARIANTS
    TypeOK
    OneCommandPerChannel
    NoSilentGap
PROPERTY
    ImplementsStreams
