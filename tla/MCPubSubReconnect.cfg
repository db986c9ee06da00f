SPECIFICATION FairSpec
CONSTANTS
    h = h
    g = g
    w = w
    None = None
    Subscribers = {h}
    Channels = {c1}
    Kind <- OneHttp
    QueueCap = 1
    RingCap = 1
    MaxMessages = 1
    MaxFaults = 1
PROPERTIES
    OpenStreamsAreFed
