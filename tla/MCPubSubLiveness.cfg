SPECIFICATION FairSpec
CONSTANTS
    h = h
    g = g
    w = w
    None = None
    Subscribers = {h, g}
    Channels = {c1, c2}
    Kind <- HttpAndGrpc
    QueueCap = 2
    RingCap = 1
    MaxMessages = 2
    MaxFaults = 1
PROPERTIES
    SubscribedInTheEnd
    MessagesArrive
    CommandsAreChecked
