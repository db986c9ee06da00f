CONSTANTS
    s1 = s1
    s2 = s2
    None = None
    Slots <- TwoSlots
    Databases = {0, 1}
    Default = 0
    Selectable = {1}
    PoolSize = 1
    MaxCommands = 3
    MaxFaults = 1
SPECIFICATION FairSpec
CHECK_DEADLOCK FALSE
INVARIANTS
    ConnectionBound
    RunsInItsDatabase
    BrokenServesOnce
PROPERTIES
    CommandsEnd
