SPECIFICATION FairSpec
CONSTANTS
    None = None
    Requests = {r1, r2}
    Ids = {s1, s2}
    MaxSessions = 1
    SessionTtl = 1
    MaxTime = 2
INVARIANTS
    TypeOK
    OvershootBounded
    EachSessionLeavesOnce
    ActiveSessionSurvives
    ExpiredNotServed
PROPERTIES
    RequestsEnd
