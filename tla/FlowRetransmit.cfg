SPECIFICATION MCSpec
CONSTANTS
    None = None
    Nil = Nil
    Space = 32
    OooCap = 3
    Isns = {3, 9}
    StreamLen = 6
    MaxSeg = 3
    Captures <- RetransmitCaptures
    Sources = {"s1", "s2"}
    Conns = {"c1"}
    CleanupInterval = 1
    FlowTimeout = 1
    PendingStale = 2
    MaxTime = 3
    MaxCalls = 2
    MaxSse = 1
PROPERTIES
    RetransmissionsIgnored
CHECK_DEADLOCK FALSE
