SPECIFICATION MCSpec
CONSTANTS
    None = None
    Nil = Nil
    Space = 32
    OooCap = 3
    Isns = {3, 9}
    StreamLen = 6
    MaxSeg = 3
    Captures <- TapCaptures
    Sources = {"s1", "s2"}
    Conns = {"c1"}
    CleanupInterval = 1
    FlowTimeout = 1
    PendingStale = 2
    MaxTime = 3
    MaxCalls = 2
    MaxSse = 1
INVARIANTS
    TypeOK
    ReassemblySound
    MessagesSound
    BoundedLoss
    ExchangeIsWhole
    CollectedInTime
PROPERTIES
    SilenceIsFlushed
    SourcesAreIndependent
CHECK_DEADLOCK FALSE
