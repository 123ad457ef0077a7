SPECIFICATION TurnsSpec
CONSTANTS
    Sources = {"s1"}
    Sessions = {"a"}
    Kinds <- ReorderKinds
    Latencies = {0, 2}
    MaxTime = 3
    MaxWall = 2
    MaxCalls = 3
    Grace = 1
    Idle = 1
    SweepInterval = 1
    None = None
    Turns = {1, 2, 3, 4}
    StartTime <- MCStart
    EndTime <- MCEnd
    NetworkView <- MCView
    Fingerprint <- MCPrint
    MaxReqTimeGap = 8
    MirrorTolerance = 2
    Milli = 4
    Cap = 2
    BatchSize = 2
    MaxFailures = 2
    MaxCrashes = 1
    Nothing = Nothing
INVARIANTS
    TypeOK
    CallsAccounted
    TurnsOrdered
    Accounted
    HiddenHasVisible
PROPERTIES
    TimersSound
    KeepsFinalizing
    NeverRetagged
    Settles
CHECK_DEADLOCK FALSE
