SPECIFICATION TurnsSpec
CONSTANTS
    Sources = {"s1"}
    Sessions = {"a"}
    Kinds <- ReorderKinds
    Latencies = {0, 2}
    MaxTime = 1
    MaxWall = 2
    MaxCalls = 1
    Grace = 1
    Idle = 1
    SweepInterval = 1
    None = None
    Turns = {1, 2, 3, 4}
    StartTime <- MCStart
    EndTime <- MCEnd
    NetworkView <- MCView
    Fingerprint <- MCPrint
    MaxReqTimeGap = 8
    MirrorTolerance = 2
    Milli = 4
    Cap = 1
    BatchSize = 2
    MaxFailures = 1
    MaxCrashes = 1
    Nothing = Nothing
INVARIANTS
    PeersAgree
CHECK_DEADLOCK FALSE
