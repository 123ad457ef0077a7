SPECIFICATION FairSpec
CONSTANTS
    c1 = c1
    c2 = c2
    m1 = m1
    m2 = m2
    k1 = k1
    k2 = k2
    Calls = {c1, c2}
    Models = {m1, m2}
    Shards = {k1, k2}
    Requested <- MCRequested
    Answered <- MCAnswered
    ShardOf <- MCShardOf
    Surface <- MCNoSurface
    Surfaces = {}
    Grans = {1, 2}
    MaxOpen = 1
    Cap = 1
    MaxTime = 2
    All = All
    None = None
INVARIANTS
    InFlightSound
    Conserved
PROPERTIES
    ReportedInTime
    Drains
CHECK_DEADLOCK FALSE
