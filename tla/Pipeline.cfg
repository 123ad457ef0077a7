SPECIFICATION MCSpec
CONSTANTS
    p1 = p1
    p2 = p2
    i1 = i1
    i2 = i2
    Pipelines = {p1}
    Items = {i1, i2}
    SourceOf <- OneSource
    Llm = {i1}
    Agents = {i1}
    Cap = 1
    Batch = 2
    Faulty = {"metrics"}
    MaxFaults = 1
    Shared = Shared
    live = live
    file = file
    stuck = stuck
    s1 = s1
    s2 = s2
    Sources = {live, file, stuck}
    Endless = {live, stuck}
    Blocking = {file, stuck}
    Stuck = {stuck}
    Stages = {s1, s2}
    MaxCrashes = 1
    ExitAfterDrain = FALSE
INVARIANTS StoredInOrder
PROPERTIES Delivers EofCascades 
CHECK_DEADLOCK FALSE
