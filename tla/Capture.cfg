SPECIFICATION MCSpec
CONSTANTS
  None = None
  Ids = {1, 2, 3, 4}
  BadIds = {3}
  MinuteTicks = 2
  BufUnits = 2
  MaxAge = 2
  SizeCap = 3
  Lags = {0, 2}
  Script <- MCScript
  Requests <- MCRequests
  MaxWall = 6
  MaxFaults = 1
  Interval = 2
  Margin = 1
  MaxPreempt = 1
  LoopGap = 3
  LiveId = 4
  FileId = 10
  Route <- MCRoute
  Shard <- MCShard
  WorkerCap = 1
  Batches <- MCBatches
  FileStamps <- MCStamps
  LoopCount = 2
  MaxPasses = 3
  MaxArrivals = 2
  Pids = {1}
  Ptrs = {7}
  EbpfId = 20
  DataCap = 1
  MaxChunks = 2
  RingCap = 2
  CallSizes = {1, 3}
  MaxCalls = 3
  MaxConns = 2
  MaxIdle = 1
INVARIANTS HeartbeatsSound 
PROPERTIES DumpFaithful 
CHECK_DEADLOCK FALSE
