SPECIFICATION MCSpec
CONSTANTS
  r1 = r1
  r2 = r2
  r3 = r3
  Readers = {r1, r2, r3}
  PoolSize = 2
  MaxStops = 2
  MaxSkips = 1
  MaxFaults = 2
  History <- MCCalls
  Null = Null
  Star = Star
  TicksPerMs = 2
  IdChunk = 2
  IdSkew <- MCIdSkew
  TraceSkew = 2
  MaxPageOffset = 16
  MaxSessionsScan = 8
  PortFilterIdCap = 4
  SampleWindow = 8
  SamplesPerEndpoint = 1
  MaxTopologyTurns = 8
  MaxDistinct = 8
  Calls <- MCCalls
  Turns <- MCTurns
  HttpRows <- MCHttpRows
  Patches <- MCPatches
  Clock <- MCClock
  Keep <- MCKeep
  AllTime <- MCAllTime
  Filters <- MCFilters
  MaxResent = 1
  MaxVersions = 2
  Minted <- MCMinted
  Batches <- MCBatches
  MaxEventBytes = 4
  MaxBodyBytes = 8
  DaemonLimits = {1, 2, 4}
  Retries = 1
  MaxRequestFaults = 2
  Searches = {s1, s2, s3}
  ConcurrencySettings = {0, 2}
  MaxInvalidations = 2
  MaxLoginFailures = 1
  None = None
  Now = 10
  Cutoffs = {4, 12}
  BodyTtls = {0, 3}
  MaxPushFailures = 2
  Unset = None
INVARIANTS MetricsAgree   UpgradeSound  SearchSound
PROPERTIES PoolRecovers AgLakeSettles
CHECK_DEADLOCK FALSE
