\* The five reports through growth, failed growth and failing walks.
SPECIFICATION Spec
CONSTANTS
  Tools = {"timeline", "validate", "topk", "index", "stats"}
  Tags = {"heartbeat", "geo", "log", "config", "sensor"}
  Inputs <- MCInputs
  FirstCap = 1
  ChunkCap = 2
  Limit = 1
  Garbage = {7}
  TopField = "geo"
  TopN = 2
  Doubles <- MCDoubles
  NaN = NaN
  Plus <- MCPlus
  MaxEvents = 5
  MaxFiles = 2
INVARIANTS
  SessionsPartition
  AnomaliesCounted
  IssuesComplete
  Ranked
  IndexFindsAll
  StatsExact
