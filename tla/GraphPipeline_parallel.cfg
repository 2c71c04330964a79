\* The vectors are published before the graph is extracted.
SPECIFICATION GraphSpec
CONSTANTS
  Workers = {w1}
  Targets = {}
  None = None
  MaxAttempts = 1
  RetryAllowance = 1
  AttemptCap = 1
  MaxRevision = 1
  MaxGeneration = 1
  MaxTask = 1
  MaxPipelines = 1
  GraphWorkers = {x1}
  ChunkCount = 1
  GraphMaxAttempts = 1
  GraphAttemptCap = 1
  MaxGraphPipelines = 1
CHECK_DEADLOCK FALSE
INVARIANTS
  ExtractionsCanBeSaved
