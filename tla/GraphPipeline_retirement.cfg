\* A generation whose graph is READY but whose vectors never were is replaced.
SPECIFICATION GraphSpec
CONSTANTS
  Workers = {w1}
  Targets = {}
  None = None
  MaxAttempts = 1
  RetryAllowance = 1
  AttemptCap = 2
  MaxRevision = 1
  MaxGeneration = 2
  MaxTask = 2
  MaxPipelines = 1
  GraphWorkers = {x1}
  ChunkCount = 1
  GraphMaxAttempts = 1
  GraphAttemptCap = 1
  MaxGraphPipelines = 1
CHECK_DEADLOCK FALSE
PROPERTIES
  PublicationRetiresOldGraphs
