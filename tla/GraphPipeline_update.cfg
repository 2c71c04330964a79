\* A second revision, a retry or a re-chunking replaces the first while its graph is built.
SPECIFICATION GraphSpec
CONSTANTS
  Workers = {w1}
  Targets = {f1}
  None = None
  MaxAttempts = 1
  RetryAllowance = 1
  AttemptCap = 2
  MaxRevision = 2
  MaxGeneration = 2
  MaxTask = 2
  MaxPipelines = 1
  GraphWorkers = {x1}
  ChunkCount = 1
  GraphMaxAttempts = 1
  GraphAttemptCap = 1
  MaxGraphPipelines = 1
CHECK_DEADLOCK FALSE
INVARIANTS
  ErasedStaysErased
  OrphansAreScheduled
  GraphTasksMatchProjections
PROPERTIES
  StaleIsFinal
