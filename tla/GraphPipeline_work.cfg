\* One graph worker, which may pause, die and start again, with two pipelines at once;
\* no symmetry, because liveness is checked.
SPECIFICATION GraphFairSpec
CONSTANTS
  Workers = {w1}
  Targets = {}
  None = None
  MaxAttempts = 1
  RetryAllowance = 1
  AttemptCap = 1
  MaxRevision = 1
  MaxGeneration = 1
  MaxTask = 1
  MaxPipelines = 1
  GraphWorkers = {x1}
  ChunkCount = 2
  GraphMaxAttempts = 2
  GraphAttemptCap = 2
  MaxGraphPipelines = 2
CHECK_DEADLOCK FALSE
INVARIANTS
  ReadyGraphIsComplete
PROPERTIES
  DocumentIndexSpec
  SupersededGraphsAreHarmless
  GraphsSettle
  OrphansVanish
