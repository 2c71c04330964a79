\* One worker process; two requests from two devices, whose evidence stays
\* readable.  No symmetry, because liveness is checked.
SPECIFICATION SystemsSpec
CONSTANTS
  None = None
  Workers = {w1}
  Targets = {f1}
  MaxAttempts = 2
  RetryAllowance = 1
  AttemptCap = 2
  MaxRevision = 2
  MaxGeneration = 3
  MaxTask = 2
  MaxPipelines = 2
  Calls = {c1, c2}
  Logins = {l1, l2}
  Requests = {q1, q2}
  Bodies = {b1}
  Sources = {}
  MaxRuns = 2
  HistoryTurns = 1
CHECK_DEADLOCK FALSE
PROPERTIES
  WorkSettles
  UploadIsDecided
  SessionFreesUp
