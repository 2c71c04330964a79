\* DocumentIndex: two pipelines at once, two previews, and long enough for a retried and a fresh re-chunking task to race.
\* Chunking: 14428 documents, which fill a few chunks.  GraphExtraction: up to two entities and relations.
SPECIFICATION PartSpec
CONSTANTS
  Workers = {w1}
  Targets = {f1, f2}
  None = None
  MaxAttempts = 2
  RetryAllowance = 2
  AttemptCap = 2
  MaxRevision = 2
  MaxGeneration = 4
  MaxTask = 3
  MaxPipelines = 2
  MaxTokens = 14
  OverlapTokens = 2
  MinChunkTokens = 6
  MaxTableRows = 5
  Ids = {1, 2}
  MaxFacts = 2
  EntityLimit = 2
  RelationLimit = 1
SYMMETRY Symmetry
CHECK_DEADLOCK FALSE
INVARIANTS
  TypeOK
  PublishedIndexIsComplete
  UnfinishedWorkIsWanted
  AttemptLogIsTrue
  ChunksCarryTheDocument
  AcceptedFactsAreProved
PROPERTIES
  SupersededPipelinesAreHarmless
  EndedGenerationsAreFrozen
  PublishedSpec
