\* Two requests at a time, commands that overlap, three connections.
SPECIFICATION OperationsSpec
CONSTANTS
  People = {p1, p2}
  Calls = {p1, p2}
  MaxTickets = 2
  MaxSelections = 2
  MaxChanges = 1
  Uploaders = {p1, p2}
  MaxDocuments = 2
  MaxFiles = 3
  Operators = {p1, p2}
  Facts = {f1, f2}
  MaxProjections = 3
  MaxGenerations = 2
  MaxReviews = 1
  MaxRebuilds = 2
  MaxOverlappedGraphs = 2
  Clients = {p1, p2, p3}
  Tasks = {1, 2}
  Transactions = {"persist", "delete_document", "purge_document", "retry_task",
    "update_document_metadata", "knowledge_base_grant", "document_grant", "sign_in",
    "index_task", "graph_task", "save_extraction", "finish", "verify_work_access",
    "stage_chunks", "publish_chunks", "reindex", "backfill", "rebuild", "switch", "structured"}
SYMMETRY Symmetry
CHECK_DEADLOCK FALSE
INVARIANTS
  SessionsComeFromSignIns
  ReplacedTicketsStayUnusable
  RefreshStaysPossible
  FilesMatchDocuments
  ServesOneReviewedGraph
  NobodyWaitsInCircles
