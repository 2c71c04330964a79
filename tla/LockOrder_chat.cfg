SPECIFICATION LockSpec
CONSTANTS
  Clients = {c1, c2}
  Tasks = {1, 2}
  Transactions = {"persist", "delete_document", "purge_document", "retry_task", "update_document_metadata", "knowledge_base_grant", "document_grant", "sign_in", "index_task", "graph_task", "save_extraction", "finish", "verify_work_access", "stage_chunks", "publish_chunks", "reindex", "backfill", "rebuild", "switch", "structured","chat"}
INVARIANTS
  NobodyWaitsInCircles
SYMMETRY Symmetry
