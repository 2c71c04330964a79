------------------------------ MODULE LockOrder ------------------------------
(***************************************************************************)
(* The row locks of the transactions on one document, its tasks, its       *)
(* knowledge base and the people behind it.  Every transaction is a path:  *)
(* the locks it asks for, in order, each shared or exclusive.  It keeps    *)
(* what it has until it ends; it may end early (a row is missing, a lease  *)
(* or a right is gone), but not while it waits.                            *)
(*                                                                         *)
(* Rows that are only ever locked in shared mode (member, tenant,          *)
(* department) and rows behind another lock that every path takes first    *)
(* (attempts, revisions) are left out.  A row inserted takes the key of    *)
(* its parents, which these paths hold already.                            *)
(***************************************************************************)
EXTENDS Naturals, Sequences

CONSTANTS
  Clients,       \* connections: request handlers, workers, tools
  Tasks,         \* of the document, in the order of their ids
  Transactions   \* names of the paths that run

ASSUME LockAssumption == Tasks \subseteq Nat \ {0} /\ \E n \in Tasks : Tasks = 1..n

VARIABLES
  path,  \* the locks a connection asks for, << >> outside a transaction
  held   \* how many of them it has

lockVars == <<path, held>>

Shared(name) == [row |-> <<name, 0>>, exclusive |-> FALSE]
Exclusive(name) == [row |-> <<name, 0>>, exclusive |-> TRUE]
TaskLock(t) == [row |-> <<"task", t>>, exclusive |-> TRUE]

S(name) == <<Shared(name)>>
X(name) == <<Exclusive(name)>>
Task(t) == <<TaskLock(t)>>

(* All tasks of the document ORDER BY id.                                  *)
LockTasks == [t \in Tasks |-> TaskLock(t)]

-----------------------------------------------------------------------------
(* Paths.  t is the task a path is about.                                  *)

(* lock_write_base(): requests that change a document.                     *)
WriteBase == S("base") \o S("grants") \o S("user")

RequestPath(name, t) ==
  CASE name = "persist" ->
         WriteBase \o LockTasks \o X("document") \o X("projections") \o X("generation")
    [] name = "delete_document" ->
         WriteBase \o LockTasks \o X("document") \o X("generation") \o X("projections")
    [] name = "purge_document" ->
         WriteBase \o LockTasks \o X("document") \o X("citations") \o X("projections")
                   \o X("chunks") \o X("generation")
    [] name = "retry_task" -> WriteBase \o Task(t) \o X("document")
    [] name = "update_document_metadata" -> WriteBase \o X("document")

(* PermissionRepository: the base first, for itself.                       *)
PermissionPath(name) ==
  LET base == X("base") \o S("user") \o X("grants")
  IN IF name = "knowledge_base_grant" THEN base \o S("user")
     ELSE base \o X("document") \o X("shares") \o S("user")

(* lock_user() before the session rows of the user.                        *)
SignInPath == X("user") \o X("auth_session")

(* IngestionQueue and GraphQueue: a task, and what ends with it.           *)
QueuePath(name, t) ==
  CASE name = "index_task" -> Task(t) \o X("generation")
    [] name = "graph_task" -> Task(t) \o X("projections")
    [] name = "save_extraction" -> Task(t) \o X("chunks")
    [] name = "finish" ->
         S("base") \o Task(t) \o X("document") \o S("user") \o X("projections")

(* Fault: the tasks whose graphs are cancelled are locked when they are    *)
(* found, after the document.                                              *)
PublicationPath_LateTasks(name, t) ==
  S("base") \o Task(t) \o X("document") \o S("user") \o X("generation")
            \o X("chunks") \o LockTasks \o X("projections")

(* publication.py: the base before tasks and document.                     *)
PublicationPath(name, t) ==
  CASE name = "verify_work_access" -> S("base") \o S("document") \o S("user")
    [] name = "stage_chunks" ->
         S("base") \o Task(t) \o X("document") \o S("user") \o X("generation")
    [] name = "publish_chunks" ->
         S("base") \o LockTasks \o X("document") \o S("user") \o X("generation")
                   \o X("chunks") \o X("projections")

(* The tools beside the workers.                                           *)
ToolPath(name, t) ==
  CASE name = "reindex" -> S("base") \o LockTasks \o X("document") \o S("user")
    [] name = "backfill" -> S("base") \o X("document") \o X("generation") \o S("user")
    [] name = "rebuild" -> S("base") \o X("document") \o S("user")
    [] name = "switch" ->
         S("base") \o Task(t) \o X("document") \o S("user") \o X("projections")

(* revalidate_provenance(): the bases first, then the documents.           *)
StructuredPath == S("base") \o S("document") \o S("base") \o S("generation")

(* _authorized_sources(): FOR SHARE OF doc, kb, g, c locks each row of its *)
(* result in the order of that list.                                       *)
SourcesPath == S("document") \o S("base") \o S("generation") \o S("chunks")

ChatPath == X("chat_session") \o X("chat_run") \o SourcesPath \o StructuredPath
                              \o X("citations")

PathOf(name, t) ==
  CASE name \in {"persist", "delete_document", "purge_document", "retry_task",
                 "update_document_metadata"} -> RequestPath(name, t)
    [] name \in {"knowledge_base_grant", "document_grant"} -> PermissionPath(name)
    [] name = "sign_in" -> SignInPath
    [] name \in {"index_task", "graph_task", "save_extraction", "finish"} -> QueuePath(name, t)
    [] name \in {"verify_work_access", "stage_chunks", "publish_chunks"} ->
         PublicationPath(name, t)
    [] name \in {"reindex", "backfill", "rebuild", "switch"} -> ToolPath(name, t)
    [] name = "structured" -> StructuredPath
    [] name = "chat" -> ChatPath

-----------------------------------------------------------------------------
(* Locking *)

Waits(c) == held[c] < Len(path[c])
Wanted(c) == path[c][held[c] + 1]

Conflicts(p, q) == p.row = q.row /\ (p.exclusive \/ q.exclusive)

Denies(d, lock) == \E i \in 1..held[d] : Conflicts(path[d][i], lock)

(* Connection d holds what c asks for.                                     *)
Blocks(d, c) == d # c /\ Waits(c) /\ Denies(d, Wanted(c))

LockInit ==
  /\ path = [c \in Clients |-> << >>]
  /\ held = [c \in Clients |-> 0]

(* A transaction that waits for its first lock is in nobody's way: it      *)
(* begins with that lock.                                                  *)
Begin(c, name, t) ==
  LET locks == PathOf(name, t)
  IN /\ path[c] = << >> /\ \A d \in Clients : ~Denies(d, locks[1])
     /\ path' = [path EXCEPT ![c] = locks]
     /\ held' = [held EXCEPT ![c] = 1]

Acquire(c) ==
  /\ Waits(c) /\ \A d \in Clients : ~Blocks(d, c)
  /\ held' = [held EXCEPT ![c] = @ + 1]
  /\ UNCHANGED path

(* Commit, or roll back: of a transaction that is not waiting.             *)
End(c) ==
  /\ path[c] # << >> /\ \A d \in Clients : ~Blocks(d, c)
  /\ path' = [path EXCEPT ![c] = << >>]
  /\ held' = [held EXCEPT ![c] = 0]

LockNext ==
  \E c \in Clients :
    \/ \E name \in Transactions, t \in Tasks : Begin(c, name, t)
    \/ Acquire(c)
    \/ End(c)

LockSpec == LockInit /\ [][LockNext]_lockVars

-----------------------------------------------------------------------------
(* Properties *)

(* No connections wait for each other in a circle, whichever transactions  *)
(* meet: PostgreSQL would have to abort one of them.                       *)
NobodyWaitsInCircles ==
  \A D \in (SUBSET Clients) \ {{}} : \E c \in D : \A d \in D : ~Blocks(d, c)

=============================================================================
