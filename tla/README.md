# Formal models of the zhiqing RAG platform

TLA+ models of the platform's stateful core, the TLC runs that check them on
small instances, and TLAPS proofs of the results that matter most for every
size. Paths below are relative to the repository; `documents/` stands for
`src/zhiqing_rag/modules/documents/`, `workers/` for `src/zhiqing_rag/workers/`
and so on.

    tlc -workers 2 -config DocumentIndex_safety.cfg MCDocumentIndex
    tlapm DocumentIndex_proofs.tla

## 1. The system

A multi-tenant knowledge base. Users upload documents; a document has
*revisions* (original files), each revision is turned into an *index
generation* (chunks with embeddings in PostgreSQL) by an INDEX background task,
and into a *graph projection* (entities and relations in Neo4j) by GRAPH tasks.
Readers search the document's *active generation* only. Chat runs answer
questions over these indexes. All processes meet in PostgreSQL: there is no
message broker, workers poll task rows and lease them.

| Component | State it keeps | Operations | Meets the others through |
|---|---|---|---|
| Document ingestion core (`documents/repository.py`, `documents/task_queue.py`, `workers/publication.py`, `workers/ingestion.py`, `workers/reindex_tables.py`) | document row (status, desired revision, active generation), revisions, generations, INDEX tasks with lease and epoch, attempt log; in each worker process, the pipelines it runs | upload, new revision, retry, delete, purge, enqueue a re-chunking; claim, heartbeat, fail, stage, publish | row locks knowledge base → task → document → generation; publication cancels GRAPH tasks and queues clean-ups |
| Graph pipeline (`workers/graph.py`, `graph_queue.py`, `graph_cleanup.py`, `graph_storage.py`) | GRAPH tasks, projections, checkpoint counter, clean-up outbox; in Neo4j, data and fence nodes | claim, checkpoint, cache extraction, finish, fail; purge a generation or a document | created by staging and by the rebuild tool; cancelled by publication, upload, deletion |
| Graph extraction (`workers/graph_extraction.py`) | none; up to three answers of a model per chunk | extract, ask again, salvage | called by the graph pipeline |
| Graph back-fill and rebuild (`workers/backfill_graph.py`, `rebuild_graph.py`) | candidate projections, exclusions, reviews | enqueue, filter, verify, approve, switch, roll back | same rows as the graph pipeline |
| Original files (`documents/service.py`, `infrastructure/object_storage.py`) | objects in the bucket | put before the transaction, remove after a refusal or a deletion | revision rows refer to objects |
| Parsing, cleaning, chunking (`document_processing/`) | none | one file in, chunks out | called by the ingestion worker |
| Chat (`chat/repository.py`, `chat/service.py`, `chat/streaming.py`, `chat/rewrite.py`) | sessions, runs with a lease, messages, citations | start, rewrite, heartbeat, complete, terminate, reap, list | reads the indexes; hides what the reader may no longer see |
| Query analysis and planning (`query_analysis/`, `query_routing/`, `query_metadata/`, `query_structured/`, `query_execution.py`) | none beyond one question | analyse, plan, count in the catalog, revalidate | reads metadata; hands plans to retrieval |
| Retrieval and graph recall (`query_retrieval/`) | none beyond one question | three branches, fusion, rerank, three checks | reads chunks and graphs, waits for models |
| Answering (`query_answering/`) | none beyond one answer | generate, repair, review, with checks between | calls models, streams to the asker |
| Sign-in (`identity/auth_service.py`, `auth_store.py`, `auth_repository.py`) | refresh tickets in Redis, session rows | login, select tenant, refresh, logout | every request checks a session |
| Web client (`frontend/src/services/auth-client.ts`) | one access token per page, one cookie per browser | sign in, refresh, sign out, authorised requests | pages share the cookie and a broadcast channel |
| Permissions (`knowledge/permissions.py`, `permission_repository.py`) | grants, shares, confidentiality | change access, compute access | every reading and writing path |
| Row locks (all repositories) | what each transaction has locked | lock, wait, commit | every transaction above |
| Embedding, migrations, evaluation scripts, routers, views | none the platform decides by | pure or external | |

What is hard in this code:

* **Between two transactions of a pipeline anything may happen.** A worker
  downloads, parses and calls models for minutes, then writes. In between its
  lease can expire, the task can be claimed again (even by the same process),
  be cancelled by a new revision or a deletion, or its document be republished.
* **A cancelled coroutine does not cancel a running database call.** Database
  work runs in threads; on a timeout `process()` reports failure while a stage
  or publish transaction may still commit.
* **Several rows must move together.** Document pointers, task, attempt,
  generation (and projection, outbox) are changed by hand-written statements in
  eight places; database triggers abort a transaction that breaks some of the
  rules, so a forgotten case turns into an endless retry.
* **Two stores.** Neo4j, the object store and Redis are written outside the
  PostgreSQL transaction that decides.
* **Nothing wakes anybody up.** Abandoned leases are found by the next poll.

What makes each component correct:

* ingestion: readers always find a complete index; publications never go back;
  work under way is wanted; a stale pipeline is harmless; every upload is
  decided;
* graph: a READY projection's data is in Neo4j; nothing of a purged generation
  reappears; every obsolete projection is eventually purged;
* rebuild: never two serving projections of a generation, and once it is
  published and its first graph finished, never none; a switch exposes only what
  was reviewed;
* files: every revision's object exists until its purge; no object outlives its
  document for ever;
* chat: one active run per session; a request id is answered once; an answer
  whose sources became invisible is invisible, with all that builds on it;
* sign-in: a replaced ticket never works again, a live session can always go on,
  and no session outlives a sign-out of all, not even one half begun;
* web client: what one person asked for is never given to, or asked again for,
  another one who took over the page;
* permissions: both forms of the access conditions agree, and only who
  administers a base changes it;
* extraction: what is stored was proved by the chunk's text, all of it and
  nothing else; chunking: no text of a body or table is lost or put under the
  wrong heading;
* planning, retrieval, answering: no condition of the question is dropped, and
  none of an earlier turn counted; nothing withdrawn goes to a model or to the
  asker; an answer rests on what is shown with it;
* locks: transactions never wait for each other in a circle.

`PROJECT.json` lists the components with their status and, under `hazards`, the
places in the code these properties are about.

## 2. Modules

    PublishedDocument        what readers of one document are promised
          ^ implemented by
    DocumentIndex            document, generations, INDEX tasks, pipelines
          ^ extended (and implemented) by
    GraphPipeline            GRAPH tasks, projections, clean-ups, Neo4j

    Conversation             what the owner of one chat session is promised
          ^ implemented by
    ChatRun                  runs, messages, requests in the server, sources

    Chunking                 parse, clean and chunk one file
    GraphExtraction          the facts of one chunk
    OriginalFiles            objects in MinIO and revision rows
    GraphRebuild             the graphs of a document, candidates, review, switch
    AuthSession              tickets in Redis and session rows
    BrowserSession           the pages of one browser
    Permissions              access conditions and their changes
    LockOrder                the locks of all transactions, in order
    Retrieval                one retrieval
      ^ extended by  GraphRecall (its graph branch), Answering (what is made of
                     its evidence), QueryPlanning (where its plan comes from)

| Composition for TLC | Puts together |
|---|---|
| `MCDocumentIndex` | DocumentIndex, Chunking with its input documents, GraphExtraction |
| `MCGraphPipeline` | GraphPipeline over DocumentIndex |
| `MCLiveness` | DocumentIndex and ChatRun with their fairness |
| `MCChatRun` | ChatRun, BrowserSession |
| `MCOperations` | AuthSession, OriginalFiles, GraphRebuild, LockOrder |
| `MCQueries` | QueryPlanning, Retrieval, GraphRecall, Answering, Permissions |
| `MCLockOrder` | LockOrder with symmetry |

Where such a module holds systems that do not touch each other's state, a
variable `part` says which one a behaviour belongs to; the others stay as they
begin. GraphPipeline and GraphRecall, Answering, QueryPlanning do share the state
of what they extend.

| Proofs | About |
|---|---|
| `DocumentIndex_proofs` | DocumentIndex |
| `GraphPipeline_proofs` (extends it) | GraphPipeline, GraphExtraction |
| `ChatRun_proofs` | ChatRun |
| `Operations_proofs` | OriginalFiles, GraphRebuild, LockOrder (they share no state) |
| `Chunking_proofs` | Chunking |
| `AuthSession_proofs` | AuthSession, BrowserSession |
| `Queries_proofs` | Answering, QueryPlanning, Permissions |
| `Retrieval_proofs` | Retrieval, GraphRecall |

Definitions whose name ends in `_Something` after the name of an action or
helper are *faults*: the same definition with a plausible bug. `PROJECT.json`
pairs each checked property with one; put in the place of the original it makes
TLC find the property violated.

### DocumentIndex and the code

One document; every database transaction on it is one action, because each
begins with the row locks that serialise it (`publication.py:45` gives the
order). Everything that is *not* in one transaction is a separate action of the
same pipeline.

| Variable | Code |
|---|---|
| `docStatus`, `desired`, `active` | `document.status`, `desired_revision_id`, `active_generation_id` (0 is NULL) |
| `revisions` | number of `document_revision` rows |
| `generation[g]` | `index_generation` row with generation_no `g`: status, revision, "raw chunks are stored" |
| `task[t]` | `background_task` row of type INDEX; `base` and `target` are the payload of a re-chunking task; `live` is `lease_expires_at > clock_timestamp()` |
| `attempt[t][e]` | `task_attempt.status` of the claim with lease epoch `e` |
| `work` | pipelines in worker processes: the `TaskLease` they hold and the last step they completed |

| Action | Code |
|---|---|
| `UploadDocument`, `UploadRevision` | `UploadRepository.persist`, both branches |
| `RetryTask`, `DeleteDocument`, `PurgeDocument` | `retry_task`, `delete_document`, `purge_document` |
| `EnqueueReindex` | `reindex_tables.enqueue` |
| `ClaimTask`, `ExhaustTask` | `IngestionQueue.claim`, normal and attempts used up |
| `ExpireLease` | time: `lease_expires_at` passes |
| `ParseSource`, `StageChunks`, `EmbedChunks`, `PublishChunks` | the steps of `IngestionWorker.pipeline`; `stage_chunks_for_graph`, `publish_chunks` |
| `FailPipeline` | `process()` reporting to `IngestionQueue.fail`; if a stage or publish call may still run in its thread, the pipeline stays and may still make that call |
| `DropPipeline` | the pipeline ends silently: finished, heartbeat lost the lease, process killed |

Abstracted: chunk texts and embeddings (stored or not), authorisation and
transient errors (any of them is a `FailPipeline`, possible at any moment),
back-off delays (a task that is not due is simply not picked yet), stage and
progress columns, file metadata. The embedding profile is assumed fixed.

### GraphPipeline and the code

The module adds the rows of the graph half and conjoins each document
transaction that touches them with what it does to them; all other document
transactions leave them unchanged. So `UploadRevisionAndGraph` is one
transaction, as in the code.

| Variable | Code |
|---|---|
| `graphTask[g]` | the `background_task` row of type GRAPH with key `graph:{generation}:v1`; `next` is `payload.next_chunk_index`, `open` the epochs of its RUNNING `task_attempt` rows |
| `projection[g]` | `graph_projection.status` |
| `event[k]` | `outbox_event` row of the clean-up of generation `k`, 0 for the whole document |
| `graphWork` | pipelines in graph workers: their `GraphLease`, chunks done, progress with the next chunk |
| `cleaners` | clean-ups running in graph workers |
| `paused` | workers whose model quota is exhausted |
| `stored[g]` | Neo4j: chunks of `g` whose facts are stored |
| `retired`, `erased` | Neo4j: the fence node of the document |

| Action | Code |
|---|---|
| `UploadRevisionAndGraph`, `EnqueueReindexAndGraph`, `DeleteDocumentAndGraph`, `PurgeDocumentAndGraph`, `StageChunksAndGraph`, `PublishChunksAndGraph` | the graph statements inside the transactions named above |
| `ClaimGraph`, `ExhaustGraph`, `FailGraph`, `FinishGraph` | `GraphQueue.claim`, `fail`, `finish` |
| `ResumeGraph`, `ReuseExtraction`, `SaveExtraction`, `CheckpointChunk` | `scope` and `next_chunk`, `extract` with its cache, `save_extraction`, `checkpoint` |
| `WriteChunk` | `write_transaction`: one Neo4j transaction that looks at the fence and at nothing in PostgreSQL |
| `RequeueGraph` | `requeue_failed` of the back-fill tool |
| `ClaimPurge`, `EraseGraph`, `CompletePurge`, `FailPurge` | `GraphCleanupQueue` and `delete_transaction` |
| `ExpireGraph`, `ExpirePurge` | time |
| `RestartGraphWorker` | a process is killed or restarted |

Abstracted: the contents of facts, shared entities, whether an extraction is in
the cache (left open), back-off. Only the attempts of a GRAPH task that are
RUNNING are kept. Projections have version 1: candidates of the rebuild tool
are in GraphRebuild, and so is `enqueue_candidate` of the back-fill tool, which
serves generations without a GRAPH task: staging no longer leaves any behind.
An event is never deleted, and its key is unique, as in the code.

### ChatRun and the code

One chat session of one owner. A request is served by many transactions with
model calls between them, so it is a small program of its own (`call[c].phase`);
several requests, of several sign-ins, run at once. Every transaction except the
heartbeat starts with the row lock of the session (`_owned_session`) and is one
action. `complete()` runs in a thread that a time limit or a cancellation does
not stop: `SubmitAnswer` hands it over to `commits`, and its transaction may
still commit when the request has failed or gone.

| Variable | Code |
|---|---|
| `run[r]` | the `chat_run` row with the r-th id of the session; `live` is `lease_expires_at > clock_timestamp()`, `context` the `history_run_ids`, `evidence` and `inherited` the sources of its response snapshot and its `history_sources` |
| `messages` | `chat_message` rows by `sequence_no` |
| `call[c]` | a request inside `prepare_chat`, `execute` or `chat_events`: how far it is, whose it is, and what it has read so far |
| `commits` | `complete()` calls in a thread, with the arguments they were given |
| `readable` | chunks and results that `_authorized_sources` admits now |
| `signedIn` | sessions that `_refresh_identity` accepts |

| Action | Code |
|---|---|
| `StartRun`, `RepeatRun` | `start_run`: a new run, and a known `client_request_id` whose run has ended; all other outcomes raise and roll back |
| `LoadScope` | the scope of `prepare_chat` and the first heartbeat of `execute` |
| `ReadHistory`, `Rewrite`, `RecheckTurn` | `_history`, the rewriter's choice of turns, `get_run` of each chosen one |
| `SubmitAnswer`, `CommitAnswer`, `FailCommit` | the call of `complete()` and its transaction |
| `Publish` | `get_run` before a response or an event is sent |
| `Interrupt`, `Terminate` | any error, a lost lease, the time limit or a cancellation; then `terminate()` |
| `Drop` | the client has gone, or the process dies |
| `ExpireRun` | time |
| `Browse`, `SignOut`, `ChangeAccess` | the owner opens the session elsewhere (which reaps), signs out; a permission or publication changes |

Abstracted: texts, citations' positions, model calls. `FAILED` also stands for
`CANCELLED`: nothing tells them apart later. Lease owner and epoch are left out:
a lease is never handed over, so holding it means to be the request that
inserted the run. A structured result is a source like a chunk. The runs a
model may search (`scope`) are any part of what is readable. A session is given:
creating, renaming and listing sessions is not modelled, nor are rows with the
status PENDING, which the code no longer inserts.

### Chunking, GraphExtraction and the code

What the pipelines compute, each as a system of its own.

`Chunking` is one step, `ProcessDocument`, from a document to its chunks;
everything else is operators named after the functions of
`document_processing/` (`ParseBlocks`, `CleanDocument`, `SplitByBudget`,
`RecursiveSplit`, `SplitText`, `TableChunks`, `AddElement`, `MayMerge`, `Merged`,
`ChunkDocument`). `IsDocument` says what a file is: blocks of its format, in
order. Every loop of the code is a `Fold` over a named step (`AddBlock`, `AddRow`,
`AddPiece`, `Rejoin`, `AddStart`, `AddElement`, `AddChunk`), and the recursion of
`recursive_split` is one operator per separator (`SplitAt` lines, then stops,
then single characters): three stand for the fourteen or so of `_separators`.
Characters carry their number in the document, so the property can say where each
of them went. A character is a token, and tokens add up;
`hard_split`, which is needed only where they do not, is left out, and so is the
choice which PDF page goes to MinerU.

`GraphExtraction` has one variable, `extraction`: the stage, the number of
answers so far, whether one was rejected, the last answer and what was accepted
of it. Its actions are the outcomes of an answer in `extract_chunk`: `IsBlank`,
`IsUnreadable`, `HasWrongStructure`, `LacksEvidence`, `IsValid`, and
`ExtractionFails` after three. A fact has one of the flaws the rules tell apart;
prompts and wordings are abstracted to it.

### OriginalFiles and the code

| Variable | Code |
|---|---|
| `document`, `owner` | document rows; the document whose `document_revision` refers, or referred, to an object |
| `objects`, `keys` | the bucket; keys made so far (every upload makes one) |
| `request` | `DocumentService.upload` and `delete` under way |
| `excused` | ghost: objects that a failure may have left behind |

`BeginUpload`, `PutFile`, `PersistUpload`, `RefuseUpload` and `CleanUpUpload` are the
steps of `upload()` with its three `except` clauses; `PrepareDeletion`,
`RemoveObject`, `PurgeDocument` those of `delete()`. Each answer may be lost
although the store did the work, and `AbortRequest` is a crash or refusal between
any two steps.

### GraphRebuild and the code

| Variable | Code |
|---|---|
| `published` | `active_generation_id`, the newest generation, and those of the desired revision |
| `projection` | `graph_projection` rows with their GRAPH task, their clean-up event and the fence it leaves |
| `graph` | the facts in a projection's Neo4j namespace |
| `reviews` | report files with their verdicts |
| `command` | runs of the tool: what they have read so far |
| `touched` | history, for the properties: graphs changed after a switch to them had read them |

The graph of a generation comes about beside its vectors: `Stage` (`stage_chunks`)
makes the row, `Finish` and `FailBuild` (`GraphQueue`) end its task, and
`Publish` (`publish_chunks`) moves the document to the generation, retiring the
predecessor's graphs. They come in every order, so a generation is published
with a READY graph, with one that is still built or has failed, or with none;
`Backfill` and `Requeue` (`backfill_graph.py`) make up for the last two. `Upload` is
`persist()` of a new revision, `Erase` the clean-up.

`Plan`, `Enqueue`; `RecordExclusions`, `RewriteChunk`, `RecordCounts`; `Verify`;
`StartSwitch`, `Approve`, `Switch` (for activation and rollback) are the commands of
`rebuild_graph.py`, one action per transaction or graph access; `Interrupt` ends
one anywhere. A candidate is built by `Finish` and `FailBuild` too. `LateWrite` is a
write to a finished candidate by a worker that lost its lease. Nothing keeps
commands on one candidate apart, so a filter that began before a switch may
write to the graph that serves. Such graphs are `touched`;
`ServesOneReviewedGraph` says of all others that they are as reviewed. The one
exchange of graphs that nothing guarantees is the first: a generation published
before its graph is finished is served by none, and `ServesOneReviewedGraph`
promises one only from then on (`FinishedGraphsServe`).

Deletion of the document is in GraphPipeline. The chunks of a READY generation
are frozen by a trigger, so the fingerprint that `switch()` compares never differs.

### AuthSession, BrowserSession and the code

`AuthSession` is one user of one tenant.

| Variable | Code |
|---|---|
| `session` | `auth_session` rows, named by their first ticket |
| `record`, `stored` | what was written to Redis for each refresh ticket; which are there now |
| `selection`, `offered` | the same for tenant selections, with the password and revocation stamps they were issued under |
| `known` | tickets some client was given |
| `call`, `holder` | requests in the server; whose transaction holds the user row |
| `account`, `logouts`, `broken` | password, authorization version and status; two ghosts |

A transaction holds the user row from its first statement, so steps that touch
neither Redis nor the end of the transaction are merged with the next one.
`VerifyPassword`, `IssueSelection`; `ReadSelection`, `ConsumeSelection`,
`PutRefresh`, `CommitSelection`; `ReadRefresh`, `Rotate`, `CommitRotation`,
`DiscardRefresh`; `LogoutByAccess`, `LogoutByRefresh`, `DeleteRefreshes` follow
`auth_service.py`. `Abort` is an exception or a crash, `RedisForgets` an expiry or a
restart, `ExpireSession` time, `ChangeAccount` an administrator.

`BrowserSession` is the client's side: `cookie`, and per page the token (`page`),
the operations on the cookie (`op`), requests for resources (`fetch`) and pending
broadcasts (`notice`); `owner`, `ended` are what the server knows. Epochs,
controllers and session keys are kept as "still the same as when it began",
since they are compared with nothing else. `HasLocks` says whether the browser
has `navigator.locks`; the run has none, which allows everything that locks
allow and more. Abstracted: the rotation of tickets (`AuthSession` has it),
reloading a page, and the two steps of the sign-in form. A request that times
out in the client was served before it, or never.

### Permissions, LockOrder and the code

`Permissions` has one base, one document and their grant rows, and evaluates the
access conditions in SQL's three-valued logic, in the two forms of
`permissions.py`: `DocumentAccess` is the SQL text, `DocumentCondition` the
SQLAlchemy expression, which builds other comparisons for a member without a
department. `Lock`, `Write`, `Commit`, `Refuse` are the transactions of
`permission_repository.py`; `ChangeMember` is done outside the program.

`LockOrder` gives each transaction as a path (`PathOf`), the row locks it asks for
in order, shared or exclusive. `Begin`, `Acquire` and `End` are PostgreSQL's. Rows
that are only ever locked in shared mode, and rows behind a lock that every path
takes first, are left out.

### QueryPlanning, Retrieval, GraphRecall, Answering and the code

All extend `Retrieval`, which declares what changes in the world while a question
is answered: `readable` (documents the asker may read in the planned
generation), `projected` (documents whose planned projection is READY),
`signedIn`. `since` is for the properties: what was readable and projected at some
moment since the last answer from outside.

| Module | Variable | Code |
|---|---|---|
| QueryPlanning | `attribute`, `anchored`, `updated` | a metadata field of the documents, the bases of the scope, rows changed since the catalog was read |
| | `planning` | the question and its plan: `rewrite()`, `plan_with_graph()`, `route()`, `execute`, `revalidate_provenance()` |
| Retrieval | `run` | `retrieve()`: answers of the branches, fused order, facets, paths |
| GraphRecall | `recall` | `query_retrieval/graph.py`: seeds, relations, hits and paths of the graph branch |
| Answering | `answer` | `answer()`: stage, draft, evidence, paths, and the check under way |

A database read is one action, at the moment of which it sees what is readable;
between reads the code waits for an embedder, Neo4j, a reranker, a model or a
slow reader, and the world may change. Scores are abstracted to orders: fusion
computes the exact numerators of the reciprocal ranks, so ties of floating point
numbers are not modelled. GraphRecall has one knowledge base. QueryPlanning has
conditions of equality on one field. Conditions of order and on dates are left
out: `_catalog_operation` takes the words of their operators as optional, so a
misread operator would still remove the phrase, and `NoConditionIsLost` says
nothing of them. Which conditions of an earlier turn the patterns of `rewrite.py`
match is the constant `Noticed`: figures, dates and most file types are, but
neither business statuses nor Markdown nor departments without a suffix. A term
that is not in it may take the place of a reference. Answering ends with the
check after the review: the finished answer may still wait in the event queue
(`streaming.py:30`), and the model says nothing of the asker's rights meanwhile.
The rules a draft is held to
(`support.py`) are abstracted to sound, imprecise and wrong drafts.

## 3. Runs

| Run | Instance | Distinct states | Shows |
|---|---|---|---|
| `index_safety` | 1 worker process with 2 pipelines at once, 2 attempts, 2 revisions, 2 previews, 4 generations, 3 tasks; 14,428 documents; up to 2 entities and relations per answer | 856,628 | `TypeOK`, `PublishedIndexIsComplete`, `UnfinishedWorkIsWanted`, `AttemptLogIsTrue`, `SupersededPipelinesAreHarmless`, `EndedGenerationsAreFrozen`, the refinement `PublishedSpec`; `ChunksCarryTheDocument`; `AcceptedFactsAreProved` |
| `liveness` | the same with 2 revisions, 3 generations; 2 chat requests of 2 devices | 130,371 | `WorkSettles`, `UploadIsDecided`, `SessionFreesUp` |
| `graph_work` | 1 graph worker with 2 pipelines at once, 2 chunks, 2 attempts | 61,632 | `ReadyGraphIsComplete`, `SupersededGraphsAreHarmless`, the refinement `DocumentIndexSpec`; `GraphsSettle`, `OrphansVanish` |
| `graph_update` | 2 generations by revision, retry or re-chunking | 1,382,169 | `OrphansAreScheduled`, `GraphTasksMatchProjections`, `ErasedStaysErased`, `StaleIsFinal` |
| `chat_safety` | 2 requests at once, 3 request ids with 2 bodies, 3 runs, history window 2, 1 source; 2 pages, 2 people, 2 sign-ins, 1 sign-out, 1 resource request | 492,950 | `VisibleAnswersRestOnReadableSources`, `ContextHasNoGaps`, `ShownAnswersAreTheirs`, the refinement `ConversationSpec`; `PagesKeepTheirSession` |
| `operations` | 2 requests at once, 2 tickets and selections; 2 documents, 3 files; 2 commands over 2 projections, 1 command at a time over 3, 2 staged generations, 2 facts, 1 report; 3 connections, 2 tasks, 20 transactions | 1,682,256 | `SessionsComeFromSignIns`, `ReplacedTicketsStayUnusable`, `RefreshStaysPossible`; `FilesMatchDocuments`; `ServesOneReviewedGraph`; `NobodyWaitsInCircles` |
| `queries` | 3 chunks of 2 documents, 2 paths, 3 opinions, one change of the world; a graph of 4 entities; 2 values, one of them noticed, 2 conditions, 3 histories; 2 members, 1 department | 534,481 | `NoConditionIsLost`; `WithdrawnTextIsNotPassedOn`, `EvidenceHoldsTogether`; `PathsComeWholeAndCurrent`; `WithdrawnEvidenceStaysInside`, `AnswersRestOnTheirEvidence`; `AccessConditionsAgree`, `PermissionChangesAreAuthorized` |
| `graph_retirement`, `graph_parallel`, `lock_chat`, `permission_columns`, `earlier_conditions` | small | | five findings, below |

Each property is paired in `PROJECT.json` with a mutant, a plausible bug (epoch
not compared, one status forgotten in a cancellation, base not verified, the
fence not looked at, a check before the wait instead of after it, ...) that makes
TLC find it violated.

*Bounds.* Two pipelines suffice for every race named in the hazards, because
each is between one stale actor and one current one; two attempts let a lease be
lost, re-claimed by the same process and exhausted; the generations let a retry
follow revisions or a re-chunking follow a publication and a retry.
`RetryAllowance` is 3 and `AttemptCap` 100 in the code; they are at most 2 here so
that the cap is reached. Two chunks are needed for a cursor that is neither at
the start nor at the end. The graph runs divide the interesting cases, leases on
one generation, and replacement, because the product with all bounds at two is
out of TLC's reach; the theorems cover every combination. Workers, previews,
requests and facts are interchangeable (symmetry, safety runs only). The system
may stop (`CHECK_DEADLOCK FALSE`): when the document is purged there is nothing
left to do, and the bounds on revisions, generations, tickets and so on are
guards.

Three runs are the smallest number for which a chat answer rests on a turn that
itself rests on an older one, and for which a gap can lie between two usable
turns; two requests are needed for the double submission and for the new
question that meets an expired run whose thread is still committing. One source
suffices, because the properties compare what one answer recorded with what is
readable. `HistoryTurns` is 2 of 3 runs, so that the window cuts.
`QuestionsAreAlike` is a bound: stored questions have one body; the other body
comes as a repetition of a request id with another question.

Two tickets and two selections let a refresh race a sign-out and a selection be
sent twice; the third ticket adds nothing that the theorem does not cover. The
graphs of a document are checked twice, because the product is out of TLC's
reach. With three projections commands follow each other: they are the first
graph, a candidate and a candidate of the candidate or beside it, or the graph of
the next generation; one report lets one of the candidates be switched to, left
and switched to again. With two projections, a graph and its candidate or the
graphs of two generations, two commands overlap: a filter with a switch, two
switches, a switch with a way back. In both, graphs are finished before their
publication, after it or never, and the theorem covers every number. Three connections can wait in a circle of three, and the
theorem covers every number. One change of the world meets each wait of a
retrieval or an answer. The 14,428 documents put every pair of block forms under
every short outline, with sizes just below, at and above the budgets.

*Fairness* (`FairSpec`): `run()` polls `claim()` for ever, so a claimable task
is eventually claimed (or found exhausted); `process()` bounds each pipeline by
a timeout, so a pipeline does not stand still for ever; a lease that no live
pipeline renews runs out. All weak, per task. Users are not assumed to do
anything. A heartbeat is not an action: renewing a live lease changes nothing
here, and fairness of expiry is asked only of abandoned leases.

The graph half (`GraphFairness`) asks the same, with three differences. Claims
of tasks and of clean-ups are strongly fair, because one worker serves both
queues and a place for a pipeline comes and goes. Erasing is strongly fair: a
clean-up that fails is tried again without limit, and Neo4j is assumed to
answer now and then. And a worker that paused because its model quota is used
up is restarted, as `README.md` asks of the operator.

`ChatFairness` is weak fairness of two things only: `asyncio.timeout` ends every
call, whatever phase it is in, and a lease that no renewal task of a live call
keeps runs out. Nobody is assumed to ask, to look or to sign in again.

*Findings.* Five runs expect a violation.

* `graph_retirement`: `README.md:163` says that a publication makes the old
  graph projection STALE and asks for its clean-up. `publish_chunks` does so for
  the active generation only. If an INDEX task fails and is retried into a fresh
  generation while the GRAPH task of the first goes on, that first generation
  keeps a READY projection nobody reads, and its facts, until the document is
  deleted.
* `graph_parallel`: `README.md:138` and `:159` say that extraction runs in
  parallel with the vectors and saves its results first. Once the generation is
  published, the trigger `guard_chunk_mutation` refuses `save_extraction`, so
  every chunk extracted after the publication fails after the model has
  answered.
* `lock_chat`: `publication.py:46` asks for the base before the documents, so as
  not to wait against permission changes. The query that shows a chat answer
  ends in `FOR SHARE OF doc, kb, ...` and locks the document first.
* `permission_columns`: `can_write` is declared and tested as a boolean. For a
  member without a department it can be NULL, and the page of tasks fails.
* `earlier_conditions`: `MULTI_TURN_CHAT_INTERVIEW.md:124` and `rewrite.py:37` say
  that conditions do not come in from earlier turns. What the patterns of
  `rewrite.py:38-51` do not match, such as a business status, Markdown or a
  department without a suffix, is accepted, becomes a filter
  (`query_metadata/resolver.py:19-30`), and a catalog answer counts with it.

Two more disagreements can be read off the models but have no run of their own.
`rebuild_graph.py:496` says that a decision is recorded before the graph is
written so that the checks prevent the switch if the write fails; they are part
of the inspection, which an activation makes before it locks the rows, and
`switch()` does not look at the exclusions (`Approve` before `RecordExclusions`,
`Switch` after it), so the graph may serve with the facts that were ruled out,
and the same decision cannot be replayed (`CANDIDATE_NOT_COMPLETE`). And
`tests/test_graph_worker.py:262` says that an invalid answer cannot become a
successful empty graph, but `graph_extraction.py:435` salvages relations between
entities that do not exist to nothing, and the chunk counts as one without facts
(`LacksEvidence`).

## 4. Proofs

Every theorem is about the specification with all its constants: any number of
workers, requests, connections, documents or facts, and any value of the bounds.
The assumptions on constants are named in the module that declares them, and TLC
evaluates them in every run. Each strengthened invariant was given to TLC, on
an instance like that of the run, before it was proved.

### Documents and graphs

`DocumentIndex_proofs` proves, for every value of the constants that satisfies
`BoundsAssumption` and `AttemptsAssumption` (natural bounds, at least one
attempt allowed, default attempts within the cap):

| Theorem | Says |
|---|---|
| `Inductive` | `IndInv` holds in every reachable state |
| `TypeCorrect`, `CompletePublication`, `TrueAttemptLog`, `WantedWork` | the four invariants of the safety run |
| `HarmlessPipelines`, `FrozenGenerations` | its two action properties |
| `DocumentImplementsPublished` | the refinement of `PublishedDocument` |

None of the invariants is inductive alone. `IndInv` adds what makes them so:

* `TasksReferToRows`: a task has a generation of its own, of its own revision,
  above its re-chunking base. So failing or publishing one task's generation
  cannot hurt another's.
* `TaskCountersAgree`: epoch and attempts move together, and a cancellation
  moves the epoch one further. So a new claim's epoch is above all earlier ones.
* `PipelinesWereClaimed`: a pipeline's epoch is at most the attempts of its task;
  if it is the task's current epoch, the pipeline's generation and revision are
  the task's. `fail()` uses the lease's generation without comparing it with
  the row; this conjunct is why that is safe.
* `GenerationsFollowRevisions` and `UploadsPublishFirst`: generation numbers
  follow revisions, and once a revision is published its upload task has
  succeeded. With the base check of re-chunking tasks this gives
  `PublicationMovesForward`: a publication is always of a higher generation.

The refinement maps `active` to the served index: `PublishChunks` is `Serve`,
uploads are `Request`, deletion and purge are themselves, all else stutters.
Row lemmas (what cancelling, closing or failing does to each row) are stated
once; then one lemma per action has one step per conjunct.

`GraphPipeline_proofs` adds, under `GraphBoundsAssumption` (at least one chunk,
attempt limits as above):

| Theorem | Says |
|---|---|
| `GraphRefinesIndex` | the composition implements `DocumentIndex` |
| `GraphInductive` | `GraphInv` holds in every reachable state |
| `GraphTypeCorrect`, `ReadyGraphsAreComplete`, `GraphTasksAndProjections`, `ErasureIsFinal`, `NoOrphanIsForgotten` | the invariants of the graph runs |
| `ReplacedGraphsStayReplaced`, `SupersededGraphPipelines` | their action properties |

`GraphRefinesIndex` makes `IndInv` available, so the graph half needs no
invariant of its own about generations. `Quiet` says what an index step that
touches no graph row may do to the rows `GraphInv` looks at; `QuietKeeps` deals
with all of them at once. The graph steps fall into three lemmas by what they
write: `TaskStepKeeps` (a task whose projection is in use), `WorkStepKeeps` (a
pipeline only) and `EventStepKeeps` (a clean-up event); the writes to Neo4j have
lemmas of their own. What makes the invariants inductive:

* `PurgesAreForDeadGraphs` and `StaleGraphsAreReplaced`: a clean-up is asked for
  only once nobody can use or revive the graph. This is why the erasure cannot
  hurt a READY graph, and why the back-fill tool, which looks at the projection
  only to see that there is one, cannot revive a replaced one.
* `WritesAreKnown`: whatever is in Neo4j, *or may still be written by a
  pipeline*, has a projection or an event that covers it, also after the purge.
* `FenceHolds`: a clean-up that reports success closed the fence before, and
  behind it there is nothing. A writer's lease does not enter the argument.
* `CursorsFollowFacts` and `OnePipelinePerLease`: the cursor never passes what
  is stored, and a lease is held by one pipeline only.

`ExtractedFactsAreProved`, in the same module, is `AcceptedFactsAreProved` for
answers of any size and any limits: a valid answer is its own proved part, a
rejected one is replaced by its proved part.

### Chat

`ChatRun_proofs` needs only `ChatNoneAssumption` (`None` is no request, body or
sign-in) and `ChatBoundsAssumption` (natural bounds):

| Theorem | Says |
|---|---|
| `ChatInductive`, `ChatTypeCorrect` | `ChatInv` holds in every reachable state |
| `AnswersRestOnReadableSources`, `ContextsHaveNoGaps`, `ClientsAreShownTheirs` | the invariants of the chat run |
| `ChatImplementsConversation` | the refinement of `Conversation` |

All transactions but two only let runs *fade* (end without an answer, or lose
the lease), so `FadeKeepsRows` and `FadeKeepsInv` serve them all; `StartRun` and
`CommitAnswer` have proofs of their own. What makes the properties inductive:

* `OnlyTheNewestRuns`: ids have no gaps and only the newest run may be running,
  so a run that an answer rests on has ended before and never changes.
* `SnapshotsAreClosed`: an answer records everything its turns recorded. The
  check of `_visible_runs` reaches one snapshot deep; by this conjunct the set of
  answers that recorded no more than a given one is closed under "rests on",
  hence contains all its ancestors.
* `CallsMatchRuns`: what a call or a thread read some transactions ago still
  holds of the rows; that is why `complete()` may compare statuses only.
* `RequestsHaveOneRun`, `MessagesMatchRuns`: for the transcript.

The refinement maps the open question to the request of the running run (at most
one, by `OnlyTheNewestRuns`): `StartRun` is `Ask`, `CommitAnswer` is `Answer`, and
where runs fade the question lapses, is given up or stays.

### Original files

`Operations_proofs`: `FilesInductive`, `FilesTypeCorrect` and
`FilesAgreeWithDocuments`. `FilesInv` says what each request knows of its file in
each phase (`UploadsKnowTheirFile`: before the commit nothing refers to it; after
an unknown commit something does, or it is excused), that no two requests work
on one file, and that a deletion still has to remove every object of its
document (`DeletionsKnowTheFiles`). The last one needs that no revision can come
to a document once it is stopped, which is the comparison with the expected
revision in `persist()`.

### Sign-in sessions

`AuthSession_proofs`: `AuthInductive`, `AuthTypeCorrect`, `SignInsAreCurrent`,
`ReplacedTicketsAreRefused`, `LiveSessionsCanGoOn` for the server (one user of
one tenant, any number of requests, sessions and rotations), and
`BrowserInductive`, `BrowserTypeCorrect`, `PagesKeepTheirs` for the pages of a
browser. The first ones use `NobodyAssumption`
(nobody is not a request) beside the bounds. What makes the three inductive:

* `TicketsAreMade`: a session's tickets have different rotations, so the rotation
  alone tells which one is the latest.
* `RowsNameTheirTicket`: at most one ticket is newer than the one a row names, and
  it has then taken the old one's place in Redis. So a rolled back refresh leaves
  a ticket in Redis that nobody accepts, and a committed one leaves none behind.
* `TransactionsKnowTheirRows`: what a transaction read before it wrote Redis still
  holds at the commit, because the user row is held (`UserRowIsHeld`).
* `SelectionsKnowLogouts`: a selection that still has the revocation stamp was
  issued after the last sign-out; the stamp never goes back to an older value.

`PagesKeepTheirs` holds for any number of pages, people, sign-ins, sign-outs and
requests, and with the browser's locks as without them (`HasLocks` is either). No
part of the property is inductive: what an answer may do with a page depends on
what happened since its operation began. `BrowserInv` says what the epoch, the
controller and the key keep of that:

* `SoundFetch`: a request that was not aborted is of the person its page shows.
  `setSession()` must abort the page's requests exactly when another identity
  comes, also by a refresh: the cookie may be of somebody who signed in on another
  page.
* `SoundOp`: while nobody is shown, an operation of the page's epoch is of its key
  too, so what arrives then began after the page was cleared; and an answer that
  arrives in its page's epoch is of a session that was not signed out, or the page
  has still to hear of it.
* `SignOutReachesPages` with it: a page that shows a session whose sign-out was
  answered is in `notice`.

### Graphs of a document

`Operations_proofs`: `RebuildInductive`, `RebuildTypeCorrect` and
`ReviewedGraphsServe` (`ServesOneReviewedGraph`), for any number of commands at
once, generations, candidates and reports, without an assumption on how commands
overlap. Facts are a finite set. What makes the property inductive:

* `RowsAreSound`: what the row of a projection says of its generation, its task
  and its clean-up. A clean-up is asked for only of an older generation or an
  unwanted revision, hence never of a graph that serves or may be switched back
  to; a finished task is not cancelled, so an open one belongs to a BUILDING row.
* `GraphsShareGenerations`: one first graph per generation, and beside a READY
  graph its first graph is STALE. `finish()` sets a first graph READY without looking
  for another, and `requeue_failed` revives one; by this conjunct there is no
  READY graph beside it then.
* `CommandsAreSound`, `ServableGraphsWereReviewed`: an approved graph is still as
  reviewed at the switch, or it is `touched`; so is a graph that may be switched
  back to.
* `FinishedGraphsServe` is a conjunct of the property and inductive beside the
  others: only `Finish` finishes a graph (`OnlyFinishFinishes`); a publication finds
  a finished one READY (`PublishedGraphIsReady`), because a STALE one would be of an
  older generation; and until the next publication an upload spares what is
  READY, and a switch makes one graph READY in the transaction that makes
  another STALE (`ServiceGoesOn`).

### Locks

`Operations_proofs`: `LocksInductive` and `LockOrderHolds`, for any number of
connections and tasks, when the transactions are among the twenty of
`OrderedTransactions`, that is, all but those that show chat answers (which the
run `lock_chat` refutes). A global order alone does not prove it, because the
code does not keep one: users are locked in shared mode before the tasks and
after the parts of a document; the base is locked again by who has it; and
publication, deletion and purge lock generation, projections, chunks and
citations in different orders. `MayFollow` says which of these are harmless: a
shared lock of a user stops only sign-ins, which wait for users before they have
anything; a row held in shared mode can be had again in shared mode; and who
locks two parts has the document and all of its tasks, one of which everybody
who waits for a part has too. `PathsAreOrdered` shows this of each path (stages:
before the tasks, before the document, with one of them, with all of them);
`BlockersAreAhead` that whoever stands in the way waits for a later lock; the
blocked connection whose wanted lock is last has then no blocker that waits.

### Questions and permissions

`Queries_proofs`:

* `AnswerInductive`, `AnswerTypeCorrect`, `AnswersAreProved` and, as an action
  property, `WithdrawnStaysInside`. `ChecksReadWhatIsRecent` says which part of the
  evidence a check has already compared with the database; since a check starts
  again after every wait, what it passes on is recent. `DraftsAreReviewed` follows
  the draft: what a reviewer saw is what is shown.
* `PermissionInductive`, `PermissionTypeCorrect`, `AdministratorsChangePermissions`:
  one request holds the base, its identity is the member's row, and it
  administers the base as long as nothing is written. `AccessFormsAgree` is a
  theorem about the conditions themselves, for all rows: a condition lets a row
  through only when it is TRUE, and a comparison with NULL never is. It needs
  that `NULL` is no truth value and no subject, and that there is a user.

* `PlanningInductive`, `ConditionsAreKept`: the filters of a plan are those that
  were selected or found (`PlansHaveAllFilters`); a rewritten question still says
  all that was said and, beside it, only conditions the patterns do not notice
  (`QuestionsSayTheSame`); a plan for the catalog has explained all of it and
  nothing else, and the documents it would answer with have been looked at since
  (`CatalogPlansAreWhole`), so that a catalog read twice while rows change
  (`CountsWereRight`) gives what was right at some moment. An "or" joins at
  least two phrases (`OrJoinsTwo`), so a question with an "or" is never explained as
  one for the catalog.

### Retrieval

`Retrieval_proofs`, under `RetrievalConstantsAssumption` (a finite set of chunks,
orders that rank each of them once, budgets of at least one) and, for the graph
branch, `RecallConstantsAssumption` (finitely many relations, and numbers of
their own for relations and mentions: the key of an assertion includes that of
its one piece of evidence, `graph_storage.py:83`, and an entity and a piece of
evidence have at most one mention):

| Theorem | Says |
|---|---|
| `RetrievalInductive`, `RetrievalTypeCorrect` | `RetrievalInv` holds in every reachable state |
| `WithdrawnTextStays` | `WithdrawnTextIsNotPassedOn` |
| `EvidenceIsWhole` | `EvidenceHoldsTogether` |
| `RecallInductive`, `RecallTypeCorrect` | `RecallInv` holds in every reachable state of a graph recall |
| `PathsAreWholeAndCurrent` | `PathsComeWholeAndCurrent` |

Most of it is about the operators. Fusion, coverage of facets and path bundles
fold, sort and select, and the prover cannot apply what a library says of an
operator that takes an operator. In `Retrieval` a step of a fold is therefore a
function of what is left so far and the next element, and an order is a function
from an element to those before it. Then four facts carry the rest:

* `FoldedKeeps`: what holds of the base and is kept by every step holds of the
  result. `Folded()` is defined by recursion over 0..n, `StagesExist` gives its
  stages, and `LeastNatural` the induction over their numbers.
* `Sorting`: when of any two elements one is ahead of the other and of all the
  other is ahead of (`Ahead`), counting those ahead gives every element a place of
  its own, so that the `CHOOSE` of `SortedBy()` finds one.
* `PickedIs`: picked places keep their order. `Among()` and `Distinct()` follow, and
  `DistinctPrefix`: what is appended to a sequence does not move its beginning.
* `SelectedIs`: a bundle is taken whole or not at all, fits the budget, repeats
  nothing and loses nothing; the first candidate always finds a place, and without
  paths the selection begins with the candidates up to the budget.

`CoveredIs` says that the best candidate and the best of each facet come first;
along the beginnings (`PrefixOf`) they reach the evidence. The steps then need
little: candidates only get fewer after the first check, facets are orders of what
was fused (`FacetsComeFromTheFusion`), a plan without graphs has no relation, and
relations that were traced are of graphs that were READY (`RelationsAreCurrent`).
What is readable now counts as readable since the last answer (`SinceCovers`), and
every wait is followed by a check before text is passed on.

The graph branch uses the same lemmas. `PathsOf()` folds a fold: `Fitting` (few
enough paths, over texts that were just read, whose texts all fit) is kept by
`Adding` one path (`AddingKeeps`), hence by both folds (`PathsOfFit`). The texts of
the paths come first among the candidates (`DistinctPrefix` again), so those that
fit are all handed on. `RecallInv` adds only that graphs outside the plan are never
asked and that results stay within their limits; each action either ends the
recall with a `SoundResult` or goes on.

### Chunking

`Chunking_proofs`: `ChunksCarryTheDocumentHolds`, the property of the run, for
documents with any number of blocks, rows and characters, under every
configuration that `ChunkConfigAssumption` admits (at least 12 tokens; the code
demands 32), and for every document that satisfies `IsDocument`. The property is
about bodies and tables: the code drops the caption of code and of an image
that has a text of its own (`pdf_parser.py:266-303`), and a heading that others
follow at once (`chunking.py:291-297`). The state is
simple, and so is the invariant (`ChunkingInv`: a document that was cut was
complete, and its chunks are those that `ChunkDocument` makes of its cleaned
elements). The work is in the operators: what a fold over data gives for *every*
length.

The library's induction theorems take an operator, which the provers cannot
instantiate, so induction is done over sets. `UpToN`, proved from the least number
(`LeastNatural`), says of a set that has 0 and with each number the next one that
it has all; `BySequences` says the same of sequences. Every `Fold` is unrolled once
to its stages (`FlattenedStages` to `ParseBlocksStages`), and an invariant of the
loop is the set of stages that have it.

What is followed is where the numbered characters are:

* `InOrder` of a sequence of sets: what is new in each is larger than what is new
  in those before. `OrderOfBoth`, `OrderWithMore`, `OrderWithLarger` say how it
  survives concatenation, a further set, and a merge into the last one;
  `AscendingIsInOrder` replaces it by what has to be shown step by step.
* `Cuts`: pieces within a budget that are, one after another, the text.
  `GatheredPieces` shows that putting pieces together keeps that, hence
  `RecursiveSplitCuts`; `RejoinedCuts` that short pieces may join; `OverlappedIs`
  and `StrippedTexts` that overlaps and stripping neither lose nor disorder
  anything, and nothing gets too long (`RoomForText`). `SplitTextIs` is the sum.
* `TableDrafts`: drafts of a table and the rows they name. `GroupIs`,
  `GroupStartsIs` and `GroupsAre` follow the groups under their repeated header.
* `About(drafts, elements, b, c)`: the drafts fit, have what the elements after `b`
  up to `c` say, in order, and name where it is from. `AboutBoth` puts two such
  together; `Ready` is the invariant of the loop of `chunk_document`, while texts
  and headings are pending (`AddElementIs`, `DraftsAre`), and `Carried` that of the
  merges, which may only unite neighbours (`MergedIs`, `AddChunkIs`, `ChunksAre`).
* `CleanDocumentIs`: cleaning keeps what an element says, and drops only what has
  no content or is on the page only. `Parsed`: elements say what their block says,
  in the order of the file (`ParseBlocksIs`, `RegionsAre` for sheets and plain
  texts, `ParseDocumentIs`).

`BlocksAreCarried` and `SourcesAreNamed` put these together.

### What is only model-checked

Liveness (`WorkSettles`, `UploadIsDecided`, `SessionFreesUp`, `GraphsSettle`,
`OrphansVanish`): fairness and ENABLED are outside the prover's reach. Every
invariant and action property of the passing runs, and every refinement, has a
theorem.

The runs and the proofs are about one document, one chat session, one user, one
base; the code has no transaction over two of them except permission changes
and sign-ins, whose locks are in `LockOrder`.

## 5. Plan

Done: every module of section 2 with its runs, and the theorems of section 4.

Next: the refinement of `BrowserSession`'s server by `AuthSession`; and the choice of
the PDF pages that go to MinerU.

## 6. Not modelled

Embedding and its cache (numbers), prompts and models (their answers are any
within the bounds); database migrations (deployment only; the triggers and unique
indexes they install are taken into account where they decide an outcome);
routers and views of the web client (transport and presentation); evaluation
scripts (reports over stored results); metadata edits of a document as such
(QueryPlanning has them as changes of a field); the clean-up of entities that
several documents share in Neo4j.
