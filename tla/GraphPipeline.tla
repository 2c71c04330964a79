---------------------------- MODULE GraphPipeline ----------------------------
(***************************************************************************)
(* The graph half of one document: GRAPH tasks and projections, which the  *)
(* INDEX pipelines create and retire, the graph workers that lease the     *)
(* tasks and write to Neo4j, and the outbox of clean-ups that erases the   *)
(* graphs of replaced generations and of deleted documents.                *)
(*                                                                         *)
(* The module extends DocumentIndex: a transaction of that module that     *)
(* also touches graph rows is its action conjoined with the graph half.    *)
(* Neo4j is a second store: its transactions are separate actions, and a   *)
(* writer checks its lease before, not during, a write.  What stops a late *)
(* writer is the fence node of the document.                               *)
(*                                                                         *)
(* Only version 1 projections, in one namespace, are modelled here; chunk  *)
(* contents are abstracted, so whether an extraction is found in the cache *)
(* is left open, and whatever makes the code raise is a FailGraph.         *)
(***************************************************************************)
EXTENDS DocumentIndex

CONSTANTS
  GraphWorkers,       \* worker ids of graph worker processes
  ChunkCount,         \* chunks of a staged generation
  GraphMaxAttempts,   \* settings.graph_max_attempts
  GraphAttemptCap,    \* attempts a GRAPH task may ever have (100 in the code)
  MaxGraphPipelines   \* bound: graph pipelines alive at once

ASSUME GraphWorkersAssumption == None \notin GraphWorkers
ASSUME GraphBoundsAssumption ==
  /\ ChunkCount \in Nat \ {0} /\ MaxGraphPipelines \in Nat
  /\ GraphAttemptCap \in Nat \ {0} /\ GraphMaxAttempts \in 1..GraphAttemptCap

VARIABLES
  graphTask,    \* GRAPH task row of a generation (key graph:{generation}:v1)
  projection,   \* graph_projection.status of a generation
  event,        \* outbox rows: the purge of a generation, 0 for the document
  graphWork,    \* pipelines running in graph worker processes
  cleaners,     \* clean-ups running in graph worker processes
  paused,       \* graph workers that met an exhausted model quota
  stored,       \* Neo4j: chunks of a generation whose facts are stored
  retired,      \* Neo4j: generations in the fence of the document
  erased        \* Neo4j: the fence says that the document is deleted

neo4j == <<stored, retired, erased>>
graphRows == <<graphTask, projection, event>>
processes == <<graphWork, cleaners, paused>>
graphVars == <<graphRows, processes, neo4j>>
allVars == <<vars, graphVars>>

Chunks == 1..ChunkCount
GraphEpochs == 1..GraphAttemptCap
Purges == 0..MaxGeneration
WholeDocument == 0

GraphTask ==
  [status : {"NONE", "PENDING", "RUNNING", "RETRY_WAIT",
             "SUCCEEDED", "FAILED", "CANCELLED"},
   attempts : 0..GraphAttemptCap,
   max : 0..GraphAttemptCap,
   owner : GraphWorkers \cup {None},
   epoch : 0..(GraphAttemptCap + 1),
   live : BOOLEAN,
   next : 0..ChunkCount,           \* payload.next_chunk_index
   open : SUBSET GraphEpochs]      \* epochs of its RUNNING task_attempt rows

ProjectionStatus == {"NONE", "BUILDING", "READY", "FAILED", "STALE"}

Event ==
  [status : {"NONE", "PENDING", "PUBLISHING", "PUBLISHED"},
   owner : GraphWorkers \cup {None},
   live : BOOLEAN]

(* A graph pipeline: its GraphLease, the chunk it is at (chunks stored and  *)
(* checkpointed so far) and how far it has got with the next one.          *)
GraphPipelines ==
  [generation : Generations, revision : Revisions, owner : GraphWorkers,
   epoch : GraphEpochs, done : 0..ChunkCount,
   phase : {"claimed", "at", "extracted", "written"}]

Cleaner == [purge : Purges, owner : GraphWorkers, phase : {"claimed", "erased"}]

NoGraphTask == [status |-> "NONE", attempts |-> 0, max |-> 0, owner |-> None,
                epoch |-> 0, live |-> FALSE, next |-> 0, open |-> {}]

NoEvent == [status |-> "NONE", owner |-> None, live |-> FALSE]
NewEvent == [NoEvent EXCEPT !.status = "PENDING"]

GraphTypeOK ==
  /\ graphTask \in [Generations -> GraphTask]
  /\ projection \in [Generations -> ProjectionStatus]
  /\ event \in [Purges -> Event]
  /\ graphWork \subseteq GraphPipelines
  /\ cleaners \subseteq Cleaner
  /\ paused \subseteq GraphWorkers
  /\ stored \in [Generations -> SUBSET Chunks]
  /\ retired \subseteq Generations
  /\ erased \in BOOLEAN

GraphInit ==
  /\ Init
  /\ graphTask = [g \in Generations |-> NoGraphTask]
  /\ projection = [g \in Generations |-> "NONE"]
  /\ event = [k \in Purges |-> NoEvent]
  /\ graphWork = {} /\ cleaners = {} /\ paused = {}
  /\ stored = [g \in Generations |-> {}] /\ retired = {} /\ erased = FALSE

-----------------------------------------------------------------------------
(* Rows *)

(* A GRAPH task that ends: no lease, and no attempt left RUNNING.          *)
ReleasedGraph(g, s) ==
  [graphTask[g] EXCEPT !.status = s, !.owner = None, !.live = FALSE, !.open = {}]

(* Fault: the replaced generation's GRAPH task goes on.                    *)
CancelledGraphs_None(gs) == graphTask

(* The unfinished GRAPH tasks of the generations gs are cancelled.         *)
CancelledGraphs(gs) ==
  [g \in Generations |->
     IF g \in gs /\ graphTask[g].status \in ActiveStatuses
     THEN [ReleasedGraph(g, "CANCELLED") EXCEPT !.epoch = @ + 1]
     ELSE graphTask[g]]

StaleProjections(gs) ==
  [g \in Generations |->
     IF g \in gs /\ projection[g] # "NONE" THEN "STALE" ELSE projection[g]]

(* Fault: the deduplication key does not tell generations apart.           *)
WithEvents_OneKey(ks) ==
  [k \in Purges |-> IF k \in ks /\ \A j \in Generations : event[j].status = "NONE"
                    THEN NewEvent ELSE event[k]]

(* Clean-ups ks are asked for, unless they have been before: their         *)
(* deduplication key is unique.                                            *)
WithEvents(ks) ==
  [k \in Purges |-> IF k \in ks /\ event[k].status = "NONE" THEN NewEvent ELSE event[k]]

Projected == {g \in Generations : projection[g] # "NONE"}

-----------------------------------------------------------------------------
(* The transactions of DocumentIndex with their graph half *)

(* A new revision gives up the graphs that are not READY; a READY one goes  *)
(* on serving until the revision is published.                             *)
SupersededGraphs == {g \in Generations : projection[g] \in {"BUILDING", "FAILED"}}

UploadRevisionAndGraph(r) ==
  /\ UploadRevision(r)
  /\ graphTask' = CancelledGraphs(Generations)
  /\ projection' = StaleProjections(SupersededGraphs)
  /\ event' = WithEvents(SupersededGraphs)
  /\ UNCHANGED <<processes, neo4j>>

(* Re-chunking waits for the graph as well.                                *)
EnqueueReindexAndGraph(b, f) ==
  /\ EnqueueReindex(b, f)
  /\ ~ \E g \in Generations : graphTask[g].status \in ActiveStatuses
  /\ UNCHANGED graphVars

(* The clean-up a deletion asks for, if there is any graph.                *)
DocumentPurge == IF Projected # {} THEN {WholeDocument} ELSE {}

DeleteDocumentAndGraph ==
  /\ DeleteDocument
  /\ graphTask' = CancelledGraphs(Generations)
  /\ projection' = StaleProjections(Generations)
  /\ event' = WithEvents(DocumentPurge)
  /\ UNCHANGED <<processes, neo4j>>

(* The clean-up events belong to no task or document row and stay.         *)
PurgeDocumentAndGraph ==
  /\ PurgeDocument
  /\ graphTask' = [g \in Generations |-> NoGraphTask]
  /\ projection' = [g \in Generations |-> "NONE"]
  /\ UNCHANGED <<event, processes, neo4j>>

(* The first staging of a generation creates its GRAPH task.               *)
StageChunksAndGraph(p) ==
  /\ StageChunks(p)
  /\ IF graphTask[p.generation].status = "NONE"
     THEN /\ graphTask' = [graphTask EXCEPT ![p.generation] =
                             [NoGraphTask EXCEPT !.status = "PENDING", !.max = GraphMaxAttempts]]
          /\ projection' = [projection EXCEPT ![p.generation] = "BUILDING"]
     ELSE UNCHANGED <<graphTask, projection>>
  /\ UNCHANGED <<event, processes, neo4j>>

(* Publication retires the graph of the generation it replaces.            *)
PublishChunksAndGraph(p) ==
  LET replaced == {active} \cap (Generations \ {p.generation})
  IN /\ PublishChunks(p)
     /\ graphTask' = CancelledGraphs(replaced)
     /\ projection' = StaleProjections(replaced)
     /\ event' = WithEvents(replaced \cap Projected)
     /\ UNCHANGED <<processes, neo4j>>

-----------------------------------------------------------------------------
(* Graph workers *)

(* Fault: the epoch is not compared, only the worker.                      *)
HoldsGraph_AnyEpoch(p) ==
  /\ graphTask[p.generation].status = "RUNNING"
  /\ graphTask[p.generation].owner = p.owner
  /\ graphTask[p.generation].live

(* The test of GraphQueue._locked.                                         *)
HoldsGraph(p) ==
  /\ graphTask[p.generation].status = "RUNNING"
  /\ graphTask[p.generation].owner = p.owner
  /\ graphTask[p.generation].epoch = p.epoch
  /\ graphTask[p.generation].live

(* The test of GraphQueue.scope: the lease, and the document wants it.     *)
InScope(p) == HoldsGraph(p) /\ RevisionWanted(p)

(* Fault: leases that ran out are never taken over.                        *)
GraphClaimable_IgnoresExpired(g) == graphTask[g].status \in {"PENDING", "RETRY_WAIT"}

GraphClaimable(g) ==
  \/ graphTask[g].status \in {"PENDING", "RETRY_WAIT"}
  \/ graphTask[g].status = "RUNNING" /\ ~graphTask[g].live

(* Closes attempts left RUNNING as LOST and opens one at the new epoch.    *)
LeasedGraph(g, w) ==
  [graphTask[g] EXCEPT !.status = "RUNNING", !.owner = w, !.live = TRUE,
                       !.attempts = @ + 1, !.epoch = @ + 1,
                       !.open = {graphTask[g].epoch + 1}]

ClaimGraph(w, g) ==
  /\ w \notin paused
  /\ GraphClaimable(g)
  /\ graphTask[g].attempts < graphTask[g].max
  /\ Cardinality(graphWork) < MaxGraphPipelines
  /\ graphTask' = [graphTask EXCEPT ![g] = LeasedGraph(g, w)]
  /\ graphWork' = graphWork \cup
       {[generation |-> g, revision |-> generation[g].revision, owner |-> w,
         epoch |-> graphTask[g].epoch + 1, done |-> 0, phase |-> "claimed"]}
  /\ UNCHANGED <<vars, projection, event, cleaners, paused, neo4j>>

(* Fault: the projection is left BUILDING.                                 *)
ExhaustGraph_TaskOnly(g) ==
  /\ GraphClaimable(g)
  /\ graphTask[g].attempts >= graphTask[g].max
  /\ graphTask' = [graphTask EXCEPT ![g] = ReleasedGraph(g, "FAILED")]
  /\ UNCHANGED <<vars, projection, event, processes, neo4j>>

(* A claim that finds the attempts used up ends task and projection.       *)
ExhaustGraph(g) ==
  /\ GraphClaimable(g)
  /\ graphTask[g].attempts >= graphTask[g].max
  /\ graphTask' = [graphTask EXCEPT ![g] = ReleasedGraph(g, "FAILED")]
  /\ projection' = [projection EXCEPT ![g] = "FAILED"]
  /\ UNCHANGED <<vars, event, processes, neo4j>>

ExpireGraph(g) ==
  /\ graphTask[g].status = "RUNNING" /\ graphTask[g].live
  /\ graphTask' = [graphTask EXCEPT ![g].live = FALSE]
  /\ UNCHANGED <<vars, projection, event, processes, neo4j>>

MovedOn(p, done, phase) ==
  (graphWork \ {p}) \cup {[p EXCEPT !.done = done, !.phase = phase]}

(* Read the scope and the checkpoint.                                      *)
ResumeGraph(p) ==
  /\ p.phase = "claimed"
  /\ InScope(p)
  /\ graphWork' = MovedOn(p, graphTask[p.generation].next, "at")
  /\ UNCHANGED <<vars, graphRows, cleaners, paused, neo4j>>

(* The facts of the next chunk are found in the cache.                     *)
ReuseExtraction(p) ==
  /\ p.phase = "at" /\ p.done < ChunkCount
  /\ InScope(p)
  /\ graphWork' = MovedOn(p, p.done, "extracted")
  /\ UNCHANGED <<vars, graphRows, cleaners, paused, neo4j>>

(* The facts come from the model and are saved in the chunk's row, which a  *)
(* trigger refuses unless the generation is BUILDING.                      *)
SaveExtraction(p) ==
  /\ generation[p.generation].status = "BUILDING"
  /\ ReuseExtraction(p)

(* Fault: writers do not look at the fence.                                *)
Fenced_Ignored(g) == FALSE

(* The fence refuses the generation.                                       *)
Fenced(g) == erased \/ g \in retired

(* One Neo4j transaction replaces the facts of the chunk.  The lease was   *)
(* checked before; nothing but the fence is checked now.                   *)
WriteChunk(p) ==
  /\ p.phase = "extracted"
  /\ ~Fenced(p.generation)
  /\ stored' = [stored EXCEPT ![p.generation] = @ \cup {p.done + 1}]
  /\ graphWork' = MovedOn(p, p.done, "written")
  /\ UNCHANGED <<vars, graphRows, cleaners, paused, retired, erased>>

(* Fault: the cursor moves before the facts are written.                   *)
CheckpointChunk_Early(p) ==
  /\ p.phase \in {"extracted", "written"}
  /\ HoldsGraph(p)
  /\ graphTask[p.generation].next = p.done
  /\ graphTask' = [graphTask EXCEPT ![p.generation].next = p.done + 1]
  /\ graphWork' = MovedOn(p, p.done + 1, "at")
  /\ UNCHANGED <<vars, projection, event, cleaners, paused, neo4j>>

CheckpointChunk(p) ==
  /\ p.phase = "written"
  /\ HoldsGraph(p)
  /\ graphTask[p.generation].next = p.done
  /\ graphTask' = [graphTask EXCEPT ![p.generation].next = p.done + 1]
  /\ graphWork' = MovedOn(p, p.done + 1, "at")
  /\ UNCHANGED <<vars, projection, event, cleaners, paused, neo4j>>

(* All chunks are stored: the projection becomes visible.                  *)
FinishGraph(p) ==
  /\ p.phase = "at" /\ p.done = ChunkCount
  /\ InScope(p)
  /\ p.epoch \in graphTask[p.generation].open
  /\ graphTask' = [graphTask EXCEPT ![p.generation] = ReleasedGraph(p.generation, "SUCCEEDED")]
  /\ projection' = [projection EXCEPT ![p.generation] = "READY"]
  /\ graphWork' = graphWork \ {p}
  /\ UNCHANGED <<vars, event, cleaners, paused, neo4j>>

(* Fault: the index fails with its graph.                                  *)
FailGraph_FailsIndex(p, retryable) ==
  /\ HoldsGraph(p)
  /\ graphTask' = [graphTask EXCEPT ![p.generation] = ReleasedGraph(p.generation, "FAILED")]
  /\ projection' = [projection EXCEPT ![p.generation] = "FAILED"]
  /\ generation' = FailedGeneration(p.generation)
  /\ graphWork' = graphWork \ {p}
  /\ UNCHANGED <<docStatus, revisions, desired, active, task, attempt, work>>
  /\ UNCHANGED <<event, cleaners, paused, neo4j>>

(* process() reports an error, of the pipeline or of its heartbeat; in the *)
(* second case the pipeline is cancelled only afterwards and may still     *)
(* make its next step.  When the model's quota is exhausted the worker     *)
(* takes no more tasks, whosever the lease is by now.                      *)
FailGraph(p, retryable) ==
  LET g == p.generation
      retry == retryable /\ graphTask[g].attempts < graphTask[g].max
  IN /\ IF HoldsGraph(p)
        THEN /\ graphTask' = [graphTask EXCEPT ![g] =
                                ReleasedGraph(g, IF retry THEN "RETRY_WAIT" ELSE "FAILED")]
             /\ projection' = IF retry THEN projection
                              ELSE [projection EXCEPT ![g] = "FAILED"]
        ELSE UNCHANGED <<graphTask, projection>>
     /\ graphWork' \in {graphWork, graphWork \ {p}}
     /\ \/ UNCHANGED paused
        \/ ~retryable /\ paused' = paused \cup {p.owner}
     /\ UNCHANGED <<vars, event, cleaners, neo4j>>

(* The pipeline ends without a word to the database: it has finished or    *)
(* failed before, or finds its lease lost.                                 *)
DropGraph(p) ==
  /\ graphWork' = graphWork \ {p}
  /\ UNCHANGED <<vars, graphRows, cleaners, paused, neo4j>>

RequeuedMax(attempts) ==
  IF attempts + GraphMaxAttempts <= GraphAttemptCap THEN attempts + GraphMaxAttempts
                                                    ELSE GraphAttemptCap

(* The operator's back-fill tool puts a FAILED task of the published        *)
(* generation back into the queue, with its cursor.                        *)
RequeueGraph(g) ==
  /\ graphTask[g].status = "FAILED" /\ graphTask[g].attempts < GraphAttemptCap
  /\ docStatus = "PUBLISHED" /\ active = g /\ generation[g].revision = desired
  /\ projection[g] # "NONE"
  /\ graphTask' = [graphTask EXCEPT ![g] =
                     [ReleasedGraph(g, "PENDING") EXCEPT !.max = RequeuedMax(graphTask[g].attempts)]]
  /\ projection' = [projection EXCEPT ![g] = "BUILDING"]
  /\ UNCHANGED <<vars, event, processes, neo4j>>

-----------------------------------------------------------------------------
(* Clean-up *)

(* Fault: a clean-up whose worker died is never taken over.                *)
ClaimPurge_PendingOnly(w, k) ==
  /\ event[k].status = "PENDING"
  /\ ~ \E c \in cleaners : c.owner = w
  /\ event' = [event EXCEPT ![k] = [status |-> "PUBLISHING", owner |-> w, live |-> TRUE]]
  /\ cleaners' = cleaners \cup {[purge |-> k, owner |-> w, phase |-> "claimed"]}
  /\ UNCHANGED <<vars, graphTask, projection, graphWork, paused, neo4j>>

(* A worker runs one clean-up at a time, to its end.                       *)
ClaimPurge(w, k) ==
  /\ \/ event[k].status = "PENDING"
     \/ event[k].status = "PUBLISHING" /\ ~event[k].live
  /\ ~ \E c \in cleaners : c.owner = w
  /\ event' = [event EXCEPT ![k] = [status |-> "PUBLISHING", owner |-> w, live |-> TRUE]]
  /\ cleaners' = cleaners \cup {[purge |-> k, owner |-> w, phase |-> "claimed"]}
  /\ UNCHANGED <<vars, graphTask, projection, graphWork, paused, neo4j>>

ExpirePurge(k) ==
  /\ event[k].status = "PUBLISHING" /\ event[k].live
  /\ event' = [event EXCEPT ![k].live = FALSE]
  /\ UNCHANGED <<vars, graphTask, projection, processes, neo4j>>

(* One Neo4j transaction closes the fence and erases the facts.            *)
EraseGraph(c) ==
  /\ c.phase = "claimed"
  /\ IF c.purge = WholeDocument
     THEN erased' = TRUE /\ UNCHANGED retired
     ELSE retired' = retired \cup {c.purge} /\ UNCHANGED erased
  /\ stored' = [g \in Generations |->
                  IF c.purge \in {g, WholeDocument} THEN {} ELSE stored[g]]
  /\ cleaners' = (cleaners \ {c}) \cup {[c EXCEPT !.phase = "erased"]}
  /\ UNCHANGED <<vars, graphRows, graphWork, paused>>

HoldsPurge(c) ==
  /\ event[c.purge].status = "PUBLISHING"
  /\ event[c.purge].owner = c.owner
  /\ event[c.purge].live

CompletePurge(c) ==
  /\ c.phase = "erased"
  /\ HoldsPurge(c)
  /\ event' = [event EXCEPT ![c.purge] = [NoEvent EXCEPT !.status = "PUBLISHED"]]
  /\ cleaners' = cleaners \ {c}
  /\ UNCHANGED <<vars, graphTask, projection, graphWork, paused, neo4j>>

(* Any error on the way: try again later, if the event still is ours.      *)
FailPurge(c) ==
  /\ IF HoldsPurge(c)
     THEN event' = [event EXCEPT ![c.purge] = NewEvent]
     ELSE UNCHANGED event
  /\ cleaners' = cleaners \ {c}
  /\ UNCHANGED <<vars, graphTask, projection, graphWork, paused, neo4j>>

(* A worker process dies or is stopped; one with the same id stands for its *)
(* successor.                                                              *)
RestartGraphWorker(w) ==
  /\ graphWork' = {p \in graphWork : p.owner # w}
  /\ cleaners' = {c \in cleaners : c.owner # w}
  /\ paused' = paused \ {w}
  /\ UNCHANGED <<vars, graphRows, neo4j>>

-----------------------------------------------------------------------------
IndexStep ==
  \/ UploadDocument /\ UNCHANGED graphVars
  \/ \E r \in Revisions : UploadRevisionAndGraph(r)
  \/ (\E t \in Tasks : RetryTask(t)) /\ UNCHANGED graphVars
  \/ \E b \in Generations, f \in Targets : EnqueueReindexAndGraph(b, f)
  \/ DeleteDocumentAndGraph
  \/ PurgeDocumentAndGraph
  \/ (\E t \in Tasks : Claim(t) \/ ExpireLease(t)) /\ UNCHANGED graphVars
  \/ \E p \in work :
       \/ StageChunksAndGraph(p)
       \/ PublishChunksAndGraph(p)
       \/ /\ \/ ParseSource(p)
             \/ EmbedChunks(p)
             \/ \E retryable \in BOOLEAN : FailPipeline(p, retryable)
             \/ DropPipeline(p)
          /\ UNCHANGED graphVars

GraphPipelineStep(p) ==
  \/ ResumeGraph(p)
  \/ ReuseExtraction(p)
  \/ SaveExtraction(p)
  \/ WriteChunk(p)
  \/ CheckpointChunk(p)
  \/ FinishGraph(p)
  \/ \E retryable \in BOOLEAN : FailGraph(p, retryable)
  \/ DropGraph(p)

GraphClaim(g) == (\E w \in GraphWorkers : ClaimGraph(w, g)) \/ ExhaustGraph(g)

CleanerStep(c) == EraseGraph(c) \/ CompletePurge(c) \/ FailPurge(c)

GraphStep ==
  \/ \E g \in Generations : GraphClaim(g) \/ ExpireGraph(g) \/ RequeueGraph(g)
  \/ \E p \in graphWork : GraphPipelineStep(p)
  \/ \E k \in Purges : ExpirePurge(k) \/ \E w \in GraphWorkers : ClaimPurge(w, k)
  \/ \E c \in cleaners : CleanerStep(c)
  \/ \E w \in GraphWorkers : RestartGraphWorker(w)

GraphNext == IndexStep \/ GraphStep

GraphSpec == GraphInit /\ [][GraphNext]_allVars

-----------------------------------------------------------------------------
(* Fairness.  Graph workers poll both queues for ever, and every call of a  *)
(* pipeline has a timeout, so a pipeline moves on, fails or ends.  Leases   *)
(* nobody renews run out.  A worker whose model quota is exhausted must be  *)
(* restarted by its operator, as README.md asks.  A clean-up that keeps     *)
(* failing is tried again without limit; its back-off gives other           *)
(* clean-ups their turn, and Neo4j is assumed to answer now and then.      *)
ExpireAbandonedGraph(g) ==
  /\ ~ \E p \in graphWork : p.generation = g /\ HoldsGraph(p)
  /\ ExpireGraph(g)

ExpireAbandonedPurge(k) ==
  /\ ~ \E c \in cleaners : c.purge = k /\ HoldsPurge(c)
  /\ ExpirePurge(k)

RestartPaused(w) == w \in paused /\ RestartGraphWorker(w)

GraphPipelineOf(g) == \E p \in graphWork : p.generation = g /\ GraphPipelineStep(p)
CleanerOf(k) == \E c \in cleaners : c.purge = k /\ CleanerStep(c)
EraseOf(k) == \E c \in cleaners : c.purge = k /\ EraseGraph(c)

GraphFairness ==
  /\ \A g \in Generations :
       /\ SF_allVars(GraphClaim(g))
       /\ WF_allVars(ExpireAbandonedGraph(g))
       /\ WF_allVars(GraphPipelineOf(g))
  /\ \A k \in Purges :
       /\ SF_allVars(\E w \in GraphWorkers : ClaimPurge(w, k))
       /\ WF_allVars(ExpireAbandonedPurge(k))
       /\ WF_allVars(CleanerOf(k))
       /\ SF_allVars(EraseOf(k))
  /\ \A w \in GraphWorkers : WF_allVars(RestartPaused(w))

GraphFairSpec == GraphSpec /\ GraphFairness

-----------------------------------------------------------------------------
(* The graph half leaves the documents alone: whatever graph workers and    *)
(* clean-ups do, what remains visible is a behaviour of DocumentIndex       *)
(* (graph_queue: only GRAPH tasks and projections are updated).            *)
DocumentIndexSpec == Spec

(* A graph that readers may use is whole: every chunk of a READY projection *)
(* has its facts in Neo4j, although the facts and the cursor are in two     *)
(* stores and crashes replay chunks (write_chunk, checkpoint, finish).     *)
ReadyGraphIsComplete ==
  \A g \in Generations : projection[g] = "READY" => stored[g] = Chunks

(* What has been erased stays erased: once a clean-up is PUBLISHED no fact  *)
(* of its scope is in Neo4j, however late a writer comes that had checked   *)
(* its lease before (write_transaction and delete_transaction, the fence). *)
ErasedStaysErased ==
  \A k \in Purges, g \in Generations :
    event[k].status = "PUBLISHED" /\ k \in {g, WholeDocument} => stored[g] = {}

(* Facts no reader may use any more.                                       *)
Orphaned(g) == stored[g] # {} /\ projection[g] \in {"STALE", "NONE"}

(* No fact is forgotten: as long as Neo4j holds facts of a replaced         *)
(* generation or a deleted document, a clean-up of them is on its way, even *)
(* when the rows of the document are gone (persist, publish_chunks,         *)
(* delete_document, purge_document).                                       *)
OrphansAreScheduled ==
  \A g \in Generations : Orphaned(g) =>
    \E k \in {g, WholeDocument} : event[k].status \in {"PENDING", "PUBLISHING"}

(* GRAPH tasks and projections agree: a projection is BUILDING exactly      *)
(* while its task is unfinished, which is only while the newest upload      *)
(* wants it and nobody asked to erase it, and the one RUNNING attempt is    *)
(* that of the lease (claim, fail, publish_chunks, persist).               *)
GraphTasksMatchProjections ==
  \A g \in Generations :
    /\ projection[g] = "BUILDING" <=> graphTask[g].status \in ActiveStatuses
    /\ projection[g] = "BUILDING" =>
         /\ docStatus \in OpenStatuses /\ generation[g].revision = desired
         /\ event[g].status = "NONE" /\ event[WholeDocument].status = "NONE"
    /\ graphTask[g].open =
         IF graphTask[g].status = "RUNNING" THEN {graphTask[g].epoch} ELSE {}

(* A projection that was replaced never comes back: finish and fail write   *)
(* the status without reading it, so the task must have lost its lease      *)
(* before (publish_chunks on the old GRAPH task).                          *)
StaleIsFinal ==
  [][\A g \in Generations :
       projection[g] = "STALE" => projection'[g] \in {"STALE", "NONE"}]_allVars

SupersededGraph(p) ==
  \/ graphTask[p.generation].status # "RUNNING"
  \/ graphTask[p.generation].epoch # p.epoch
  \/ ~graphTask[p.generation].live

(* A step of a graph pipeline that is superseded changes no row (_locked).  *)
SupersededGraphsAreHarmless ==
  [][\A p \in graphWork \ graphWork' : SupersededGraph(p) => UNCHANGED graphRows]_allVars

(* Every graph task comes to rest, although workers die, lose their lease   *)
(* or pause for want of model quota.                                       *)
GraphsSettle ==
  \A g \in Generations :
    graphTask[g].status \in ActiveStatuses ~> graphTask[g].status \notin ActiveStatuses

(* Facts no reader may use are erased in the end, although clean-ups fail   *)
(* and time out and late writers still add facts.                          *)
OrphansVanish == \A g \in Generations : Orphaned(g) ~> stored[g] = {}

(* README.md on publication: the old graph is made STALE and its clean-up   *)
(* requested in the transaction that publishes a new generation.  Of the    *)
(* graphs of other generations only the active one's is.                   *)
PublicationRetiresOldGraphs ==
  [][active' # active /\ active' # 0 =>
       \A g \in Projected \ {active'} :
         projection'[g] = "STALE" /\ event'[g].status # "NONE"]_allVars

(* README.md on the graph worker: it extracts in parallel with the vectors  *)
(* and stores what the model returns in PostgreSQL first.  So whenever a    *)
(* pipeline is about to extract, the result could be saved.                *)
ExtractionsCanBeSaved ==
  \A p \in graphWork :
    p.phase = "at" /\ p.done < ChunkCount /\ InScope(p) =>
      generation[p.generation].status = "BUILDING"

-----------------------------------------------------------------------------
(* The inductive invariant behind the theorems of GraphPipeline_proofs, in  *)
(* named parts.                                                            *)

(* A projection and its task are created together, of a generation, and are *)
(* removed together with it.                                               *)
ProjectionsBelongToGenerations ==
  \A g \in Generations :
    /\ projection[g] = "NONE" <=> graphTask[g].status = "NONE"
    /\ projection[g] # "NONE" => Generated(g)

(* The counters of a GRAPH task row.                                       *)
GraphCountersAgree ==
  \A g \in Generations :
    /\ graphTask[g].attempts <= graphTask[g].max
    /\ graphTask[g].epoch =
         graphTask[g].attempts + (IF graphTask[g].status = "CANCELLED" THEN 1 ELSE 0)

(* A clean-up is only asked for once nobody may use the graph any more, and *)
(* every graph that was replaced has been asked to be cleaned.             *)
PurgesAreForDeadGraphs ==
  /\ event[WholeDocument].status # "NONE" => docStatus \in {"DELETED", "PURGED"}
  /\ docStatus \in {"NONE", "PURGED"} => \A g \in Generations : projection[g] = "NONE"
  /\ docStatus = "DELETED" => \A g \in Generations : projection[g] \in {"STALE", "NONE"}
  /\ \A g \in Generations :
       /\ event[g].status # "NONE" => projection[g] = "STALE" \/ docStatus = "PURGED"
       /\ projection[g] = "STALE" => \E k \in {g, WholeDocument} : event[k].status # "NONE"

(* A replaced graph is not the graph of a generation that may be published  *)
(* again, nor of the one whose graph may be built again.                   *)
StaleGraphsAreReplaced ==
  \A g \in Generations : projection[g] = "STALE" =>
    /\ generation[g].status # "BUILDING"
    /\ ~(docStatus = "PUBLISHED" /\ active = g /\ generation[g].revision = desired)

(* Whatever was or may yet be written to Neo4j belongs to a projection, or  *)
(* the clean-up of the whole document has been asked for.                  *)
WritesAreKnown ==
  \A g \in Generations :
    stored[g] # {} \/ (\E p \in graphWork : p.generation = g) =>
      \/ projection[g] # "NONE"
      \/ docStatus = "PURGED" /\ \E k \in {g, WholeDocument} : event[k].status # "NONE"

(* Facts behind the fence are gone, and a clean-up that has erased is       *)
(* behind the fence.                                                       *)
Closed(k) == erased \/ k \in retired

FenceHolds ==
  /\ \A g \in Generations : Closed(g) => stored[g] = {}
  /\ \A k \in Purges : event[k].status = "PUBLISHED" => Closed(k)
  /\ \A c \in cleaners : c.phase = "erased" => Closed(c.purge)

(* Nothing erases unless asked to.                                         *)
ErasuresWereAskedFor ==
  /\ \A c \in cleaners : event[c.purge].status # "NONE"
  /\ \A g \in retired : event[g].status # "NONE"
  /\ erased => event[WholeDocument].status # "NONE"

(* The pipeline whose lease is the task's.                                 *)
Leases(p) ==
  graphTask[p.generation].status = "RUNNING" /\ graphTask[p.generation].epoch = p.epoch

(* The cursor of a usable graph follows what is stored, and the pipeline    *)
(* that may move it knows where it is.                                     *)
CursorsFollowFacts ==
  /\ \A g \in Generations :
       projection[g] \in {"BUILDING", "READY", "FAILED"} => 1..graphTask[g].next \subseteq stored[g]
  /\ \A p \in graphWork :
       /\ p.epoch <= graphTask[p.generation].attempts \/ docStatus = "PURGED"
       /\ Leases(p) /\ p.phase # "claimed" => p.done = graphTask[p.generation].next
       /\ Leases(p) /\ p.phase = "written" => p.done + 1 \in stored[p.generation]
       /\ p.phase \in {"extracted", "written"} => p.done < ChunkCount

(* No two pipelines hold the same lease: every claim has an epoch of its    *)
(* own.                                                                    *)
OnePipelinePerLease ==
  \A p, q \in graphWork : p.generation = q.generation /\ p.epoch = q.epoch => p = q

GraphInv ==
  /\ GraphTypeOK
  /\ ProjectionsBelongToGenerations
  /\ GraphCountersAgree
  /\ GraphTasksMatchProjections
  /\ PurgesAreForDeadGraphs
  /\ StaleGraphsAreReplaced
  /\ WritesAreKnown
  /\ FenceHolds
  /\ ErasuresWereAskedFor
  /\ CursorsFollowFacts
  /\ OnePipelinePerLease
  /\ ReadyGraphIsComplete

=============================================================================
