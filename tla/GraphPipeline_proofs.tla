------------------------ MODULE GraphPipeline_proofs ------------------------
(***************************************************************************)
(* Proofs about GraphPipeline, for any number of workers, generations,     *)
(* chunks and attempts.  The graph half refines DocumentIndex, so what     *)
(* DocumentIndex_proofs shows holds here as well; on top of it, one lemma  *)
(* per action shows that GraphInv is preserved.  The end is about          *)
(* GraphExtraction, where the facts of a chunk come from.                  *)
(***************************************************************************)
EXTENDS GraphPipeline, GraphExtraction, DocumentIndex_proofs

-----------------------------------------------------------------------------
(* Refinement *)

(* The steps of the graph half leave the documents alone. *)
LEMMA GraphStepIsQuiet == GraphStep => UNCHANGED vars
<1> SUFFICES ASSUME GraphStep PROVE UNCHANGED vars
  OBVIOUS
<1>1. CASE \E g \in Generations : GraphClaim(g) \/ ExpireGraph(g) \/ RequeueGraph(g)
  BY <1>1 DEF GraphClaim, ClaimGraph, ExhaustGraph, ExpireGraph, RequeueGraph
<1>2. CASE \E p \in graphWork : GraphPipelineStep(p)
  BY <1>2 DEF GraphPipelineStep, ResumeGraph, ReuseExtraction, SaveExtraction, WriteChunk,
              CheckpointChunk, FinishGraph, FailGraph, DropGraph
<1>3. CASE \E k \in Purges : ExpirePurge(k) \/ \E w \in GraphWorkers : ClaimPurge(w, k)
  BY <1>3 DEF ExpirePurge, ClaimPurge
<1>4. CASE \E c \in cleaners : CleanerStep(c)
  BY <1>4 DEF CleanerStep, EraseGraph, CompletePurge, FailPurge
<1>5. CASE \E w \in GraphWorkers : RestartGraphWorker(w)
  BY <1>5 DEF RestartGraphWorker
<1> QED BY <1>1, <1>2, <1>3, <1>4, <1>5 DEF GraphStep

(* The steps of the index half are steps of DocumentIndex. *)
LEMMA IndexStepIsNext == IndexStep => Next
<1> SUFFICES ASSUME IndexStep PROVE Next
  OBVIOUS
<1> USE DEF Next, UserStep
<1>1. CASE \E p \in work :
             \/ StageChunksAndGraph(p)
             \/ PublishChunksAndGraph(p)
             \/ /\ \/ ParseSource(p)
                   \/ EmbedChunks(p)
                   \/ \E retryable \in BOOLEAN : FailPipeline(p, retryable)
                   \/ DropPipeline(p)
                /\ UNCHANGED graphVars
  BY <1>1 DEF StageChunksAndGraph, PublishChunksAndGraph, PipelineStep
<1>2. CASE \E r \in Revisions : UploadRevisionAndGraph(r)
  BY <1>2 DEF UploadRevisionAndGraph
<1>3. CASE \E b \in Generations, f \in Targets : EnqueueReindexAndGraph(b, f)
  BY <1>3 DEF EnqueueReindexAndGraph
<1>4. CASE DeleteDocumentAndGraph \/ PurgeDocumentAndGraph
  BY <1>4 DEF DeleteDocumentAndGraph, PurgeDocumentAndGraph
<1>5. CASE UploadDocument \/ (\E t \in Tasks : RetryTask(t))
  BY <1>5
<1>6. CASE \E t \in Tasks : Claim(t) \/ ExpireLease(t)
  BY <1>6
<1> QED BY <1>1, <1>2, <1>3, <1>4, <1>5, <1>6 DEF IndexStep

(* So every step of GraphPipeline is one of DocumentIndex, or a stutter. *)
LEMMA GraphNextRefines == [GraphNext]_allVars => [Next]_vars
BY GraphStepIsQuiet, IndexStepIsNext DEF GraphNext, allVars

(* Whatever graph workers and clean-ups do, the documents behave as         *)
(* DocumentIndex says (graph_queue: "only GRAPH tasks and projections").   *)
THEOREM GraphRefinesIndex == GraphSpec => DocumentIndexSpec
<1>1. GraphInit => Init
  BY DEF GraphInit
<1> QED BY <1>1, GraphNextRefines, PTL DEF GraphSpec, DocumentIndexSpec, Spec

(* So its inductive invariant holds.                                       *)
LEMMA IndexInductive == GraphSpec => []IndInv
BY GraphRefinesIndex, Inductive, PTL DEF DocumentIndexSpec

-----------------------------------------------------------------------------
(* What index steps keep *)

(* A generation that exists goes on existing until the purge. *)
LEMMA StillGenerated ==
  ASSUME IndInv, [Next]_vars, docStatus' # "PURGED", NEW h \in Generations, Generated(h)
  PROVE  generation'[h].status # "NONE"
<1> USE DEF IndInv
<1>0. ASSUME generation' = generation PROVE generation'[h].status # "NONE"
  BY <1>0 DEF Generated
<1>a. ASSUME NEW g \in Generations, NextGeneration(g), NEW r,
             \/ generation' = [generation EXCEPT ![g] = NewGeneration(r)]
             \/ generation' = [ClosedGenerations("CANCELLED") EXCEPT ![g] = NewGeneration(r)]
      PROVE  generation'[h].status # "NONE"
  BY <1>a, ClosedGenerationsRow DEF Generated, NewGeneration, TypeOK
<1>b. ASSUME NEW g \in Generations, generation' = FailedGeneration(g)
      PROVE  generation'[h].status # "NONE"
  BY <1>b, FailedGenerationRow DEF Generated
<1>1. CASE UserStep
  <2>1. CASE UploadDocument
    BY <2>1 DEF UploadDocument, PointersAgree
  <2>2. CASE \E r \in Revisions : UploadRevision(r)
    BY <1>a, <2>2 DEF UploadRevision
  <2>3. CASE \E t \in Tasks : RetryTask(t)
    BY <1>a, <2>3 DEF RetryTask
  <2>4. CASE \E b \in Generations, f \in Targets : EnqueueReindex(b, f)
    BY <1>a, <2>4 DEF EnqueueReindex
  <2>5. CASE DeleteDocument
    BY <2>5, ClosedGenerationsRow DEF DeleteDocument, Generated
  <2>6. CASE PurgeDocument
    BY <2>6 DEF PurgeDocument
  <2> QED BY <1>1, <2>1, <2>2, <2>3, <2>4, <2>5, <2>6 DEF UserStep
<1>2. CASE \E t \in Tasks : Claim(t) \/ ExpireLease(t)
  <2>1. PICK t \in Tasks : Claim(t) \/ ExpireLease(t)
    BY <1>2
  <2>2. CASE ExhaustTask(t)
    <3>1. task[t].status \in ActiveStatuses /\ generation' = FailedGeneration(task[t].generation)
      BY <2>2 DEF ExhaustTask, Claimable, ActiveStatuses
    <3>2. task[t].generation \in Generations
      BY <3>1 DEF TasksReferToRows, Created, ActiveStatuses
    <3> QED BY <1>b, <3>1, <3>2
  <2>3. CASE ~ExhaustTask(t)
    <3>1. generation' = generation
      BY <2>1, <2>3 DEF Claim, ClaimTask, ExpireLease
    <3> QED BY <1>0, <3>1
  <2> QED BY <2>2, <2>3
<1>3. CASE \E p \in work : PipelineStep(p)
  <2>1. PICK p \in work : PipelineStep(p)
    BY <1>3
  <2>2. p.generation \in Generations
    BY DEF TypeOK, Pipeline
  <2>3. CASE StageChunks(p)
    BY <2>2, <2>3 DEF StageChunks, Generated, TypeOK, Generation
  <2>4. CASE PublishChunks(p)
    BY <2>2, <2>4 DEF PublishChunks, Generated, TypeOK, Generation
  <2>5. CASE \E retryable \in BOOLEAN : FailPipeline(p, retryable)
    <3>1. generation' = generation \/ generation' = FailedGeneration(p.generation)
      BY <2>5 DEF FailPipeline
    <3> QED BY <1>0, <1>b, <2>2, <3>1
  <2>6. CASE ParseSource(p) \/ EmbedChunks(p) \/ DropPipeline(p)
    <3>1. generation' = generation
      BY <2>6 DEF ParseSource, EmbedChunks, DropPipeline
    <3> QED BY <1>0, <3>1
  <2> QED BY <2>1, <2>3, <2>4, <2>5, <2>6 DEF PipelineStep
<1>4. CASE UNCHANGED vars
  BY <1>0, <1>4 DEF vars
<1> QED BY <1>1, <1>2, <1>3, <1>4 DEF Next

(* What the index half may do to the rows GraphInv looks at, in a step that *)
(* does not touch graph rows.                                              *)
Quiet ==
  /\ docStatus' # docStatus => docStatus = "NONE" /\ docStatus' = "DRAFT"
  /\ active' = active
  /\ docStatus # "NONE" => desired' = desired
  /\ \A g \in Generations : Generated(g) =>
       /\ generation'[g].status # "NONE"
       /\ generation'[g].revision = generation[g].revision
       /\ generation[g].status # "BUILDING" => generation'[g].status # "BUILDING"

(* The status and revision of a generation in a step before the purge. *)
LEMMA GenerationsKept ==
  ASSUME IndInv, [Next]_vars, docStatus' # "PURGED"
  PROVE  \A g \in Generations : Generated(g) =>
           /\ generation'[g].status # "NONE"
           /\ generation'[g].revision = generation[g].revision
           /\ generation[g].status # "BUILDING" => generation'[g].status # "BUILDING"
<1> SUFFICES ASSUME NEW g \in Generations, Generated(g)
             PROVE  /\ generation'[g].status # "NONE"
                    /\ generation'[g].revision = generation[g].revision
                    /\ generation[g].status # "BUILDING" => generation'[g].status # "BUILDING"
  OBVIOUS
<1>1. RowKept(g)
  BY RowsKept
<1>2. generation[g].status \in {"NONE", "BUILDING", "READY", "FAILED", "CANCELLED"}
  BY DEF IndInv, TypeOK, Generation
<1> QED BY <1>1, <1>2, StillGenerated DEF RowKept, Generated

(* The index steps that leave graph rows alone are quiet. *)
LEMMA QuietSteps ==
  ASSUME IndInv,
         \/ UploadDocument
         \/ \E t \in Tasks : RetryTask(t) \/ Claim(t) \/ ExpireLease(t)
         \/ \E b \in Generations, f \in Targets : EnqueueReindex(b, f)
         \/ \E p \in work : \/ ParseSource(p) \/ EmbedChunks(p) \/ DropPipeline(p)
                            \/ StageChunks(p)
                            \/ \E retryable \in BOOLEAN : FailPipeline(p, retryable)
         \/ UNCHANGED vars
  PROVE  Quiet
<1>1. [Next]_vars
  BY DEF Next, UserStep, PipelineStep
<1>2. /\ docStatus' # docStatus => docStatus = "NONE" /\ docStatus' = "DRAFT"
      /\ active' = active
      /\ docStatus # "NONE" => desired' = desired
  <2>1. CASE UploadDocument
    BY <2>1 DEF UploadDocument
  <2>2. CASE \E t \in Tasks : RetryTask(t) \/ Claim(t) \/ ExpireLease(t)
    BY <2>2 DEF RetryTask, Claim, ClaimTask, ExhaustTask, ExpireLease
  <2>3. CASE \E b \in Generations, f \in Targets : EnqueueReindex(b, f)
    BY <2>3 DEF EnqueueReindex
  <2>4. CASE \E p \in work : \/ ParseSource(p) \/ EmbedChunks(p) \/ DropPipeline(p)
                             \/ StageChunks(p)
                             \/ \E retryable \in BOOLEAN : FailPipeline(p, retryable)
    BY <2>4 DEF ParseSource, EmbedChunks, DropPipeline, StageChunks, FailPipeline
  <2>5. CASE UNCHANGED vars
    BY <2>5 DEF vars
  <2> QED BY <2>1, <2>2, <2>3, <2>4, <2>5
<1>3. CASE docStatus' # "PURGED"
  BY <1>1, <1>2, <1>3, GenerationsKept DEF Quiet
<1>4. CASE docStatus' = "PURGED"
  <2>1. \A g \in Generations : ~Generated(g)
    BY <1>2, <1>4 DEF IndInv, PointersAgree
  <2> QED BY <1>2, <2>1 DEF Quiet
<1> QED BY <1>3, <1>4

-----------------------------------------------------------------------------
(* Graph rows *)

GraphStatuses == {"NONE", "PENDING", "RUNNING", "RETRY_WAIT", "SUCCEEDED", "FAILED", "CANCELLED"}

(* A released GRAPH task keeps its counters and its cursor. *)
LEMMA ReleasedGraphRow ==
  ASSUME GraphTypeOK, NEW g \in Generations, NEW s \in GraphStatuses
  PROVE  /\ ReleasedGraph(g, s) \in GraphTask
         /\ ReleasedGraph(g, s).status = s
         /\ ReleasedGraph(g, s).attempts = graphTask[g].attempts
         /\ ReleasedGraph(g, s).max = graphTask[g].max
         /\ ReleasedGraph(g, s).epoch = graphTask[g].epoch
         /\ ReleasedGraph(g, s).next = graphTask[g].next
         /\ ReleasedGraph(g, s).open = {}
<1>1. graphTask[g] \in GraphTask
  BY DEF GraphTypeOK
<1> QED BY <1>1 DEF ReleasedGraph, GraphTask, GraphStatuses

(* Cancellation touches unfinished tasks of gs only. *)
LEMMA CancelledGraphRow ==
  ASSUME GraphTypeOK, GraphCountersAgree, NEW gs
  PROVE  /\ CancelledGraphs(gs) \in [Generations -> GraphTask]
         /\ \A g \in Generations :
              /\ CancelledGraphs(gs)[g].status =
                   IF g \in gs /\ graphTask[g].status \in ActiveStatuses
                   THEN "CANCELLED" ELSE graphTask[g].status
              /\ CancelledGraphs(gs)[g].epoch =
                   IF g \in gs /\ graphTask[g].status \in ActiveStatuses
                   THEN graphTask[g].epoch + 1 ELSE graphTask[g].epoch
              /\ CancelledGraphs(gs)[g].open =
                   IF g \in gs /\ graphTask[g].status \in ActiveStatuses
                   THEN {} ELSE graphTask[g].open
              /\ CancelledGraphs(gs)[g].attempts = graphTask[g].attempts
              /\ CancelledGraphs(gs)[g].max = graphTask[g].max
              /\ CancelledGraphs(gs)[g].next = graphTask[g].next
<1>1. SUFFICES ASSUME NEW g \in Generations
      PROVE /\ CancelledGraphs(gs)[g] \in GraphTask
            /\ CancelledGraphs(gs)[g].status =
                 IF g \in gs /\ graphTask[g].status \in ActiveStatuses
                 THEN "CANCELLED" ELSE graphTask[g].status
            /\ CancelledGraphs(gs)[g].epoch =
                 IF g \in gs /\ graphTask[g].status \in ActiveStatuses
                 THEN graphTask[g].epoch + 1 ELSE graphTask[g].epoch
            /\ CancelledGraphs(gs)[g].open =
                 IF g \in gs /\ graphTask[g].status \in ActiveStatuses
                 THEN {} ELSE graphTask[g].open
            /\ CancelledGraphs(gs)[g].attempts = graphTask[g].attempts
            /\ CancelledGraphs(gs)[g].max = graphTask[g].max
            /\ CancelledGraphs(gs)[g].next = graphTask[g].next
  BY DEF CancelledGraphs
<1>2. graphTask[g] \in GraphTask
  BY DEF GraphTypeOK
<1>3. CASE ~(g \in gs /\ graphTask[g].status \in ActiveStatuses)
  <2>1. CancelledGraphs(gs)[g] = graphTask[g]
    BY <1>3 DEF CancelledGraphs
  <2> QED BY <1>2, <1>3, <2>1
<1>4. CASE g \in gs /\ graphTask[g].status \in ActiveStatuses
  <2> DEFINE r == ReleasedGraph(g, "CANCELLED")
  <2>1. /\ r \in GraphTask /\ r.status = "CANCELLED" /\ r.open = {}
        /\ r.attempts = graphTask[g].attempts /\ r.max = graphTask[g].max
        /\ r.epoch = graphTask[g].epoch /\ r.next = graphTask[g].next
    BY ReleasedGraphRow DEF GraphStatuses
  <2>2. r.epoch + 1 \in 0..(GraphAttemptCap + 1)
    <3>1. graphTask[g].epoch = graphTask[g].attempts
      BY <1>2, <1>4 DEF GraphCountersAgree, ActiveStatuses, GraphTask
    <3>2. graphTask[g].attempts \in 0..GraphAttemptCap
      BY <1>2 DEF GraphTask
    <3> QED BY <2>1, <3>1, <3>2, GraphBoundsAssumption
  <2>3. CancelledGraphs(gs)[g] = [r EXCEPT !.epoch = r.epoch + 1]
    BY <1>4 DEF CancelledGraphs
  <2> HIDE DEF r
  <2>4. [r EXCEPT !.epoch = r.epoch + 1] \in GraphTask
    BY <2>1, <2>2 DEF GraphTask
  <2>5. /\ [r EXCEPT !.epoch = r.epoch + 1].status = r.status
        /\ [r EXCEPT !.epoch = r.epoch + 1].epoch = r.epoch + 1
        /\ [r EXCEPT !.epoch = r.epoch + 1].open = r.open
        /\ [r EXCEPT !.epoch = r.epoch + 1].attempts = r.attempts
        /\ [r EXCEPT !.epoch = r.epoch + 1].max = r.max
        /\ [r EXCEPT !.epoch = r.epoch + 1].next = r.next
    BY <2>1 DEF GraphTask
  <2> QED BY <1>4, <2>1, <2>3, <2>4, <2>5
<1> QED BY <1>3, <1>4

(* Projections made STALE and events asked for. *)
LEMMA StaleRow ==
  ASSUME GraphTypeOK, NEW gs
  PROVE  /\ StaleProjections(gs) \in [Generations -> ProjectionStatus]
         /\ \A g \in Generations : StaleProjections(gs)[g] =
              IF g \in gs /\ projection[g] # "NONE" THEN "STALE" ELSE projection[g]
BY DEF GraphTypeOK, StaleProjections, ProjectionStatus

(* Clean-ups asked for stay as they are. *)
LEMMA EventRow ==
  ASSUME GraphTypeOK, NEW ks
  PROVE  /\ WithEvents(ks) \in [Purges -> Event]
         /\ \A k \in Purges :
              /\ k \in ks => WithEvents(ks)[k].status # "NONE"
              /\ k \notin ks => WithEvents(ks)[k] = event[k]
              /\ event[k].status # "NONE" => WithEvents(ks)[k] = event[k]
              /\ event[k].status = "NONE" => WithEvents(ks)[k].status # "PUBLISHED"
<1>1. NewEvent \in Event /\ NewEvent.status = "PENDING"
  BY DEF NewEvent, NoEvent, Event
<1> HIDE DEF NewEvent
<1> QED BY <1>1 DEF GraphTypeOK, WithEvents, Event

-----------------------------------------------------------------------------
(* The index half preserves GraphInv *)

(* Quiet steps preserve GraphInv. *)
LEMMA QuietKeeps ==
  ASSUME IndInv, GraphInv, Quiet, UNCHANGED graphVars
  PROVE  GraphInv'
<1>0. /\ graphTask' = graphTask /\ projection' = projection /\ event' = event
      /\ graphWork' = graphWork /\ cleaners' = cleaners /\ paused' = paused
      /\ stored' = stored /\ retired' = retired /\ erased' = erased
  BY DEF graphVars, graphRows, processes, neo4j
<1> USE <1>0 DEF GraphInv
<1>1. GraphTypeOK'
  BY DEF GraphTypeOK
<1>2. ProjectionsBelongToGenerations'
  BY DEF ProjectionsBelongToGenerations, Quiet, Generated
<1>3. GraphCountersAgree'
  BY DEF GraphCountersAgree
<1>4. GraphTasksMatchProjections'
  <2>1. SUFFICES ASSUME NEW g \in Generations, projection[g] = "BUILDING"
                 PROVE  docStatus' \in OpenStatuses /\ generation'[g].revision = desired'
    BY DEF GraphTasksMatchProjections
  <2>2. docStatus \in OpenStatuses /\ generation[g].revision = desired /\ Generated(g)
    BY <2>1 DEF GraphTasksMatchProjections, ProjectionsBelongToGenerations
  <2> QED BY <2>2 DEF Quiet, OpenStatuses
<1>5. PurgesAreForDeadGraphs'
  BY DEF PurgesAreForDeadGraphs, Quiet
<1>6. StaleGraphsAreReplaced'
  <2>1. SUFFICES ASSUME NEW g \in Generations, projection[g] = "STALE"
                 PROVE  /\ generation'[g].status # "BUILDING"
                        /\ ~(docStatus' = "PUBLISHED" /\ active' = g /\ generation'[g].revision = desired')
    BY DEF StaleGraphsAreReplaced
  <2>2. Generated(g) /\ generation[g].status # "BUILDING"
        /\ ~(docStatus = "PUBLISHED" /\ active = g /\ generation[g].revision = desired)
    BY <2>1 DEF StaleGraphsAreReplaced, ProjectionsBelongToGenerations
  <2> QED BY <2>2 DEF Quiet
<1>7. WritesAreKnown'
  BY DEF WritesAreKnown, Quiet
<1>8. FenceHolds' /\ ErasuresWereAskedFor'
  BY DEF FenceHolds, ErasuresWereAskedFor, Closed
<1>9. CursorsFollowFacts'
  BY DEF CursorsFollowFacts, Quiet, Leases
<1>10. ReadyGraphIsComplete' /\ OnePipelinePerLease'
  BY DEF ReadyGraphIsComplete, OnePipelinePerLease
<1> QED BY <1>1, <1>2, <1>3, <1>4, <1>5, <1>6, <1>7, <1>8, <1>9, <1>10

(* Cancelling tasks cs, retiring projections ss and asking for clean-ups ks *)
(* disturbs none of the parts of GraphInv about counters, clean-ups, facts  *)
(* and cursors.                                                             *)
LEMMA RetirementKeeps ==
  ASSUME GraphInv, NEW cs, NEW ss, NEW ks,
         graphTask' = CancelledGraphs(cs), projection' = StaleProjections(ss),
         event' = WithEvents(ks), UNCHANGED <<processes, neo4j>>,
         docStatus = "PURGED" => docStatus' = "PURGED"
  PROVE  /\ GraphTypeOK'
         /\ GraphCountersAgree'
         /\ FenceHolds'
         /\ ErasuresWereAskedFor'
         /\ CursorsFollowFacts'
         /\ OnePipelinePerLease'
         /\ ReadyGraphIsComplete'
<1>0. /\ graphWork' = graphWork /\ cleaners' = cleaners /\ paused' = paused
      /\ stored' = stored /\ retired' = retired /\ erased' = erased
  BY DEF processes, neo4j
<1> USE DEF GraphInv
<1>t. /\ graphTask' \in [Generations -> GraphTask]
      /\ \A g \in Generations :
              /\ graphTask'[g].status =
                   IF g \in cs /\ graphTask[g].status \in ActiveStatuses
                   THEN "CANCELLED" ELSE graphTask[g].status
              /\ graphTask'[g].epoch =
                   IF g \in cs /\ graphTask[g].status \in ActiveStatuses
                   THEN graphTask[g].epoch + 1 ELSE graphTask[g].epoch
              /\ graphTask'[g].attempts = graphTask[g].attempts
              /\ graphTask'[g].max = graphTask[g].max
              /\ graphTask'[g].next = graphTask[g].next
  BY CancelledGraphRow
<1>p. /\ projection' \in [Generations -> ProjectionStatus]
      /\ \A g \in Generations : projection'[g] =
              IF g \in ss /\ projection[g] # "NONE" THEN "STALE" ELSE projection[g]
  BY StaleRow
<1>e. /\ event' \in [Purges -> Event]
      /\ \A k \in Purges :
              /\ event[k].status # "NONE" => event'[k] = event[k]
              /\ event[k].status = "NONE" => event'[k].status # "PUBLISHED"
  BY EventRow
<1>1. GraphTypeOK'
  BY <1>0, <1>t, <1>p, <1>e DEF GraphTypeOK
<1>2. GraphCountersAgree'
  <2>1. SUFFICES ASSUME NEW g \in Generations
                 PROVE  /\ graphTask'[g].attempts <= graphTask'[g].max
                        /\ graphTask'[g].epoch =
                             graphTask'[g].attempts + (IF graphTask'[g].status = "CANCELLED" THEN 1 ELSE 0)
    BY DEF GraphCountersAgree
  <2>2. /\ graphTask[g].attempts <= graphTask[g].max
        /\ graphTask[g].epoch =
             graphTask[g].attempts + (IF graphTask[g].status = "CANCELLED" THEN 1 ELSE 0)
    BY DEF GraphCountersAgree
  <2>3. graphTask[g].attempts \in Nat
    BY DEF GraphTypeOK, GraphTask
  <2> QED BY <1>t, <2>2, <2>3 DEF ActiveStatuses
<1>3. FenceHolds'
  <2>1. \A k \in Purges : event'[k].status = "PUBLISHED" => event[k].status = "PUBLISHED"
    BY <1>e
  <2> QED BY <1>0, <2>1 DEF FenceHolds, Closed
<1>4. ErasuresWereAskedFor'
  <2>1. \A k \in Purges : event[k].status # "NONE" => event'[k].status # "NONE"
    BY <1>e
  <2>2. \A c \in cleaners : c.purge \in Purges
    BY DEF GraphTypeOK, Cleaner
  <2>3. retired \subseteq Purges /\ WholeDocument \in Purges
    BY BoundsAssumption DEF GraphTypeOK, Generations, Purges, WholeDocument
  <2> QED BY <1>0, <2>1, <2>2, <2>3 DEF ErasuresWereAskedFor
<1>5. CursorsFollowFacts'
  <2>1. \A g \in Generations : projection'[g] \in {"BUILDING", "READY", "FAILED"} =>
                                 1..graphTask'[g].next \subseteq stored'[g]
    BY <1>0, <1>t, <1>p DEF CursorsFollowFacts
  <2>2. ASSUME NEW p \in graphWork
        PROVE  /\ p.generation \in Generations
               /\ Leases(p)' => Leases(p)
    <3>1. p.generation \in Generations
      BY DEF GraphTypeOK, GraphPipelines
    <3> QED BY <1>t, <3>1 DEF Leases
  <2> QED BY <1>0, <1>t, <2>1, <2>2 DEF CursorsFollowFacts
<1>6. ReadyGraphIsComplete' /\ OnePipelinePerLease'
  BY <1>0, <1>p DEF ReadyGraphIsComplete, OnePipelinePerLease
<1> QED BY <1>1, <1>2, <1>3, <1>4, <1>5, <1>6

(* A new revision closes every generation, so no graph it replaces is wanted. *)
LEMMA UploadRevisionAndGraphKeeps ==
  ASSUME IndInv, GraphInv, NEW r \in Revisions, UploadRevisionAndGraph(r)
  PROVE  GraphInv'
<1>1. /\ UploadRevision(r)
      /\ graphTask' = CancelledGraphs(Generations)
      /\ projection' = StaleProjections(SupersededGraphs)
      /\ event' = WithEvents(SupersededGraphs)
      /\ UNCHANGED <<processes, neo4j>>
  BY DEF UploadRevisionAndGraph
<1>2. /\ docStatus \in OpenStatuses /\ docStatus' = docStatus /\ active' = active
      /\ desired' = revisions + 1
  BY <1>1 DEF UploadRevision
<1>3. \A g \in Generations : Generated(g) =>
        /\ generation'[g].status \notin {"NONE", "BUILDING"}
        /\ generation'[g].revision # desired'
  <2>1. [Next]_vars /\ docStatus' # "PURGED"
    BY <1>1, <1>2 DEF Next, UserStep, OpenStatuses
  <2>2. PICK h \in Generations :
          NextGeneration(h) /\ generation' = [ClosedGenerations("CANCELLED")
                           EXCEPT ![h] = NewGeneration(revisions')]
    BY <1>1 DEF UploadRevision
  <2>3. SUFFICES ASSUME NEW g \in Generations, Generated(g)
                 PROVE  /\ generation'[g].status \notin {"NONE", "BUILDING"}
                        /\ generation'[g].revision # desired'
    OBVIOUS
  <2>4. g # h
    BY <2>2, <2>3, FreshGeneration DEF IndInv, Generated
  <2>5. generation'[g] = ClosedGenerations("CANCELLED")[g]
    BY <2>2, <2>4, ClosedGenerationsRow DEF IndInv, TypeOK
  <2>6. generation'[g].status # "BUILDING"
    BY <2>5, ClosedGenerationsRow DEF IndInv, TypeOK
  <2>7. generation'[g].revision = generation[g].revision /\ generation'[g].status # "NONE"
    BY <2>1, <2>3, GenerationsKept
  <2>8. generation[g].revision \in 1..revisions /\ revisions \in Nat
    BY <2>3 DEF IndInv, GenerationsFollowRevisions, TypeOK
  <2> QED BY <1>2, <2>6, <2>7, <2>8
<1>4. \A g \in Generations :
        /\ graphTask'[g].status =
             IF graphTask[g].status \in ActiveStatuses THEN "CANCELLED" ELSE graphTask[g].status
        /\ graphTask'[g].open =
             IF graphTask[g].status \in ActiveStatuses THEN {} ELSE graphTask[g].open
  BY <1>1, CancelledGraphRow DEF GraphInv
<1>5. \A g \in Generations : projection'[g] =
        IF projection[g] \in {"BUILDING", "FAILED"} THEN "STALE" ELSE projection[g]
  BY <1>1, StaleRow DEF GraphInv, SupersededGraphs
<1>6. \A g \in Generations :
        /\ projection[g] \in {"BUILDING", "FAILED"} => event'[g].status # "NONE"
        /\ projection[g] \notin {"BUILDING", "FAILED"} => event'[g] = event[g]
        /\ event[g].status # "NONE" => event'[g] = event[g]
  BY <1>1, EventRow DEF GraphInv, SupersededGraphs, Generations, Purges
<1>7. event'[WholeDocument] = event[WholeDocument] /\ event[WholeDocument].status = "NONE"
  <2>1. WholeDocument \in Purges /\ WholeDocument \notin SupersededGraphs
    BY BoundsAssumption DEF WholeDocument, Purges, SupersededGraphs, Generations
  <2> QED BY <1>1, <1>2, <2>1, EventRow DEF GraphInv, PurgesAreForDeadGraphs, OpenStatuses
<1>a. /\ GraphTypeOK' /\ GraphCountersAgree' /\ FenceHolds' /\ ErasuresWereAskedFor'
      /\ CursorsFollowFacts' /\ OnePipelinePerLease' /\ ReadyGraphIsComplete'
  BY <1>1, <1>2, RetirementKeeps
<1>b. ProjectionsBelongToGenerations'
  BY <1>3, <1>4, <1>5 DEF GraphInv, ProjectionsBelongToGenerations, Generated, ActiveStatuses
<1>c. GraphTasksMatchProjections'
  BY <1>4, <1>5 DEF GraphInv, GraphTasksMatchProjections, ActiveStatuses
<1>d. PurgesAreForDeadGraphs'
  <2>1. docStatus \notin {"NONE", "DELETED", "PURGED"}
    BY <1>2 DEF OpenStatuses
  <2> QED BY <1>2, <1>5, <1>6, <1>7, <2>1 DEF GraphInv, PurgesAreForDeadGraphs
<1>e. StaleGraphsAreReplaced'
  <2>1. \A g \in Generations : projection'[g] = "STALE" => Generated(g)
    BY <1>5 DEF GraphInv, ProjectionsBelongToGenerations
  <2> QED BY <1>3, <2>1 DEF StaleGraphsAreReplaced
<1>f. WritesAreKnown'
  <2>1. stored' = stored /\ graphWork' = graphWork
    BY <1>1 DEF processes, neo4j
  <2>2. docStatus # "PURGED"
    BY <1>2 DEF OpenStatuses
  <2> QED BY <1>5, <2>1, <2>2 DEF GraphInv, WritesAreKnown
<1> QED BY <1>a, <1>b, <1>c, <1>d, <1>e, <1>f DEF GraphInv

(* A deletion replaces every graph and asks for one clean-up of them all. *)
LEMMA DeleteDocumentAndGraphKeeps ==
  ASSUME IndInv, GraphInv, DeleteDocumentAndGraph
  PROVE  GraphInv'
<1>1. /\ DeleteDocument
      /\ graphTask' = CancelledGraphs(Generations)
      /\ projection' = StaleProjections(Generations)
      /\ event' = WithEvents(DocumentPurge)
      /\ UNCHANGED <<processes, neo4j>>
  BY DEF DeleteDocumentAndGraph
<1>2. docStatus \in OpenStatuses /\ docStatus' = "DELETED"
  BY <1>1 DEF DeleteDocument
<1>3. \A g \in Generations : Generated(g) => generation'[g].status \notin {"NONE", "BUILDING"}
  BY <1>1, ClosedGenerationsRow DEF DeleteDocument, IndInv, Generated, TypeOK
<1>4. \A g \in Generations :
        /\ graphTask'[g].status =
             IF graphTask[g].status \in ActiveStatuses THEN "CANCELLED" ELSE graphTask[g].status
        /\ graphTask'[g].open =
             IF graphTask[g].status \in ActiveStatuses THEN {} ELSE graphTask[g].open
  BY <1>1, CancelledGraphRow DEF GraphInv
<1>5. \A g \in Generations : projection'[g] = IF projection[g] # "NONE" THEN "STALE" ELSE "NONE"
  BY <1>1, StaleRow DEF GraphInv
<1>6. /\ \A g \in Generations : event'[g] = event[g]
      /\ \A g \in Generations : projection[g] # "NONE" => event'[WholeDocument].status # "NONE"
  <2>1. /\ WholeDocument \in Purges /\ \A g \in Generations : g \in Purges /\ g # WholeDocument
    BY BoundsAssumption DEF WholeDocument, Purges, Generations
  <2> QED BY <1>1, <2>1, EventRow DEF GraphInv, DocumentPurge, Projected
<1>a. /\ GraphTypeOK' /\ GraphCountersAgree' /\ FenceHolds' /\ ErasuresWereAskedFor'
      /\ CursorsFollowFacts' /\ OnePipelinePerLease' /\ ReadyGraphIsComplete'
  <2>1. docStatus # "PURGED"
    BY <1>2 DEF OpenStatuses
  <2> QED BY <1>1, <2>1, RetirementKeeps
<1>b. ProjectionsBelongToGenerations'
  BY <1>3, <1>4, <1>5 DEF GraphInv, ProjectionsBelongToGenerations, Generated, ActiveStatuses
<1>c. GraphTasksMatchProjections'
  BY <1>4, <1>5 DEF GraphInv, GraphTasksMatchProjections, ActiveStatuses
<1>d. PurgesAreForDeadGraphs'
  <2>1. docStatus \notin {"NONE", "DELETED", "PURGED"}
    BY <1>2 DEF OpenStatuses
  <2> QED BY <1>2, <1>5, <1>6, <2>1 DEF GraphInv, PurgesAreForDeadGraphs
<1>e. StaleGraphsAreReplaced'
  <2>1. \A g \in Generations : projection'[g] = "STALE" => Generated(g)
    BY <1>5 DEF GraphInv, ProjectionsBelongToGenerations
  <2> QED BY <1>2, <1>3, <2>1 DEF StaleGraphsAreReplaced
<1>f. WritesAreKnown'
  <2>1. stored' = stored /\ graphWork' = graphWork
    BY <1>1 DEF processes, neo4j
  <2>2. docStatus # "PURGED"
    BY <1>2 DEF OpenStatuses
  <2> QED BY <1>5, <2>1, <2>2 DEF GraphInv, WritesAreKnown
<1> QED BY <1>a, <1>b, <1>c, <1>d, <1>e, <1>f DEF GraphInv

(* Publication replaces at most the graph of the generation it replaces. *)
LEMMA PublishChunksAndGraphKeeps ==
  ASSUME IndInv, GraphInv, NEW p \in work, PublishChunksAndGraph(p)
  PROVE  GraphInv'
<1> DEFINE replaced == {active} \cap (Generations \ {p.generation})
<1>1. /\ PublishChunks(p)
      /\ graphTask' = CancelledGraphs(replaced)
      /\ projection' = StaleProjections(replaced)
      /\ event' = WithEvents(replaced \cap Projected)
      /\ UNCHANGED <<processes, neo4j>>
  BY DEF PublishChunksAndGraph
<1>2. /\ docStatus \in OpenStatuses /\ docStatus' = "PUBLISHED" /\ desired' = desired
      /\ active' = p.generation /\ p.generation \in Generations
      /\ generation[p.generation].status = "BUILDING"
  BY <1>1 DEF PublishChunks, RevisionWanted, IndInv, TypeOK, Pipeline
<1>3. \A g \in Generations : Generated(g) =>
        /\ generation'[g].status # "NONE"
        /\ generation'[g].revision = generation[g].revision
        /\ generation[g].status # "BUILDING" => generation'[g].status # "BUILDING"
  <2>1. [Next]_vars /\ docStatus' # "PURGED"
    BY <1>1, <1>2 DEF Next, PipelineStep
  <2> QED BY <2>1, GenerationsKept
<1>4. \A g \in replaced : generation[g].status = "READY"
  BY DEF IndInv, PublishedIndexIsComplete, Generations
<1> HIDE DEF replaced
<1>r. replaced \subseteq Generations
  BY DEF replaced
<1>5. \A g \in Generations :
        /\ graphTask'[g].status =
             IF g \in replaced /\ graphTask[g].status \in ActiveStatuses
             THEN "CANCELLED" ELSE graphTask[g].status
        /\ graphTask'[g].epoch =
             IF g \in replaced /\ graphTask[g].status \in ActiveStatuses
             THEN graphTask[g].epoch + 1 ELSE graphTask[g].epoch
        /\ graphTask'[g].open =
             IF g \in replaced /\ graphTask[g].status \in ActiveStatuses
             THEN {} ELSE graphTask[g].open
  BY <1>1, CancelledGraphRow DEF GraphInv
<1>6. \A g \in Generations : projection'[g] =
        IF g \in replaced /\ projection[g] # "NONE" THEN "STALE" ELSE projection[g]
  BY <1>1, StaleRow DEF GraphInv
<1>7. \A g \in Generations :
        /\ g \in replaced /\ projection[g] # "NONE" => event'[g].status # "NONE"
        /\ ~(g \in replaced /\ projection[g] # "NONE") => event'[g] = event[g]
        /\ event[g].status # "NONE" => event'[g] = event[g]
  BY <1>1, EventRow DEF GraphInv, Projected, Generations, Purges
<1>8. event'[WholeDocument] = event[WholeDocument]
  <2>1. WholeDocument \in Purges /\ WholeDocument \notin Projected
    BY BoundsAssumption DEF WholeDocument, Purges, Projected, Generations
  <2> QED BY <1>1, <2>1, EventRow DEF GraphInv
<1>9. docStatus \notin {"NONE", "DELETED", "PURGED"} /\ docStatus' \notin {"NONE", "DELETED", "PURGED"}
  BY <1>2 DEF OpenStatuses
<1>a. /\ GraphTypeOK' /\ GraphCountersAgree' /\ FenceHolds' /\ ErasuresWereAskedFor'
      /\ CursorsFollowFacts' /\ OnePipelinePerLease' /\ ReadyGraphIsComplete'
  BY <1>1, <1>9, RetirementKeeps
<1>b. ProjectionsBelongToGenerations'
  BY <1>3, <1>5, <1>6 DEF GraphInv, ProjectionsBelongToGenerations, Generated, ActiveStatuses
<1>c. GraphTasksMatchProjections'
  <2>1. SUFFICES ASSUME NEW g \in Generations
        PROVE  /\ projection'[g] = "BUILDING" <=> graphTask'[g].status \in ActiveStatuses
               /\ projection'[g] = "BUILDING" =>
                    /\ docStatus' \in OpenStatuses /\ generation'[g].revision = desired'
                    /\ event'[g].status = "NONE" /\ event'[WholeDocument].status = "NONE"
               /\ graphTask'[g].open =
                    IF graphTask'[g].status = "RUNNING" THEN {graphTask'[g].epoch} ELSE {}
    BY DEF GraphTasksMatchProjections
  <2>2. /\ projection[g] = "BUILDING" <=> graphTask[g].status \in ActiveStatuses
        /\ projection[g] = "BUILDING" =>
             /\ generation[g].revision = desired /\ Generated(g)
             /\ event[g].status = "NONE" /\ event[WholeDocument].status = "NONE"
        /\ graphTask[g].open =
             IF graphTask[g].status = "RUNNING" THEN {graphTask[g].epoch} ELSE {}
    BY DEF GraphInv, GraphTasksMatchProjections, ProjectionsBelongToGenerations
  <2>3. CASE g \in replaced
    BY <1>5, <1>6, <2>2, <2>3 DEF ActiveStatuses
  <2>4. CASE g \notin replaced
    BY <1>2, <1>3, <1>5, <1>6, <1>7, <1>8, <2>2, <2>4 DEF ActiveStatuses, OpenStatuses
  <2> QED BY <2>3, <2>4
<1>d. PurgesAreForDeadGraphs'
  BY <1>6, <1>7, <1>8, <1>9 DEF GraphInv, PurgesAreForDeadGraphs
<1>e. StaleGraphsAreReplaced'
  <2>1. SUFFICES ASSUME NEW g \in Generations, projection'[g] = "STALE"
                 PROVE  generation'[g].status # "BUILDING" /\ active' # g
    BY DEF StaleGraphsAreReplaced
  <2>2. Generated(g) /\ generation[g].status # "BUILDING"
    BY <1>4, <1>6, <2>1 DEF GraphInv, ProjectionsBelongToGenerations, StaleGraphsAreReplaced, Generated
  <2> QED BY <1>2, <1>3, <2>2
<1>f. WritesAreKnown'
  <2>1. stored' = stored /\ graphWork' = graphWork
    BY <1>1 DEF processes, neo4j
  <2> QED BY <1>6, <1>9, <2>1 DEF GraphInv, WritesAreKnown
<1> QED BY <1>a, <1>b, <1>c, <1>d, <1>e, <1>f DEF GraphInv

(* The purge removes rows; events and facts stay, and the events cover the facts. *)
LEMMA PurgeDocumentAndGraphKeeps ==
  ASSUME IndInv, GraphInv, PurgeDocumentAndGraph
  PROVE  GraphInv'
<1>1. /\ docStatus = "DELETED" /\ docStatus' = "PURGED"
      /\ graphTask' = [g \in Generations |-> NoGraphTask]
      /\ projection' = [g \in Generations |-> "NONE"]
      /\ event' = event /\ graphWork' = graphWork /\ cleaners' = cleaners /\ paused' = paused
      /\ stored' = stored /\ retired' = retired /\ erased' = erased
  BY DEF PurgeDocumentAndGraph, PurgeDocument, processes, neo4j
<1> USE <1>1 DEF GraphInv
<1>2. /\ NoGraphTask \in GraphTask /\ NoGraphTask.status = "NONE" /\ NoGraphTask.open = {}
      /\ NoGraphTask.attempts = 0 /\ NoGraphTask.max = 0 /\ NoGraphTask.epoch = 0
      /\ NoGraphTask.next = 0
  BY GraphBoundsAssumption DEF NoGraphTask, GraphTask
<1> HIDE DEF NoGraphTask
<1>3. GraphTypeOK'
  BY <1>2 DEF GraphTypeOK, ProjectionStatus
<1>4. ProjectionsBelongToGenerations' /\ GraphCountersAgree' /\ GraphTasksMatchProjections'
  <2>1. \A g \in Generations : graphTask'[g] = NoGraphTask /\ projection'[g] = "NONE"
    OBVIOUS
  <2>2. ProjectionsBelongToGenerations'
    BY <1>2, <2>1 DEF ProjectionsBelongToGenerations
  <2>3. GraphCountersAgree'
    BY <1>2, <2>1 DEF GraphCountersAgree
  <2>4. GraphTasksMatchProjections'
    BY <1>2, <2>1 DEF GraphTasksMatchProjections, ActiveStatuses
  <2> QED BY <2>2, <2>3, <2>4
<1>5. PurgesAreForDeadGraphs' /\ StaleGraphsAreReplaced'
  BY DEF PurgesAreForDeadGraphs, StaleGraphsAreReplaced
<1>6. WritesAreKnown'
  BY DEF WritesAreKnown, PurgesAreForDeadGraphs
<1>7. FenceHolds' /\ ErasuresWereAskedFor' /\ ReadyGraphIsComplete' /\ OnePipelinePerLease'
  BY DEF FenceHolds, ErasuresWereAskedFor, Closed, ReadyGraphIsComplete, OnePipelinePerLease
<1>8. CursorsFollowFacts'
  <2>1. \A p \in graphWork : p.generation \in Generations
    BY DEF GraphTypeOK, GraphPipelines
  <2> QED BY <1>2, <2>1 DEF CursorsFollowFacts, Leases
<1> QED BY <1>3, <1>4, <1>5, <1>6, <1>7, <1>8

(* Staging creates a task for a generation that has never had one.         *)
LEMMA StageChunksAndGraphKeeps ==
  ASSUME IndInv, GraphInv, NEW p \in work, StageChunksAndGraph(p)
  PROVE  GraphInv'
<1> DEFINE g == p.generation
           new == [NoGraphTask EXCEPT !.status = "PENDING", !.max = GraphMaxAttempts]
<1>0. StageChunks(p) /\ Quiet /\ g \in Generations
  BY QuietSteps DEF StageChunksAndGraph, IndInv, TypeOK, Pipeline
<1>1. CASE graphTask[g].status # "NONE"
  <2>1. UNCHANGED graphVars
    BY <1>1 DEF StageChunksAndGraph, graphVars, graphRows
  <2> QED BY <1>0, <2>1, QuietKeeps
<1>2. CASE graphTask[g].status = "NONE"
  <2>1. /\ graphTask' = [graphTask EXCEPT ![g] = new]
        /\ projection' = [projection EXCEPT ![g] = "BUILDING"]
        /\ event' = event /\ graphWork' = graphWork /\ cleaners' = cleaners /\ paused' = paused
        /\ stored' = stored /\ retired' = retired /\ erased' = erased
    BY <1>2 DEF StageChunksAndGraph, processes, neo4j
  <2>2. /\ new \in GraphTask /\ new.status = "PENDING" /\ new.open = {}
        /\ new.attempts = 0 /\ new.max = GraphMaxAttempts /\ new.epoch = 0 /\ new.next = 0
    <3>1. NoGraphTask \in GraphTask /\ NoGraphTask.open = {} /\ NoGraphTask.attempts = 0
          /\ NoGraphTask.epoch = 0 /\ NoGraphTask.next = 0
      BY GraphBoundsAssumption DEF NoGraphTask, GraphTask
    <3> HIDE DEF NoGraphTask
    <3>2. GraphMaxAttempts \in 0..GraphAttemptCap
      BY GraphBoundsAssumption
    <3> QED BY <3>1, <3>2 DEF GraphTask
  <2>3. /\ docStatus \in OpenStatuses /\ docStatus' = docStatus /\ desired' = desired
        /\ active' = active
        /\ Generated(g) /\ generation'[g].status # "NONE"
        /\ generation'[g].revision = desired
    <3>1. /\ docStatus \in OpenStatuses /\ docStatus' = docStatus /\ desired' = desired
          /\ active' = active
          /\ generation[g].status = "BUILDING"
          /\ task[p.task].generation = g /\ task[p.task].revision = desired
          /\ task[p.task].status = "RUNNING"
      BY <1>0 DEF StageChunks, OwnsTask, HoldsLease, RevisionWanted
    <3>2. p.task \in Tasks
      BY DEF IndInv, TypeOK, Pipeline
    <3>3. generation[g].revision = desired /\ Generated(g)
      BY <3>1, <3>2 DEF IndInv, TasksReferToRows, Created, Generated
    <3> QED BY <1>0, <3>1, <3>3 DEF Quiet
  <2> HIDE DEF new
  <2>4. docStatus \notin {"NONE", "DELETED", "PURGED"}
    BY <2>3 DEF OpenStatuses
  <2>5. /\ projection[g] = "NONE" /\ event[g].status = "NONE" /\ event[WholeDocument].status = "NONE"
    BY <1>0, <1>2, <2>4 DEF GraphInv, ProjectionsBelongToGenerations, PurgesAreForDeadGraphs
  <2>6. \A q \in graphWork : q.generation \in Generations /\ q.generation # g
    BY <2>4, <2>5 DEF GraphInv, GraphTypeOK, GraphPipelines, WritesAreKnown
  <2>7. /\ graphTask'[g] = new /\ projection'[g] = "BUILDING"
        /\ \A h \in Generations : h # g => graphTask'[h] = graphTask[h] /\ projection'[h] = projection[h]
    BY <1>0, <2>1 DEF GraphInv, GraphTypeOK
  <2>a. GraphTypeOK'
    BY <1>0, <2>1, <2>2 DEF GraphInv, GraphTypeOK, ProjectionStatus
  <2>b. ProjectionsBelongToGenerations'
    BY <1>0, <2>2, <2>3, <2>7 DEF GraphInv, ProjectionsBelongToGenerations, Quiet, Generated
  <2>c. GraphCountersAgree'
    BY <1>0, <2>2, <2>7, GraphBoundsAssumption DEF GraphInv, GraphCountersAgree
  <2>d. GraphTasksMatchProjections'
    <3>1. ASSUME NEW h \in Generations, projection[h] = "BUILDING"
          PROVE  generation'[h].revision = desired'
      BY <1>0, <2>3, <3>1 DEF GraphInv, GraphTasksMatchProjections, ProjectionsBelongToGenerations, Quiet
    <3>2. SUFFICES ASSUME NEW h \in Generations
          PROVE  /\ projection'[h] = "BUILDING" <=> graphTask'[h].status \in ActiveStatuses
                 /\ projection'[h] = "BUILDING" =>
                      /\ docStatus' \in OpenStatuses /\ generation'[h].revision = desired'
                      /\ event'[h].status = "NONE" /\ event'[WholeDocument].status = "NONE"
                 /\ graphTask'[h].open =
                      IF graphTask'[h].status = "RUNNING" THEN {graphTask'[h].epoch} ELSE {}
      BY DEF GraphTasksMatchProjections
    <3>3. CASE h = g
      BY <2>1, <2>2, <2>3, <2>5, <2>7, <3>3 DEF ActiveStatuses
    <3>4. CASE h # g
      BY <2>1, <2>3, <2>7, <3>1, <3>4 DEF GraphInv, GraphTasksMatchProjections
    <3> QED BY <3>3, <3>4
  <2>e. PurgesAreForDeadGraphs'
    BY <1>0, <2>1, <2>3, <2>4, <2>5, <2>7 DEF GraphInv, PurgesAreForDeadGraphs
  <2>f. StaleGraphsAreReplaced'
    BY <1>0, <2>3, <2>7 DEF GraphInv, StaleGraphsAreReplaced, Quiet, ProjectionsBelongToGenerations
  <2>g. WritesAreKnown'
    BY <1>0, <2>1, <2>3, <2>7 DEF GraphInv, WritesAreKnown
  <2>h. FenceHolds' /\ ErasuresWereAskedFor'
    BY <2>1 DEF GraphInv, FenceHolds, ErasuresWereAskedFor, Closed
  <2>i. ReadyGraphIsComplete' /\ OnePipelinePerLease'
    BY <2>1, <2>7 DEF GraphInv, ReadyGraphIsComplete, OnePipelinePerLease
  <2>j. CursorsFollowFacts'
    <3>1. 1..new.next \subseteq stored[g]
      BY <2>2
    <3> QED BY <1>0, <2>1, <2>3, <2>6, <2>7, <3>1 DEF GraphInv, CursorsFollowFacts, Leases
  <2> QED BY <2>a, <2>b, <2>c, <2>d, <2>e, <2>f, <2>g, <2>h, <2>i, <2>j DEF GraphInv
<1> QED BY <1>1, <1>2

(* Every index step, with its graph half, preserves GraphInv.              *)
LEMMA IndexStepKeeps == IndInv /\ GraphInv /\ IndexStep => GraphInv'
<1> SUFFICES ASSUME IndInv, GraphInv, IndexStep PROVE GraphInv'
  OBVIOUS
<1>1. CASE \E r \in Revisions : UploadRevisionAndGraph(r)
  BY <1>1, UploadRevisionAndGraphKeeps
<1>2. CASE \E b \in Generations, f \in Targets : EnqueueReindexAndGraph(b, f)
  BY <1>2, QuietSteps, QuietKeeps DEF EnqueueReindexAndGraph
<1>3. CASE DeleteDocumentAndGraph
  BY <1>3, DeleteDocumentAndGraphKeeps
<1>4. CASE PurgeDocumentAndGraph
  BY <1>4, PurgeDocumentAndGraphKeeps
<1>5. CASE \E p \in work : StageChunksAndGraph(p) \/ PublishChunksAndGraph(p)
  BY <1>5, StageChunksAndGraphKeeps, PublishChunksAndGraphKeeps
<1>6. CASE /\ \/ UploadDocument
              \/ \E t \in Tasks : RetryTask(t)
              \/ \E t \in Tasks : Claim(t) \/ ExpireLease(t)
              \/ \E p \in work : \/ ParseSource(p) \/ EmbedChunks(p) \/ DropPipeline(p)
                                 \/ \E retryable \in BOOLEAN : FailPipeline(p, retryable)
           /\ UNCHANGED graphVars
  BY <1>6, QuietSteps, QuietKeeps
<1> QED BY <1>1, <1>2, <1>3, <1>4, <1>5, <1>6 DEF IndexStep

-----------------------------------------------------------------------------
(* The graph half preserves GraphInv *)

(* The part of CursorsFollowFacts about one pipeline. *)
Placed(p) ==
  /\ p.epoch <= graphTask[p.generation].attempts \/ docStatus = "PURGED"
  /\ Leases(p) /\ p.phase # "claimed" => p.done = graphTask[p.generation].next
  /\ Leases(p) /\ p.phase = "written" => p.done + 1 \in stored[p.generation]
  /\ p.phase \in {"extracted", "written"} => p.done < ChunkCount

(* A projection in use belongs to a document that is in use, and nobody has *)
(* asked to erase it.                                                      *)
LEMMA UsedGraph ==
  ASSUME GraphInv, NEW g \in Generations, projection[g] \in {"BUILDING", "READY", "FAILED"}
  PROVE  /\ docStatus \notin {"NONE", "DELETED", "PURGED"}
         /\ event[g].status = "NONE" /\ event[WholeDocument].status = "NONE"
         /\ Generated(g) /\ graphTask[g].status # "NONE"
<1>1. docStatus \notin {"NONE", "DELETED", "PURGED"}
  BY DEF GraphInv, PurgesAreForDeadGraphs
<1>2. event[g].status = "NONE" /\ event[WholeDocument].status = "NONE"
  BY <1>1 DEF GraphInv, PurgesAreForDeadGraphs
<1>3. Generated(g) /\ graphTask[g].status # "NONE"
  BY DEF GraphInv, ProjectionsBelongToGenerations
<1> QED BY <1>1, <1>2, <1>3

(* A step of the graph queue that writes one GRAPH task, whose projection   *)
(* is in use, and perhaps its projection and its pipelines.                *)
LEMMA TaskStepKeeps ==
  ASSUME GraphInv, UNCHANGED <<vars, event, cleaners, neo4j>>,
         NEW g \in Generations, NEW row \in GraphTask, NEW s \in {"BUILDING", "READY", "FAILED"},
         projection[g] \in {"BUILDING", "READY", "FAILED"},
         graphTask' = [graphTask EXCEPT ![g] = row],
         projection' = [projection EXCEPT ![g] = s],
         row.status \notin {"NONE", "CANCELLED"}, row.attempts <= row.max,
         row.epoch = row.attempts,
         s = "BUILDING" <=> row.status \in ActiveStatuses,
         s = "BUILDING" => docStatus \in OpenStatuses /\ generation[g].revision = desired,
         row.open = IF row.status = "RUNNING" THEN {row.epoch} ELSE {},
         1..row.next \subseteq stored[g], s = "READY" => stored[g] = Chunks,
         graphWork' \subseteq GraphPipelines, paused' \subseteq GraphWorkers,
         \A q \in graphWork' : q.generation = g \/ q.generation \in {p.generation : p \in graphWork},
         \A q \in graphWork' : Placed(q)', OnePipelinePerLease'
  PROVE  GraphInv'
<1>0. /\ stored' = stored /\ retired' = retired /\ erased' = erased
      /\ docStatus' = docStatus /\ desired' = desired /\ active' = active
      /\ generation' = generation /\ event' = event /\ cleaners' = cleaners
  BY DEF vars, neo4j
<1>1. /\ graphTask'[g] = row /\ projection'[g] = s
      /\ \A h \in Generations : h # g => graphTask'[h] = graphTask[h] /\ projection'[h] = projection[h]
  BY DEF GraphInv, GraphTypeOK
<1>2. /\ docStatus \notin {"NONE", "DELETED", "PURGED"}
      /\ event[g].status = "NONE" /\ event[WholeDocument].status = "NONE" /\ Generated(g)
  BY UsedGraph
<1>a. GraphTypeOK'
  BY <1>0 DEF GraphInv, GraphTypeOK, ProjectionStatus
<1>b. ProjectionsBelongToGenerations'
  BY <1>0, <1>1, <1>2 DEF GraphInv, ProjectionsBelongToGenerations, Generated
<1>c. GraphCountersAgree'
  <2>1. SUFFICES ASSUME NEW h \in Generations
        PROVE  /\ graphTask'[h].attempts <= graphTask'[h].max
               /\ graphTask'[h].epoch =
                    graphTask'[h].attempts + (IF graphTask'[h].status = "CANCELLED" THEN 1 ELSE 0)
    BY DEF GraphCountersAgree
  <2>2. CASE h = g
    BY <1>1, <2>2 DEF GraphTask
  <2>3. CASE h # g
    BY <1>1, <2>3 DEF GraphInv, GraphCountersAgree
  <2> QED BY <2>2, <2>3
<1>d. GraphTasksMatchProjections'
  <2>1. SUFFICES ASSUME NEW h \in Generations
        PROVE  /\ projection'[h] = "BUILDING" <=> graphTask'[h].status \in ActiveStatuses
               /\ projection'[h] = "BUILDING" =>
                    /\ docStatus' \in OpenStatuses /\ generation'[h].revision = desired'
                    /\ event'[h].status = "NONE" /\ event'[WholeDocument].status = "NONE"
               /\ graphTask'[h].open =
                    IF graphTask'[h].status = "RUNNING" THEN {graphTask'[h].epoch} ELSE {}
    BY DEF GraphTasksMatchProjections
  <2>2. CASE h = g
    BY <1>0, <1>1, <1>2, <2>2, ZenonT(40)
  <2>3. CASE h # g
    <3>1. /\ projection[h] = "BUILDING" <=> graphTask[h].status \in ActiveStatuses
          /\ projection[h] = "BUILDING" =>
               /\ docStatus \in OpenStatuses /\ generation[h].revision = desired
               /\ event[h].status = "NONE" /\ event[WholeDocument].status = "NONE"
          /\ graphTask[h].open =
               IF graphTask[h].status = "RUNNING" THEN {graphTask[h].epoch} ELSE {}
      BY DEF GraphInv, GraphTasksMatchProjections
    <3>2. graphTask'[h] = graphTask[h] /\ projection'[h] = projection[h]
      BY <1>1, <2>3
    <3> QED BY <1>0, <3>1, <3>2
  <2> QED BY <2>2, <2>3
<1>e. PurgesAreForDeadGraphs'
  BY <1>0, <1>1, <1>2 DEF GraphInv, PurgesAreForDeadGraphs
<1>f. StaleGraphsAreReplaced'
  BY <1>0, <1>1 DEF GraphInv, StaleGraphsAreReplaced
<1>g. WritesAreKnown'
  <2>1. SUFFICES ASSUME NEW h \in Generations, h # g,
                        stored[h] # {} \/ (\E q \in graphWork' : q.generation = h)
        PROVE  projection[h] # "NONE"
    BY <1>0, <1>1 DEF WritesAreKnown
  <2>2. stored[h] # {} \/ (\E p \in graphWork : p.generation = h)
    BY <2>1
  <2> QED BY <1>2, <2>2 DEF GraphInv, WritesAreKnown
<1>h. FenceHolds' /\ ErasuresWereAskedFor'
  BY <1>0 DEF GraphInv, FenceHolds, ErasuresWereAskedFor, Closed
<1>i. ReadyGraphIsComplete'
  BY <1>0, <1>1 DEF GraphInv, ReadyGraphIsComplete
<1>j. CursorsFollowFacts'
  <2>1. ASSUME NEW h \in Generations, projection'[h] \in {"BUILDING", "READY", "FAILED"}
        PROVE  1..graphTask'[h].next \subseteq stored'[h]
    BY <1>0, <1>1, <2>1 DEF GraphInv, CursorsFollowFacts
  <2> QED BY <2>1 DEF CursorsFollowFacts, Placed
<1> QED BY <1>a, <1>b, <1>c, <1>d, <1>e, <1>f, <1>g, <1>h, <1>i, <1>j DEF GraphInv

(* A step of a graph pipeline, or its end, that changes no row and no fact. *)
LEMMA WorkStepKeeps ==
  ASSUME GraphInv, UNCHANGED <<vars, graphRows, neo4j>>,
         graphWork' \subseteq GraphPipelines, paused' \subseteq GraphWorkers,
         cleaners' \subseteq cleaners,
         \A q \in graphWork' : q.generation \in {p.generation : p \in graphWork},
         \A q \in graphWork' : Placed(q), OnePipelinePerLease'
  PROVE  GraphInv'
<1>0. /\ stored' = stored /\ retired' = retired /\ erased' = erased
      /\ docStatus' = docStatus /\ desired' = desired /\ active' = active
      /\ generation' = generation /\ event' = event
      /\ graphTask' = graphTask /\ projection' = projection
  BY DEF vars, neo4j, graphRows
<1>a. GraphTypeOK'
  BY <1>0 DEF GraphInv, GraphTypeOK
<1>b. ProjectionsBelongToGenerations' /\ GraphCountersAgree' /\ GraphTasksMatchProjections'
  BY <1>0 DEF GraphInv, ProjectionsBelongToGenerations, Generated, GraphCountersAgree,
              GraphTasksMatchProjections
<1>c. PurgesAreForDeadGraphs' /\ StaleGraphsAreReplaced' /\ ReadyGraphIsComplete'
  BY <1>0 DEF GraphInv, PurgesAreForDeadGraphs, StaleGraphsAreReplaced, ReadyGraphIsComplete
<1>d. FenceHolds' /\ ErasuresWereAskedFor'
  BY <1>0 DEF GraphInv, FenceHolds, ErasuresWereAskedFor, Closed
<1>e. WritesAreKnown'
  <2>1. \A h \in Generations : (\E q \in graphWork' : q.generation = h) =>
                               (\E p \in graphWork : p.generation = h)
    OBVIOUS
  <2> QED BY <1>0, <2>1 DEF GraphInv, WritesAreKnown
<1>f. CursorsFollowFacts'
  BY <1>0 DEF GraphInv, CursorsFollowFacts, Placed, Leases
<1> QED BY <1>a, <1>b, <1>c, <1>d, <1>e, <1>f DEF GraphInv

(* A step of a clean-up that changes its event but no graph.               *)
LEMMA EventStepKeeps ==
  ASSUME GraphInv, UNCHANGED <<vars, graphTask, projection, graphWork, paused, neo4j>>,
         NEW k \in Purges, NEW e \in Event,
         event' = [event EXCEPT ![k] = e], event[k].status # "NONE", e.status # "NONE",
         e.status = "PUBLISHED" => Closed(k),
         cleaners' \subseteq Cleaner,
         \A c \in cleaners' : event[c.purge].status # "NONE" /\ (c.phase = "erased" => Closed(c.purge))
  PROVE  GraphInv'
<1>0. /\ stored' = stored /\ retired' = retired /\ erased' = erased
      /\ docStatus' = docStatus /\ desired' = desired /\ active' = active
      /\ generation' = generation /\ graphWork' = graphWork /\ paused' = paused
      /\ graphTask' = graphTask /\ projection' = projection
  BY DEF vars, neo4j
<1>1. /\ event'[k] = e
      /\ \A j \in Purges : j # k => event'[j] = event[j]
      /\ WholeDocument \in Purges /\ \A g \in Generations : g \in Purges
  BY BoundsAssumption DEF GraphInv, GraphTypeOK, WholeDocument, Purges, Generations
<1>2. \A j \in Purges : event'[j].status # "NONE" <=> event[j].status # "NONE"
  BY <1>1
<1>a. GraphTypeOK'
  BY <1>0 DEF GraphInv, GraphTypeOK
<1>b. ProjectionsBelongToGenerations' /\ GraphCountersAgree'
  BY <1>0 DEF GraphInv, ProjectionsBelongToGenerations, Generated, GraphCountersAgree
<1>c. GraphTasksMatchProjections'
  <2>1. SUFFICES ASSUME NEW h \in Generations
        PROVE  /\ projection[h] = "BUILDING" <=> graphTask[h].status \in ActiveStatuses
               /\ projection[h] = "BUILDING" =>
                    /\ docStatus \in OpenStatuses /\ generation[h].revision = desired
                    /\ event'[h].status = "NONE" /\ event'[WholeDocument].status = "NONE"
               /\ graphTask[h].open =
                    IF graphTask[h].status = "RUNNING" THEN {graphTask[h].epoch} ELSE {}
    BY <1>0 DEF GraphTasksMatchProjections
  <2>2. /\ projection[h] = "BUILDING" <=> graphTask[h].status \in ActiveStatuses
        /\ projection[h] = "BUILDING" =>
             /\ docStatus \in OpenStatuses /\ generation[h].revision = desired
             /\ event[h].status = "NONE" /\ event[WholeDocument].status = "NONE"
        /\ graphTask[h].open =
             IF graphTask[h].status = "RUNNING" THEN {graphTask[h].epoch} ELSE {}
    BY DEF GraphInv, GraphTasksMatchProjections
  <2> QED BY <1>1, <1>2, <2>2
<1>d. PurgesAreForDeadGraphs'
  BY <1>0, <1>1, <1>2 DEF GraphInv, PurgesAreForDeadGraphs
<1>e. StaleGraphsAreReplaced' /\ ReadyGraphIsComplete'
  BY <1>0 DEF GraphInv, StaleGraphsAreReplaced, ReadyGraphIsComplete
<1>f. WritesAreKnown'
  BY <1>0, <1>1, <1>2 DEF GraphInv, WritesAreKnown
<1>g. FenceHolds'
  BY <1>0, <1>1 DEF GraphInv, FenceHolds, Closed
<1>h. ErasuresWereAskedFor'
  <2>1. \A c \in cleaners' : c.purge \in Purges
    BY DEF Cleaner
  <2>2. retired \subseteq Generations
    BY DEF GraphInv, GraphTypeOK
  <2> QED BY <1>0, <1>1, <1>2, <2>1, <2>2 DEF GraphInv, ErasuresWereAskedFor
<1>i. CursorsFollowFacts' /\ OnePipelinePerLease'
  BY <1>0 DEF GraphInv, CursorsFollowFacts, Leases, OnePipelinePerLease
<1> QED BY <1>a, <1>b, <1>c, <1>d, <1>e, <1>f, <1>g, <1>h, <1>i DEF GraphInv

(* Where a pipeline is when nothing moves. *)
LEMMA OldPipeline ==
  ASSUME GraphInv, NEW q \in graphWork
  PROVE  /\ q \in GraphPipelines /\ q.generation \in Generations /\ Placed(q)
         /\ q.epoch \in Nat /\ graphTask[q.generation] \in GraphTask
BY DEF GraphInv, GraphTypeOK, GraphPipelines, CursorsFollowFacts, Placed, GraphEpochs

(* Moving a pipeline on creates no second one for its lease. *)
LEMMA MovedOnKeepsSingle ==
  ASSUME GraphInv, NEW p \in graphWork, NEW d \in 0..ChunkCount,
         NEW ph \in {"claimed", "at", "extracted", "written"},
         graphWork' = MovedOn(p, d, ph)
  PROVE  /\ graphWork' \subseteq GraphPipelines
         /\ \A q \in graphWork' : q.generation \in {r.generation : r \in graphWork}
         /\ OnePipelinePerLease'
         /\ \A q \in graphWork' :
              \/ q \in graphWork /\ (q.generation # p.generation \/ q.epoch # p.epoch)
              \/ q.generation = p.generation /\ q.epoch = p.epoch /\ q.done = d /\ q.phase = ph
<1> DEFINE n == [p EXCEPT !.done = d, !.phase = ph]
<1>1. p \in GraphPipelines /\ graphWork \subseteq GraphPipelines
  BY OldPipeline
<1>2. /\ n \in GraphPipelines /\ n.generation = p.generation /\ n.epoch = p.epoch
      /\ n.done = d /\ n.phase = ph
  BY <1>1 DEF GraphPipelines
<1>3. graphWork' = (graphWork \ {p}) \cup {n}
  BY DEF MovedOn
<1> HIDE DEF n
<1>4. \A q \in graphWork \ {p} : q.generation # p.generation \/ q.epoch # p.epoch
  BY DEF GraphInv, OnePipelinePerLease
<1>5. OnePipelinePerLease'
  BY <1>2, <1>3, <1>4 DEF GraphInv, OnePipelinePerLease
<1> QED BY <1>1, <1>2, <1>3, <1>4, <1>5

(* A pipeline that does not move keeps its place when a task is written     *)
(* that is not, or no longer, leased to it, or that keeps its cursor.      *)
LEMMA PlacedKept ==
  ASSUME GraphInv, NEW g \in Generations, NEW row \in GraphTask,
         graphTask' = [graphTask EXCEPT ![g] = row],
         docStatus' = docStatus, stored' = stored,
         row.attempts >= graphTask[g].attempts,
         NEW q \in graphWork,
         q.generation = g =>
           \/ row.status # "RUNNING" \/ q.epoch # row.epoch
           \/ graphTask[g].status = "RUNNING" /\ row.epoch = graphTask[g].epoch
              /\ row.next = graphTask[g].next
  PROVE  Placed(q)'
<1>1. /\ q.generation \in Generations /\ Placed(q) /\ q.epoch \in Nat
      /\ graphTask[q.generation] \in GraphTask
  BY OldPipeline
<1>2. graphTask'[g] = row /\ \A h \in Generations : h # g => graphTask'[h] = graphTask[h]
  BY DEF GraphInv, GraphTypeOK
<1>3. CASE q.generation # g
  BY <1>1, <1>2, <1>3 DEF Placed, Leases
<1>4. CASE q.generation = g
  <2>1. q.epoch <= row.attempts \/ docStatus = "PURGED"
    BY <1>1, <1>4 DEF Placed, GraphTask
  <2>2. CASE row.status # "RUNNING" \/ q.epoch # row.epoch
    BY <1>1, <1>2, <1>4, <2>1, <2>2 DEF Placed, Leases
  <2>3. CASE graphTask[g].status = "RUNNING" /\ row.epoch = graphTask[g].epoch
             /\ row.next = graphTask[g].next
    BY <1>1, <1>2, <1>4, <2>1, <2>3 DEF Placed, Leases
  <2> QED BY <1>4, <2>2, <2>3
<1> QED BY <1>3, <1>4

(* What is known of a task that is unfinished or FAILED.                   *)
LEMMA UsedTask ==
  ASSUME GraphInv, NEW g \in Generations, graphTask[g].status \in ActiveStatuses
  PROVE  /\ projection[g] = "BUILDING" /\ graphTask[g] \in GraphTask
         /\ graphTask[g].epoch = graphTask[g].attempts
         /\ graphTask[g].attempts <= graphTask[g].max
         /\ docStatus \in OpenStatuses /\ generation[g].revision = desired
         /\ 1..graphTask[g].next \subseteq stored[g]
<1>1. projection[g] = "BUILDING" /\ graphTask[g] \in GraphTask
  BY DEF GraphInv, GraphTypeOK, GraphTasksMatchProjections
<1>2. graphTask[g].epoch = graphTask[g].attempts
  BY <1>1 DEF GraphInv, GraphCountersAgree, ActiveStatuses, GraphTask
<1> QED BY <1>1, <1>2 DEF GraphInv, GraphCountersAgree, GraphTasksMatchProjections, CursorsFollowFacts

(* A claimed GRAPH task. *)
LEMMA LeasedGraphRow ==
  ASSUME NEW g \in Generations, NEW w \in GraphWorkers, graphTask[g] \in GraphTask,
         graphTask[g].epoch = graphTask[g].attempts,
         graphTask[g].attempts + 1 \in 1..GraphAttemptCap
  PROVE  /\ LeasedGraph(g, w) \in GraphTask
         /\ LeasedGraph(g, w).status = "RUNNING"
         /\ LeasedGraph(g, w).attempts = graphTask[g].attempts + 1
         /\ LeasedGraph(g, w).epoch = graphTask[g].attempts + 1
         /\ LeasedGraph(g, w).max = graphTask[g].max
         /\ LeasedGraph(g, w).next = graphTask[g].next
         /\ LeasedGraph(g, w).open = {graphTask[g].attempts + 1}
<1>1. graphTask[g].attempts + 1 \in 0..GraphAttemptCap /\ graphTask[g].epoch + 1 \in 0..(GraphAttemptCap + 1)
      /\ {graphTask[g].epoch + 1} \in SUBSET GraphEpochs
  BY GraphBoundsAssumption DEF GraphEpochs
<1>2. LeasedGraph(g, w) \in GraphTask
  BY <1>1 DEF LeasedGraph, GraphTask
<1>3. /\ LeasedGraph(g, w).status = "RUNNING"
      /\ LeasedGraph(g, w).attempts = graphTask[g].attempts + 1
      /\ LeasedGraph(g, w).epoch = graphTask[g].epoch + 1
      /\ LeasedGraph(g, w).max = graphTask[g].max
      /\ LeasedGraph(g, w).next = graphTask[g].next
      /\ LeasedGraph(g, w).open = {graphTask[g].epoch + 1}
  BY DEF LeasedGraph, GraphTask
<1> QED BY <1>2, <1>3

(* A claim: a new epoch, that no other pipeline has.                       *)
LEMMA ClaimGraphKeeps ==
  ASSUME IndInv, GraphInv, NEW w \in GraphWorkers, NEW g \in Generations, ClaimGraph(w, g)
  PROVE  GraphInv'
<1> DEFINE row == LeasedGraph(g, w)
           n == [generation |-> g, revision |-> generation[g].revision, owner |-> w,
                 epoch |-> graphTask[g].epoch + 1, done |-> 0, phase |-> "claimed"]
<1>1. /\ graphTask[g].status \in ActiveStatuses
      /\ graphTask[g].attempts < graphTask[g].max
      /\ graphTask' = [graphTask EXCEPT ![g] = row]
      /\ graphWork' = graphWork \cup {n}
      /\ UNCHANGED <<vars, projection, event, cleaners, paused, neo4j>>
      /\ docStatus' = docStatus /\ stored' = stored
  BY DEF ClaimGraph, GraphClaimable, ActiveStatuses, vars, neo4j
<1>2. /\ projection[g] = "BUILDING" /\ graphTask[g] \in GraphTask
      /\ graphTask[g].epoch = graphTask[g].attempts
      /\ docStatus \in OpenStatuses /\ generation[g].revision = desired
      /\ 1..graphTask[g].next \subseteq stored[g]
  BY <1>1, UsedTask
<1>3. /\ graphTask[g].attempts \in Nat /\ graphTask[g].attempts + 1 \in 1..GraphAttemptCap
      /\ graphTask[g].attempts + 1 <= graphTask[g].max
  BY <1>1, <1>2, GraphBoundsAssumption DEF GraphTask
<1>4. /\ row \in GraphTask /\ row.status = "RUNNING" /\ row.attempts = graphTask[g].attempts + 1
      /\ row.epoch = graphTask[g].attempts + 1 /\ row.max = graphTask[g].max
      /\ row.next = graphTask[g].next /\ row.open = {graphTask[g].attempts + 1}
  BY <1>2, <1>3, LeasedGraphRow
<1>5. n \in GraphPipelines /\ n.generation = g /\ n.epoch = row.epoch /\ n.phase = "claimed"
  <2>1. generation[g].revision \in Revisions
    <3>1. Generated(g)
      BY <1>2 DEF GraphInv, ProjectionsBelongToGenerations
    <3> QED BY <3>1, BoundsAssumption DEF IndInv, GenerationsFollowRevisions, TypeOK, Revisions
  <2>2. 0 \in 0..ChunkCount
    BY GraphBoundsAssumption
  <2> QED BY <1>2, <1>3, <1>4, <2>1, <2>2 DEF GraphPipelines, GraphEpochs
<1> HIDE DEF row, n
<1>6. projection' = [projection EXCEPT ![g] = "BUILDING"]
  BY <1>1, <1>2 DEF GraphInv, GraphTypeOK
<1>7. graphTask'[g] = row
  BY <1>1 DEF GraphInv, GraphTypeOK
<1>8. \A q \in graphWork : q.generation = g => q.epoch < row.epoch
  <2>1. SUFFICES ASSUME NEW q \in graphWork, q.generation = g PROVE q.epoch < row.epoch
    OBVIOUS
  <2>2. Placed(q) /\ q.epoch \in Nat
    BY OldPipeline
  <2>3. q.epoch <= graphTask[g].attempts
    BY <1>2, <2>1, <2>2 DEF Placed, OpenStatuses
  <2> QED BY <1>3, <1>4, <2>2, <2>3
<1>9. \A q \in graphWork' : Placed(q)'
  <2>1. SUFFICES ASSUME NEW q \in graphWork' PROVE Placed(q)'
    OBVIOUS
  <2>2. CASE q = n
    BY <1>4, <1>5, <1>7, <2>2 DEF Placed, Leases, GraphTask
  <2>3. CASE q \in graphWork
    <3>1. q.generation = g => q.epoch # row.epoch
      BY <1>3, <1>4, <1>8, <2>3, OldPipeline
    <3>2. row.attempts >= graphTask[g].attempts
      BY <1>3, <1>4
    <3> QED BY <1>1, <1>4, <2>3, <3>1, <3>2, PlacedKept
  <2> QED BY <1>1, <2>1, <2>2, <2>3
<1>10. OnePipelinePerLease'
  <2>1. \A q \in graphWork : q.generation = g => q.epoch # n.epoch
    BY <1>3, <1>4, <1>5, <1>8, OldPipeline
  <2> QED BY <1>1, <1>5, <2>1 DEF GraphInv, OnePipelinePerLease
<1>11. graphWork' \subseteq GraphPipelines /\ paused' \subseteq GraphWorkers
  BY <1>1, <1>5, OldPipeline DEF GraphInv, GraphTypeOK
<1>12. \A q \in graphWork' : q.generation = g \/ q.generation \in {p.generation : p \in graphWork}
  BY <1>1, <1>5
<1>13. row.status \in ActiveStatuses /\ row.open = {row.epoch} /\ row.attempts <= row.max
  BY <1>3, <1>4 DEF ActiveStatuses
<1> QED BY <1>1, <1>2, <1>4, <1>6, <1>9, <1>10, <1>11, <1>12, <1>13, TaskStepKeeps, ZenonT(40)

(* A GRAPH task whose lease ends, with its projection.                     *)
LEMMA ReleaseKeeps ==
  ASSUME GraphInv, NEW g \in Generations, graphTask[g].status \in ActiveStatuses,
         NEW s \in {"RETRY_WAIT", "FAILED", "SUCCEEDED"}, NEW v \in {"BUILDING", "READY", "FAILED"},
         s = "RETRY_WAIT" <=> v = "BUILDING", v = "READY" => stored[g] = Chunks,
         graphTask' = [graphTask EXCEPT ![g] = ReleasedGraph(g, s)],
         projection' = [projection EXCEPT ![g] = v],
         UNCHANGED <<vars, event, cleaners, neo4j>>,
         graphWork' \subseteq graphWork, paused' \subseteq GraphWorkers
  PROVE  GraphInv'
<1> DEFINE row == ReleasedGraph(g, s)
<1>1. /\ row \in GraphTask /\ row.status = s /\ row.attempts = graphTask[g].attempts
      /\ row.max = graphTask[g].max /\ row.epoch = graphTask[g].epoch
      /\ row.next = graphTask[g].next /\ row.open = {}
  BY ReleasedGraphRow DEF GraphInv, GraphStatuses
<1>2. /\ projection[g] = "BUILDING" /\ graphTask[g] \in GraphTask
      /\ graphTask[g].epoch = graphTask[g].attempts
      /\ graphTask[g].attempts <= graphTask[g].max
      /\ docStatus \in OpenStatuses /\ generation[g].revision = desired
      /\ 1..graphTask[g].next \subseteq stored[g]
  BY UsedTask
<1>3. graphTask' = [graphTask EXCEPT ![g] = row]
  OBVIOUS
<1> HIDE DEF row
<1>4. \A q \in graphWork' : Placed(q)'
  <2>1. row.attempts >= graphTask[g].attempts
    BY <1>1, <1>2 DEF GraphTask
  <2>2. docStatus' = docStatus /\ stored' = stored
    BY DEF vars, neo4j
  <2> QED BY <1>1, <1>3, <2>1, <2>2, PlacedKept
<1>5. /\ graphWork' \subseteq GraphPipelines /\ OnePipelinePerLease'
      /\ \A q \in graphWork' : q.generation \in {p.generation : p \in graphWork}
  BY DEF GraphInv, GraphTypeOK, OnePipelinePerLease
<1>6. v = "BUILDING" <=> row.status \in ActiveStatuses
  BY <1>1 DEF ActiveStatuses
<1> QED BY <1>1, <1>2, <1>3, <1>4, <1>5, <1>6, TaskStepKeeps, ZenonT(40)

(* A claim that ends a task, a lease that runs out, an operator's retry.   *)
LEMMA ExhaustGraphKeeps ==
  ASSUME GraphInv, NEW g \in Generations, ExhaustGraph(g)
  PROVE  GraphInv'
<1>1. graphTask[g].status \in ActiveStatuses
  BY DEF ExhaustGraph, GraphClaimable, ActiveStatuses
<1>2. /\ graphTask' = [graphTask EXCEPT ![g] = ReleasedGraph(g, "FAILED")]
      /\ projection' = [projection EXCEPT ![g] = "FAILED"]
      /\ UNCHANGED <<vars, event, cleaners, neo4j>>
      /\ graphWork' \subseteq graphWork /\ paused' \subseteq GraphWorkers
  BY DEF ExhaustGraph, processes, GraphInv, GraphTypeOK
<1> QED BY <1>1, <1>2, ReleaseKeeps

(* A lease that runs out says nothing yet about the task.                  *)
LEMMA ExpireGraphKeeps ==
  ASSUME GraphInv, NEW g \in Generations, ExpireGraph(g)
  PROVE  GraphInv'
<1> DEFINE row == [graphTask[g] EXCEPT !.live = FALSE]
<1>1. /\ graphTask[g].status = "RUNNING" /\ graphTask[g].status \in ActiveStatuses
      /\ graphTask' = [graphTask EXCEPT ![g] = row]
      /\ UNCHANGED <<vars, event, cleaners, neo4j>>
      /\ projection' = projection /\ graphWork' = graphWork /\ paused' = paused
  BY DEF ExpireGraph, ActiveStatuses, processes
<1>2. /\ projection[g] = "BUILDING" /\ graphTask[g] \in GraphTask
      /\ graphTask[g].epoch = graphTask[g].attempts
      /\ graphTask[g].attempts <= graphTask[g].max
      /\ docStatus \in OpenStatuses /\ generation[g].revision = desired
      /\ 1..graphTask[g].next \subseteq stored[g]
  BY <1>1, UsedTask
<1>3. /\ row \in GraphTask /\ row.status = "RUNNING" /\ row.attempts = graphTask[g].attempts
      /\ row.max = graphTask[g].max /\ row.epoch = graphTask[g].epoch
      /\ row.next = graphTask[g].next /\ row.open = graphTask[g].open
  BY <1>1, <1>2 DEF GraphTask
<1> HIDE DEF row
<1>4. projection' = [projection EXCEPT ![g] = "BUILDING"]
  BY <1>1, <1>2 DEF GraphInv, GraphTypeOK
<1>5. \A q \in graphWork' : Placed(q)'
  <2>1. row.attempts >= graphTask[g].attempts
    BY <1>2, <1>3 DEF GraphTask
  <2>2. docStatus' = docStatus /\ stored' = stored
    BY <1>1 DEF vars, neo4j
  <2> QED BY <1>1, <1>3, <2>1, <2>2, PlacedKept, ZenonT(40)
<1>6. /\ graphWork' \subseteq GraphPipelines /\ OnePipelinePerLease' /\ paused' \subseteq GraphWorkers
      /\ \A q \in graphWork' : q.generation \in {p.generation : p \in graphWork}
  BY <1>1 DEF GraphInv, GraphTypeOK, OnePipelinePerLease
<1>7. row.open = {row.epoch}
  BY <1>1, <1>3 DEF GraphInv, GraphTasksMatchProjections
<1>8. row.status \in ActiveStatuses
  BY <1>3 DEF ActiveStatuses
<1> QED BY <1>1, <1>2, <1>3, <1>4, <1>5, <1>6, <1>7, <1>8, TaskStepKeeps

(* The back-fill tool takes no graph that was replaced.                    *)
LEMMA RequeueGraphKeeps ==
  ASSUME GraphInv, NEW g \in Generations, RequeueGraph(g)
  PROVE  GraphInv'
<1> DEFINE r == ReleasedGraph(g, "PENDING")
           m == RequeuedMax(graphTask[g].attempts)
           row == [r EXCEPT !.max = m]
<1>1. /\ graphTask[g].status = "FAILED" /\ graphTask[g].attempts < GraphAttemptCap
      /\ docStatus = "PUBLISHED" /\ active = g /\ generation[g].revision = desired
      /\ projection[g] # "NONE"
      /\ graphTask' = [graphTask EXCEPT ![g] = row]
      /\ projection' = [projection EXCEPT ![g] = "BUILDING"]
      /\ UNCHANGED <<vars, event, cleaners, neo4j>>
      /\ graphWork' = graphWork /\ paused' = paused
      /\ docStatus' = docStatus /\ stored' = stored
  BY DEF RequeueGraph, processes, vars, neo4j
<1>2. projection[g] \in {"READY", "FAILED"}
  BY <1>1 DEF GraphInv, GraphTypeOK, ProjectionStatus, StaleGraphsAreReplaced,
              GraphTasksMatchProjections, ActiveStatuses
<1>3. graphTask[g] \in GraphTask /\ graphTask[g].epoch = graphTask[g].attempts
      /\ 1..graphTask[g].next \subseteq stored[g]
  <2>1. graphTask[g] \in GraphTask
    BY DEF GraphInv, GraphTypeOK
  <2> QED BY <1>1, <1>2, <2>1 DEF GraphInv, GraphCountersAgree, CursorsFollowFacts, GraphTask
<1>4. m \in 0..GraphAttemptCap /\ graphTask[g].attempts <= m
  BY <1>1, <1>3, GraphBoundsAssumption DEF RequeuedMax, GraphTask
<1>5. /\ r \in GraphTask /\ r.status = "PENDING" /\ r.attempts = graphTask[g].attempts
      /\ r.epoch = graphTask[g].epoch
      /\ r.next = graphTask[g].next /\ r.open = {}
  BY ReleasedGraphRow DEF GraphInv, GraphStatuses
<1> HIDE DEF r, m
<1>6. /\ row \in GraphTask /\ row.status = "PENDING" /\ row.attempts = graphTask[g].attempts
      /\ row.max = m /\ row.epoch = graphTask[g].epoch
      /\ row.next = graphTask[g].next /\ row.open = {}
  BY <1>4, <1>5 DEF GraphTask
<1> HIDE DEF row
<1>7. \A q \in graphWork' : Placed(q)'
  <2>1. row.attempts >= graphTask[g].attempts
    BY <1>3, <1>6 DEF GraphTask
  <2> QED BY <1>1, <1>6, <2>1, PlacedKept
<1>8. /\ graphWork' \subseteq GraphPipelines /\ OnePipelinePerLease' /\ paused' \subseteq GraphWorkers
      /\ \A q \in graphWork' : q.generation \in {p.generation : p \in graphWork}
  BY <1>1 DEF GraphInv, GraphTypeOK, OnePipelinePerLease
<1>9. row.status \in ActiveStatuses /\ docStatus \in OpenStatuses
  BY <1>1, <1>6 DEF ActiveStatuses, OpenStatuses
<1> QED BY <1>1, <1>2, <1>3, <1>4, <1>6, <1>7, <1>8, <1>9, TaskStepKeeps

(* A pipeline that holds the lease. *)
LEMMA LeaseHolder ==
  ASSUME GraphInv, NEW p \in graphWork, HoldsGraph(p)
  PROVE  /\ p \in GraphPipelines /\ p.generation \in Generations /\ Leases(p) /\ Placed(p)
         /\ graphTask[p.generation].status \in ActiveStatuses
BY OldPipeline DEF HoldsGraph, Leases, ActiveStatuses

(* The cursor follows the facts of the chunk just written.                 *)
LEMMA CheckpointChunkKeeps ==
  ASSUME GraphInv, NEW p \in graphWork, CheckpointChunk(p)
  PROVE  GraphInv'
<1> DEFINE g == p.generation
           row == [graphTask[g] EXCEPT !.next = p.done + 1]
<1>1. /\ p.phase = "written" /\ HoldsGraph(p) /\ graphTask[g].status = "RUNNING"
      /\ graphTask[g].next = p.done /\ graphTask[g].epoch = p.epoch
      /\ graphTask' = [graphTask EXCEPT ![g] = row]
      /\ graphWork' = MovedOn(p, p.done + 1, "at")
      /\ UNCHANGED <<vars, event, cleaners, neo4j>>
      /\ projection' = projection /\ paused' = paused
      /\ docStatus' = docStatus /\ stored' = stored
  BY DEF CheckpointChunk, HoldsGraph, vars, neo4j
<1>2. /\ p \in GraphPipelines /\ g \in Generations /\ Leases(p) /\ Placed(p)
      /\ graphTask[g].status \in ActiveStatuses
  BY <1>1, LeaseHolder
<1>3. /\ projection[g] = "BUILDING" /\ graphTask[g] \in GraphTask
      /\ graphTask[g].epoch = graphTask[g].attempts
      /\ graphTask[g].attempts <= graphTask[g].max
      /\ docStatus \in OpenStatuses /\ generation[g].revision = desired
      /\ 1..graphTask[g].next \subseteq stored[g]
  BY <1>2, UsedTask
<1>4. p.done \in Nat /\ p.done + 1 \in 0..ChunkCount /\ p.done + 1 \in stored[g]
  BY <1>1, <1>2, GraphBoundsAssumption DEF Placed, GraphPipelines
<1>5. /\ row \in GraphTask /\ row.status = "RUNNING" /\ row.attempts = graphTask[g].attempts
      /\ row.max = graphTask[g].max /\ row.epoch = graphTask[g].epoch
      /\ row.next = p.done + 1 /\ row.open = graphTask[g].open
  BY <1>1, <1>3, <1>4 DEF GraphTask
<1> HIDE DEF row
<1>6. projection' = [projection EXCEPT ![g] = "BUILDING"]
  BY <1>1, <1>2, <1>3 DEF GraphInv, GraphTypeOK
<1>7. /\ graphWork' \subseteq GraphPipelines
      /\ \A q \in graphWork' : q.generation \in {r.generation : r \in graphWork}
      /\ OnePipelinePerLease'
      /\ \A q \in graphWork' :
           \/ q \in graphWork /\ (q.generation # p.generation \/ q.epoch # p.epoch)
           \/ /\ q.generation = p.generation /\ q.epoch = p.epoch
              /\ q.done = p.done + 1 /\ q.phase = "at"
  BY <1>1, <1>4, MovedOnKeepsSingle
<1>8. \A q \in graphWork' : Placed(q)'
  <2>1. SUFFICES ASSUME NEW q \in graphWork' PROVE Placed(q)'
    OBVIOUS
  <2>2. CASE q \in graphWork /\ (q.generation # p.generation \/ q.epoch # p.epoch)
    <3>1. row.attempts >= graphTask[g].attempts
      BY <1>3, <1>5 DEF GraphTask
    <3> QED BY <1>1, <1>2, <1>5, <2>2, <3>1, PlacedKept
  <2>3. CASE /\ q.generation = p.generation /\ q.epoch = p.epoch
             /\ q.done = p.done + 1 /\ q.phase = "at"
    <3>1. graphTask'[g] = row
      BY <1>1, <1>2 DEF GraphInv, GraphTypeOK
    <3> QED BY <1>1, <1>2, <1>5, <2>3, <3>1 DEF Placed, Leases
  <2> QED BY <1>7, <2>2, <2>3
<1>9. row.open = {row.epoch}
  BY <1>1, <1>2, <1>5 DEF GraphInv, GraphTasksMatchProjections
<1>10. 1..row.next \subseteq stored[g]
  BY <1>1, <1>3, <1>4, <1>5
<1>11. row.status \in ActiveStatuses /\ paused' \subseteq GraphWorkers
  BY <1>1, <1>5 DEF ActiveStatuses, GraphInv, GraphTypeOK
<1> QED BY <1>1, <1>2, <1>3, <1>5, <1>6, <1>7, <1>8, <1>9, <1>10, <1>11, TaskStepKeeps, ZenonT(40)

(* A pipeline that is done has stored every chunk.                         *)
LEMMA FinishGraphKeeps ==
  ASSUME GraphInv, NEW p \in graphWork, FinishGraph(p)
  PROVE  GraphInv'
<1> DEFINE g == p.generation
<1>1. /\ p.phase = "at" /\ p.done = ChunkCount /\ HoldsGraph(p)
      /\ graphTask' = [graphTask EXCEPT ![g] = ReleasedGraph(g, "SUCCEEDED")]
      /\ projection' = [projection EXCEPT ![g] = "READY"]
      /\ graphWork' \subseteq graphWork
      /\ UNCHANGED <<vars, event, cleaners, paused, neo4j>>
  BY DEF FinishGraph, InScope
<1>2. /\ g \in Generations /\ Leases(p) /\ Placed(p) /\ graphTask[g].status \in ActiveStatuses
  BY <1>1, LeaseHolder
<1>3. stored[g] = Chunks
  <2>1. 1..graphTask[g].next \subseteq stored[g]
    BY <1>2, UsedTask
  <2>2. graphTask[g].next = ChunkCount
    BY <1>1, <1>2 DEF Placed
  <2>3. stored[g] \subseteq Chunks
    BY <1>2 DEF GraphInv, GraphTypeOK
  <2> QED BY <2>1, <2>2, <2>3 DEF Chunks
<1>4. paused' \subseteq GraphWorkers
  BY <1>1 DEF GraphInv, GraphTypeOK
<1> QED BY <1>1, <1>2, <1>3, <1>4, ReleaseKeeps

(* Whether the failing pipeline still has the lease or not.                *)
LEMMA FailGraphKeeps ==
  ASSUME GraphInv, NEW p \in graphWork, NEW retryable \in BOOLEAN, FailGraph(p, retryable)
  PROVE  GraphInv'
<1> DEFINE g == p.generation
           retry == retryable /\ graphTask[g].attempts < graphTask[g].max
<1>1. /\ graphWork' \subseteq graphWork /\ graphWork' \subseteq GraphPipelines
      /\ paused' \subseteq GraphWorkers
      /\ UNCHANGED <<vars, event, cleaners, neo4j>>
  <2>1. paused \subseteq GraphWorkers /\ p.owner \in GraphWorkers
    BY OldPipeline DEF GraphInv, GraphTypeOK, GraphPipelines
  <2> QED BY <2>1 DEF FailGraph, GraphInv, GraphTypeOK
<1>2. CASE HoldsGraph(p)
  <2>1. g \in Generations /\ graphTask[g].status \in ActiveStatuses /\ projection[g] = "BUILDING"
    BY <1>2, LeaseHolder, UsedTask
  <2>2. CASE retry
    <3>1. /\ graphTask' = [graphTask EXCEPT ![g] = ReleasedGraph(g, "RETRY_WAIT")]
          /\ projection' = projection
      BY <1>2, <2>2 DEF FailGraph
    <3>2. projection' = [projection EXCEPT ![g] = "BUILDING"]
      BY <2>1, <3>1 DEF GraphInv, GraphTypeOK
    <3> QED BY <1>1, <2>1, <3>1, <3>2, ReleaseKeeps
  <2>3. CASE ~retry
    <3>1. /\ graphTask' = [graphTask EXCEPT ![g] = ReleasedGraph(g, "FAILED")]
          /\ projection' = [projection EXCEPT ![g] = "FAILED"]
      BY <1>2, <2>3 DEF FailGraph
    <3> QED BY <1>1, <2>1, <3>1, ReleaseKeeps
  <2> QED BY <2>2, <2>3
<1>3. CASE ~HoldsGraph(p)
  <2>1. UNCHANGED <<vars, graphRows, neo4j>> /\ cleaners' \subseteq cleaners
    BY <1>1, <1>3 DEF FailGraph, graphRows
  <2>2. /\ \A q \in graphWork' : Placed(q) /\ q.generation \in {r.generation : r \in graphWork}
        /\ OnePipelinePerLease'
    BY <1>1, OldPipeline DEF GraphInv, OnePipelinePerLease
  <2> QED BY <1>1, <2>1, <2>2, WorkStepKeeps
<1> QED BY <1>2, <1>3

(* Pipelines and clean-ups that are gone, by themselves or with their       *)
(* worker, leave rows and facts as they are.                               *)
LEMMA GonePipelinesKeep ==
  ASSUME GraphInv, UNCHANGED <<vars, graphRows, neo4j>>,
         graphWork' \subseteq graphWork, cleaners' \subseteq cleaners, paused' \subseteq paused
  PROVE  GraphInv'
<1>1. /\ \A q \in graphWork' : Placed(q) /\ q.generation \in {r.generation : r \in graphWork}
      /\ OnePipelinePerLease'
      /\ graphWork' \subseteq GraphPipelines /\ paused' \subseteq GraphWorkers
  BY OldPipeline DEF GraphInv, GraphTypeOK, OnePipelinePerLease
<1> QED BY <1>1, WorkStepKeeps

(* Reading the checkpoint. *)
LEMMA ResumeGraphKeeps ==
  ASSUME GraphInv, NEW p \in graphWork, ResumeGraph(p)
  PROVE  GraphInv'
<1> DEFINE d == graphTask[p.generation].next
<1>1. /\ HoldsGraph(p) /\ graphWork' = MovedOn(p, d, "at")
      /\ UNCHANGED <<vars, graphRows, neo4j>> /\ cleaners' \subseteq cleaners /\ paused' = paused
  BY DEF ResumeGraph, InScope
<1>2. Leases(p) /\ Placed(p) /\ d \in 0..ChunkCount
  BY <1>1, OldPipeline, LeaseHolder DEF GraphTask
<1>3. /\ graphWork' \subseteq GraphPipelines
      /\ \A q \in graphWork' : q.generation \in {r.generation : r \in graphWork}
      /\ OnePipelinePerLease'
      /\ \A q \in graphWork' :
           \/ q \in graphWork
           \/ /\ q.generation = p.generation /\ q.epoch = p.epoch /\ q.done = d /\ q.phase = "at"
  BY <1>1, <1>2, MovedOnKeepsSingle
<1>4. \A q \in graphWork' : Placed(q)
  <2>1. SUFFICES ASSUME NEW q \in graphWork',
                        q.generation = p.generation /\ q.epoch = p.epoch /\ q.done = d /\ q.phase = "at"
                 PROVE  Placed(q)
    BY <1>3, OldPipeline
  <2> QED BY <1>2, <2>1 DEF Placed
<1> QED BY <1>1, <1>3, <1>4, WorkStepKeeps DEF GraphInv, GraphTypeOK

(* Extraction, whether cached or saved. *)
LEMMA ReuseExtractionKeeps ==
  ASSUME GraphInv, NEW p \in graphWork, ReuseExtraction(p)
  PROVE  GraphInv'
<1>1. /\ p.phase = "at" /\ p.done < ChunkCount
      /\ HoldsGraph(p) /\ graphWork' = MovedOn(p, p.done, "extracted")
      /\ UNCHANGED <<vars, graphRows, neo4j>> /\ cleaners' \subseteq cleaners /\ paused' = paused
  BY DEF ReuseExtraction, InScope
<1>2. Leases(p) /\ Placed(p) /\ p.done \in 0..ChunkCount
  BY <1>1, LeaseHolder DEF GraphPipelines
<1>3. /\ graphWork' \subseteq GraphPipelines
      /\ \A q \in graphWork' : q.generation \in {r.generation : r \in graphWork}
      /\ OnePipelinePerLease'
      /\ \A q \in graphWork' :
           \/ q \in graphWork
           \/ /\ q.generation = p.generation /\ q.epoch = p.epoch
              /\ q.done = p.done /\ q.phase = "extracted"
  BY <1>1, <1>2, MovedOnKeepsSingle
<1>4. \A q \in graphWork' : Placed(q)
  <2>1. SUFFICES ASSUME NEW q \in graphWork',
                        q.generation = p.generation /\ q.epoch = p.epoch,
                        q.done = p.done /\ q.phase = "extracted"
                 PROVE  Placed(q)
    BY <1>3, OldPipeline
  <2> QED BY <1>1, <1>2, <2>1 DEF Placed
<1> QED BY <1>1, <1>3, <1>4, WorkStepKeeps DEF GraphInv, GraphTypeOK

(* The fence is open, so no clean-up has erased this generation; and the    *)
(* generation's projection is known or its clean-up is.                    *)
LEMMA WriteChunkKeeps ==
  ASSUME GraphInv, NEW p \in graphWork, WriteChunk(p)
  PROVE  GraphInv'
<1> DEFINE g == p.generation
           c == p.done + 1
<1>1. /\ p.phase = "extracted" /\ ~erased /\ g \notin retired
      /\ stored' = [stored EXCEPT ![g] = stored[g] \cup {c}]
      /\ graphWork' = MovedOn(p, p.done, "written")
      /\ docStatus' = docStatus /\ desired' = desired /\ active' = active
      /\ generation' = generation /\ event' = event /\ cleaners' = cleaners /\ paused' = paused
      /\ graphTask' = graphTask /\ projection' = projection
      /\ retired' = retired /\ erased' = erased
  BY DEF WriteChunk, Fenced, vars, graphRows
<1>2. /\ p \in GraphPipelines /\ g \in Generations /\ Placed(p)
      /\ p.done \in 0..ChunkCount /\ c \in Chunks
  <2>1. /\ p \in GraphPipelines /\ g \in Generations /\ Placed(p) /\ p.done \in 0..ChunkCount
    BY OldPipeline DEF GraphPipelines
  <2> QED BY <1>1, <2>1, GraphBoundsAssumption DEF Placed, Chunks
<1>3. /\ graphWork' \subseteq GraphPipelines
      /\ \A q \in graphWork' : q.generation \in {r.generation : r \in graphWork}
      /\ OnePipelinePerLease'
      /\ \A q \in graphWork' :
           \/ q \in graphWork
           \/ /\ q.generation = g /\ q.epoch = p.epoch /\ q.done = p.done /\ q.phase = "written"
  BY <1>1, <1>2, MovedOnKeepsSingle
<1>4. /\ stored'[g] = stored[g] \cup {c}
      /\ \A h \in Generations : h # g => stored'[h] = stored[h]
      /\ stored' \in [Generations -> SUBSET Chunks]
  BY <1>1, <1>2 DEF GraphInv, GraphTypeOK
<1>a. GraphTypeOK'
  BY <1>1, <1>3, <1>4 DEF GraphInv, GraphTypeOK
<1>b. ProjectionsBelongToGenerations' /\ GraphCountersAgree' /\ GraphTasksMatchProjections'
  BY <1>1 DEF GraphInv, ProjectionsBelongToGenerations, Generated, GraphCountersAgree,
              GraphTasksMatchProjections
<1>c. PurgesAreForDeadGraphs' /\ StaleGraphsAreReplaced' /\ ErasuresWereAskedFor'
  BY <1>1 DEF GraphInv, PurgesAreForDeadGraphs, StaleGraphsAreReplaced, ErasuresWereAskedFor
<1>d. WritesAreKnown'
  <2>1. SUFFICES ASSUME NEW h \in Generations,
                        stored'[h] # {} \/ (\E q \in graphWork' : q.generation = h)
        PROVE  \/ projection[h] # "NONE"
               \/ docStatus = "PURGED" /\ \E k \in {h, WholeDocument} : event[k].status # "NONE"
    BY <1>1 DEF WritesAreKnown
  <2>2. stored[h] # {} \/ (\E q \in graphWork : q.generation = h)
    BY <1>3, <1>4, <2>1
  <2> QED BY <2>2 DEF GraphInv, WritesAreKnown
<1>e. FenceHolds'
  <2>1. \A h \in Generations : Closed(h) => h # g
    BY <1>1 DEF Closed
  <2> QED BY <1>1, <1>4, <2>1 DEF GraphInv, FenceHolds, Closed
<1>f. ReadyGraphIsComplete'
  BY <1>1, <1>2, <1>4 DEF GraphInv, ReadyGraphIsComplete
<1>g. CursorsFollowFacts'
  <2>1. ASSUME NEW h \in Generations, projection[h] \in {"BUILDING", "READY", "FAILED"}
        PROVE  1..graphTask[h].next \subseteq stored'[h]
    BY <1>4, <2>1 DEF GraphInv, CursorsFollowFacts
  <2>2. ASSUME NEW q \in graphWork'
        PROVE  Placed(q)'
    <3>1. CASE q \in graphWork
      <4>1. Placed(q) /\ q.generation \in Generations
        BY <3>1, OldPipeline
      <4> QED BY <1>1, <1>4, <4>1 DEF Placed, Leases
    <3>2. CASE q.generation = g /\ q.epoch = p.epoch /\ q.done = p.done /\ q.phase = "written"
      BY <1>1, <1>2, <1>4, <3>2 DEF Placed, Leases
    <3> QED BY <1>3, <3>1, <3>2
  <2> QED BY <1>1, <2>1, <2>2 DEF CursorsFollowFacts, Placed
<1> QED BY <1>3, <1>a, <1>b, <1>c, <1>d, <1>e, <1>f, <1>g DEF GraphInv

(* Erasing: whatever the clean-up erases is no graph in use.               *)
LEMMA EraseGraphKeeps ==
  ASSUME GraphInv, NEW c \in cleaners, EraseGraph(c)
  PROVE  GraphInv'
<1> DEFINE k == c.purge
           n == [c EXCEPT !.phase = "erased"]
           gone == {g \in Generations : k \in {g, WholeDocument}}
<1>1. /\ c \in Cleaner /\ k \in Purges /\ event[k].status # "NONE"
      /\ n \in Cleaner /\ n.purge = k
  BY DEF GraphInv, GraphTypeOK, Cleaner, ErasuresWereAskedFor
<1>2. /\ IF k = WholeDocument THEN erased' = TRUE /\ retired' = retired
                              ELSE erased' = erased /\ retired' = retired \cup {k}
      /\ stored' = [g \in Generations |-> IF k \in {g, WholeDocument} THEN {} ELSE stored[g]]
      /\ cleaners' = (cleaners \ {c}) \cup {n}
      /\ docStatus' = docStatus /\ desired' = desired /\ active' = active
      /\ generation' = generation /\ event' = event /\ graphWork' = graphWork /\ paused' = paused
      /\ graphTask' = graphTask /\ projection' = projection
  BY DEF EraseGraph, vars, graphRows
<1> HIDE DEF n
<1>3. \A g \in Generations : stored'[g] = IF k \in {g, WholeDocument} THEN {} ELSE stored[g]
  BY <1>2
<1>4. \A g \in gone : projection[g] \notin {"BUILDING", "READY", "FAILED"}
  BY <1>1, UsedGraph
<1>5. retired \subseteq Generations /\ erased \in BOOLEAN
      /\ (k = WholeDocument \/ k \in Generations)
      /\ WholeDocument \notin Generations
  BY <1>1, BoundsAssumption DEF GraphInv, GraphTypeOK, Purges, Generations, WholeDocument
<1>6. /\ retired' \subseteq Generations /\ retired \subseteq retired'
      /\ erased => erased'
      /\ Closed(k)'
  BY <1>2, <1>5 DEF Closed
<1>a. GraphTypeOK'
  <2>1. stored' \in [Generations -> SUBSET Chunks]
    BY <1>2 DEF GraphInv, GraphTypeOK
  <2>2. erased' \in BOOLEAN
    BY <1>2, <1>5
  <2>3. cleaners' \subseteq Cleaner
    BY <1>1, <1>2 DEF GraphInv, GraphTypeOK
  <2> QED BY <1>2, <1>6, <2>1, <2>2, <2>3 DEF GraphInv, GraphTypeOK
<1>b. ProjectionsBelongToGenerations' /\ GraphCountersAgree' /\ GraphTasksMatchProjections'
  BY <1>2 DEF GraphInv, ProjectionsBelongToGenerations, Generated, GraphCountersAgree,
              GraphTasksMatchProjections
<1>c. PurgesAreForDeadGraphs' /\ StaleGraphsAreReplaced' /\ OnePipelinePerLease'
  BY <1>2 DEF GraphInv, PurgesAreForDeadGraphs, StaleGraphsAreReplaced, OnePipelinePerLease
<1>d. WritesAreKnown'
  BY <1>2, <1>3 DEF GraphInv, WritesAreKnown
<1>e. FenceHolds'
  <2>1. \A g \in Generations : Closed(g)' => stored'[g] = {}
    BY <1>2, <1>3 DEF GraphInv, FenceHolds, Closed
  <2>2. \A j : Closed(j) => Closed(j)'
    BY <1>6 DEF Closed
  <2>3. \A d \in cleaners' : d.phase = "erased" => Closed(d.purge)'
    BY <1>1, <1>2, <1>6, <2>2 DEF GraphInv, FenceHolds
  <2>4. \A j \in Purges : event'[j].status = "PUBLISHED" => Closed(j)'
    BY <1>2, <2>2 DEF GraphInv, FenceHolds
  <2> QED BY <2>1, <2>3, <2>4 DEF FenceHolds, Closed
<1>f. ErasuresWereAskedFor'
  BY <1>1, <1>2, <1>5 DEF GraphInv, ErasuresWereAskedFor
<1>g. ReadyGraphIsComplete'
  BY <1>2, <1>3, <1>4 DEF GraphInv, ReadyGraphIsComplete
<1>h. CursorsFollowFacts'
  <2>1. ASSUME NEW g \in Generations, projection[g] \in {"BUILDING", "READY", "FAILED"}
        PROVE  1..graphTask[g].next \subseteq stored'[g]
    BY <1>3, <1>4, <2>1 DEF GraphInv, CursorsFollowFacts
  <2>2. ASSUME NEW q \in graphWork PROVE Placed(q)'
    <3>1. Placed(q) /\ q.generation \in Generations
      BY OldPipeline
    <3>2. Leases(q) => q.generation \notin gone
      BY <1>4, <3>1, UsedTask DEF Leases, ActiveStatuses
    <3> QED BY <1>2, <1>3, <3>1, <3>2 DEF Placed, Leases
  <2> QED BY <1>2, <2>1, <2>2 DEF CursorsFollowFacts, Placed
<1> QED BY <1>a, <1>b, <1>c, <1>d, <1>e, <1>f, <1>g, <1>h DEF GraphInv

(* The steps of a clean-up that change its event.                          *)
LEMMA PurgeStepsKeep ==
  ASSUME GraphInv,
         \/ \E k \in Purges : ExpirePurge(k) \/ \E w \in GraphWorkers : ClaimPurge(w, k)
         \/ \E c \in cleaners : CompletePurge(c) \/ FailPurge(c)
  PROVE  GraphInv'
<1>1. /\ \A c \in cleaners :
           /\ c \in Cleaner /\ c.purge \in Purges /\ event[c.purge].status # "NONE"
           /\ c.phase = "erased" => Closed(c.purge)
      /\ \A k \in Purges : event[k] \in Event
  BY DEF GraphInv, GraphTypeOK, Cleaner, ErasuresWereAskedFor, FenceHolds
<1>2. ASSUME NEW k \in Purges, ExpirePurge(k) PROVE GraphInv'
  <2> DEFINE e == [event[k] EXCEPT !.live = FALSE]
  <2>1. /\ event' = [event EXCEPT ![k] = e] /\ event[k].status = "PUBLISHING"
        /\ UNCHANGED <<vars, graphTask, projection, graphWork, paused, neo4j>> /\ cleaners' = cleaners
    BY <1>2 DEF ExpirePurge, processes
  <2>2. e \in Event /\ e.status = "PUBLISHING"
    BY <1>1, <2>1 DEF Event
  <2> HIDE DEF e
  <2>3. /\ cleaners' \subseteq Cleaner
        /\ \A d \in cleaners' : event[d.purge].status # "NONE" /\ (d.phase = "erased" => Closed(d.purge))
    BY <1>1, <2>1
  <2> QED BY <2>1, <2>2, <2>3, EventStepKeeps
<1>3. ASSUME NEW k \in Purges, NEW w \in GraphWorkers, ClaimPurge(w, k) PROVE GraphInv'
  <2> DEFINE e == [status |-> "PUBLISHING", owner |-> w, live |-> TRUE]
             n == [purge |-> k, owner |-> w, phase |-> "claimed"]
  <2>1. /\ event' = [event EXCEPT ![k] = e] /\ event[k].status # "NONE"
        /\ UNCHANGED <<vars, graphTask, projection, graphWork, paused, neo4j>>
        /\ cleaners' = cleaners \cup {n}
    BY <1>3 DEF ClaimPurge
  <2>2. e \in Event /\ e.status = "PUBLISHING"
    BY DEF Event
  <2>3. n \in Cleaner /\ n.purge = k /\ n.phase = "claimed"
    BY DEF Cleaner
  <2> HIDE DEF e, n
  <2>4. /\ cleaners' \subseteq Cleaner
        /\ \A d \in cleaners' : event[d.purge].status # "NONE" /\ (d.phase = "erased" => Closed(d.purge))
    BY <1>1, <2>1, <2>3
  <2> QED BY <2>1, <2>2, <2>4, EventStepKeeps
<1>4. ASSUME NEW c \in cleaners, CompletePurge(c) PROVE GraphInv'
  <2> DEFINE e == [NoEvent EXCEPT !.status = "PUBLISHED"]
  <2>1. /\ event' = [event EXCEPT ![c.purge] = e] /\ c.phase = "erased"
        /\ UNCHANGED <<vars, graphTask, projection, graphWork, paused, neo4j>>
        /\ cleaners' \subseteq cleaners
    BY <1>4 DEF CompletePurge
  <2>2. e \in Event /\ e.status = "PUBLISHED"
    BY DEF Event, NoEvent
  <2> HIDE DEF e
  <2>3. /\ cleaners' \subseteq Cleaner
        /\ \A d \in cleaners' : event[d.purge].status # "NONE" /\ (d.phase = "erased" => Closed(d.purge))
    BY <1>1, <2>1
  <2> DEFINE k == c.purge
  <2>4. k \in Purges /\ event[k].status # "NONE" /\ Closed(k) /\ event' = [event EXCEPT ![k] = e]
    BY <1>1, <2>1
  <2> HIDE DEF k
  <2> QED BY <2>1, <2>2, <2>3, <2>4, EventStepKeeps
<1>5. ASSUME NEW c \in cleaners, FailPurge(c) PROVE GraphInv'
  <2>1. /\ UNCHANGED <<vars, graphTask, projection, graphWork, paused, neo4j>>
        /\ cleaners' \subseteq cleaners
    BY <1>5 DEF FailPurge
  <2>2. CASE event' = [event EXCEPT ![c.purge] = NewEvent]
    <3>1. NewEvent \in Event /\ NewEvent.status = "PENDING"
      BY DEF Event, NewEvent, NoEvent
    <3> DEFINE k == c.purge
    <3>2. k \in Purges /\ event[k].status # "NONE" /\ event' = [event EXCEPT ![k] = NewEvent]
      BY <1>1, <2>2
    <3>3. /\ cleaners' \subseteq Cleaner
          /\ \A d \in cleaners' : event[d.purge].status # "NONE" /\ (d.phase = "erased" => Closed(d.purge))
      BY <1>1, <2>1
    <3> HIDE DEF NewEvent, k
    <3> QED BY <2>1, <3>1, <3>2, <3>3, EventStepKeeps
  <2>3. CASE event' = event
    BY <2>1, <2>3, GonePipelinesKeep DEF graphRows
  <2> QED BY <1>5, <2>2, <2>3 DEF FailPurge
<1> QED BY <1>2, <1>3, <1>4, <1>5

(* Every step of the graph half preserves GraphInv.                        *)
LEMMA GraphStepKeeps == IndInv /\ GraphInv /\ GraphStep => GraphInv'
<1> SUFFICES ASSUME IndInv, GraphInv, GraphStep PROVE GraphInv'
  OBVIOUS
<1>1. CASE \E g \in Generations : GraphClaim(g) \/ ExpireGraph(g) \/ RequeueGraph(g)
  BY <1>1, ClaimGraphKeeps, ExhaustGraphKeeps, ExpireGraphKeeps, RequeueGraphKeeps DEF GraphClaim
<1>2. CASE \E p \in graphWork : GraphPipelineStep(p)
  <2>1. PICK p \in graphWork : GraphPipelineStep(p)
    BY <1>2
  <2>2. CASE DropGraph(p)
    <3>1. /\ UNCHANGED <<vars, graphRows, neo4j>>
          /\ graphWork' \subseteq graphWork /\ cleaners' \subseteq cleaners /\ paused' \subseteq paused
      BY <2>2 DEF DropGraph
    <3> QED BY <3>1, GonePipelinesKeep
  <2>3. CASE ReuseExtraction(p) \/ SaveExtraction(p)
    BY <2>3, ReuseExtractionKeeps DEF SaveExtraction
  <2>4. CASE \E retryable \in BOOLEAN : FailGraph(p, retryable)
    BY <2>4, FailGraphKeeps
  <2> QED BY <2>1, <2>2, <2>3, <2>4, ResumeGraphKeeps, WriteChunkKeeps, CheckpointChunkKeeps,
             FinishGraphKeeps DEF GraphPipelineStep
<1>3. CASE \/ \E k \in Purges : ExpirePurge(k) \/ \E w \in GraphWorkers : ClaimPurge(w, k)
           \/ \E c \in cleaners : CleanerStep(c)
  BY <1>3, PurgeStepsKeep, EraseGraphKeeps DEF CleanerStep
<1>4. CASE \E w \in GraphWorkers : RestartGraphWorker(w)
  <2>1. /\ UNCHANGED <<vars, graphRows, neo4j>>
        /\ graphWork' \subseteq graphWork /\ cleaners' \subseteq cleaners /\ paused' \subseteq paused
    BY <1>4 DEF RestartGraphWorker
  <2> QED BY <2>1, GonePipelinesKeep
<1> QED BY <1>1, <1>2, <1>3, <1>4 DEF GraphStep

-----------------------------------------------------------------------------
(* The theorems *)

(* It holds at first. *)
LEMMA GraphInitInv == GraphInit => GraphInv
<1> SUFFICES ASSUME GraphInit PROVE GraphInv
  OBVIOUS
<1>1. /\ docStatus = "NONE"
      /\ \A g \in Generations : graphTask[g] = NoGraphTask /\ projection[g] = "NONE" /\ stored[g] = {}
      /\ \A k \in Purges : event[k] = NoEvent
      /\ graphWork = {} /\ cleaners = {} /\ paused = {} /\ retired = {} /\ erased = FALSE
      /\ WholeDocument \in Purges /\ \A g \in Generations : g \in Purges
  BY BoundsAssumption DEF GraphInit, Init, WholeDocument, Purges, Generations
<1>2. /\ NoGraphTask \in GraphTask /\ NoGraphTask.status = "NONE" /\ NoGraphTask.open = {}
      /\ NoGraphTask.attempts = 0 /\ NoGraphTask.max = 0 /\ NoGraphTask.epoch = 0
      /\ NoGraphTask.next = 0
  BY GraphBoundsAssumption DEF NoGraphTask, GraphTask
<1>3. NoEvent \in Event /\ NoEvent.status = "NONE"
  BY DEF NoEvent, Event
<1>4. GraphTypeOK
  BY <1>1, <1>2, <1>3 DEF GraphInit, GraphTypeOK, ProjectionStatus
<1> HIDE DEF NoGraphTask, NoEvent
<1>5. ProjectionsBelongToGenerations
  BY <1>1, <1>2 DEF ProjectionsBelongToGenerations
<1>6. GraphCountersAgree
  BY <1>1, <1>2 DEF GraphCountersAgree
<1>7. GraphTasksMatchProjections
  BY <1>1, <1>2 DEF GraphTasksMatchProjections, ActiveStatuses
<1>8. PurgesAreForDeadGraphs /\ StaleGraphsAreReplaced /\ ReadyGraphIsComplete /\ WritesAreKnown
  BY <1>1, <1>3 DEF PurgesAreForDeadGraphs, StaleGraphsAreReplaced, ReadyGraphIsComplete, WritesAreKnown
<1>9. FenceHolds /\ ErasuresWereAskedFor /\ OnePipelinePerLease
  BY <1>1, <1>3 DEF FenceHolds, ErasuresWereAskedFor, OnePipelinePerLease
<1>10. CursorsFollowFacts
  BY <1>1, <1>2 DEF CursorsFollowFacts
<1> QED BY <1>4, <1>5, <1>6, <1>7, <1>8, <1>9, <1>10 DEF GraphInv

(* Every step preserves GraphInv. *)
LEMMA GraphNextKeeps == IndInv /\ GraphInv /\ [GraphNext]_allVars => GraphInv'
<1> SUFFICES ASSUME IndInv, GraphInv, [GraphNext]_allVars PROVE GraphInv'
  OBVIOUS
<1>1. CASE UNCHANGED allVars
  BY <1>1, QuietSteps, QuietKeeps DEF allVars
<1> QED BY <1>1, IndexStepKeeps, GraphStepKeeps DEF GraphNext

(* The inductive invariant of the graph half holds.                        *)
THEOREM GraphInductive == GraphSpec => []GraphInv
<1>1. IndInv /\ GraphInv /\ [GraphNext]_allVars => GraphInv'
  BY GraphNextKeeps
<1> QED BY <1>1, GraphInitInv, IndexInductive, PTL DEF GraphSpec

(* Rows, events, pipelines and facts keep their types.                     *)
THEOREM GraphTypeCorrect == GraphSpec => []GraphTypeOK
<1>1. GraphInv => GraphTypeOK
  BY DEF GraphInv
<1> QED BY <1>1, GraphInductive, PTL

(* A READY graph is whole. *)
THEOREM ReadyGraphsAreComplete == GraphSpec => []ReadyGraphIsComplete
<1>1. GraphInv => ReadyGraphIsComplete
  BY DEF GraphInv
<1> QED BY <1>1, GraphInductive, PTL

(* Tasks and projections agree, and an unfinished task is wanted.          *)
THEOREM GraphTasksAndProjections == GraphSpec => []GraphTasksMatchProjections
<1>1. GraphInv => GraphTasksMatchProjections
  BY DEF GraphInv
<1> QED BY <1>1, GraphInductive, PTL

(* A finished clean-up is behind the fence, which keeps what it erased empty. *)
LEMMA PublishedIsEmpty ==
  ASSUME GraphInv, NEW g \in Generations, NEW k \in {g, WholeDocument}, k \in Purges,
         event[k].status = "PUBLISHED"
  PROVE  stored[g] = {}
<1>1. Closed(k)
  BY DEF GraphInv, FenceHolds
<1>2. WholeDocument \notin retired
  BY BoundsAssumption DEF GraphInv, GraphTypeOK, Generations, WholeDocument
<1>3. Closed(g)
  BY <1>1, <1>2 DEF Closed
<1> QED BY <1>3 DEF GraphInv, FenceHolds

(* However late a writer comes, what a finished clean-up erased stays erased. *)
THEOREM ErasureIsFinal == GraphSpec => []ErasedStaysErased
<1>1. GraphInv => ErasedStaysErased
  BY PublishedIsEmpty DEF ErasedStaysErased
<1> QED BY <1>1, GraphInductive, PTL

(* Facts nobody may read have a clean-up that is not finished.             *)
THEOREM NoOrphanIsForgotten == GraphSpec => []OrphansAreScheduled
<1>1. GraphInv => OrphansAreScheduled
  <2> SUFFICES ASSUME GraphInv, NEW g \in Generations, Orphaned(g)
               PROVE  \E k \in {g, WholeDocument} : event[k].status \in {"PENDING", "PUBLISHING"}
    BY DEF OrphansAreScheduled
  <2>1. g \in Purges /\ WholeDocument \in Purges
    BY BoundsAssumption DEF Purges, Generations, WholeDocument
  <2>2. \E k \in {g, WholeDocument} : event[k].status # "NONE"
    BY DEF Orphaned, GraphInv, PurgesAreForDeadGraphs, WritesAreKnown
  <2>3. PICK k \in {g, WholeDocument} : event[k].status # "NONE"
    BY <2>2
  <2>4. k \in Purges /\ event[k] \in Event
    BY <2>1 DEF GraphInv, GraphTypeOK
  <2>5. event[k].status # "PUBLISHED"
    BY <2>4, PublishedIsEmpty DEF Orphaned
  <2> QED BY <2>3, <2>4, <2>5 DEF Event
<1> QED BY <1>1, GraphInductive, PTL

(* What a step of the graph half does to a projection.                     *)
LEMMA GraphStepProjections ==
  ASSUME GraphInv, GraphStep, NEW g \in Generations
  PROVE  projection'[g] = projection[g] \/ projection[g] \in {"BUILDING", "FAILED", "READY"}
<1>0. projection \in [Generations -> ProjectionStatus]
  BY DEF GraphInv, GraphTypeOK
<1>1. ASSUME NEW h \in Generations, projection[h] \in {"BUILDING", "FAILED", "READY"},
             NEW s, projection' = projection \/ projection' = [projection EXCEPT ![h] = s]
      PROVE  projection'[g] = projection[g] \/ projection[g] \in {"BUILDING", "FAILED", "READY"}
  BY <1>0, <1>1
<1>2. CASE \E h \in Generations : GraphClaim(h) \/ ExpireGraph(h) \/ RequeueGraph(h)
  <2>1. PICK h \in Generations : GraphClaim(h) \/ ExpireGraph(h) \/ RequeueGraph(h)
    BY <1>2
  <2>2. CASE RequeueGraph(h)
    <3>1. projection[h] \in {"BUILDING", "FAILED", "READY"}
      BY <1>0, <2>2 DEF RequeueGraph, GraphInv, StaleGraphsAreReplaced, ProjectionStatus
    <3> QED BY <1>1, <2>2, <3>1 DEF RequeueGraph
  <2>3. CASE ExhaustGraph(h)
    <3>1. projection[h] = "BUILDING"
      BY <2>3, UsedTask DEF ExhaustGraph, GraphClaimable, ActiveStatuses
    <3> QED BY <1>1, <2>3, <3>1 DEF ExhaustGraph
  <2> QED BY <2>1, <2>2, <2>3 DEF GraphClaim, ClaimGraph, ExpireGraph
<1>3. CASE \E p \in graphWork : GraphPipelineStep(p)
  <2>1. PICK p \in graphWork : GraphPipelineStep(p)
    BY <1>3
  <2>2. HoldsGraph(p) => p.generation \in Generations /\ projection[p.generation] = "BUILDING"
    BY LeaseHolder, UsedTask
  <2>3. CASE FinishGraph(p)
    BY <1>1, <2>2, <2>3 DEF FinishGraph, InScope
  <2>4. CASE \E retryable \in BOOLEAN : FailGraph(p, retryable)
    <3>1. \/ projection' = projection
          \/ HoldsGraph(p) /\ projection' = [projection EXCEPT ![p.generation] = "FAILED"]
      BY <2>4 DEF FailGraph
    <3> QED BY <1>1, <2>2, <3>1
  <2> QED BY <2>1, <2>3, <2>4 DEF GraphPipelineStep, ResumeGraph, ReuseExtraction, SaveExtraction,
                                  WriteChunk, CheckpointChunk, DropGraph, graphRows
<1>4. CASE \/ \E k \in Purges : ExpirePurge(k) \/ \E w \in GraphWorkers : ClaimPurge(w, k)
           \/ \E c \in cleaners : CleanerStep(c)
           \/ \E w \in GraphWorkers : RestartGraphWorker(w)
  BY <1>4 DEF ExpirePurge, ClaimPurge, CleanerStep, EraseGraph, CompletePurge, FailPurge,
              RestartGraphWorker, graphRows
<1> QED BY <1>2, <1>3, <1>4 DEF GraphStep

(* A replaced projection never comes back.                                 *)
THEOREM ReplacedGraphsStayReplaced == GraphSpec => StaleIsFinal
<1>1. GraphInv /\ [GraphNext]_allVars =>
        [\A g \in Generations :
           projection[g] = "STALE" => projection'[g] \in {"STALE", "NONE"}]_allVars
  <2> SUFFICES ASSUME GraphInv, GraphNext, NEW g \in Generations, projection[g] = "STALE"
               PROVE  projection'[g] \in {"STALE", "NONE"}
    OBVIOUS
  <2>1. CASE GraphStep
    BY <2>1, GraphStepProjections
  <2>2. CASE IndexStep
    <3>1. ASSUME NEW gs, projection' = StaleProjections(gs)
          PROVE  projection'[g] \in {"STALE", "NONE"}
      BY <3>1, StaleRow DEF GraphInv
    <3>2. CASE \E p \in work : StageChunksAndGraph(p)
      <4>1. PICK p \in work : StageChunksAndGraph(p)
        BY <3>2
      <4>2. CASE graphTask[p.generation].status = "NONE"
        <5>1. g # p.generation
          BY <4>2 DEF GraphInv, ProjectionsBelongToGenerations
        <5> QED BY <4>1, <4>2, <5>1 DEF StageChunksAndGraph, GraphInv, GraphTypeOK
      <4>3. CASE graphTask[p.generation].status # "NONE"
        BY <4>1, <4>3 DEF StageChunksAndGraph
      <4> QED BY <4>2, <4>3
    <3>3. CASE \/ \E r \in Revisions : UploadRevisionAndGraph(r)
               \/ DeleteDocumentAndGraph
               \/ \E p \in work : PublishChunksAndGraph(p)
      BY <3>1, <3>3 DEF UploadRevisionAndGraph, DeleteDocumentAndGraph, PublishChunksAndGraph
    <3>4. CASE PurgeDocumentAndGraph
      BY <3>4 DEF PurgeDocumentAndGraph
    <3>5. CASE UNCHANGED graphVars
      BY <3>5 DEF graphVars, graphRows
    <3> QED BY <2>2, <3>2, <3>3, <3>4, <3>5 DEF IndexStep, EnqueueReindexAndGraph
  <2> QED BY <2>1, <2>2 DEF GraphNext
<1> QED BY <1>1, GraphInductive, PTL DEF GraphSpec, StaleIsFinal

(* A graph pipeline whose lease is another's changes no row when it ends    *)
(* or moves.                                                               *)
THEOREM SupersededGraphPipelines == GraphSpec => SupersededGraphsAreHarmless
<1>1. [GraphNext]_allVars =>
        [\A p \in graphWork \ graphWork' : SupersededGraph(p) => UNCHANGED graphRows]_allVars
  <2> SUFFICES ASSUME GraphNext, NEW p \in graphWork, p \notin graphWork', SupersededGraph(p)
               PROVE  UNCHANGED graphRows
    OBVIOUS
  <2>1. CASE IndexStep
    <3>1. graphWork' = graphWork
      BY <2>1 DEF IndexStep, UploadRevisionAndGraph, EnqueueReindexAndGraph, DeleteDocumentAndGraph,
                  PurgeDocumentAndGraph, StageChunksAndGraph, PublishChunksAndGraph,
                  graphVars, processes
    <3> QED BY <3>1
  <2>2. CASE \E g \in Generations : GraphClaim(g) \/ ExpireGraph(g) \/ RequeueGraph(g)
    <3>1. graphWork \subseteq graphWork'
      BY <2>2 DEF GraphClaim, ClaimGraph, ExhaustGraph, ExpireGraph, RequeueGraph, processes
    <3> QED BY <3>1
  <2>3. CASE \E q \in graphWork : GraphPipelineStep(q)
    <3>1. PICK q \in graphWork : GraphPipelineStep(q)
      BY <2>3
    <3>2. q = p
      BY <3>1 DEF GraphPipelineStep, ResumeGraph, ReuseExtraction, SaveExtraction, WriteChunk,
                  CheckpointChunk, FinishGraph, FailGraph, DropGraph, MovedOn
    <3>3. ~HoldsGraph(p)
      BY DEF SupersededGraph, HoldsGraph
    <3>4. CASE \E retryable \in BOOLEAN : FailGraph(p, retryable)
      BY <3>3, <3>4 DEF FailGraph, graphRows
    <3> QED BY <3>1, <3>2, <3>3, <3>4
            DEF GraphPipelineStep, ResumeGraph, ReuseExtraction, SaveExtraction, InScope,
                WriteChunk, CheckpointChunk, FinishGraph, DropGraph
  <2>4. CASE \/ \E k \in Purges : ExpirePurge(k) \/ \E w \in GraphWorkers : ClaimPurge(w, k)
             \/ \E c \in cleaners : CleanerStep(c)
    <3>1. graphWork' = graphWork
      BY <2>4 DEF ExpirePurge, ClaimPurge, CleanerStep, EraseGraph, CompletePurge, FailPurge, processes
    <3> QED BY <3>1
  <2>5. CASE \E w \in GraphWorkers : RestartGraphWorker(w)
    BY <2>5 DEF RestartGraphWorker
  <2> QED BY <2>1, <2>2, <2>3, <2>4, <2>5 DEF GraphNext, GraphStep
<1> QED BY <1>1, PTL DEF GraphSpec, SupersededGraphsAreHarmless

-----------------------------------------------------------------------------
(* The facts of a chunk *)

(* ExtractionTypeOK without the bounds on the size of an answer.           *)
SomeFacts == [entities : SUBSET ExtractedEntity, relations : SUBSET ExtractedRelation]

ExtractionState ==
  [stage : {"asking", "accepted", "failed"}, attempt : 0..3, rejected : BOOLEAN,
   output : SomeFacts, result : SomeFacts]

ExtractionInv == extraction \in ExtractionState /\ AcceptedFactsAreProved

(* A valid answer is its own proved part.                                  *)
LEMMA ValidIsProved ==
  ASSUME NEW output \in SomeFacts, WellFormed(output), Evidenced(output)
  PROVE  Subset(output) = output /\ Cardinality(output.relations) <= RelationLimit
PROOF
<1>1. KeptEntities(output.entities) = output.entities
  BY DEF KeptEntities, WellFormed, DistinctIds, Evidenced
<1>2. {r \in output.relations : r.flaw = "none" /\ EndsOf(r, output.entities)} = output.relations
  BY DEF WellFormed, Evidenced
<1> QED
  BY <1>1, <1>2 DEF Subset, SomeFacts, WellFormed

(* What is accepted is the proved part of the answer, within the limits.   *)
LEMMA AcceptedIsProved ==
  ASSUME ExtractionInv, Asking, NEW output \in SomeFacts, NEW result, NEW rejected \in BOOLEAN,
         result = Subset(output), Cardinality(result.relations) <= RelationLimit,
         Accepts(output, result, rejected)
  PROVE  ExtractionInv'
PROOF
<1> DEFINE kept == KeptEntities(output.entities)
<1>1. /\ result.entities = kept
      /\ result.relations = {r \in output.relations : r.flaw = "none" /\ EndsOf(r, kept)}
  BY DEF Subset
<1>2. kept = {e \in output.entities : e.flaw = "none" /\
                \A f \in output.entities \ {e} : f.flaw = "none" => f.id # e.id}
  BY DEF KeptEntities
<1>3. result \in SomeFacts
  BY <1>2 DEF Subset, SomeFacts
<1>4. extraction.attempt + 1 \in 0..3
  BY DEF Asking, ExtractionInv, ExtractionState
<1>5. extraction' = [stage |-> "accepted", attempt |-> extraction.attempt + 1,
                     rejected |-> rejected, output |-> output, result |-> result]
  BY DEF Accepts, ExtractionInv, ExtractionState
<1>6. extraction' \in ExtractionState
  BY <1>3, <1>4, <1>5 DEF ExtractionState
<1>7. extraction'.output = output /\ extraction'.result = result
  BY <1>5
<1>8. AcceptedFactsAreProved'
  <2> DEFINE alone == {e \in output.entities : e.flaw = "none" /\
                         \A f \in output.entities \ {e} : f.flaw = "none" => f.id # e.id}
  <2>1. /\ result.entities = alone
        /\ result.relations = {r \in output.relations : r.flaw = "none" /\ EndsOf(r, alone)}
    BY <1>1, <1>2
  <2> QED
    BY <1>7, <2>1 DEF AcceptedFactsAreProved, EndsOf
<1> QED
  BY <1>6, <1>8 DEF ExtractionInv

LEMMA AskingGoesOn ==
  ASSUME ExtractionInv, Asking, NEW rejected \in BOOLEAN, AsksAgain(rejected)
  PROVE  ExtractionInv'
PROOF
<1>1. extraction.attempt + 1 \in 0..3
  BY DEF Asking, ExtractionInv, ExtractionState
<1>2. extraction' \in ExtractionState /\ extraction'.stage = "asking"
  BY <1>1 DEF AsksAgain, Asking, ExtractionInv, ExtractionState
<1> QED
  BY <1>2 DEF ExtractionInv, AcceptedFactsAreProved

LEMMA ExtractionStep == ExtractionInv /\ [ExtractionNext]_extraction => ExtractionInv'
PROOF
<1> SUFFICES ASSUME ExtractionInv, [ExtractionNext]_extraction
             PROVE  ExtractionInv'
  OBVIOUS
<1>1. CASE IsTruncated \/ IsBlank \/ IsUnreadable
  <2>1. extraction.rejected \in BOOLEAN
    BY DEF ExtractionInv, ExtractionState
  <2> QED
    BY <1>1, <2>1, AskingGoesOn DEF IsTruncated, IsBlank, IsUnreadable
<1>2. CASE ExtractionFails
  BY <1>2 DEF ExtractionFails, ExtractionInv, ExtractionState, AcceptedFactsAreProved
<1>3. ASSUME Asking, NEW output \in Extraction,
             IsValid(output) \/ HasWrongStructure(output) \/ LacksEvidence(output)
      PROVE  ExtractionInv'
  <2>1. output \in SomeFacts /\ extraction.rejected \in BOOLEAN
    BY DEF Extraction, UpToMaxFacts, SomeFacts, ExtractionInv, ExtractionState
  <2>2. CASE AsksAgain(TRUE)
    BY <1>3, <2>2, AskingGoesOn
  <2>3. CASE WellFormed(output) /\ Evidenced(output)
             /\ Accepts(output, output, extraction.rejected)
    BY <1>3, <2>1, <2>3, ValidIsProved, AcceptedIsProved
  <2>4. CASE IsSalvaged(output) /\ Accepts(output, Subset(output), TRUE)
    <3>1. Cardinality(Subset(output).relations) <= RelationLimit
      BY <2>4 DEF IsSalvaged, WellFormed
    <3> QED
      BY <1>3, <2>1, <2>4, <3>1, AcceptedIsProved
  <2> QED
    BY <1>3, <2>2, <2>3, <2>4 DEF IsValid, HasWrongStructure, LacksEvidence
<1>4. CASE UNCHANGED extraction
  BY <1>4 DEF ExtractionInv, AcceptedFactsAreProved
<1> QED
  BY <1>1, <1>2, <1>3, <1>4 DEF ExtractionNext

(* Whatever the model answers, a chunk is recorded with exactly the facts  *)
(* of its answer that hold by themselves, within the limits                *)
(* (extract_chunk, validated_endpoint_subset).                             *)
THEOREM ExtractedFactsAreProved == ExtractionSpec => []AcceptedFactsAreProved
PROOF
<1>1. ExtractionInit => ExtractionInv
  BY DEF ExtractionInit, ExtractionInv, ExtractionState, NoFacts, SomeFacts, AcceptedFactsAreProved
<1>2. ExtractionInv /\ [ExtractionNext]_extraction => ExtractionInv'
  BY ExtractionStep
<1>3. ExtractionInv => AcceptedFactsAreProved
  BY DEF ExtractionInv
<1> QED
  BY <1>1, <1>2, <1>3, PTL DEF ExtractionSpec

=============================================================================
