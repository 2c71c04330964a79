---------------------------- MODULE DocumentIndex ----------------------------
(***************************************************************************)
(* One document, its revisions, index generations and INDEX tasks, and the *)
(* ingestion workers that lease the tasks.  Every action that touches the  *)
(* database is one transaction of the code: the code takes the row locks   *)
(* in the order knowledge base, tasks, document, generation, and holds     *)
(* them to the commit, so transactions on one document are serialised.     *)
(* What is NOT serialised is everything between two transactions of one    *)
(* pipeline: a lease may expire, the task may be re-claimed (even by the   *)
(* same worker process), cancelled, retried or deleted in between.         *)
(*                                                                         *)
(* Time is abstract: a lease is `live' until ExpireLease says otherwise,   *)
(* and a task whose back-off has not elapsed is simply not picked yet.     *)
(* Chunk contents, embeddings and authorisation are abstracted: whatever   *)
(* they make the code raise is a FailPipeline.                             *)
(***************************************************************************)
EXTENDS Naturals, FiniteSets

CONSTANTS
  Workers,          \* worker ids: one per worker process
  Targets,          \* chunk fingerprints a re-chunking preview may report
  None,             \* SQL NULL
  MaxAttempts,      \* settings.ingestion_max_attempts
  RetryAllowance,   \* attempts a user's retry adds (3 in the code)
  AttemptCap,       \* attempts a task may ever have (100 in the code)
  MaxRevision,      \* bound: revisions ever uploaded
  MaxGeneration,    \* bound: generations ever created
  MaxTask,          \* bound: INDEX tasks ever created
  MaxPipelines      \* bound: pipelines alive at once, in all the workers

ASSUME NoneAssumption == None \notin Workers \cup Targets
ASSUME BoundsAssumption ==
  /\ MaxRevision \in Nat /\ MaxGeneration \in Nat /\ MaxTask \in Nat
  /\ MaxPipelines \in Nat
ASSUME AttemptsAssumption ==
  /\ AttemptCap \in Nat \ {0}
  /\ MaxAttempts \in 1..AttemptCap
  /\ RetryAllowance \in Nat \ {0}

VARIABLES
  docStatus,    \* document.status; "NONE" before the upload, "PURGED" after
  revisions,    \* number of document_revision rows
  desired,      \* document.desired_revision_id (0 is NULL)
  active,       \* document.active_generation_id (0 is NULL)
  generation,   \* index_generation rows by generation_no
  task,         \* background_task rows of type INDEX, by order of creation
  attempt,      \* task_attempt rows by task and lease_epoch
  work          \* pipelines running in worker processes

vars == <<docStatus, revisions, desired, active, generation, task, attempt, work>>

Revisions   == 1..MaxRevision
Generations == 1..MaxGeneration
Tasks       == 1..MaxTask
Epochs      == 1..AttemptCap

ActiveStatuses == {"PENDING", "RUNNING", "RETRY_WAIT"}
OpenStatuses   == {"DRAFT", "PUBLISHED"}

Generation ==
  [status : {"NONE", "BUILDING", "READY", "FAILED", "CANCELLED"},
   revision : 0..MaxRevision,
   staged : BOOLEAN]     \* chunk_count > 0: raw chunks are stored

Task ==
  [status : {"NONE", "PENDING", "RUNNING", "RETRY_WAIT",
             "SUCCEEDED", "FAILED", "CANCELLED"},
   revision : 0..MaxRevision,
   generation : 0..MaxGeneration,
   base : 0..MaxGeneration,      \* expected_active_generation_id, 0 if absent
   target : Targets \cup {None}, \* expected_chunks_fingerprint
   attempts : 0..AttemptCap,
   max : 0..AttemptCap,
   owner : Workers \cup {None},
   epoch : 0..(AttemptCap + 1),
   live : BOOLEAN]               \* lease_expires_at > clock_timestamp()

AttemptStatus == {"NONE", "RUNNING", "SUCCEEDED", "FAILED", "CANCELLED", "LOST"}

(* A pipeline: the TaskLease it was started with and how far it has got.   *)
Pipeline ==
  [task : Tasks, revision : Revisions, generation : Generations,
   owner : Workers, epoch : Epochs,
   phase : {"claimed", "parsed", "staged", "embedded", "committed"}]

NoGeneration == [status |-> "NONE", revision |-> 0, staged |-> FALSE]

NoTask == [status |-> "NONE", revision |-> 0, generation |-> 0, base |-> 0,
           target |-> None, attempts |-> 0, max |-> 0, owner |-> None, epoch |-> 0,
           live |-> FALSE]

NoAttempts == [e \in Epochs |-> "NONE"]

TypeOK ==
  /\ docStatus \in {"NONE", "DRAFT", "PUBLISHED", "DELETED", "PURGED"}
  /\ revisions \in 0..MaxRevision
  /\ desired \in 0..MaxRevision
  /\ active \in 0..MaxGeneration
  /\ generation \in [Generations -> Generation]
  /\ task \in [Tasks -> Task]
  /\ attempt \in [Tasks -> [Epochs -> AttemptStatus]]
  /\ work \subseteq Pipeline

Init ==
  /\ docStatus = "NONE" /\ revisions = 0 /\ desired = 0 /\ active = 0
  /\ generation = [g \in Generations |-> NoGeneration]
  /\ task = [t \in Tasks |-> NoTask]
  /\ attempt = [t \in Tasks |-> NoAttempts]
  /\ work = {}

-----------------------------------------------------------------------------
(* Rows *)

(* The number max(generation_no) + 1, and the next task id.                *)
NextGeneration(g) == \A h \in Generations : generation[h].status # "NONE" <=> h < g
NextTask(t) == \A s \in Tasks : task[s].status # "NONE" <=> s < t

NewGeneration(r) == [status |-> "BUILDING", revision |-> r, staged |-> FALSE]

NewTask(r, g, b, f) ==
  [NoTask EXCEPT !.status = "PENDING", !.revision = r, !.generation = g,
                 !.base = b, !.target = f, !.max = MaxAttempts]

(* Fault: the cap forgotten.                                               *)
RetriedMax_Uncapped(attempts) == attempts + RetryAllowance

(* LEAST(100, attempt_count + 3)                                           *)
RetriedMax(attempts) ==
  IF attempts + RetryAllowance <= AttemptCap THEN attempts + RetryAllowance
                                             ELSE AttemptCap

(* A row whose lease is cleared and whose status becomes s.                *)
Released(t, s) == [task[t] EXCEPT !.status = s, !.owner = None, !.live = FALSE]

(* Fault: tasks waiting for a retry are left in the queue.                 *)
CancelledTasks_ForgetsRetries ==
  [t \in Tasks |->
     IF task[t].status \in {"PENDING", "RUNNING"}
     THEN [Released(t, "CANCELLED") EXCEPT !.epoch = @ + 1]
     ELSE task[t]]

(* Unfinished work of the document is cancelled; the epoch moves on, so no *)
(* pipeline that still runs can act on its lease.                          *)
CancelledTasks ==
  [t \in Tasks |->
     IF task[t].status \in ActiveStatuses
     THEN [Released(t, "CANCELLED") EXCEPT !.epoch = @ + 1]
     ELSE task[t]]

(* Fault: the attempt of a lost lease stays RUNNING.                       *)
ClosedAttempts_Forgotten(t, s) == attempt[t]

(* Row t of task_attempt with its RUNNING attempt closed as s.             *)
ClosedAttempts(t, s) ==
  [e \in Epochs |-> IF attempt[t][e] = "RUNNING" THEN s ELSE attempt[t][e]]

CancelledAttempts == [t \in Tasks |-> ClosedAttempts(t, "CANCELLED")]

(* Fault: closes the published generation as well.                         *)
ClosedGenerations_All(s) ==
  [g \in Generations |->
     IF generation[g].status # "NONE"
     THEN [generation[g] EXCEPT !.status = s]
     ELSE generation[g]]

(* BUILDING generations are closed as s; finished ones never change.       *)
ClosedGenerations(s) ==
  [g \in Generations |->
     IF generation[g].status = "BUILDING"
     THEN [generation[g] EXCEPT !.status = s]
     ELSE generation[g]]

(* Only generation g is closed, if it is still BUILDING.                   *)
FailedGeneration(g) ==
  [generation EXCEPT ![g].status = IF @ = "BUILDING" THEN "FAILED" ELSE @]

-----------------------------------------------------------------------------
(* Users *)

(* First upload: document, revision 1, generation 1 and its task at once.  *)
UploadDocument ==
  /\ docStatus = "NONE"
  /\ 1 \in Revisions
  /\ docStatus' = "DRAFT" /\ revisions' = 1 /\ desired' = 1
  /\ \E g \in Generations, t \in Tasks :
       /\ NextGeneration(g) /\ NextTask(t)
       /\ generation' = [generation EXCEPT ![g] = NewGeneration(1)]
       /\ task' = [task EXCEPT ![t] = NewTask(1, g, 0, None)]
  /\ UNCHANGED <<active, attempt, work>>

(* A new revision on top of the revision the author saw.                   *)
UploadRevision(expected) ==
  /\ docStatus \in OpenStatuses
  /\ desired = expected
  /\ revisions + 1 \in Revisions
  /\ revisions' = revisions + 1
  /\ desired' = revisions'
  /\ \E g \in Generations, t \in Tasks :
       /\ NextGeneration(g) /\ NextTask(t)
       /\ generation' = [ClosedGenerations("CANCELLED")
                           EXCEPT ![g] = NewGeneration(revisions')]
       /\ task' = [CancelledTasks EXCEPT ![t] = NewTask(revisions', g, 0, None)]
  /\ attempt' = CancelledAttempts
  /\ UNCHANGED <<docStatus, active, work>>

(* Fault: the failed generation is reopened instead of replaced.           *)
RetryTask_Reopens(t) ==
  /\ docStatus \in OpenStatuses
  /\ task[t].status = "FAILED"
  /\ task[t].revision = desired
  /\ task[t].attempts < AttemptCap
  /\ generation' = [generation EXCEPT ![task[t].generation].status = "BUILDING"]
  /\ task' = [task EXCEPT ![t] =
                [@ EXCEPT !.status = "PENDING", !.max = RetriedMax(task[t].attempts)]]
  /\ UNCHANGED <<docStatus, revisions, desired, active, attempt, work>>

(* A user retries a FAILED task: it gets a fresh generation, because a     *)
(* finished generation is never rebuilt, and more attempts.                *)
RetryTask(t) ==
  /\ docStatus \in OpenStatuses
  /\ task[t].status = "FAILED"
  /\ task[t].revision = desired
  /\ task[t].attempts < AttemptCap
  /\ \E g \in Generations :
       /\ NextGeneration(g)
       /\ generation' = [generation EXCEPT ![g] =
                           NewGeneration(generation[task[t].generation].revision)]
       /\ task' = [task EXCEPT ![t] =
                     [@ EXCEPT !.status = "PENDING", !.generation = g,
                               !.max = RetriedMax(task[t].attempts)]]
  /\ UNCHANGED <<docStatus, revisions, desired, active, attempt, work>>

(* The table re-chunking tool: its preview, made while generation b was    *)
(* published, found that parsing now gives chunks f.  The task is enqueued *)
(* only if b still is published and no work is under way; a repeated call  *)
(* finds the task of the first one and changes nothing.                    *)
EnqueueReindex(b, f) ==
  /\ docStatus = "PUBLISHED"
  /\ active = b
  /\ generation[b].status = "READY" /\ generation[b].revision = desired
  /\ ~ \E t \in Tasks : task[t].base = b /\ task[t].target = f
  /\ ~ \E t \in Tasks : task[t].status \in ActiveStatuses
  /\ \E g \in Generations, t \in Tasks :
       /\ NextGeneration(g) /\ NextTask(t)
       /\ generation' = [generation EXCEPT ![g] = NewGeneration(desired)]
       /\ task' = [task EXCEPT ![t] = NewTask(desired, g, b, f)]
  /\ UNCHANGED <<docStatus, revisions, desired, active, attempt, work>>

(* First half of a deletion: stop all work and unpublish.                  *)
DeleteDocument ==
  /\ docStatus \in OpenStatuses
  /\ docStatus' = "DELETED" /\ active' = 0 /\ desired' = 0
  /\ task' = CancelledTasks
  /\ attempt' = CancelledAttempts
  /\ generation' = ClosedGenerations("FAILED")
  /\ UNCHANGED <<revisions, work>>

(* Second half, after the original files are gone: every row is removed.   *)
PurgeDocument ==
  /\ docStatus = "DELETED"
  /\ docStatus' = "PURGED" /\ revisions' = 0
  /\ generation' = [g \in Generations |-> NoGeneration]
  /\ task' = [t \in Tasks |-> NoTask]
  /\ attempt' = [t \in Tasks |-> NoAttempts]
  /\ UNCHANGED <<desired, active, work>>

-----------------------------------------------------------------------------
(* Workers *)

(* Fault: the epoch is not compared, only the worker.                      *)
HoldsLease_AnyEpoch(p) ==
  /\ task[p.task].status = "RUNNING"
  /\ task[p.task].owner = p.owner
  /\ task[p.task].live

(* The test every write of a pipeline makes on its task row.               *)
HoldsLease(p) ==
  /\ task[p.task].status = "RUNNING"
  /\ task[p.task].owner = p.owner
  /\ task[p.task].epoch = p.epoch
  /\ task[p.task].live

(* The lease query of the stage and publish transactions also compares the *)
(* revision and generation the lease was given for.                        *)
OwnsTask(p) ==
  /\ HoldsLease(p)
  /\ task[p.task].revision = p.revision
  /\ task[p.task].generation = p.generation

(* The document still wants this revision.                                 *)
RevisionWanted(p) == docStatus \in OpenStatuses /\ desired = p.revision

(* Fault: publication does not look at the preview's base.                 *)
BaseUnchanged_Skipped(p) == TRUE

(* A re-chunking task may only replace the generation it was computed from.*)
BaseUnchanged(p) == task[p.task].base # 0 => active = task[p.task].base

Advance(p, phase) == (work \ {p}) \cup {[p EXCEPT !.phase = phase]}

(* Fault: leases that ran out are never taken over.                        *)
Claimable_IgnoresExpired(t) == task[t].status \in {"PENDING", "RETRY_WAIT"}

(* Due, or abandoned by the worker that had it.                            *)
Claimable(t) ==
  \/ task[t].status \in {"PENDING", "RETRY_WAIT"}
  \/ task[t].status = "RUNNING" /\ ~task[t].live

(* Row t leased to worker w, one attempt and one epoch on.                 *)
Leased(t, w) ==
  [task[t] EXCEPT !.status = "RUNNING", !.owner = w, !.live = TRUE,
                  !.attempts = @ + 1, !.epoch = @ + 1]

ClaimTask(w, t) ==
  /\ Claimable(t)
  /\ task[t].attempts < task[t].max
  /\ Cardinality(work) < MaxPipelines
  /\ task' = [task EXCEPT ![t] = Leased(t, w)]
  /\ attempt' = [attempt EXCEPT ![t] =
                   [ClosedAttempts(t, "LOST") EXCEPT ![task'[t].epoch] = "RUNNING"]]
  /\ work' = work \cup
       {[task |-> t, revision |-> task[t].revision,
         generation |-> task[t].generation, owner |-> w,
         epoch |-> task'[t].epoch, phase |-> "claimed"]}
  /\ UNCHANGED <<docStatus, revisions, desired, active, generation>>

(* Fault: a task out of attempts is skipped instead of failed.             *)
ExhaustTask_Skips(t) ==
  /\ Claimable(t)
  /\ task[t].attempts >= task[t].max
  /\ UNCHANGED vars

(* A claim that finds the attempts used up ends the task instead.          *)
ExhaustTask(t) ==
  /\ Claimable(t)
  /\ task[t].attempts >= task[t].max
  /\ task' = [task EXCEPT ![t] = Released(t, "FAILED")]
  /\ attempt' = [attempt EXCEPT ![t] = ClosedAttempts(t, "LOST")]
  /\ generation' = FailedGeneration(task[t].generation)
  /\ UNCHANGED <<docStatus, revisions, desired, active, work>>

(* lease_expires_at passes: the worker is dead, stalled or cut off.        *)
ExpireLease(t) ==
  /\ task[t].status = "RUNNING" /\ task[t].live
  /\ task' = [task EXCEPT ![t].live = FALSE]
  /\ UNCHANGED <<docStatus, revisions, desired, active, generation, attempt, work>>

(* Read the context, download, heartbeat, parse, check access again.  Only *)
(* reads and a lease renewal; a failed check is a FailPipeline or a        *)
(* DropPipeline.                                                           *)
ParseSource(p) ==
  /\ p.phase = "claimed"
  /\ HoldsLease(p) /\ RevisionWanted(p)
  /\ work' = Advance(p, "parsed")
  /\ UNCHANGED <<docStatus, revisions, desired, active, generation, task, attempt>>

(* Raw chunks are stored once; a later attempt finds them and compares.    *)
StageChunks(p) ==
  /\ p.phase = "parsed"
  /\ OwnsTask(p) /\ RevisionWanted(p) /\ BaseUnchanged(p)
  /\ generation[p.generation].status = "BUILDING"
  /\ generation' = [generation EXCEPT ![p.generation].staged = TRUE]
  /\ work' = Advance(p, "staged")
  /\ UNCHANGED <<docStatus, revisions, desired, active, task, attempt>>

(* The embedding calls, between two heartbeats.                            *)
EmbedChunks(p) ==
  /\ p.phase = "staged"
  /\ HoldsLease(p)
  /\ work' = Advance(p, "embedded")
  /\ UNCHANGED <<docStatus, revisions, desired, active, generation, task, attempt>>

(* One transaction completes the generation, publishes it and ends the     *)
(* task.                                                                   *)
PublishChunks(p) ==
  /\ p.phase = "embedded"
  /\ OwnsTask(p) /\ RevisionWanted(p) /\ BaseUnchanged(p)
  /\ generation[p.generation].status = "BUILDING"
  /\ generation[p.generation].staged
  /\ attempt[p.task][p.epoch] = "RUNNING"
  /\ generation' = [generation EXCEPT ![p.generation].status = "READY"]
  /\ active' = p.generation
  /\ docStatus' = "PUBLISHED"
  /\ task' = [task EXCEPT ![p.task] = Released(p.task, "SUCCEEDED")]
  /\ attempt' = [attempt EXCEPT ![p.task][p.epoch] = "SUCCEEDED"]
  /\ work' = Advance(p, "committed")
  /\ UNCHANGED <<revisions, desired>>

(* process() reports an error: back-off or final failure, unless the lease *)
(* is no longer this pipeline's.  A database call already running in a     *)
(* thread cannot be cancelled, so the pipeline may still make that call.   *)
FailPipeline(p, retryable) ==
  LET t == p.task
      retry == retryable /\ task[t].attempts < task[t].max
  IN /\ IF HoldsLease(p)
        THEN /\ task' = [task EXCEPT ![t] =
                           Released(t, IF retry THEN "RETRY_WAIT" ELSE "FAILED")]
             /\ attempt' = [attempt EXCEPT ![t][p.epoch] =
                              IF @ = "RUNNING" THEN "FAILED" ELSE @]
             /\ generation' = IF retry THEN generation
                              ELSE FailedGeneration(p.generation)
        ELSE UNCHANGED <<task, attempt, generation>>
     /\ \/ work' = work \ {p}
        \/ p.phase \in {"parsed", "embedded"} /\ UNCHANGED work
     /\ UNCHANGED <<docStatus, revisions, desired, active>>

(* The pipeline ends without a word to the database: it has finished, its  *)
(* heartbeat found the lease gone, or its process was stopped or died.     *)
DropPipeline(p) ==
  /\ work' = work \ {p}
  /\ UNCHANGED <<docStatus, revisions, desired, active, generation, task, attempt>>

-----------------------------------------------------------------------------
PipelineStep(p) ==
  \/ ParseSource(p)
  \/ StageChunks(p)
  \/ EmbedChunks(p)
  \/ PublishChunks(p)
  \/ \E retryable \in BOOLEAN : FailPipeline(p, retryable)
  \/ DropPipeline(p)

Claim(t) == (\E w \in Workers : ClaimTask(w, t)) \/ ExhaustTask(t)

UserStep ==
  \/ UploadDocument
  \/ \E r \in Revisions : UploadRevision(r)
  \/ \E t \in Tasks : RetryTask(t)
  \/ \E b \in Generations, f \in Targets : EnqueueReindex(b, f)
  \/ DeleteDocument
  \/ PurgeDocument

Next ==
  \/ UserStep
  \/ \E t \in Tasks : Claim(t) \/ ExpireLease(t)
  \/ \E p \in work : PipelineStep(p)

Spec == Init /\ [][Next]_vars

-----------------------------------------------------------------------------
(* Fairness.  run() polls claim() for ever, so a claimable task is claimed. *)
(* process() bounds every pipeline with a timeout, so a pipeline does not   *)
(* stay where it is for ever: it moves on, fails or ends.  A lease nobody   *)
(* renews runs out.  Users owe nothing.                                     *)
ExpireAbandoned(t) ==
  /\ ~ \E p \in work : p.task = t /\ HoldsLease(p)
  /\ ExpireLease(t)

PipelineOf(t) == \E p \in work : p.task = t /\ PipelineStep(p)

Fairness ==
  \A t \in Tasks :
    /\ WF_vars(Claim(t))
    /\ WF_vars(ExpireAbandoned(t))
    /\ WF_vars(PipelineOf(t))

FairSpec == Spec /\ Fairness

-----------------------------------------------------------------------------
(* What the published document promises its readers.                       *)
Published == INSTANCE PublishedDocument WITH
  Indexes <- Generations,
  stage <- CASE docStatus = "NONE" -> "absent"
             [] docStatus \in OpenStatuses -> "open"
             [] docStatus = "DELETED" -> "deleted"
             [] docStatus = "PURGED" -> "purged",
  requested <- desired,
  served <- [index |-> active,
             revision |-> IF active = 0 THEN 0 ELSE generation[active].revision]

(* The document implements it: publications follow the order in which the  *)
(* generations were created and always carry the newest upload, although   *)
(* several pipelines, for an upload and for re-chunking runs, may be       *)
(* racing to publish (publication.publish_chunks).                         *)
PublishedSpec == Published!Spec

(* A reader always finds a complete index: a PUBLISHED document has a READY *)
(* active generation whose chunks are stored, whatever is being built,     *)
(* cancelled or failed next to it; any other document has none             *)
(* (the trigger check_document_publish tests this on some updates only).   *)
PublishedIndexIsComplete ==
  /\ docStatus = "PUBLISHED" <=> active # 0
  /\ active # 0 => /\ generation[active].status = "READY"
                   /\ generation[active].staged
                   /\ generation[active].revision \in 1..desired

(* Work under way is work still wanted: each unfinished task belongs to the *)
(* newest revision of a live document and builds a generation of its own   *)
(* that is BUILDING, and no BUILDING generation is left without such a     *)
(* task (persist, retry_task, delete_document, claim and fail together).   *)
UnfinishedWorkIsWanted ==
  /\ \A t \in Tasks : task[t].status \in ActiveStatuses =>
       /\ docStatus \in OpenStatuses
       /\ task[t].revision = desired
       /\ generation[task[t].generation].status = "BUILDING"
       /\ generation[task[t].generation].revision = desired
       /\ \A s \in Tasks \ {t} : task[s].generation # task[t].generation
  /\ \A g \in Generations : generation[g].status = "BUILDING" =>
       \E t \in Tasks : task[t].status \in ActiveStatuses /\ task[t].generation = g

(* The attempt log tells the truth about the leases: one row per claim, one *)
(* RUNNING row exactly while the task is leased, at the epoch of the lease, *)
(* and a SUCCEEDED row exactly for the last claim of a task that succeeded, *)
(* whose generation is then READY (claim, fail, publish_chunks and the     *)
(* cancellations of persist and delete_document).                          *)
AttemptLogIsTrue ==
  \A t \in Tasks, e \in Epochs :
    /\ attempt[t][e] # "NONE" <=> e <= task[t].attempts
    /\ attempt[t][e] = "RUNNING" <=> task[t].status = "RUNNING" /\ task[t].epoch = e
    /\ attempt[t][e] = "SUCCEEDED" <=> task[t].status = "SUCCEEDED" /\ task[t].epoch = e
    /\ task[t].status = "SUCCEEDED" =>
         generation[task[t].generation].status = "READY"

(* Whose claim has been taken over, cancelled, ended or has run out.       *)
Superseded(p) ==
  \/ task[p.task].status # "RUNNING"
  \/ task[p.task].epoch # p.epoch
  \/ ~task[p.task].live

(* A step of a pipeline that is superseded changes nothing but the         *)
(* pipeline itself, even if the claim that superseded it belongs to the    *)
(* same worker process (heartbeat, fail, stage_chunks_for_graph and        *)
(* publish_chunks against claim).                                          *)
SupersededPipelinesAreHarmless ==
  [][\A p \in work \ work' : Superseded(p) =>
        UNCHANGED <<docStatus, desired, active, generation, task, attempt>>]_vars

(* A generation that has ended, well or badly, is never touched again      *)
(* until the document is purged: the trigger guard_generation_update would *)
(* abort the transaction of whoever tried.                                 *)
EndedGenerationsAreFrozen ==
  [][\A g \in Generations :
       /\ generation[g].status \in {"READY", "FAILED", "CANCELLED"}
       /\ docStatus' # "PURGED"
       => generation'[g] = generation[g]]_vars

(* Every task that is queued, leased or waiting for a retry comes to rest, *)
(* although workers may die at any point of a pipeline.                    *)
WorkSettles ==
  \A t \in Tasks :
    task[t].status \in ActiveStatuses ~> task[t].status \notin ActiveStatuses

(* Every upload is decided: its revision gets published, or its task fails *)
(* for the user to see and retry, or a newer upload or a deletion makes it *)
(* moot.                                                                   *)
UploadIsDecided ==
  \A r \in Revisions :
    desired = r ~> \/ desired # r
                   \/ active # 0 /\ generation[active].revision = r
                   \/ \E t \in Tasks : task[t].revision = r /\ task[t].status = "FAILED"

-----------------------------------------------------------------------------
(* The inductive invariant behind the theorems of DocumentIndex_proofs, in  *)
(* named parts.                                                            *)
Generated(g) == generation[g].status # "NONE"
Created(t) == task[t].status # "NONE"

(* The pointers of the document row.                                       *)
PointersAgree ==
  /\ docStatus \in OpenStatuses => desired = revisions /\ desired > 0
  /\ docStatus \notin OpenStatuses => desired = 0 /\ active = 0
  /\ docStatus \in {"NONE", "PURGED"} =>
       /\ revisions = 0
       /\ \A g \in Generations : ~Generated(g)
       /\ \A t \in Tasks : ~Created(t)

(* Generations are numbered along the revisions they index.                *)
GenerationsFollowRevisions ==
  /\ \A g \in Generations : Generated(g) => generation[g].revision \in 1..revisions
  /\ \A g, h \in Generations :
       Generated(g) /\ Generated(h) /\ g < h => generation[g].revision <= generation[h].revision

(* What a task row refers to.                                              *)
TasksReferToRows ==
  \A t \in Tasks : Created(t) =>
    /\ task[t].generation \in Generations
    /\ Generated(task[t].generation)
    /\ generation[task[t].generation].revision = task[t].revision
    /\ \A s \in Tasks \ {t} : Created(s) => task[s].generation # task[t].generation
    /\ task[t].base # 0 =>
         /\ task[t].base < task[t].generation
         /\ Generated(task[t].base)
         /\ generation[task[t].base].revision = task[t].revision

(* The counters of a task row.                                             *)
TaskCountersAgree ==
  \A t \in Tasks :
    /\ task[t].attempts <= task[t].max
    /\ task[t].epoch = task[t].attempts + (IF task[t].status = "CANCELLED" THEN 1 ELSE 0)
    /\ ~Created(t) => task[t].attempts = 0 /\ task[t].generation = 0

(* Status of a task against the status of its generation.                  *)
TasksMatchGenerations ==
  /\ \A t \in Tasks : Created(t) =>
       /\ task[t].status \in ActiveStatuses =>
            /\ docStatus \in OpenStatuses
            /\ task[t].revision = desired
            /\ generation[task[t].generation].status = "BUILDING"
       /\ task[t].status = "SUCCEEDED" => generation[task[t].generation].status = "READY"
  /\ \A g \in Generations : generation[g].status = "BUILDING" =>
       \E t \in Tasks : task[t].status \in ActiveStatuses /\ task[t].generation = g

(* One task per upload; once its revision is published it has succeeded, so *)
(* only re-chunking tasks, which name their base, can publish that revision *)
(* again.                                                                  *)
UploadsPublishFirst ==
  \A t \in Tasks : Created(t) /\ task[t].base = 0 =>
    /\ \A s \in Tasks \ {t} :
         Created(s) /\ task[s].base = 0 => task[s].revision # task[t].revision
    /\ active # 0 /\ task[t].revision = desired /\ generation[active].revision = desired
         => task[t].status = "SUCCEEDED"

(* Every pipeline was started by a claim of its task, and as long as no     *)
(* later claim or cancellation has happened the task is what it was then.  *)
PipelinesWereClaimed ==
  /\ docStatus = "NONE" => work = {}
  /\ \A p \in work :
       /\ docStatus # "PURGED" => p.epoch <= task[p.task].attempts
       /\ task[p.task].status = "RUNNING" /\ task[p.task].epoch = p.epoch =>
            /\ task[p.task].generation = p.generation
            /\ task[p.task].revision = p.revision

IndInv ==
  /\ TypeOK
  /\ PointersAgree
  /\ GenerationsFollowRevisions
  /\ TasksReferToRows
  /\ TaskCountersAgree
  /\ TasksMatchGenerations
  /\ UploadsPublishFirst
  /\ PipelinesWereClaimed
  /\ PublishedIndexIsComplete
  /\ AttemptLogIsTrue

=============================================================================
