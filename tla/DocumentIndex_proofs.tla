------------------------ MODULE DocumentIndex_proofs ------------------------
(***************************************************************************)
(* Proofs about DocumentIndex, for any number of workers, revisions,       *)
(* generations, tasks and attempts.  The parts are: lemmas about the row   *)
(* helpers; one lemma per action, that it preserves IndInv; the invariance *)
(* theorems; the two action properties; and the refinement of              *)
(* PublishedDocument.                                                      *)
(***************************************************************************)
EXTENDS DocumentIndex, TLAPS

-----------------------------------------------------------------------------
(* Rows *)

(* The values of background_task.status.                                  *)
Statuses == {"NONE", "PENDING", "RUNNING", "RETRY_WAIT", "SUCCEEDED", "FAILED", "CANCELLED"}

(* A row whose lease is released keeps everything but status and lease.    *)
LEMMA ReleasedRow ==
  ASSUME TypeOK, NEW t \in Tasks, NEW s \in Statuses
  PROVE  /\ Released(t, s) \in Task
         /\ Released(t, s).status = s
         /\ Released(t, s).revision = task[t].revision
         /\ Released(t, s).generation = task[t].generation
         /\ Released(t, s).base = task[t].base
         /\ Released(t, s).attempts = task[t].attempts
         /\ Released(t, s).max = task[t].max
         /\ Released(t, s).epoch = task[t].epoch
         /\ ~Released(t, s).live
<1>1. task[t] \in Task
  BY DEF TypeOK
<1>2. Released(t, s) \in Task
  BY <1>1 DEF Released, Task, Statuses
<1> QED
  BY <1>1, <1>2 DEF Released, Task

(* Cancellation moves the epoch of unfinished tasks, and nothing else.     *)
LEMMA CancelledRow ==
  ASSUME TypeOK, TaskCountersAgree
  PROVE  /\ CancelledTasks \in [Tasks -> Task]
         /\ \A t \in Tasks :
              /\ CancelledTasks[t].status = IF task[t].status \in ActiveStatuses
                                            THEN "CANCELLED" ELSE task[t].status
              /\ CancelledTasks[t].epoch = IF task[t].status \in ActiveStatuses
                                           THEN task[t].epoch + 1 ELSE task[t].epoch
              /\ CancelledTasks[t].revision = task[t].revision
              /\ CancelledTasks[t].generation = task[t].generation
              /\ CancelledTasks[t].base = task[t].base
              /\ CancelledTasks[t].attempts = task[t].attempts
              /\ CancelledTasks[t].max = task[t].max
<1>1. SUFFICES ASSUME NEW t \in Tasks
               PROVE  /\ CancelledTasks[t] \in Task
                      /\ CancelledTasks[t].status = IF task[t].status \in ActiveStatuses
                                                    THEN "CANCELLED" ELSE task[t].status
                      /\ CancelledTasks[t].epoch = IF task[t].status \in ActiveStatuses
                                                   THEN task[t].epoch + 1 ELSE task[t].epoch
                      /\ CancelledTasks[t].revision = task[t].revision
                      /\ CancelledTasks[t].generation = task[t].generation
                      /\ CancelledTasks[t].base = task[t].base
                      /\ CancelledTasks[t].attempts = task[t].attempts
                      /\ CancelledTasks[t].max = task[t].max
  BY DEF CancelledTasks
<1>2. task[t] \in Task
  BY DEF TypeOK
<1>3. CASE task[t].status \notin ActiveStatuses
  BY <1>2, <1>3 DEF CancelledTasks
<1>4. CASE task[t].status \in ActiveStatuses
  <2> DEFINE r == Released(t, "CANCELLED")
  <2>1. CancelledTasks[t] = [r EXCEPT !.epoch = r.epoch + 1]
    BY <1>4 DEF CancelledTasks
  <2>2. r \in Task /\ r.epoch = task[t].epoch /\ r.status = "CANCELLED"
        /\ r.revision = task[t].revision /\ r.generation = task[t].generation
        /\ r.base = task[t].base /\ r.attempts = task[t].attempts /\ r.max = task[t].max
    BY ReleasedRow DEF Statuses
  <2>3. task[t].epoch + 1 \in 0..(AttemptCap + 1)
    <3>1. task[t].epoch = task[t].attempts
      BY <1>2, <1>4 DEF TaskCountersAgree, ActiveStatuses, Task
    <3> QED BY <1>2, <3>1, AttemptsAssumption DEF Task
  <2>4. [r EXCEPT !.epoch = r.epoch + 1] \in Task
    <3> HIDE DEF r
    <3> QED BY <2>2, <2>3 DEF Task
  <2>5. QED
    <3> HIDE DEF r
    <3> QED BY <1>4, <2>1, <2>2, <2>4 DEF Task
<1>5. QED BY <1>3, <1>4

(* A new task: PENDING, without attempts, for the revision it was made for. *)
LEMMA NewTaskRow ==
  ASSUME NEW r \in 0..MaxRevision, NEW g \in Generations, NEW b \in 0..MaxGeneration,
         NEW f \in Targets \cup {None}
  PROVE  /\ NewTask(r, g, b, f) \in Task
         /\ NewTask(r, g, b, f).status = "PENDING"
         /\ NewTask(r, g, b, f).revision = r
         /\ NewTask(r, g, b, f).generation = g
         /\ NewTask(r, g, b, f).base = b
         /\ NewTask(r, g, b, f).attempts = 0
         /\ NewTask(r, g, b, f).max = MaxAttempts
         /\ NewTask(r, g, b, f).epoch = 0
<1>1. /\ 0 \in 0..AttemptCap /\ MaxAttempts \in 0..AttemptCap /\ 0 \in 0..(AttemptCap + 1)
      /\ g \in 0..MaxGeneration /\ 0 \in 0..MaxRevision /\ 0 \in 0..MaxGeneration
  BY AttemptsAssumption, BoundsAssumption DEF Generations
<1>2. NoTask \in Task
  BY <1>1 DEF NoTask, Task
<1>3. NewTask(r, g, b, f) \in Task
  BY <1>1, <1>2 DEF NewTask, Task
<1> QED
  BY <1>2, <1>3 DEF NewTask, NoTask, Task

(* Closing the attempts of a task changes its RUNNING attempt only. *)
LEMMA ClosedAttemptsRow ==
  ASSUME TypeOK, NEW t \in Tasks, NEW s \in AttemptStatus
  PROVE  /\ ClosedAttempts(t, s) \in [Epochs -> AttemptStatus]
         /\ \A e \in Epochs : ClosedAttempts(t, s)[e] =
              IF attempt[t][e] = "RUNNING" THEN s ELSE attempt[t][e]
BY DEF ClosedAttempts, TypeOK

(* Closing the generations changes the status of BUILDING ones only. *)
LEMMA ClosedGenerationsRow ==
  ASSUME TypeOK, NEW s \in {"READY", "FAILED", "CANCELLED"}
  PROVE  /\ ClosedGenerations(s) \in [Generations -> Generation]
         /\ \A g \in Generations :
              /\ ClosedGenerations(s)[g].status =
                   IF generation[g].status = "BUILDING" THEN s ELSE generation[g].status
              /\ ClosedGenerations(s)[g].revision = generation[g].revision
              /\ ClosedGenerations(s)[g].staged = generation[g].staged
BY DEF ClosedGenerations, TypeOK, Generation

(* Failing a generation changes its status only, and only if BUILDING. *)
LEMMA FailedGenerationRow ==
  ASSUME TypeOK, NEW h \in Generations
  PROVE  /\ FailedGeneration(h) \in [Generations -> Generation]
         /\ \A g \in Generations :
              /\ FailedGeneration(h)[g].status =
                   IF g = h /\ generation[g].status = "BUILDING" THEN "FAILED"
                                                               ELSE generation[g].status
              /\ FailedGeneration(h)[g].revision = generation[g].revision
              /\ FailedGeneration(h)[g].staged = generation[g].staged
BY DEF FailedGeneration, TypeOK, Generation

(* A fresh number is above everything that exists.                         *)
LEMMA FreshGeneration ==
  ASSUME NEW g \in Generations, NextGeneration(g)
  PROVE  ~Generated(g) /\ \A h \in Generations : Generated(h) => h < g
BY DEF NextGeneration, Generated, Generations

(* A fresh task number is not in use. *)
LEMMA FreshTask ==
  ASSUME NEW t \in Tasks, NextTask(t)
  PROVE  ~Created(t)
BY DEF NextTask, Created, Tasks

-----------------------------------------------------------------------------
(* Each action preserves the inductive invariant.                          *)

(* First upload: nothing but the new rows exists. *)
LEMMA UploadDocumentKeeps == IndInv /\ UploadDocument => IndInv'
<1> SUFFICES ASSUME IndInv, UploadDocument PROVE IndInv'
  OBVIOUS
<1> USE DEF IndInv
<1>1. PICK g \in Generations, t \in Tasks :
        /\ NextGeneration(g) /\ NextTask(t)
        /\ generation' = [generation EXCEPT ![g] = NewGeneration(1)]
        /\ task' = [task EXCEPT ![t] = NewTask(1, g, 0, None)]
  BY DEF UploadDocument
<1>2. /\ docStatus = "NONE" /\ active = 0 /\ work = {}
      /\ docStatus' = "DRAFT" /\ revisions' = 1 /\ desired' = 1
      /\ active' = 0 /\ attempt' = attempt /\ work' = work
      /\ 1 \in 0..MaxRevision
      /\ \A h \in Generations : ~Generated(h)
      /\ \A s \in Tasks : ~Created(s)
  BY DEF UploadDocument, PointersAgree, PipelinesWereClaimed, OpenStatuses, Revisions
<1>3. /\ NewGeneration(1) \in Generation
      /\ NewGeneration(1).status = "BUILDING" /\ NewGeneration(1).revision = 1
  BY <1>2 DEF NewGeneration, Generation
<1>4. /\ task'[t] = NewTask(1, g, 0, None)
      /\ task' \in [Tasks -> Task]
      /\ \A s \in Tasks \ {t} : task'[s] = task[s]
      /\ task[t].attempts = 0
  BY <1>1, <1>2, NewTaskRow, BoundsAssumption DEF TypeOK, TaskCountersAgree
<1>5. /\ task'[t].status = "PENDING" /\ task'[t].revision = 1 /\ task'[t].generation = g
      /\ task'[t].base = 0 /\ task'[t].attempts = 0 /\ task'[t].max = MaxAttempts
      /\ task'[t].epoch = 0
  BY <1>2, <1>4, NewTaskRow, BoundsAssumption
<1>6. /\ generation' \in [Generations -> Generation]
      /\ generation'[g].status = "BUILDING" /\ generation'[g].revision = 1
      /\ \A h \in Generations \ {g} : generation'[h] = generation[h]
  BY <1>1, <1>3 DEF TypeOK
<1>7. TypeOK'
  BY <1>2, <1>4, <1>6 DEF TypeOK
<1>8. PointersAgree'
  BY <1>2 DEF PointersAgree, OpenStatuses
<1>9. GenerationsFollowRevisions'
  BY <1>2, <1>6 DEF GenerationsFollowRevisions, Generated, Generations
<1>10. TasksReferToRows'
  BY <1>2, <1>4, <1>5, <1>6 DEF TasksReferToRows, Created, Generated
<1>11. TaskCountersAgree'
  BY <1>2, <1>4, <1>5, AttemptsAssumption DEF TaskCountersAgree, Created
<1>12. TasksMatchGenerations'
  BY <1>2, <1>4, <1>5, <1>6 DEF TasksMatchGenerations, Created, Generated, ActiveStatuses, OpenStatuses
<1>13. UploadsPublishFirst'
  BY <1>2, <1>4 DEF UploadsPublishFirst, Created
<1>14. PublishedIndexIsComplete'
  BY <1>2 DEF PublishedIndexIsComplete
<1>15. AttemptLogIsTrue'
  BY <1>2, <1>4, <1>5 DEF AttemptLogIsTrue, Created, Epochs
<1>16. PipelinesWereClaimed'
  BY <1>2 DEF PipelinesWereClaimed
<1> QED BY <1>7, <1>8, <1>9, <1>10, <1>11, <1>12, <1>13, <1>14, <1>15, <1>16

(* New revision: its generation is the highest and its task the only
   unfinished one. *)
LEMMA UploadRevisionKeeps ==
  ASSUME IndInv, NEW r \in Revisions, UploadRevision(r)
  PROVE  IndInv'
<1> USE DEF IndInv
<1>1. PICK g \in Generations, t \in Tasks :
        /\ NextGeneration(g) /\ NextTask(t)
        /\ generation' = [ClosedGenerations("CANCELLED") EXCEPT ![g] = NewGeneration(revisions')]
        /\ task' = [CancelledTasks EXCEPT ![t] = NewTask(revisions', g, 0, None)]
  BY DEF UploadRevision
<1>2. /\ docStatus \in OpenStatuses /\ docStatus' = docStatus
      /\ revisions \in Nat /\ revisions' = revisions + 1 /\ revisions' \in 1..MaxRevision
      /\ desired = revisions /\ desired' = revisions'
      /\ active' = active /\ work' = work
      /\ attempt' = CancelledAttempts
  BY BoundsAssumption DEF UploadRevision, PointersAgree, Revisions, TypeOK
<1>3. ~Created(t) /\ ~Generated(g) /\ \A h \in Generations : Generated(h) => h < g
  BY <1>1, FreshGeneration, FreshTask
<1>4. /\ NewGeneration(revisions') \in Generation
      /\ NewGeneration(revisions').status = "BUILDING"
      /\ NewGeneration(revisions').revision = revisions'
  BY <1>2, BoundsAssumption DEF NewGeneration, Generation
<1>5. /\ generation' \in [Generations -> Generation]
      /\ generation'[g].status = "BUILDING" /\ generation'[g].revision = revisions'
      /\ \A h \in Generations \ {g} :
           /\ generation'[h].status = IF generation[h].status = "BUILDING" THEN "CANCELLED"
                                                                    ELSE generation[h].status
           /\ generation'[h].revision = generation[h].revision
           /\ generation'[h].staged = generation[h].staged
  BY <1>1, <1>4, ClosedGenerationsRow
<1>6. /\ task' \in [Tasks -> Task]
      /\ task'[t] = NewTask(revisions', g, 0, None)
      /\ \A s \in Tasks \ {t} : task'[s] = CancelledTasks[s]
  BY <1>1, <1>2, NewTaskRow, CancelledRow, BoundsAssumption
<1>7. /\ task'[t].status = "PENDING" /\ task'[t].revision = revisions' /\ task'[t].generation = g
      /\ task'[t].base = 0 /\ task'[t].attempts = 0 /\ task'[t].max = MaxAttempts
      /\ task'[t].epoch = 0
  BY <1>2, <1>6, NewTaskRow, BoundsAssumption
<1>8. \A s \in Tasks \ {t} :
        /\ task'[s].status = IF task[s].status \in ActiveStatuses THEN "CANCELLED"
                                                                 ELSE task[s].status
        /\ task'[s].epoch = IF task[s].status \in ActiveStatuses THEN task[s].epoch + 1
                                                                ELSE task[s].epoch
        /\ task'[s].revision = task[s].revision /\ task'[s].generation = task[s].generation
        /\ task'[s].base = task[s].base /\ task'[s].attempts = task[s].attempts
        /\ task'[s].max = task[s].max
  BY <1>6, CancelledRow
<1>9. \A s \in Tasks : Created(s) => /\ task[s].generation \in Generations \ {g}
                                     /\ task[s].revision \in 1..revisions
                                     /\ s # t
  BY <1>3 DEF TasksReferToRows, GenerationsFollowRevisions, Created, Generated
<1>10. \A s \in Tasks \ {t} : Created(s)' <=> Created(s)
  BY <1>8 DEF Created, ActiveStatuses
<1>11. /\ attempt' \in [Tasks -> [Epochs -> AttemptStatus]]
       /\ \A s \in Tasks, e \in Epochs :
            attempt'[s][e] = IF attempt[s][e] = "RUNNING" THEN "CANCELLED" ELSE attempt[s][e]
  BY <1>2, ClosedAttemptsRow DEF CancelledAttempts, AttemptStatus
<1>12. TypeOK'
  BY <1>2, <1>5, <1>6, <1>11 DEF TypeOK
<1>13. PointersAgree'
  BY <1>2 DEF PointersAgree, OpenStatuses
<1>14. GenerationsFollowRevisions'
  BY <1>2, <1>3, <1>5 DEF GenerationsFollowRevisions, Generated, Generations
<1>15. TasksReferToRows'
  <2>1. \A s \in Tasks \ {t} : Created(s) =>
          /\ task[s].base # 0 => /\ task[s].base # g
                                 /\ task[s].base \in Generations
    BY <1>3, BoundsAssumption DEF TasksReferToRows, TypeOK, Task, Generations
  <2> QED
    BY <1>3, <1>5, <1>7, <1>8, <1>9, <1>10, <2>1 DEF TasksReferToRows, Generated, Created
<1>16. TaskCountersAgree'
  BY <1>7, <1>8, <1>10, AttemptsAssumption DEF TaskCountersAgree, Created, ActiveStatuses, TypeOK, Task
<1>17. TasksMatchGenerations'
  BY <1>2, <1>3, <1>5, <1>7, <1>8, <1>9, <1>10 DEF TasksMatchGenerations, Created, ActiveStatuses
<1>18. PublishedIndexIsComplete'
  BY <1>2, <1>3, <1>5 DEF PublishedIndexIsComplete, Generated, TypeOK, Generations
<1>19. UploadsPublishFirst'
  <2>1. active # 0 => generation'[active].revision # desired'
    BY <1>2, <1>3, <1>5 DEF PublishedIndexIsComplete, Generated, TypeOK, Generations
  <2>2. ASSUME NEW a \in Tasks, NEW b \in Tasks \ {a}, Created(a)', Created(b)',
               task'[a].base = 0, task'[b].base = 0
        PROVE  task'[a].revision # task'[b].revision
    <3>1. CASE a # t /\ b # t
      BY <1>8, <1>10, <2>2, <3>1 DEF UploadsPublishFirst
    <3>2. CASE a = t
      BY <1>2, <1>7, <1>8, <1>9, <1>10, <2>2, <3>2
    <3>3. CASE b = t
      BY <1>2, <1>7, <1>8, <1>9, <1>10, <2>2, <3>3
    <3> QED BY <3>1, <3>2, <3>3
  <2> QED BY <1>2, <2>1, <2>2 DEF UploadsPublishFirst
<1>20. AttemptLogIsTrue'
  <2>1. \A e \in Epochs : attempt[t][e] = "NONE"
    BY <1>3, AttemptsAssumption DEF AttemptLogIsTrue, TaskCountersAgree, Epochs
  <2>2. \A s \in Tasks \ {t} : task'[s].status = "SUCCEEDED" =>
          generation'[task'[s].generation].status = "READY"
    BY <1>3, <1>5, <1>8, <1>9 DEF TasksMatchGenerations, Created, ActiveStatuses
  <2>3. \A e \in Epochs :
     /\ attempt'[t][e] # "NONE" <=> e <= task'[t].attempts
     /\ attempt'[t][e] = "RUNNING" <=> task'[t].status = "RUNNING" /\ task'[t].epoch = e
     /\ attempt'[t][e] = "SUCCEEDED" <=> task'[t].status = "SUCCEEDED" /\ task'[t].epoch = e
     /\ task'[t].status # "SUCCEEDED"
    BY <1>7, <1>11, <2>1 DEF Epochs
  <2>4. \A s \in Tasks \ {t}, e \in Epochs :
     /\ attempt'[s][e] # "NONE" <=> e <= task'[s].attempts
     /\ attempt'[s][e] = "RUNNING" <=> task'[s].status = "RUNNING" /\ task'[s].epoch = e
     /\ attempt'[s][e] = "SUCCEEDED" <=> task'[s].status = "SUCCEEDED" /\ task'[s].epoch = e
    BY <1>8, <1>11 DEF AttemptLogIsTrue, ActiveStatuses
  <2> QED
    BY <2>2, <2>3, <2>4 DEF AttemptLogIsTrue
<1>21. PipelinesWereClaimed'
  <2>1. task[t].attempts = 0
    BY <1>3 DEF TaskCountersAgree
  <2>2. \A p \in work : p.task \in Tasks
    BY DEF TypeOK, Pipeline
  <2>3. \A s \in Tasks : task'[s].attempts = task[s].attempts /\ task'[s].status # "RUNNING"
    BY <1>7, <1>8, <2>1 DEF ActiveStatuses
  <2> QED
    BY <1>2, <2>2, <2>3 DEF PipelinesWereClaimed, OpenStatuses
<1> QED
  BY <1>12, <1>13, <1>14, <1>15, <1>16, <1>17, <1>18, <1>19, <1>20, <1>21

(* Retry: the task moves to a fresh generation of the same revision. *)
LEMMA RetryTaskKeeps ==
  ASSUME IndInv, NEW t \in Tasks, RetryTask(t)
  PROVE  IndInv'
<1> USE DEF IndInv
<1>1. PICK g \in Generations :
        /\ NextGeneration(g)
        /\ generation' = [generation EXCEPT ![g] = NewGeneration(generation[task[t].generation].revision)]
        /\ task' = [task EXCEPT ![t] =
                      [@ EXCEPT !.status = "PENDING", !.generation = g,
                                !.max = RetriedMax(task[t].attempts)]]
  BY DEF RetryTask
<1>2. /\ docStatus \in OpenStatuses /\ desired = revisions
      /\ task[t].status = "FAILED" /\ task[t].revision = desired
      /\ task[t].attempts < AttemptCap
      /\ UNCHANGED <<docStatus, revisions, desired, active, attempt, work>>
      /\ task[t] \in Task
  BY DEF RetryTask, PointersAgree, TypeOK
<1>3. ~Generated(g) /\ \A h \in Generations : Generated(h) => h < g
  BY <1>1, FreshGeneration
<1>4. /\ task[t].generation \in Generations
      /\ generation[task[t].generation].revision = desired
      /\ desired \in 1..revisions
  BY <1>2 DEF TasksReferToRows, Created, GenerationsFollowRevisions, Generated
<1>5. /\ RetriedMax(task[t].attempts) \in 0..AttemptCap
      /\ task[t].attempts <= RetriedMax(task[t].attempts)
  BY <1>2, AttemptsAssumption DEF RetriedMax, Task
<1>6. /\ generation' \in [Generations -> Generation]
      /\ generation'[g].status = "BUILDING" /\ generation'[g].revision = desired
      /\ \A h \in Generations \ {g} : generation'[h] = generation[h]
  BY <1>1, <1>4 DEF NewGeneration, Generation, TypeOK
<1>7. g \in 0..MaxGeneration
  BY DEF Generations
<1>8. [task[t] EXCEPT !.status = "PENDING", !.generation = g,
                      !.max = RetriedMax(task[t].attempts)] \in Task
  BY <1>2, <1>5, <1>7 DEF Task
<1>9. /\ task' \in [Tasks -> Task]
      /\ \A s \in Tasks \ {t} : task'[s] = task[s]
  BY <1>1, <1>8 DEF TypeOK
<1>a. task'[t] = [task[t] EXCEPT !.status = "PENDING", !.generation = g,
                                 !.max = RetriedMax(task[t].attempts)]
  BY <1>1 DEF TypeOK
<1>10. /\ task'[t].status = "PENDING" /\ task'[t].generation = g
       /\ task'[t].max = RetriedMax(task[t].attempts)
       /\ task'[t].revision = desired /\ task'[t].base = task[t].base
       /\ task'[t].attempts = task[t].attempts /\ task'[t].epoch = task[t].epoch
  BY <1>2, <1>a DEF Task
<1>11. TypeOK'
  BY <1>2, <1>6, <1>9 DEF TypeOK
<1>12. PointersAgree'
  BY <1>2 DEF PointersAgree, OpenStatuses
<1>13. GenerationsFollowRevisions'
  BY <1>2, <1>3, <1>4, <1>6 DEF GenerationsFollowRevisions, Generated, Generations
<1>14. TasksReferToRows'
  <2>1. \A s \in Tasks : Created(s) => task[s].generation \in Generations \ {g}
    BY <1>3 DEF TasksReferToRows
  <2>2. \A s \in Tasks : Created(s) /\ task[s].base # 0 =>
          task[s].base \in Generations \ {g} /\ task[s].base < g
    BY <1>3, BoundsAssumption, SMTT(30) DEF TasksReferToRows, TypeOK, Task, Generations
  <2> QED
    BY <1>2, <1>3, <1>6, <1>9, <1>10, <2>1, <2>2 DEF TasksReferToRows, Generated, Created
<1>15. TaskCountersAgree'
  BY <1>2, <1>5, <1>9, <1>10 DEF TaskCountersAgree, Created
<1>16. TasksMatchGenerations'
  BY <1>2, <1>3, <1>6, <1>9, <1>10
  DEF TasksMatchGenerations, TasksReferToRows, Created, Generated, ActiveStatuses
<1>17. PublishedIndexIsComplete'
  BY <1>2, <1>3, <1>6 DEF PublishedIndexIsComplete, Generated, TypeOK, Generations
<1>18. UploadsPublishFirst'
  BY <1>2, <1>3, <1>6, <1>9, <1>10 DEF UploadsPublishFirst, Created, PublishedIndexIsComplete,
     Generated, TypeOK, Generations
<1>19. AttemptLogIsTrue'
  BY <1>2, <1>3, <1>6, <1>9, <1>10
  DEF AttemptLogIsTrue, TasksReferToRows, Created, Generated
<1>20. PipelinesWereClaimed'
  <2>1. \A p \in work : p.task \in Tasks
    BY DEF TypeOK, Pipeline
  <2> QED
    BY <1>2, <1>9, <1>10, <2>1 DEF PipelinesWereClaimed
<1> QED
  BY <1>11, <1>12, <1>13, <1>14, <1>15, <1>16, <1>17, <1>18, <1>19, <1>20

(* Re-chunking task: its base is the published generation, of the newest
   revision, below the fresh one. *)
LEMMA EnqueueReindexKeeps ==
  ASSUME IndInv, NEW b \in Generations, NEW f \in Targets, EnqueueReindex(b, f)
  PROVE  IndInv'
<1> USE DEF IndInv
<1>1. PICK g \in Generations, t \in Tasks :
        /\ NextGeneration(g) /\ NextTask(t)
        /\ generation' = [generation EXCEPT ![g] = NewGeneration(desired)]
        /\ task' = [task EXCEPT ![t] = NewTask(desired, g, b, f)]
  BY DEF EnqueueReindex
<1>2. /\ docStatus = "PUBLISHED" /\ docStatus \in OpenStatuses
      /\ active = b /\ generation[b].status = "READY" /\ generation[b].revision = desired
      /\ desired = revisions /\ desired \in 1..revisions /\ desired \in 0..MaxRevision
      /\ UNCHANGED <<docStatus, revisions, desired, active, attempt, work>>
      /\ b \in 0..MaxGeneration /\ b # 0 /\ f \in Targets \cup {None}
  BY BoundsAssumption DEF EnqueueReindex, PointersAgree, OpenStatuses, GenerationsFollowRevisions, Generated,
     Generations, TypeOK
<1>3. ~Created(t) /\ ~Generated(g) /\ \A h \in Generations : Generated(h) => h < g
  BY <1>1, FreshGeneration, FreshTask
<1>4. /\ generation' \in [Generations -> Generation]
      /\ generation'[g].status = "BUILDING" /\ generation'[g].revision = desired
      /\ \A h \in Generations \ {g} : generation'[h] = generation[h]
  BY <1>1, <1>2 DEF NewGeneration, Generation, TypeOK
<1>5. /\ task' \in [Tasks -> Task]
      /\ \A s \in Tasks \ {t} : task'[s] = task[s]
      /\ task'[t] = NewTask(desired, g, b, f)
  BY <1>1, <1>2, NewTaskRow DEF TypeOK
<1>6. /\ task'[t].status = "PENDING" /\ task'[t].revision = desired /\ task'[t].generation = g
      /\ task'[t].base = b /\ task'[t].attempts = 0 /\ task'[t].max = MaxAttempts
      /\ task'[t].epoch = 0
  BY <1>2, <1>5, NewTaskRow
<1>7. b \in Generations \ {g} /\ b < g
  BY <1>2, <1>3 DEF Generated
<1>8. \A s \in Tasks : Created(s) =>
        /\ s # t
        /\ task[s].generation \in Generations \ {g}
        /\ task[s].base # 0 => task[s].base \in Generations \ {g}
  BY <1>3, BoundsAssumption, SMTT(30) DEF TasksReferToRows, TypeOK, Task, Generations
<1>9. TypeOK'
  BY <1>2, <1>4, <1>5 DEF TypeOK
<1>10. PointersAgree'
  BY <1>2 DEF PointersAgree, OpenStatuses
<1>11. GenerationsFollowRevisions'
  BY <1>2, <1>3, <1>4 DEF GenerationsFollowRevisions, Generated, Generations
<1>12. TasksReferToRows'
  <2>1. \A s \in Tasks \ {t} : Created(s) <=> Created(s)'
    BY <1>5 DEF Created
  <2>2. \A h \in Generations \ {g} : Generated(h) <=> Generated(h)'
    BY <1>4 DEF Generated
  <2>3. ASSUME NEW s \in Tasks \ {t}, Created(s)'
        PROVE  /\ task'[s].generation \in Generations
               /\ generation'[task'[s].generation].status # "NONE"
               /\ generation'[task'[s].generation].revision = task'[s].revision
               /\ \A u \in Tasks \ {s} : Created(u)' => task'[u].generation # task'[s].generation
               /\ task'[s].base # 0 =>
                    /\ task'[s].base < task'[s].generation
                    /\ generation'[task'[s].base].status # "NONE"
                    /\ generation'[task'[s].base].revision = task'[s].revision
    BY <1>4, <1>5, <1>6, <1>8, <2>1, <2>2, <2>3 DEF TasksReferToRows, Generated
  <2>4. /\ task'[t].generation \in Generations
        /\ generation'[task'[t].generation].status # "NONE"
        /\ generation'[task'[t].generation].revision = task'[t].revision
        /\ \A u \in Tasks \ {t} : Created(u)' => task'[u].generation # task'[t].generation
        /\ task'[t].base < task'[t].generation
        /\ generation'[task'[t].base].status # "NONE"
        /\ generation'[task'[t].base].revision = task'[t].revision
    BY <1>2, <1>4, <1>5, <1>6, <1>7, <1>8, <2>1 DEF Generated
  <2> QED BY <2>3, <2>4 DEF TasksReferToRows, Generated
<1>13. TaskCountersAgree'
  BY <1>5, <1>6, AttemptsAssumption DEF TaskCountersAgree, Created
<1>14. TasksMatchGenerations'
  <2>1. ASSUME NEW s \in Tasks, task'[s].status # "NONE"
        PROVE  /\ task'[s].status \in ActiveStatuses =>
                    /\ docStatus' \in OpenStatuses
                    /\ task'[s].revision = desired'
                    /\ generation'[task'[s].generation].status = "BUILDING"
               /\ task'[s].status = "SUCCEEDED" =>
                    generation'[task'[s].generation].status = "READY"
    <3>1. CASE s = t
      BY <1>2, <1>4, <1>6, <3>1 DEF ActiveStatuses
    <3>2. CASE s # t
      <4>1. task'[s] = task[s] /\ Created(s)
        BY <1>5, <2>1, <3>2 DEF Created
      <4>2. generation'[task[s].generation] = generation[task[s].generation]
        BY <1>4, <1>8, <3>2, <4>1
      <4>3. /\ task[s].status \in ActiveStatuses =>
                 /\ docStatus \in OpenStatuses /\ task[s].revision = desired
                 /\ generation[task[s].generation].status = "BUILDING"
            /\ task[s].status = "SUCCEEDED" => generation[task[s].generation].status = "READY"
        BY <4>1 DEF TasksMatchGenerations
      <4> QED BY <1>2, <4>1, <4>2, <4>3
    <3> QED BY <3>1, <3>2
  <2>2. ASSUME NEW h \in Generations, generation'[h].status = "BUILDING"
        PROVE  \E s \in Tasks : task'[s].status \in ActiveStatuses /\ task'[s].generation = h
    <3>1. CASE h = g
      BY <1>6, <3>1 DEF ActiveStatuses
    <3>2. CASE h # g
      <4>1. PICK s \in Tasks : task[s].status \in ActiveStatuses /\ task[s].generation = h
        BY <1>4, <2>2, <3>2 DEF TasksMatchGenerations
      <4>2. s # t
        BY <1>3, <4>1 DEF Created, ActiveStatuses
      <4> QED BY <1>5, <4>1, <4>2
    <3> QED BY <3>1, <3>2
  <2> QED BY <2>1, <2>2 DEF TasksMatchGenerations, Created
<1>15. PublishedIndexIsComplete'
  BY <1>2, <1>4, <1>7 DEF PublishedIndexIsComplete
<1>16. UploadsPublishFirst'
  BY <1>2, <1>4, <1>5, <1>6, <1>7 DEF UploadsPublishFirst, Created
<1>17. AttemptLogIsTrue'
  <2>1. task[t].attempts = 0 /\ \A e \in Epochs : attempt[t][e] = "NONE"
    BY <1>3 DEF AttemptLogIsTrue, TaskCountersAgree, Epochs
  <2>2. \A s \in Tasks \ {t} : task[s].status = "SUCCEEDED" =>
          generation'[task[s].generation].status = "READY"
    BY <1>4, <1>8 DEF TasksMatchGenerations, Created
  <2>3. \A e \in Epochs : e > 0
    BY DEF Epochs
  <2> QED
    BY <1>2, <1>5, <1>6, <2>1, <2>2, <2>3 DEF AttemptLogIsTrue
<1>18. PipelinesWereClaimed'
  <2>1. \A p \in work : p.task \in Tasks
    BY DEF TypeOK, Pipeline
  <2>2. task[t].attempts = 0
    BY <1>3 DEF TaskCountersAgree
  <2> QED
    BY <1>2, <1>5, <1>6, <2>1, <2>2 DEF PipelinesWereClaimed
<1> QED
  BY <1>9, <1>10, <1>11, <1>12, <1>13, <1>14, <1>15, <1>16, <1>17, <1>18

(* Deletion: no task is left unfinished and no generation BUILDING. *)
LEMMA DeleteDocumentKeeps == IndInv /\ DeleteDocument => IndInv'
<1> SUFFICES ASSUME IndInv, DeleteDocument PROVE IndInv'
  OBVIOUS
<1> USE DEF IndInv
<1>1. /\ docStatus \in OpenStatuses /\ docStatus' = "DELETED" /\ active' = 0 /\ desired' = 0
      /\ UNCHANGED <<revisions, work>>
      /\ task' = CancelledTasks /\ attempt' = CancelledAttempts
      /\ generation' = ClosedGenerations("FAILED")
  BY DEF DeleteDocument
<1>2. /\ generation' \in [Generations -> Generation]
      /\ \A h \in Generations :
           /\ generation'[h].status = IF generation[h].status = "BUILDING" THEN "FAILED"
                                                                    ELSE generation[h].status
           /\ generation'[h].revision = generation[h].revision
  BY <1>1, ClosedGenerationsRow
<1>3. /\ task' \in [Tasks -> Task]
      /\ \A s \in Tasks :
           /\ task'[s].status = IF task[s].status \in ActiveStatuses THEN "CANCELLED"
                                                                    ELSE task[s].status
           /\ task'[s].epoch = IF task[s].status \in ActiveStatuses THEN task[s].epoch + 1
                                                                   ELSE task[s].epoch
           /\ task'[s].revision = task[s].revision /\ task'[s].generation = task[s].generation
           /\ task'[s].base = task[s].base /\ task'[s].attempts = task[s].attempts
           /\ task'[s].max = task[s].max
  BY <1>1, CancelledRow
<1>4. /\ attempt' \in [Tasks -> [Epochs -> AttemptStatus]]
      /\ \A s \in Tasks, e \in Epochs :
           attempt'[s][e] = IF attempt[s][e] = "RUNNING" THEN "CANCELLED" ELSE attempt[s][e]
  BY <1>1, ClosedAttemptsRow DEF CancelledAttempts, AttemptStatus
<1>5. /\ \A s \in Tasks : Created(s)' <=> Created(s)
      /\ \A h \in Generations : Generated(h)' <=> Generated(h)
  BY <1>2, <1>3 DEF Created, Generated, ActiveStatuses
<1>6. TypeOK'
  BY <1>1, <1>2, <1>3, <1>4, BoundsAssumption DEF TypeOK
<1>7. PointersAgree'
  BY <1>1 DEF PointersAgree, OpenStatuses
<1>8. GenerationsFollowRevisions'
  BY <1>1, <1>2, <1>5 DEF GenerationsFollowRevisions
<1>9. TasksReferToRows'
  <2>1. \A s \in Tasks : Created(s) /\ task[s].base # 0 => task[s].base \in Generations
    BY BoundsAssumption DEF TypeOK, Task, Generations
  <2> QED
    BY <1>2, <1>3, <1>5, <2>1 DEF TasksReferToRows
<1>10. TaskCountersAgree'
  BY <1>3, <1>5, SMTT(30) DEF TaskCountersAgree, ActiveStatuses, TypeOK, Task
<1>11. TasksMatchGenerations'
  BY <1>2, <1>3, <1>5 DEF TasksMatchGenerations, TasksReferToRows, ActiveStatuses
<1>12. PublishedIndexIsComplete'
  BY <1>1 DEF PublishedIndexIsComplete
<1>13. UploadsPublishFirst'
  BY <1>1, <1>3, <1>5 DEF UploadsPublishFirst
<1>14. AttemptLogIsTrue'
  <2>1. \A s \in Tasks : task'[s].status = "SUCCEEDED" =>
          generation'[task'[s].generation].status = "READY"
    BY <1>2, <1>3 DEF TasksMatchGenerations, TasksReferToRows, Created, ActiveStatuses
  <2>2. \A s \in Tasks, e \in Epochs :
          /\ attempt'[s][e] # "NONE" <=> e <= task'[s].attempts
          /\ attempt'[s][e] = "RUNNING" <=> task'[s].status = "RUNNING" /\ task'[s].epoch = e
          /\ attempt'[s][e] = "SUCCEEDED" <=> task'[s].status = "SUCCEEDED" /\ task'[s].epoch = e
    BY <1>3, <1>4 DEF AttemptLogIsTrue, ActiveStatuses
  <2> QED BY <2>1, <2>2 DEF AttemptLogIsTrue
<1>15. PipelinesWereClaimed'
  <2>1. \A p \in work : p.task \in Tasks
    BY DEF TypeOK, Pipeline
  <2>2. \A s \in Tasks : task'[s].attempts = task[s].attempts /\ task'[s].status # "RUNNING"
    BY <1>3 DEF ActiveStatuses
  <2> QED
    BY <1>1, <2>1, <2>2 DEF PipelinesWereClaimed, OpenStatuses
<1> QED
  BY <1>6, <1>7, <1>8, <1>9, <1>10, <1>11, <1>12, <1>13, <1>14, <1>15

(* Purge: no row is left; pipelines may still run. *)
LEMMA PurgeDocumentKeeps == IndInv /\ PurgeDocument => IndInv'
<1> SUFFICES ASSUME IndInv, PurgeDocument PROVE IndInv'
  OBVIOUS
<1> USE DEF IndInv
<1>1. /\ docStatus' = "PURGED" /\ revisions' = 0 /\ desired' = 0 /\ active' = 0
      /\ work' = work
      /\ generation' = [g \in Generations |-> NoGeneration]
      /\ task' = [t \in Tasks |-> NoTask]
      /\ attempt' = [t \in Tasks |-> NoAttempts]
  BY DEF PurgeDocument, PointersAgree, OpenStatuses
<1>2. /\ NoGeneration \in Generation /\ NoTask \in Task
      /\ NoAttempts \in [Epochs -> AttemptStatus]
  BY BoundsAssumption, AttemptsAssumption
  DEF NoGeneration, Generation, NoTask, Task, NoAttempts, AttemptStatus
<1>3. TypeOK'
  BY <1>1, <1>2, BoundsAssumption DEF TypeOK
<1>4. /\ \A t \in Tasks : task'[t].status = "NONE" /\ task'[t].attempts = 0 /\ task'[t].max = 0
                          /\ task'[t].epoch = 0 /\ task'[t].generation = 0
      /\ \A g \in Generations : generation'[g].status = "NONE"
      /\ \A t \in Tasks, e \in Epochs : attempt'[t][e] = "NONE"
  BY <1>1 DEF NoTask, NoGeneration, NoAttempts
<1>5. /\ PointersAgree' /\ GenerationsFollowRevisions' /\ TasksReferToRows'
      /\ UploadsPublishFirst' /\ PublishedIndexIsComplete'
  BY <1>1, <1>4 DEF PointersAgree, GenerationsFollowRevisions, TasksReferToRows,
     UploadsPublishFirst, PublishedIndexIsComplete, Created, Generated, OpenStatuses
<1>6. TaskCountersAgree' /\ TasksMatchGenerations'
  BY <1>4 DEF TaskCountersAgree, TasksMatchGenerations, Created, Generated
<1>7. AttemptLogIsTrue'
  BY <1>4 DEF AttemptLogIsTrue, Epochs
<1>8. PipelinesWereClaimed'
  <2>1. \A p \in work : p.task \in Tasks
    BY DEF TypeOK, Pipeline
  <2> QED
    BY <1>1, <1>4, <2>1 DEF PipelinesWereClaimed
<1> QED BY <1>3, <1>5, <1>6, <1>7, <1>8

(* A stuttering step. *)
LEMMA StutterKeeps == IndInv /\ UNCHANGED vars => IndInv'
<1> SUFFICES ASSUME IndInv, UNCHANGED vars PROVE IndInv'
  OBVIOUS
<1> USE DEF IndInv, vars
<1>1. TypeOK' /\ PointersAgree' /\ GenerationsFollowRevisions' /\ TasksReferToRows'
  BY DEF TypeOK, PointersAgree, GenerationsFollowRevisions, TasksReferToRows, Generated, Created
<1>2. TaskCountersAgree' /\ TasksMatchGenerations' /\ UploadsPublishFirst'
  BY DEF TaskCountersAgree, TasksMatchGenerations, UploadsPublishFirst, Created
<1>3. PublishedIndexIsComplete' /\ AttemptLogIsTrue' /\ PipelinesWereClaimed'
  BY DEF PublishedIndexIsComplete, AttemptLogIsTrue, PipelinesWereClaimed
<1> QED BY <1>1, <1>2, <1>3

(* Nothing but the lease deadline changes. *)
LEMMA ExpireLeaseKeeps ==
  ASSUME IndInv, NEW t \in Tasks, ExpireLease(t)
  PROVE  IndInv'
<1> USE DEF IndInv
<1>1. /\ task' = [task EXCEPT ![t].live = FALSE]
      /\ UNCHANGED <<docStatus, revisions, desired, active, generation, attempt, work>>
  BY DEF ExpireLease
<1>2. task[t] \in Task
  BY DEF TypeOK
<1>3. [task[t] EXCEPT !.live = FALSE] \in Task
  BY <1>2 DEF Task
<1>4. task' \in [Tasks -> Task]
  BY <1>1, <1>3 DEF TypeOK
<1>5. \A s \in Tasks : /\ task'[s].status = task[s].status
                       /\ task'[s].revision = task[s].revision
                       /\ task'[s].generation = task[s].generation
                       /\ task'[s].base = task[s].base
                       /\ task'[s].attempts = task[s].attempts
                       /\ task'[s].max = task[s].max
                       /\ task'[s].epoch = task[s].epoch
  BY <1>1, <1>2 DEF TypeOK, Task
<1>6. TypeOK'
  BY <1>1, <1>4 DEF TypeOK
<1>7. PointersAgree' /\ GenerationsFollowRevisions' /\ TasksReferToRows'
  BY <1>1, <1>5 DEF PointersAgree, GenerationsFollowRevisions, TasksReferToRows, Generated, Created
<1>8. TaskCountersAgree' /\ TasksMatchGenerations' /\ UploadsPublishFirst'
  BY <1>1, <1>5 DEF TaskCountersAgree, TasksMatchGenerations, UploadsPublishFirst, Created
<1>9. \A p \in work : p.task \in Tasks
  BY DEF TypeOK, Pipeline
<1>10. PublishedIndexIsComplete' /\ AttemptLogIsTrue' /\ PipelinesWereClaimed'
  BY <1>1, <1>5, <1>9 DEF PublishedIndexIsComplete, AttemptLogIsTrue, PipelinesWereClaimed
<1> QED BY <1>6, <1>7, <1>8, <1>10

(* A pipeline that moves on is still a pipeline, of the same claim.        *)
LEMMA AdvancedWork ==
  ASSUME TypeOK, NEW p \in work,
         NEW phase \in {"claimed", "parsed", "staged", "embedded", "committed"}
  PROVE  /\ Advance(p, phase) \subseteq Pipeline
         /\ \A q \in Advance(p, phase) : \E r \in work :
              q.task = r.task /\ q.epoch = r.epoch /\ q.generation = r.generation
              /\ q.revision = r.revision
<1>1. p \in Pipeline
  BY DEF TypeOK
<1>2. [p EXCEPT !.phase = phase] \in Pipeline
  BY <1>1 DEF Pipeline
<1>3. /\ [p EXCEPT !.phase = phase].task = p.task
      /\ [p EXCEPT !.phase = phase].epoch = p.epoch
      /\ [p EXCEPT !.phase = phase].generation = p.generation
      /\ [p EXCEPT !.phase = phase].revision = p.revision
  BY <1>1 DEF Pipeline
<1>4. \A q \in Advance(p, phase) : q \in work \/ q = [p EXCEPT !.phase = phase]
  BY DEF Advance
<1> QED
  BY <1>2, <1>3, <1>4 DEF TypeOK

(* Steps that change nothing in the database.                              *)
LEMMA QuietStepKeeps ==
  ASSUME IndInv, NEW p \in work,
         UNCHANGED <<docStatus, revisions, desired, active, generation, task, attempt>>,
         \/ work' = work \ {p}
         \/ \E phase \in {"claimed", "parsed", "staged", "embedded", "committed"} :
              work' = Advance(p, phase)
  PROVE  IndInv'
<1> USE DEF IndInv
<1>1. /\ work' \subseteq Pipeline
      /\ work = {} => work' = {}
      /\ \A q \in work' : \E r \in work :
           q.task = r.task /\ q.epoch = r.epoch /\ q.generation = r.generation
           /\ q.revision = r.revision
  BY AdvancedWork DEF TypeOK
<1>2. TypeOK'
  BY <1>1 DEF TypeOK
<1>3. PointersAgree' /\ GenerationsFollowRevisions' /\ TasksReferToRows'
  BY DEF PointersAgree, GenerationsFollowRevisions, TasksReferToRows, Generated, Created
<1>4. TaskCountersAgree' /\ TasksMatchGenerations' /\ UploadsPublishFirst'
  BY DEF TaskCountersAgree, TasksMatchGenerations, UploadsPublishFirst, Created
<1>5. PublishedIndexIsComplete' /\ AttemptLogIsTrue'
  BY DEF PublishedIndexIsComplete, AttemptLogIsTrue
<1>6. PipelinesWereClaimed'
  BY <1>1 DEF PipelinesWereClaimed
<1> QED BY <1>2, <1>3, <1>4, <1>5, <1>6

(* Storing the raw chunks of the BUILDING generation of the lease. *)
LEMMA StageChunksKeeps ==
  ASSUME IndInv, NEW p \in work, StageChunks(p)
  PROVE  IndInv'
<1> USE DEF IndInv
<1>1. /\ generation' = [generation EXCEPT ![p.generation].staged = TRUE]
      /\ work' = Advance(p, "staged")
      /\ UNCHANGED <<docStatus, revisions, desired, active, task, attempt>>
      /\ docStatus # "NONE"
  BY DEF StageChunks, RevisionWanted, OpenStatuses
<1>2. /\ generation' \in [Generations -> Generation]
      /\ \A g \in Generations :
           /\ generation'[g].status = generation[g].status
           /\ generation'[g].revision = generation[g].revision
           /\ generation[g].staged => generation'[g].staged
  BY <1>1, ZenonT(40) DEF TypeOK, Generation
<1>3. /\ work' \subseteq Pipeline
      /\ \A q \in work' : \E r \in work :
           q.task = r.task /\ q.epoch = r.epoch /\ q.generation = r.generation
           /\ q.revision = r.revision
  BY <1>1, AdvancedWork
<1>4. TypeOK'
  BY <1>1, <1>2, <1>3 DEF TypeOK
<1>5. PointersAgree' /\ GenerationsFollowRevisions'
  BY <1>1, <1>2 DEF PointersAgree, GenerationsFollowRevisions, Generated, Created
<1>6. TasksReferToRows'
  <2>1. \A s \in Tasks : Created(s) /\ task[s].base # 0 => task[s].base \in Generations
    BY BoundsAssumption DEF TypeOK, Task, Generations
  <2> QED BY <1>1, <1>2, <2>1 DEF TasksReferToRows, Generated, Created
<1>7. TaskCountersAgree' /\ TasksMatchGenerations'
  BY <1>1, <1>2 DEF TaskCountersAgree, TasksMatchGenerations, TasksReferToRows, Created
<1>8. PublishedIndexIsComplete'
  BY <1>1, <1>2 DEF PublishedIndexIsComplete, TypeOK, Generations
<1>9. UploadsPublishFirst'
  BY <1>1, <1>2 DEF UploadsPublishFirst, Created, TypeOK, Generations
<1>10. AttemptLogIsTrue'
  BY <1>1, <1>2 DEF AttemptLogIsTrue, TasksReferToRows, Created
<1>11. PipelinesWereClaimed'
  BY <1>1, <1>3 DEF PipelinesWereClaimed
<1> QED BY <1>4, <1>5, <1>6, <1>7, <1>8, <1>9, <1>10, <1>11

(* A claim: the new epoch is above that of every earlier pipeline.         *)
LEMMA ClaimTaskKeeps ==
  ASSUME IndInv, NEW w \in Workers, NEW t \in Tasks, ClaimTask(w, t)
  PROVE  IndInv'
<1> USE DEF IndInv
<1> DEFINE n == task[t].attempts + 1
           row == Leased(t, w)
           new == [task |-> t, revision |-> task[t].revision,
                   generation |-> task[t].generation, owner |-> w,
                   epoch |-> task'[t].epoch, phase |-> "claimed"]
<1>1. /\ task' = [task EXCEPT ![t] = row]
      /\ attempt' = [attempt EXCEPT ![t] =
                       [ClosedAttempts(t, "LOST") EXCEPT ![task'[t].epoch] = "RUNNING"]]
      /\ work' = work \cup {new}
      /\ UNCHANGED <<docStatus, revisions, desired, active, generation>>
      /\ task[t].attempts < task[t].max
      /\ task[t].status \in ActiveStatuses
  <2>1. Claimable(t) /\ task[t].attempts < task[t].max
    BY DEF ClaimTask
  <2>2. task[t].status \in ActiveStatuses
    BY <2>1 DEF Claimable, ActiveStatuses
  <2>3. /\ task' = [task EXCEPT ![t] = row]
        /\ attempt' = [attempt EXCEPT ![t] =
                         [ClosedAttempts(t, "LOST") EXCEPT ![task'[t].epoch] = "RUNNING"]]
        /\ work' = work \cup {new}
        /\ UNCHANGED <<docStatus, revisions, desired, active, generation>>
    BY DEF ClaimTask
  <2> QED BY <2>1, <2>2, <2>3
<1>2. task[t] \in Task
  BY DEF TypeOK
<1>3. /\ Created(t) /\ task[t].epoch = task[t].attempts
      /\ task[t].attempts \in Nat /\ n \in Epochs
      /\ docStatus \in OpenStatuses /\ task[t].revision = desired
      /\ generation[task[t].generation].status = "BUILDING"
      /\ task[t].status # "SUCCEEDED"
  <2>1. Created(t) /\ task[t].status # "CANCELLED" /\ task[t].status # "SUCCEEDED"
    BY <1>1 DEF Created, ActiveStatuses
  <2>2. /\ docStatus \in OpenStatuses /\ task[t].revision = desired
        /\ generation[task[t].generation].status = "BUILDING"
    BY <1>1, <2>1 DEF TasksMatchGenerations
  <2>3. task[t].attempts \in 0..AttemptCap /\ task[t].max \in 0..AttemptCap
    BY <1>2 DEF Task
  <2>4. task[t].epoch \in 0..(AttemptCap + 1)
    BY <1>2 DEF Task
  <2>5. task[t].epoch = task[t].attempts
    BY <2>1, <2>3, <2>4 DEF TaskCountersAgree
  <2>6. n \in Epochs
    BY <1>1, <2>3, AttemptsAssumption DEF Epochs
  <2> QED BY <2>1, <2>2, <2>3, <2>5, <2>6
<1>4. /\ row \in Task
      /\ row.status = "RUNNING" /\ row.revision = task[t].revision
      /\ row.generation = task[t].generation /\ row.base = task[t].base
      /\ row.attempts = n /\ row.max = task[t].max /\ row.epoch = n
  <2>1. n \in 0..AttemptCap /\ task[t].epoch + 1 \in 0..(AttemptCap + 1)
    BY <1>3, AttemptsAssumption DEF Epochs
  <2>2. row \in Task
    BY <1>2, <2>1 DEF Leased, Task
  <2> QED BY <1>2, <1>3, <2>2 DEF Leased, Task
<1> HIDE DEF row
<1>5. /\ task' \in [Tasks -> Task]
      /\ task'[t] = row
      /\ \A s \in Tasks \ {t} : task'[s] = task[s]
  BY <1>1, <1>4 DEF TypeOK
<1>6. \A s \in Tasks : /\ task'[s].revision = task[s].revision
                       /\ task'[s].generation = task[s].generation
                       /\ task'[s].base = task[s].base
                       /\ task'[s].max = task[s].max
                       /\ Created(s)' <=> Created(s)
                       /\ task'[s].status \in ActiveStatuses <=> task[s].status \in ActiveStatuses
                       /\ task'[s].status = "SUCCEEDED" <=> task[s].status = "SUCCEEDED"
  BY <1>1, <1>3, <1>4, <1>5 DEF Created, ActiveStatuses
<1>7. /\ attempt' \in [Tasks -> [Epochs -> AttemptStatus]]
      /\ \A s \in Tasks \ {t} : attempt'[s] = attempt[s]
      /\ \A e \in Epochs : attempt'[t][e] = IF e = n THEN "RUNNING"
                                            ELSE IF attempt[t][e] = "RUNNING" THEN "LOST"
                                            ELSE attempt[t][e]
  <2> DEFINE closed == ClosedAttempts(t, "LOST")
  <2>1. /\ closed \in [Epochs -> AttemptStatus]
        /\ \A e \in Epochs : closed[e] = IF attempt[t][e] = "RUNNING" THEN "LOST"
                                                                      ELSE attempt[t][e]
    BY ClosedAttemptsRow DEF AttemptStatus
  <2>2. attempt' = [attempt EXCEPT ![t] = [closed EXCEPT ![n] = "RUNNING"]]
    BY <1>1, <1>4, <1>5
  <2> HIDE DEF closed, n
  <2>3. [closed EXCEPT ![n] = "RUNNING"] \in [Epochs -> AttemptStatus]
    BY <2>1 DEF AttemptStatus
  <2> QED BY <1>3, <2>1, <2>2, <2>3 DEF TypeOK
<1>8. new \in Pipeline /\ new.task = t /\ new.epoch = n
      /\ new.revision = task[t].revision /\ new.generation = task[t].generation
  <2>1. task[t].generation \in Generations
    BY <1>3 DEF TasksReferToRows
  <2>2. task[t].revision \in Revisions
    BY <1>3, BoundsAssumption DEF PointersAgree, TypeOK, Revisions
  <2> QED BY <1>3, <1>4, <1>5, <2>1, <2>2 DEF Pipeline
<1> HIDE DEF new
<1>9. TypeOK'
  BY <1>1, <1>5, <1>7, <1>8 DEF TypeOK
<1>10. PointersAgree' /\ GenerationsFollowRevisions'
  BY <1>1, <1>3 DEF PointersAgree, GenerationsFollowRevisions, Generated, OpenStatuses
<1>11. TasksReferToRows' /\ UploadsPublishFirst'
  BY <1>1, <1>6 DEF TasksReferToRows, UploadsPublishFirst, Generated
<1>12. TaskCountersAgree'
  BY <1>1, <1>2, <1>3, <1>4, <1>5, <1>6 DEF TaskCountersAgree, Task
<1>13. TasksMatchGenerations'
  BY <1>1, <1>6 DEF TasksMatchGenerations
<1>14. PublishedIndexIsComplete'
  BY <1>1 DEF PublishedIndexIsComplete
<1>15. AttemptLogIsTrue'
  <2>1. \A e \in Epochs :
          /\ attempt[t][e] # "NONE" <=> e < n
          /\ attempt[t][e] # "SUCCEEDED"
    BY <1>3 DEF AttemptLogIsTrue, Epochs
  <2>2. \A e \in Epochs :
          /\ attempt'[t][e] # "NONE" <=> e <= task'[t].attempts
          /\ attempt'[t][e] = "RUNNING" <=> task'[t].status = "RUNNING" /\ task'[t].epoch = e
          /\ attempt'[t][e] = "SUCCEEDED" <=> task'[t].status = "SUCCEEDED" /\ task'[t].epoch = e
    BY <1>3, <1>4, <1>5, <1>7, <2>1 DEF Epochs
  <2> QED BY <1>1, <1>3, <1>5, <1>6, <1>7, <2>2 DEF AttemptLogIsTrue
<1>16. PipelinesWereClaimed'
  <2>1. docStatus' # "NONE" /\ docStatus # "PURGED"
    BY <1>1, <1>3 DEF OpenStatuses
  <2>2. ASSUME NEW p \in work
        PROVE  /\ p.epoch <= task'[p.task].attempts
               /\ task'[p.task].status = "RUNNING" /\ task'[p.task].epoch = p.epoch =>
                    /\ task'[p.task].generation = p.generation
                    /\ task'[p.task].revision = p.revision
    <3>1. p.task \in Tasks /\ p.epoch \in Nat
      BY DEF TypeOK, Pipeline, Epochs
    <3>2. p.epoch <= task[p.task].attempts
      BY <2>1 DEF PipelinesWereClaimed
    <3>3. CASE p.task = t
      BY <1>3, <1>4, <1>5, <3>1, <3>2, <3>3
    <3>4. CASE p.task # t
      BY <1>5, <3>1, <3>2, <3>4 DEF PipelinesWereClaimed
    <3> QED BY <3>3, <3>4
  <2>3. /\ new.epoch <= task'[new.task].attempts
        /\ task'[new.task].generation = new.generation
        /\ task'[new.task].revision = new.revision
    BY <1>3, <1>4, <1>5, <1>8
  <2> QED BY <1>1, <2>1, <2>2, <2>3 DEF PipelinesWereClaimed
<1> QED
  BY <1>9, <1>10, <1>11, <1>12, <1>13, <1>14, <1>15, <1>16

(* The end of task t without success: its generation is closed with it,    *)
(* unless the task is to be tried again.                                   *)
LEMMA FailureKeeps ==
  ASSUME IndInv, NEW t \in Tasks, NEW s \in {"RETRY_WAIT", "FAILED"},
         NEW a \in {"LOST", "FAILED"},
         task[t].status \in ActiveStatuses,
         task' = [task EXCEPT ![t] = Released(t, s)],
         attempt' = [attempt EXCEPT ![t] = ClosedAttempts(t, a)],
         generation' = IF s = "FAILED" THEN FailedGeneration(task[t].generation)
                                       ELSE generation,
         work' \subseteq work,
         UNCHANGED <<docStatus, revisions, desired, active>>
  PROVE  IndInv'
<1> USE DEF IndInv
<1> DEFINE h == task[t].generation
<1>1. /\ Created(t) /\ task[t].status # "SUCCEEDED" /\ task[t].status # "CANCELLED"
      /\ docStatus \in OpenStatuses
      /\ h \in Generations /\ generation[h].status = "BUILDING"
  BY DEF Created, ActiveStatuses, TasksReferToRows, TasksMatchGenerations
<1>2. /\ Released(t, s) \in Task
      /\ Released(t, s).status = s
      /\ Released(t, s).revision = task[t].revision
      /\ Released(t, s).generation = task[t].generation
      /\ Released(t, s).base = task[t].base
      /\ Released(t, s).attempts = task[t].attempts
      /\ Released(t, s).max = task[t].max
      /\ Released(t, s).epoch = task[t].epoch
  BY ReleasedRow DEF Statuses
<1>3. /\ task' \in [Tasks -> Task]
      /\ task'[t] = Released(t, s)
      /\ \A u \in Tasks \ {t} : task'[u] = task[u]
  BY <1>2 DEF TypeOK
<1>4. \A u \in Tasks : /\ task'[u].revision = task[u].revision
                       /\ task'[u].generation = task[u].generation
                       /\ task'[u].base = task[u].base
                       /\ task'[u].attempts = task[u].attempts
                       /\ task'[u].max = task[u].max
                       /\ task'[u].epoch = task[u].epoch
                       /\ Created(u)' <=> Created(u)
                       /\ task'[u].status \in ActiveStatuses => task[u].status \in ActiveStatuses
                       /\ task'[u].status = "SUCCEEDED" <=> task[u].status = "SUCCEEDED"
                       /\ task'[u].status = "CANCELLED" <=> task[u].status = "CANCELLED"
  BY <1>1, <1>2, <1>3 DEF Created, ActiveStatuses
<1>5. /\ generation' \in [Generations -> Generation]
      /\ \A g \in Generations :
           /\ generation'[g].status = IF s = "FAILED" /\ g = h THEN "FAILED"
                                                               ELSE generation[g].status
           /\ generation'[g].revision = generation[g].revision
           /\ generation'[g].staged = generation[g].staged
           /\ Generated(g)' <=> Generated(g)
  <2>1. CASE s = "FAILED"
    BY <1>1, <2>1, FailedGenerationRow DEF Generated
  <2>2. CASE s # "FAILED"
    BY <2>2 DEF TypeOK, Generated
  <2> QED BY <2>1, <2>2
<1>6. /\ attempt' \in [Tasks -> [Epochs -> AttemptStatus]]
      /\ \A u \in Tasks \ {t} : attempt'[u] = attempt[u]
      /\ \A e \in Epochs : attempt'[t][e] = IF attempt[t][e] = "RUNNING" THEN a
                                                                         ELSE attempt[t][e]
  <2>1. /\ ClosedAttempts(t, a) \in [Epochs -> AttemptStatus]
        /\ \A e \in Epochs : ClosedAttempts(t, a)[e] =
             IF attempt[t][e] = "RUNNING" THEN a ELSE attempt[t][e]
    BY ClosedAttemptsRow DEF AttemptStatus
  <2> QED BY <2>1 DEF TypeOK
<1>7. \A u \in Tasks \ {t} : Created(u) =>
        task[u].generation \in Generations /\ task[u].generation # h
  BY <1>1 DEF TasksReferToRows
<1> HIDE DEF h
<1>8. TypeOK'
  BY <1>3, <1>5, <1>6 DEF TypeOK
<1>9. PointersAgree' /\ GenerationsFollowRevisions'
  BY <1>1, <1>5 DEF PointersAgree, GenerationsFollowRevisions, OpenStatuses
<1>10. TasksReferToRows'
  <2>1. \A u \in Tasks : Created(u) /\ task[u].base # 0 => task[u].base \in Generations
    BY BoundsAssumption DEF TypeOK, Task, Generations
  <2> QED BY <1>4, <1>5, <2>1 DEF TasksReferToRows
<1>11. TaskCountersAgree'
  BY <1>4 DEF TaskCountersAgree
<1>12. TasksMatchGenerations'
  <2>1. ASSUME NEW u \in Tasks, Created(u)'
        PROVE  /\ task'[u].status \in ActiveStatuses =>
                    /\ docStatus' \in OpenStatuses
                    /\ task'[u].revision = desired'
                    /\ generation'[task'[u].generation].status = "BUILDING"
               /\ task'[u].status = "SUCCEEDED" =>
                    generation'[task'[u].generation].status = "READY"
    <3>1. CASE u # t
      <4>1. generation'[task[u].generation].status = generation[task[u].generation].status
        BY <1>4, <1>5, <1>7, <2>1, <3>1
      <4> QED BY <1>4, <2>1, <4>1 DEF TasksMatchGenerations
    <3>2. CASE u = t
      <4>1. task'[t].status = s /\ task[t].status \in ActiveStatuses
        BY <1>2, <1>3
      <4>2. s = "RETRY_WAIT" => generation'[task[t].generation].status = "BUILDING"
        BY <1>1, <1>5 DEF h
      <4>3. task[t].revision = desired
        BY <1>1 DEF TasksMatchGenerations
      <4> QED BY <1>1, <1>4, <3>2, <4>1, <4>2, <4>3 DEF ActiveStatuses
    <3> QED BY <3>1, <3>2
  <2>2. ASSUME NEW g \in Generations, generation'[g].status = "BUILDING"
        PROVE  \E u \in Tasks : task'[u].status \in ActiveStatuses /\ task'[u].generation = g
    <3>1. /\ generation[g].status = "BUILDING"
          /\ s = "FAILED" => g # h
      BY <1>5, <2>2
    <3>2. PICK u \in Tasks : task[u].status \in ActiveStatuses /\ task[u].generation = g
      BY <3>1 DEF TasksMatchGenerations
    <3>3. task'[u].status \in ActiveStatuses
      BY <1>2, <1>3, <3>1, <3>2 DEF h, ActiveStatuses
    <3> QED BY <1>4, <3>2, <3>3
  <2> QED BY <2>1, <2>2 DEF TasksMatchGenerations
<1>13. UploadsPublishFirst'
  <2>1. active # 0 => generation'[active].revision = generation[active].revision
    BY <1>5 DEF TypeOK, Generations
  <2> QED BY <1>4, <2>1 DEF UploadsPublishFirst
<1>14. PublishedIndexIsComplete'
  <2>1. active # 0 => active \in Generations /\ active # h
    BY <1>1 DEF PublishedIndexIsComplete, TypeOK, Generations
  <2> QED BY <1>5, <2>1 DEF PublishedIndexIsComplete
<1>15. AttemptLogIsTrue'
  <2>1. \A u \in Tasks : task'[u].status = "SUCCEEDED" =>
          generation'[task'[u].generation].status = "READY"
    BY <1>4, <1>12 DEF TasksMatchGenerations, Created
  <2>2. \A e \in Epochs :
          /\ attempt'[t][e] # "NONE" <=> e <= task'[t].attempts
          /\ attempt'[t][e] = "RUNNING" <=> task'[t].status = "RUNNING" /\ task'[t].epoch = e
          /\ attempt'[t][e] = "SUCCEEDED" <=> task'[t].status = "SUCCEEDED" /\ task'[t].epoch = e
    BY <1>1, <1>2, <1>3, <1>6 DEF AttemptLogIsTrue
  <2> QED BY <1>3, <1>6, <2>1, <2>2 DEF AttemptLogIsTrue
<1>16. PipelinesWereClaimed'
  <2>1. \A p \in work : p.task \in Tasks
    BY DEF TypeOK, Pipeline
  <2>2. \A u \in Tasks : task'[u].status = "RUNNING" => task[u].status = "RUNNING"
    BY <1>2, <1>3
  <2> QED BY <1>1, <1>4, <2>1, <2>2 DEF PipelinesWereClaimed, OpenStatuses
<1> QED
  BY <1>8, <1>9, <1>10, <1>11, <1>12, <1>13, <1>14, <1>15, <1>16

(* A claim that finds the attempts used up. *)
LEMMA ExhaustTaskKeeps ==
  ASSUME IndInv, NEW t \in Tasks, ExhaustTask(t)
  PROVE  IndInv'
<1>1. /\ task[t].status \in ActiveStatuses
      /\ task' = [task EXCEPT ![t] = Released(t, "FAILED")]
      /\ attempt' = [attempt EXCEPT ![t] = ClosedAttempts(t, "LOST")]
      /\ generation' = FailedGeneration(task[t].generation)
      /\ UNCHANGED <<docStatus, revisions, desired, active, work>>
  BY DEF ExhaustTask, Claimable, ActiveStatuses
<1> QED BY <1>1, FailureKeeps

(* Publication: the BUILDING generation of the lease becomes the active    *)
(* one; no other unfinished task or successful upload interferes.          *)
LEMMA PublishChunksKeeps ==
  ASSUME IndInv, NEW p \in work, PublishChunks(p)
  PROVE  IndInv'
<1> USE DEF IndInv
<1> DEFINE t == p.task
           g == p.generation
<1>1. /\ task[t].status = "RUNNING" /\ task[t].epoch = p.epoch
      /\ task[t].revision = p.revision /\ task[t].generation = g
      /\ docStatus \in OpenStatuses /\ desired = p.revision
      /\ task[t].base # 0 => active = task[t].base
      /\ generation[g].status = "BUILDING" /\ generation[g].staged
      /\ generation' = [generation EXCEPT ![g].status = "READY"]
      /\ active' = g /\ docStatus' = "PUBLISHED"
      /\ task' = [task EXCEPT ![t] = Released(t, "SUCCEEDED")]
      /\ attempt' = [attempt EXCEPT ![t][p.epoch] = "SUCCEEDED"]
      /\ work' = Advance(p, "committed")
      /\ UNCHANGED <<revisions, desired>>
  BY DEF PublishChunks, OwnsTask, HoldsLease, RevisionWanted, BaseUnchanged
<1>2. t \in Tasks /\ g \in Generations /\ p.epoch \in Epochs
  BY DEF TypeOK, Pipeline
<1> HIDE DEF t, g
<1>3. /\ Released(t, "SUCCEEDED") \in Task
      /\ Released(t, "SUCCEEDED").status = "SUCCEEDED"
      /\ Released(t, "SUCCEEDED").revision = task[t].revision
      /\ Released(t, "SUCCEEDED").generation = task[t].generation
      /\ Released(t, "SUCCEEDED").base = task[t].base
      /\ Released(t, "SUCCEEDED").attempts = task[t].attempts
      /\ Released(t, "SUCCEEDED").max = task[t].max
      /\ Released(t, "SUCCEEDED").epoch = task[t].epoch
  BY <1>2, ReleasedRow DEF Statuses
<1>4. /\ task' \in [Tasks -> Task]
      /\ task'[t] = Released(t, "SUCCEEDED")
      /\ \A u \in Tasks \ {t} : task'[u] = task[u]
  BY <1>1, <1>2, <1>3 DEF TypeOK
<1>5. Created(t)
  BY <1>1 DEF Created
<1>6. \A u \in Tasks : /\ task'[u].revision = task[u].revision
                       /\ task'[u].generation = task[u].generation
                       /\ task'[u].base = task[u].base
                       /\ task'[u].attempts = task[u].attempts
                       /\ task'[u].max = task[u].max
                       /\ task'[u].epoch = task[u].epoch
                       /\ Created(u)' <=> Created(u)
                       /\ task'[u].status = "CANCELLED" <=> task[u].status = "CANCELLED"
  BY <1>1, <1>3, <1>4, <1>5 DEF Created
<1>7. /\ generation' \in [Generations -> Generation]
      /\ \A h \in Generations :
           /\ generation'[h].status = IF h = g THEN "READY" ELSE generation[h].status
           /\ generation'[h].revision = generation[h].revision
           /\ generation'[h].staged = generation[h].staged
           /\ Generated(h)' <=> Generated(h)
  BY <1>1, <1>2 DEF TypeOK, Generation, Generated
<1>8. /\ attempt' \in [Tasks -> [Epochs -> AttemptStatus]]
      /\ \A u \in Tasks \ {t} : attempt'[u] = attempt[u]
      /\ \A e \in Epochs : attempt'[t][e] = IF e = p.epoch THEN "SUCCEEDED" ELSE attempt[t][e]
  BY <1>1, <1>2 DEF TypeOK, AttemptStatus
<1>9. /\ work' \subseteq Pipeline
      /\ \A q \in work' : \E r \in work :
           q.task = r.task /\ q.epoch = r.epoch /\ q.generation = r.generation
           /\ q.revision = r.revision
  BY <1>1, AdvancedWork
<1>10. \A u \in Tasks \ {t} : Created(u) =>
         task[u].generation \in Generations /\ task[u].generation # g
  BY <1>1, <1>2, <1>5 DEF TasksReferToRows
<1>11. desired \in 1..revisions /\ generation[g].revision = desired
  BY <1>1, <1>2, <1>5, BoundsAssumption
  DEF PointersAgree, TasksReferToRows, TypeOK
<1>12. TypeOK'
  <2>1. active' \in 0..MaxGeneration
    BY <1>1, <1>2, BoundsAssumption DEF Generations
  <2> QED BY <1>1, <1>4, <1>7, <1>8, <1>9, <2>1 DEF TypeOK
<1>13. PointersAgree' /\ GenerationsFollowRevisions'
  BY <1>1, <1>7 DEF PointersAgree, GenerationsFollowRevisions, OpenStatuses
<1>14. TasksReferToRows'
  <2>1. \A u \in Tasks : Created(u) /\ task[u].base # 0 => task[u].base \in Generations
    BY BoundsAssumption DEF TypeOK, Task, Generations
  <2> QED BY <1>6, <1>7, <2>1 DEF TasksReferToRows
<1>15. TaskCountersAgree'
  BY <1>6 DEF TaskCountersAgree
<1>16. TasksMatchGenerations'
  <2>1. ASSUME NEW u \in Tasks, Created(u)'
        PROVE  /\ task'[u].status \in ActiveStatuses =>
                    /\ docStatus' \in OpenStatuses
                    /\ task'[u].revision = desired'
                    /\ generation'[task'[u].generation].status = "BUILDING"
               /\ task'[u].status = "SUCCEEDED" =>
                    generation'[task'[u].generation].status = "READY"
    <3>1. CASE u # t
      <4>1. generation'[task[u].generation].status = generation[task[u].generation].status
        BY <1>6, <1>7, <1>10, <2>1, <3>1
      <4>2. /\ task[u].status \in ActiveStatuses =>
                 /\ task[u].revision = desired
                 /\ generation[task[u].generation].status = "BUILDING"
            /\ task[u].status = "SUCCEEDED" => generation[task[u].generation].status = "READY"
        BY <1>6, <2>1 DEF TasksMatchGenerations
      <4>3. task'[u] = task[u]
        BY <1>4, <3>1
      <4> QED BY <1>1, <4>1, <4>2, <4>3 DEF OpenStatuses
    <3>2. CASE u = t
      BY <1>1, <1>2, <1>3, <1>4, <1>7, <3>2 DEF ActiveStatuses
    <3> QED BY <3>1, <3>2
  <2>2. ASSUME NEW h \in Generations, generation'[h].status = "BUILDING"
        PROVE  \E u \in Tasks : task'[u].status \in ActiveStatuses /\ task'[u].generation = h
    <3>1. h # g /\ generation[h].status = "BUILDING"
      BY <1>7, <2>2
    <3>2. PICK u \in Tasks : task[u].status \in ActiveStatuses /\ task[u].generation = h
      BY <3>1 DEF TasksMatchGenerations
    <3> QED BY <1>1, <1>4, <3>1, <3>2
  <2> QED BY <2>1, <2>2 DEF TasksMatchGenerations
<1>17. UploadsPublishFirst'
  <2>1. ASSUME NEW u \in Tasks, Created(u)', task'[u].base = 0, task'[u].revision = desired'
        PROVE  task'[u].status = "SUCCEEDED"
    <3>1. Created(u) /\ task[u].base = 0 /\ task[u].revision = desired
      BY <1>1, <1>6, <2>1
    <3>2. CASE u = t
      BY <1>3, <1>4, <3>2
    <3>3. CASE u # t
      <4>1. task[t].base # 0
        BY <1>1, <1>2, <1>5, <3>1, <3>3 DEF UploadsPublishFirst
      <4>2. active # 0 /\ generation[active].revision = desired
        BY <1>1, <1>2, <1>5, <4>1 DEF TasksReferToRows
      <4>3. task[u].status = "SUCCEEDED"
        BY <3>1, <4>2 DEF UploadsPublishFirst
      <4> QED BY <1>4, <3>3, <4>3
    <3> QED BY <3>2, <3>3
  <2> QED BY <1>6, <2>1 DEF UploadsPublishFirst
<1>18. PublishedIndexIsComplete'
  BY <1>1, <1>2, <1>7, <1>11 DEF PublishedIndexIsComplete, Generations
<1>19. AttemptLogIsTrue'
  <2>1. \A u \in Tasks : task'[u].status = "SUCCEEDED" =>
          generation'[task'[u].generation].status = "READY"
    BY <1>6, <1>16 DEF TasksMatchGenerations, Created
  <2>2. \A e \in Epochs :
          /\ attempt'[t][e] # "NONE" <=> e <= task'[t].attempts
          /\ attempt'[t][e] = "RUNNING" <=> task'[t].status = "RUNNING" /\ task'[t].epoch = e
          /\ attempt'[t][e] = "SUCCEEDED" <=> task'[t].status = "SUCCEEDED" /\ task'[t].epoch = e
    BY <1>1, <1>2, <1>3, <1>4, <1>8 DEF AttemptLogIsTrue
  <2> QED BY <1>4, <1>8, <2>1, <2>2 DEF AttemptLogIsTrue
<1>20. PipelinesWereClaimed'
  <2>1. \A q \in work : q.task \in Tasks
    BY DEF TypeOK, Pipeline
  <2>2. \A u \in Tasks : task'[u].status = "RUNNING" => task[u].status = "RUNNING"
    BY <1>3, <1>4
  <2>3. docStatus' # "NONE" /\ docStatus # "PURGED"
    BY <1>1 DEF OpenStatuses
  <2>4. \A q \in work' : q.task \in Tasks
    BY <1>9, <2>1
  <2> QED BY <1>6, <1>9, <2>1, <2>2, <2>3, <2>4 DEF PipelinesWereClaimed
<1> QED
  BY <1>12, <1>13, <1>14, <1>15, <1>16, <1>17, <1>18, <1>19, <1>20

(* A failure report closes the task of the lease, or nothing at all. *)
LEMMA FailPipelineKeeps ==
  ASSUME IndInv, NEW p \in work, NEW retryable \in BOOLEAN, FailPipeline(p, retryable)
  PROVE  IndInv'
<1> DEFINE t == p.task
           retry == retryable /\ task[t].attempts < task[t].max
           s == IF retry THEN "RETRY_WAIT" ELSE "FAILED"
<1>1. /\ UNCHANGED <<docStatus, revisions, desired, active>>
      /\ work' = work \ {p} \/ work' = work
  BY DEF FailPipeline
<1>2. CASE HoldsLease(p)
  <2>1. /\ task' = [task EXCEPT ![t] = Released(t, s)]
        /\ attempt' = [attempt EXCEPT ![t][p.epoch] = IF @ = "RUNNING" THEN "FAILED" ELSE @]
        /\ generation' = IF retry THEN generation ELSE FailedGeneration(p.generation)
    BY <1>2 DEF FailPipeline
  <2>2. t \in Tasks /\ p.epoch \in Epochs
    BY DEF IndInv, TypeOK, Pipeline
  <2>3. task[t].status = "RUNNING" /\ task[t].epoch = p.epoch
    BY <1>2 DEF HoldsLease
  <2>4. task[t].generation = p.generation
    BY <2>3 DEF IndInv, PipelinesWereClaimed
  <2>5. attempt' = [attempt EXCEPT ![t] = ClosedAttempts(t, "FAILED")]
    <3>1. \A e \in Epochs : attempt[t][e] = "RUNNING" <=> e = p.epoch
      BY <2>2, <2>3 DEF IndInv, AttemptLogIsTrue
    <3>2. attempt[t] \in [Epochs -> AttemptStatus]
      BY <2>2 DEF IndInv, TypeOK
    <3>3. [attempt[t] EXCEPT ![p.epoch] = IF @ = "RUNNING" THEN "FAILED" ELSE @]
            = ClosedAttempts(t, "FAILED")
      BY <2>2, <3>1, <3>2 DEF ClosedAttempts
    <3> QED BY <2>1, <3>3
  <2>6. generation' = IF s = "FAILED" THEN FailedGeneration(task[t].generation) ELSE generation
    BY <2>1, <2>4
  <2>7. s \in {"RETRY_WAIT", "FAILED"} /\ task[t].status \in ActiveStatuses /\ work' \subseteq work
    BY <1>1, <2>3 DEF ActiveStatuses
  <2> HIDE DEF s, t, retry
  <2> QED BY <1>1, <2>1, <2>2, <2>5, <2>6, <2>7, FailureKeeps
<1>3. CASE ~HoldsLease(p) /\ work' = work \ {p}
  <2>1. UNCHANGED <<task, attempt, generation>>
    BY <1>3 DEF FailPipeline
  <2> QED BY <1>1, <1>3, <2>1, QuietStepKeeps
<1>4. CASE ~HoldsLease(p) /\ work' = work
  <2>1. UNCHANGED vars
    BY <1>1, <1>4 DEF FailPipeline, vars
  <2> QED BY <2>1, StutterKeeps
<1> QED BY <1>1, <1>2, <1>3, <1>4

-----------------------------------------------------------------------------
(* Invariance *)

(* The empty database. *)
LEMMA InitIsGood == Init => IndInv
<1> SUFFICES ASSUME Init PROVE IndInv
  OBVIOUS
<1> USE DEF Init
<1>1. /\ NoGeneration \in Generation /\ NoTask \in Task
      /\ NoAttempts \in [Epochs -> AttemptStatus]
  BY BoundsAssumption, AttemptsAssumption
  DEF NoGeneration, Generation, NoTask, Task, NoAttempts, AttemptStatus
<1>2. TypeOK
  BY <1>1, BoundsAssumption DEF TypeOK
<1>3. /\ \A t \in Tasks : task[t].status = "NONE" /\ task[t].attempts = 0 /\ task[t].max = 0
                          /\ task[t].epoch = 0 /\ task[t].generation = 0
      /\ \A g \in Generations : generation[g].status = "NONE"
      /\ \A t \in Tasks, e \in Epochs : attempt[t][e] = "NONE"
  BY DEF NoTask, NoGeneration, NoAttempts
<1>4. PointersAgree /\ GenerationsFollowRevisions /\ TasksReferToRows
  BY <1>3 DEF PointersAgree, GenerationsFollowRevisions, TasksReferToRows, Created, Generated,
              OpenStatuses
<1>5. TaskCountersAgree /\ TasksMatchGenerations /\ UploadsPublishFirst
  BY <1>3 DEF TaskCountersAgree, TasksMatchGenerations, UploadsPublishFirst, Created, Generated,
              ActiveStatuses
<1>6. PipelinesWereClaimed /\ PublishedIndexIsComplete
  BY DEF PipelinesWereClaimed, PublishedIndexIsComplete
<1>7. AttemptLogIsTrue
  BY <1>3 DEF AttemptLogIsTrue, Epochs
<1> QED BY <1>2, <1>4, <1>5, <1>6, <1>7 DEF IndInv

(* The steps of a pipeline together. *)
LEMMA PipelineStepKeeps ==
  ASSUME IndInv, NEW p \in work, PipelineStep(p)
  PROVE  IndInv'
<1>1. CASE ParseSource(p)
  BY <1>1, QuietStepKeeps DEF ParseSource
<1>2. CASE StageChunks(p)
  BY <1>2, StageChunksKeeps
<1>3. CASE EmbedChunks(p)
  BY <1>3, QuietStepKeeps DEF EmbedChunks
<1>4. CASE PublishChunks(p)
  BY <1>4, PublishChunksKeeps
<1>5. CASE \E retryable \in BOOLEAN : FailPipeline(p, retryable)
  BY <1>5, FailPipelineKeeps
<1>6. CASE DropPipeline(p)
  BY <1>6, QuietStepKeeps DEF DropPipeline
<1> QED BY <1>1, <1>2, <1>3, <1>4, <1>5, <1>6 DEF PipelineStep

(* IndInv is inductive. *)
LEMMA NextKeeps == IndInv /\ [Next]_vars => IndInv'
<1> SUFFICES ASSUME IndInv, [Next]_vars PROVE IndInv'
  OBVIOUS
<1>1. CASE UserStep
  BY <1>1, UploadDocumentKeeps, UploadRevisionKeeps, RetryTaskKeeps, EnqueueReindexKeeps,
     DeleteDocumentKeeps, PurgeDocumentKeeps DEF UserStep
<1>2. CASE \E t \in Tasks : Claim(t) \/ ExpireLease(t)
  BY <1>2, ClaimTaskKeeps, ExhaustTaskKeeps, ExpireLeaseKeeps DEF Claim
<1>3. CASE \E p \in work : PipelineStep(p)
  BY <1>3, PipelineStepKeeps
<1>4. CASE UNCHANGED vars
  BY <1>4, StutterKeeps
<1> QED BY <1>1, <1>2, <1>3, <1>4 DEF Next

(* Every reachable state satisfies the inductive invariant.                *)
THEOREM Inductive == Spec => []IndInv
<1> QED BY InitIsGood, NextKeeps, PTL DEF Spec

(* The rows of the document stay within their types, in particular no task *)
(* ever exceeds the 100 attempts the schema allows.                        *)
THEOREM TypeCorrect == Spec => []TypeOK
<1>1. IndInv => TypeOK
  BY DEF IndInv
<1> QED BY <1>1, Inductive, PTL

(* Readers always find a complete index (publish_chunks, persist and       *)
(* delete_document together), for any number of workers and revisions.     *)
THEOREM CompletePublication == Spec => []PublishedIndexIsComplete
<1>1. IndInv => PublishedIndexIsComplete
  BY DEF IndInv
<1> QED BY <1>1, Inductive, PTL

(* The attempt log agrees with the leases (claim, fail, publish_chunks).   *)
THEOREM TrueAttemptLog == Spec => []AttemptLogIsTrue
<1>1. IndInv => AttemptLogIsTrue
  BY DEF IndInv
<1> QED BY <1>1, Inductive, PTL

(* Unfinished tasks and BUILDING generations are in one-to-one             *)
(* correspondence, all for the newest revision of a live document.         *)
THEOREM WantedWork == Spec => []UnfinishedWorkIsWanted
<1>1. IndInv => UnfinishedWorkIsWanted
  <2> SUFFICES ASSUME IndInv PROVE UnfinishedWorkIsWanted
    OBVIOUS
  <2> USE DEF IndInv
  <2>1. ASSUME NEW t \in Tasks, task[t].status \in ActiveStatuses
        PROVE  /\ docStatus \in OpenStatuses
               /\ task[t].revision = desired
               /\ generation[task[t].generation].status = "BUILDING"
               /\ generation[task[t].generation].revision = desired
               /\ task[t].generation \in Generations
               /\ \A s \in Tasks \ {t} : Created(s) => task[s].generation # task[t].generation
    <3>1. Created(t)
      BY <2>1 DEF Created, ActiveStatuses
    <3> QED BY <2>1, <3>1 DEF TasksMatchGenerations, TasksReferToRows
  <2>2. \A s \in Tasks : ~Created(s) => task[s].generation = 0
    BY DEF TaskCountersAgree
  <2>3. 0 \notin Generations
    BY DEF Generations
  <2>4. \A g \in Generations : generation[g].status = "BUILDING" =>
          \E t \in Tasks : task[t].status \in ActiveStatuses /\ task[t].generation = g
    BY DEF TasksMatchGenerations
  <2> QED BY <2>1, <2>2, <2>3, <2>4 DEF UnfinishedWorkIsWanted
<1> QED BY <1>1, Inductive, PTL

-----------------------------------------------------------------------------
(* A pipeline leaves `work' only by a step of its own, and such a step      *)
(* either touches no row or holds the lease: a pipeline that lost its lease *)
(* changes nothing (heartbeat, fail, stage_chunks_for_graph and             *)
(* publish_chunks against claim).                                          *)
THEOREM HarmlessPipelines == Spec => SupersededPipelinesAreHarmless
<1>1. ASSUME [Next]_vars, NEW p \in work, p \notin work', Superseded(p)
      PROVE  UNCHANGED <<docStatus, desired, active, generation, task, attempt>>
  <2>1. ~HoldsLease(p)
    BY <1>1 DEF Superseded, HoldsLease
  <2>2. work' # work
    BY <1>1
  <2>3. ~UserStep
    BY <2>2 DEF UserStep, UploadDocument, UploadRevision, RetryTask, EnqueueReindex,
                DeleteDocument, PurgeDocument
  <2>4. \A t \in Tasks : ~Claim(t) /\ ~ExpireLease(t)
    BY <1>1, <2>2 DEF Claim, ClaimTask, ExhaustTask, ExpireLease
  <2>5. PICK q \in work : PipelineStep(q)
    BY <1>1, <2>2, <2>3, <2>4 DEF Next, vars
  <2>6. q = p
    BY <1>1, <2>5 DEF PipelineStep, ParseSource, StageChunks, EmbedChunks, PublishChunks,
                      FailPipeline, DropPipeline, Advance
  <2> QED
    BY <2>1, <2>5, <2>6 DEF PipelineStep, ParseSource, StageChunks, EmbedChunks, PublishChunks,
                            FailPipeline, DropPipeline, OwnsTask
<1>2. [Next]_vars =>
        [\A p \in work \ work' : Superseded(p) =>
           UNCHANGED <<docStatus, desired, active, generation, task, attempt>>]_vars
  BY <1>1
<1> QED BY <1>2, PTL DEF Spec, SupersededPipelinesAreHarmless

(* What any step does to a generation that exists: its revision stays, and  *)
(* once it has ended nothing of it changes.                                *)
RowKept(g) ==
  /\ Generated(g) => generation'[g].revision = generation[g].revision
  /\ generation[g].status \in {"READY", "FAILED", "CANCELLED"} => generation'[g] = generation[g]

(* Adding a generation to rows that kept what had ended. *)
LEMMA FreshKeepsRows ==
  ASSUME TypeOK, NEW g \in Generations, NextGeneration(g), NEW row,
         NEW rows \in [Generations -> Generation],
         \A h \in Generations : /\ rows[h].revision = generation[h].revision
                                /\ generation[h].status # "BUILDING" => rows[h] = generation[h],
         generation' = [rows EXCEPT ![g] = row]
  PROVE  \A h \in Generations : RowKept(h)
BY FreshGeneration DEF RowKept, Generated

(* Failing one generation keeps what had ended. *)
LEMMA FailedKeepsRows ==
  ASSUME TypeOK, NEW g \in Generations, generation' = FailedGeneration(g)
  PROVE  \A h \in Generations : RowKept(h)
<1> SUFFICES ASSUME NEW h \in Generations PROVE RowKept(h)
  OBVIOUS
<1>1. generation'[h].revision = generation[h].revision
  BY FailedGenerationRow
<1>2. generation[h] \in Generation
  BY DEF TypeOK
<1>3. ASSUME generation[h].status # "BUILDING" PROVE generation'[h] = generation[h]
  BY <1>2, <1>3 DEF FailedGeneration, TypeOK, Generation
<1> QED BY <1>1, <1>3 DEF RowKept

(* Closing the BUILDING generations keeps the others whole. *)
LEMMA ClosedRows ==
  ASSUME TypeOK, NEW s \in {"READY", "FAILED", "CANCELLED"}
  PROVE  /\ ClosedGenerations(s) \in [Generations -> Generation]
         /\ \A h \in Generations :
              /\ ClosedGenerations(s)[h].revision = generation[h].revision
              /\ generation[h].status # "BUILDING" => ClosedGenerations(s)[h] = generation[h]
BY ClosedGenerationsRow DEF ClosedGenerations

(* Work on a BUILDING generation keeps what had ended. *)
LEMMA BuildingKeepsRows ==
  ASSUME TypeOK, NEW g \in Generations, generation[g].status = "BUILDING",
         \/ generation' = [generation EXCEPT ![g].staged = TRUE]
         \/ generation' = [generation EXCEPT ![g].status = "READY"]
  PROVE  \A h \in Generations : RowKept(h)
BY DEF RowKept, TypeOK, Generation

(* Every step before the purge keeps what had ended, and every revision. *)
LEMMA RowsKept ==
  ASSUME IndInv, [Next]_vars, docStatus' # "PURGED", NEW h \in Generations
  PROVE  RowKept(h)
<1> USE DEF IndInv
<1>0. ASSUME generation' = generation PROVE RowKept(h)
  BY <1>0 DEF RowKept
<1>1. CASE UserStep
  <2>1. CASE UploadDocument
    BY <2>1 DEF UploadDocument, PointersAgree, RowKept, Generated
  <2>2. CASE \E r \in Revisions : UploadRevision(r)
    <3>1. PICK g \in Generations :
            /\ NextGeneration(g)
            /\ generation' = [ClosedGenerations("CANCELLED") EXCEPT ![g] = NewGeneration(revisions')]
      BY <2>2 DEF UploadRevision
    <3> QED BY <3>1, ClosedRows, FreshKeepsRows
  <2>3. CASE \E t \in Tasks : RetryTask(t)
    <3>1. PICK g \in Generations, row \in {NewGeneration(generation[task[t].generation].revision) : t \in Tasks} :
            NextGeneration(g) /\ generation' = [generation EXCEPT ![g] = row]
      BY <2>3, ZenonT(40) DEF RetryTask
    <3>2. generation \in [Generations -> Generation]
      BY DEF TypeOK
    <3> QED BY <3>1, <3>2, FreshKeepsRows
  <2>4. CASE \E b \in Generations, f \in Targets : EnqueueReindex(b, f)
    <3>1. PICK g \in Generations :
            NextGeneration(g) /\ generation' = [generation EXCEPT ![g] = NewGeneration(desired)]
      BY <2>4 DEF EnqueueReindex
    <3>2. generation \in [Generations -> Generation]
      BY DEF TypeOK
    <3> QED BY <3>1, <3>2, FreshKeepsRows
  <2>5. CASE DeleteDocument
    BY <2>5, ClosedRows DEF DeleteDocument, RowKept
  <2>6. CASE PurgeDocument
    BY <2>6 DEF PurgeDocument
  <2> QED BY <1>1, <2>1, <2>2, <2>3, <2>4, <2>5, <2>6 DEF UserStep
<1>2. CASE \E t \in Tasks : Claim(t) \/ ExpireLease(t)
  <2>1. PICK t \in Tasks : Claim(t) \/ ExpireLease(t)
    BY <1>2
  <2>2. CASE ExhaustTask(t)
    <3>1. task[t].status \in ActiveStatuses /\ generation' = FailedGeneration(task[t].generation)
      BY <2>2 DEF ExhaustTask, Claimable, ActiveStatuses
    <3>2. task[t].generation \in Generations
      BY <3>1 DEF TasksReferToRows, Created, ActiveStatuses
    <3> QED BY <3>1, <3>2, FailedKeepsRows
  <2>3. CASE ~ExhaustTask(t)
    <3>1. generation' = generation
      BY <2>1, <2>3 DEF Claim, ClaimTask, ExpireLease
    <3> QED BY <1>0, <3>1
  <2> QED BY <2>2, <2>3
<1>3. CASE \E p \in work : PipelineStep(p)
  <2>1. PICK p \in work : PipelineStep(p)
    BY <1>3
  <2>2. p.generation \in Generations
    BY DEF TypeOK, Pipeline
  <2>3. CASE StageChunks(p)
    BY <2>2, <2>3, BuildingKeepsRows DEF StageChunks
  <2>4. CASE PublishChunks(p)
    BY <2>2, <2>4, BuildingKeepsRows DEF PublishChunks
  <2>5. CASE \E retryable \in BOOLEAN : FailPipeline(p, retryable)
    <3>1. generation' = generation \/ generation' = FailedGeneration(p.generation)
      BY <2>5 DEF FailPipeline
    <3> QED BY <1>0, <2>2, <3>1, FailedKeepsRows
  <2>6. CASE ParseSource(p) \/ EmbedChunks(p) \/ DropPipeline(p)
    <3>1. generation' = generation
      BY <2>6 DEF ParseSource, EmbedChunks, DropPipeline
    <3> QED BY <1>0, <3>1
  <2> QED BY <2>1, <2>3, <2>4, <2>5, <2>6 DEF PipelineStep
<1>4. CASE UNCHANGED vars
  BY <1>0, <1>4 DEF vars
<1> QED BY <1>1, <1>2, <1>3, <1>4 DEF Next

(* No step changes a generation that has ended, before the purge: nobody   *)
(* runs into the trigger guard_generation_update.                          *)
THEOREM FrozenGenerations == Spec => EndedGenerationsAreFrozen
<1>1. IndInv /\ [Next]_vars =>
        [\A g \in Generations :
           /\ generation[g].status \in {"READY", "FAILED", "CANCELLED"}
           /\ docStatus' # "PURGED"
           => generation'[g] = generation[g]]_vars
  BY RowsKept DEF RowKept
<1> QED BY <1>1, Inductive, PTL DEF Spec, EndedGenerationsAreFrozen

-----------------------------------------------------------------------------
(* The state of the document as its readers see it.                        *)
Stage == CASE docStatus = "NONE" -> "absent"
           [] docStatus \in OpenStatuses -> "open"
           [] docStatus = "DELETED" -> "deleted"
           [] docStatus = "PURGED" -> "purged"

Served == [index |-> active,
           revision |-> IF active = 0 THEN 0 ELSE generation[active].revision]

(* A publication always moves to a higher generation, of the revision that *)
(* was uploaded last.                                                      *)
LEMMA PublicationMovesForward ==
  ASSUME IndInv, NEW p \in work, PublishChunks(p)
  PROVE  /\ p.generation \in Generations
         /\ active < p.generation
         /\ generation[p.generation].revision = desired
<1> USE DEF IndInv
<1> DEFINE t == p.task
           g == p.generation
<1>1. /\ task[t].status = "RUNNING" /\ task[t].revision = p.revision /\ task[t].generation = g
      /\ desired = p.revision
      /\ task[t].base # 0 => active = task[t].base
      /\ generation[g].status = "BUILDING"
  BY DEF PublishChunks, OwnsTask, HoldsLease, RevisionWanted, BaseUnchanged
<1>2. t \in Tasks /\ g \in Generations /\ Created(t)
  BY <1>1 DEF TypeOK, Pipeline, Created
<1> HIDE DEF t, g
<1>3. generation[g].revision = desired /\ Generated(g)
  BY <1>1, <1>2 DEF TasksReferToRows
<1>4. active < g
  <2>1. CASE task[t].base # 0
    BY <1>1, <1>2, <2>1 DEF TasksReferToRows
  <2>2. CASE task[t].base = 0 /\ active # 0
    <3>1. /\ active \in Generations /\ generation[active].revision # desired
          /\ generation[active].revision \in 1..desired /\ Generated(active)
          /\ active # g
      BY <1>1, <1>2, <2>2 DEF UploadsPublishFirst, PublishedIndexIsComplete, TypeOK, Generations,
                              Generated
    <3>2. ASSUME g < active PROVE FALSE
      <4>1. generation[g].revision <= generation[active].revision
        BY <1>2, <1>3, <3>1, <3>2 DEF GenerationsFollowRevisions
      <4> QED BY <1>3, <3>1, <4>1 DEF TypeOK
    <3> QED BY <1>2, <3>1, <3>2 DEF Generations
  <2>3. CASE active = 0
    BY <1>2, <2>3 DEF Generations
  <2> QED BY <2>1, <2>2, <2>3
<1> QED BY <1>2, <1>3, <1>4 DEF g

(* A step that moves none of the pointers leaves the readers' view alone.  *)
LEMMA QuietForReaders ==
  ASSUME IndInv, [Next]_vars, UNCHANGED <<docStatus, desired, active>>,
         docStatus # "PURGED"
  PROVE  Stage' = Stage /\ Served' = Served
<1>1. active # 0 => active \in Generations /\ Generated(active)
  BY DEF IndInv, TypeOK, PublishedIndexIsComplete, Generated, Generations
<1>2. active # 0 => generation'[active].revision = generation[active].revision
  BY <1>1, RowsKept DEF RowKept
<1> QED BY <1>2 DEF Stage, Served

(* Every step of the document is a step of the promise, or a stutter. *)
LEMMA StepRefines == IndInv /\ [Next]_vars => [Published!Next]_(Published!vars)
<1> SUFFICES ASSUME IndInv, [Next]_vars
             PROVE  \/ Published!Next
                    \/ Stage' = Stage /\ desired' = desired /\ Served' = Served
  BY DEF Published!vars, Stage, Served
<1>1. CASE UploadDocument
  <2>1. /\ docStatus = "NONE" /\ docStatus' = "DRAFT" /\ active = 0 /\ active' = 0
        /\ desired = 0 /\ desired' = 1
    BY <1>1 DEF UploadDocument, IndInv, PointersAgree, OpenStatuses
  <2>2. Published!Request
    BY <2>1 DEF Published!Request, OpenStatuses
  <2> QED BY <2>2 DEF Published!Next
<1>2. CASE \E r \in Revisions : UploadRevision(r)
  <2>1. /\ docStatus \in OpenStatuses /\ docStatus' = docStatus
        /\ desired' = desired + 1 /\ active' = active
    BY <1>2 DEF UploadRevision, IndInv, PointersAgree
  <2>2. active # 0 => active \in Generations /\ Generated(active)
    BY DEF IndInv, TypeOK, PublishedIndexIsComplete, Generated, Generations
  <2>3. active # 0 => generation'[active].revision = generation[active].revision
    BY <2>1, <2>2, RowsKept DEF RowKept, OpenStatuses
  <2>4. Published!Request
    BY <2>1, <2>3 DEF Published!Request, OpenStatuses
  <2> QED BY <2>4 DEF Published!Next
<1>3. CASE DeleteDocument
  <2>1. /\ docStatus \in OpenStatuses /\ docStatus' = "DELETED" /\ desired' = 0 /\ active' = 0
    BY <1>3 DEF DeleteDocument
  <2>2. Published!Delete
    BY <2>1 DEF Published!Delete, Published!Nothing, OpenStatuses
  <2> QED BY <2>2 DEF Published!Next
<1>4. CASE PurgeDocument
  <2>1. /\ docStatus = "DELETED" /\ docStatus' = "PURGED" /\ active = 0 /\ active' = 0
        /\ desired' = desired
    BY <1>4 DEF PurgeDocument, IndInv, PointersAgree, OpenStatuses
  <2>2. Published!Purge
    BY <2>1 DEF Published!Purge, OpenStatuses
  <2> QED BY <2>2 DEF Published!Next
<1>5. CASE \E p \in work : PublishChunks(p)
  <2>1. PICK p \in work : PublishChunks(p)
    BY <1>5
  <2>2. /\ p.generation \in Generations /\ active < p.generation
        /\ generation[p.generation].revision = desired
    BY <2>1, PublicationMovesForward
  <2>3. /\ docStatus \in OpenStatuses /\ docStatus' = "PUBLISHED" /\ active' = p.generation
        /\ desired' = desired
        /\ generation' = [generation EXCEPT ![p.generation].status = "READY"]
    BY <2>1 DEF PublishChunks, RevisionWanted
  <2>4. generation'[p.generation].revision = desired /\ p.generation # 0
    BY <2>2, <2>3 DEF IndInv, TypeOK, Generation, Generations
  <2>5. Published!Serve(p.generation)
    BY <2>2, <2>3, <2>4 DEF Published!Serve, OpenStatuses
  <2> QED BY <2>2, <2>5 DEF Published!Next
<1>6. CASE /\ UNCHANGED <<docStatus, desired, active>>
           /\ docStatus # "PURGED"
  BY <1>6, QuietForReaders
<1>7. CASE /\ UNCHANGED <<docStatus, desired, active>>
           /\ docStatus = "PURGED"
  <2>1. active = 0
    BY <1>7 DEF IndInv, PointersAgree, OpenStatuses
  <2> QED BY <1>7, <2>1 DEF Stage, Served
<1>8. \/ UploadDocument \/ (\E r \in Revisions : UploadRevision(r))
      \/ DeleteDocument \/ PurgeDocument \/ (\E p \in work : PublishChunks(p))
      \/ UNCHANGED <<docStatus, desired, active>>
  <2>1. CASE UserStep
    BY <2>1 DEF UserStep, RetryTask, EnqueueReindex
  <2>2. CASE \E t \in Tasks : Claim(t) \/ ExpireLease(t)
    BY <2>2 DEF Claim, ClaimTask, ExhaustTask, ExpireLease
  <2>3. CASE \E p \in work : PipelineStep(p)
    BY <2>3 DEF PipelineStep, ParseSource, StageChunks, EmbedChunks, FailPipeline, DropPipeline
  <2>4. CASE UNCHANGED vars
    BY <2>4 DEF vars
  <2> QED BY <2>1, <2>2, <2>3, <2>4 DEF Next
<1> QED BY <1>1, <1>2, <1>3, <1>4, <1>5, <1>6, <1>7, <1>8

(* The document implements what its readers are promised: publications     *)
(* follow the order of the generations and always carry the newest upload, *)
(* whatever pipelines race.                                                *)
THEOREM DocumentImplementsPublished == Spec => PublishedSpec
<1>1. Init => Published!Init
  BY DEF Init, Published!Init, Published!Nothing, OpenStatuses
<1> QED BY <1>1, StepRefines, Inductive, PTL DEF Spec, PublishedSpec, Published!Spec

=============================================================================
