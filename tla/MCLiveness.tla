----------------------------- MODULE MCLiveness -----------------------------
(***************************************************************************)
(* Two systems whose progress is checked side by side: a behaviour is one  *)
(* of ChatRun or one of DocumentIndex, while the other has not begun.  A   *)
(* system that has not begun enables no fair action.                       *)
(***************************************************************************)
EXTENDS ChatRun

CONSTANTS Workers, Targets, MaxAttempts, RetryAllowance, AttemptCap,
          MaxRevision, MaxGeneration, MaxTask, MaxPipelines

VARIABLES
  system, docStatus, revisions, desired, active, generation, task, attempt, work

Index == INSTANCE DocumentIndex

indexVars ==
  <<docStatus, revisions, desired, active, generation, task, attempt, work>>
systemVars == <<system, chatVars, indexVars>>

SystemsInit == system \in {"index", "chat"} /\ ChatInit /\ Index!Init

SystemsNext ==
  /\ UNCHANGED system
  /\ \/ system = "index" /\ Index!Next /\ UNCHANGED chatVars
     \/ system = "chat" /\ ChatNext /\ UNCHANGED indexVars

SystemsSpec ==
  SystemsInit /\ [][SystemsNext]_systemVars /\ ChatFairness /\ Index!Fairness

(* Every INDEX task comes to rest (DocumentIndex).                         *)
WorkSettles == Index!WorkSettles

(* Every upload is published, fails visibly or is made moot (DocumentIndex). *)
UploadIsDecided == Index!UploadIsDecided
=============================================================================
