---------------------------- MODULE MCOperations ----------------------------
(***************************************************************************)
(* The operations around ingestion, side by side: a behaviour is one of    *)
(* AuthSession, OriginalFiles, GraphRebuild or LockOrder, and the others   *)
(* stay as they begin.  Graphs are rebuilt by one command after the other, *)
(* or with fewer graphs by two at a time.                                  *)
(***************************************************************************)
EXTENDS AuthSession, OriginalFiles, GraphRebuild, LockOrder, TLC

CONSTANTS
  People,             \* requests, commands and connections, which are alike
  MaxOverlappedGraphs \* bound: projections while two commands run at once

VARIABLE part

operationVars == <<part, authVars, filesVars, rebuildVars, lockVars>>

OperationsInit ==
  /\ part \in {"sign-in", "files", "rebuild", "overlap", "locks"}
  /\ AuthInit /\ FilesInit /\ RebuildInit /\ LockInit

OneCommand ==
  RebuildNext /\ Cardinality({o \in Operators : command'[o].phase # "idle"}) <= 1

FewGraphs ==
  RebuildNext /\ \A p \in Projections :
                    projection'[p].status # "NONE" => p <= MaxOverlappedGraphs

OperationsNext ==
  /\ UNCHANGED part
  /\ \/ part = "sign-in" /\ AuthNext /\ UNCHANGED <<filesVars, rebuildVars, lockVars>>
     \/ part = "files" /\ FilesNext /\ UNCHANGED <<authVars, rebuildVars, lockVars>>
     \/ part = "rebuild" /\ OneCommand /\ UNCHANGED <<authVars, filesVars, lockVars>>
     \/ part = "overlap" /\ FewGraphs /\ UNCHANGED <<authVars, filesVars, lockVars>>
     \/ part = "locks" /\ LockNext /\ UNCHANGED <<authVars, filesVars, rebuildVars>>

OperationsSpec == OperationsInit /\ [][OperationsNext]_operationVars

Symmetry == Permutations(People) \cup Permutations(Facts)
=============================================================================
