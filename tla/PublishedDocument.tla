-------------------------- MODULE PublishedDocument --------------------------
(***************************************************************************)
(* What the ingestion pipeline promises the readers of one document,       *)
(* whatever workers, retries and re-chunking runs do behind it: the served *)
(* index changes only to an index of the revision requested last, indexes  *)
(* are served in the order they were started and none twice, and nothing   *)
(* is served after a deletion.                                             *)
(***************************************************************************)
EXTENDS Naturals

CONSTANT Indexes   \* the numbers an index may have, all positive

VARIABLES
  stage,      \* "absent", "open", "deleted" or "purged"
  requested,  \* the revision requested last, 0 when there is none
  served      \* the index being served: its number and its revision

vars == <<stage, requested, served>>

Nothing == [index |-> 0, revision |-> 0]

Init == stage = "absent" /\ requested = 0 /\ served = Nothing

Request ==
  /\ stage \in {"absent", "open"}
  /\ stage' = "open"
  /\ requested' = requested + 1
  /\ UNCHANGED served

Serve(index) ==
  /\ stage = "open"
  /\ index > served.index
  /\ served' = [index |-> index, revision |-> requested]
  /\ UNCHANGED <<stage, requested>>

Delete ==
  /\ stage = "open"
  /\ stage' = "deleted" /\ requested' = 0 /\ served' = Nothing

Purge ==
  /\ stage = "deleted"
  /\ stage' = "purged"
  /\ UNCHANGED <<requested, served>>

Next == Request \/ (\E index \in Indexes : Serve(index)) \/ Delete \/ Purge

Spec == Init /\ [][Next]_vars
=============================================================================
