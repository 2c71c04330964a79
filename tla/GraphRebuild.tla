---------------------------- MODULE GraphRebuild ----------------------------
(***************************************************************************)
(* The graphs of one document as queries and operators see them: the graph *)
(* a generation is built with, candidate graphs beside it, their review,   *)
(* the switch and the way back.                                            *)
(*                                                                         *)
(* A generation gets its graph row when its chunks are staged, and the     *)
(* graph is finished before the generation is published, after it, or      *)
(* never.  Every command of the rebuild tool is a process of its own.  It  *)
(* reads PostgreSQL, then reads Neo4j, and only then locks the rows and    *)
(* decides; commands, workers, uploads and publications go on meanwhile.   *)
(*                                                                         *)
(* The facts of a graph are a set here, its fingerprint that set, and each *)
(* fact is in a chunk of its own.  The chunks of a READY generation are    *)
(* frozen, so their fingerprint never differs.  How a graph is extracted   *)
(* chunk by chunk, with its leases, how it is erased, and the deletion of  *)
(* the document are the subject of GraphPipeline.                          *)
(***************************************************************************)
EXTENDS Naturals, FiniteSets

CONSTANTS
  Operators,       \* commands running at once
  Facts,           \* what a worker finds in the document
  MaxProjections,  \* bound: projections of the document
  MaxRebuilds,     \* bound: candidates among them
  MaxGenerations,  \* bound: generations whose chunks are staged
  MaxReviews       \* bound: reports that differ

ASSUME RebuildBoundsAssumption ==
  /\ MaxProjections \in Nat \ {0} /\ MaxGenerations \in Nat \ {0}
  /\ MaxRebuilds \in Nat /\ MaxReviews \in Nat
  /\ IsFiniteSet(Facts)

VARIABLES
  published,   \* active_generation_id, and the generations of the desired revision
  projection,  \* graph_projection rows with their GRAPH task and clean-up event, by id
  graph,       \* what Neo4j holds of a projection
  reviews,     \* reports of verify, with the verdicts filled in
  command,     \* commands under way
  touched      \* history: graphs that changed after a switch to them had read them

rebuildVars == <<published, projection, graph, reviews, command, touched>>

Projections == 1..MaxProjections
Generated == 1..MaxGenerations

Projection ==
  [status : {"NONE", "BUILDING", "READY", "STALE", "FAILED"},
   generation : 0..MaxGenerations,
   base : 0..MaxProjections,      \* base_projection_id; 0: the generation's first graph
   task : {"none", "open", "SUCCEEDED", "FAILED", "CANCELLED"},
   purge : {"none", "asked", "done"},  \* GRAPH_PURGE_GENERATION and the fence it leaves
   built : BOOLEAN,               \* ready_at is set
   excluded : SUBSET Facts,       \* fact_exclusions of a candidate
   count : 0..Cardinality(Facts)] \* relation_count

Review == [projection : Projections, facts : SUBSET Facts]

Command ==
  [phase : {"idle", "planned", "recorded",
            "activate", "rollback", "approved", "approvedBack"},
   target : 0..MaxProjections,
   facts : SUBSET Facts,          \* filter_candidate(): those to exclude; otherwise
                                  \* those the rows of projection_context() ask for
   left : SUBSET Facts,           \* chunks a filter has not rewritten yet
   active : 0..MaxProjections]    \* expected_active_id of a rollback

NoProjection == [status |-> "NONE", generation |-> 0, base |-> 0, task |-> "none",
                 purge |-> "none", built |-> FALSE, excluded |-> {}, count |-> 0]

(* A projection that a GRAPH task is to build.                             *)
NewProjection(g, base) ==
  [NoProjection EXCEPT !.status = "BUILDING", !.generation = g, !.base = base,
                       !.task = "open"]

NoCommand == [phase |-> "idle", target |-> 0, facts |-> {}, left |-> {}, active |-> 0]

RebuildTypeOK ==
  /\ published \in [active : 0..MaxGenerations, newest : 0..MaxGenerations,
                    wanted : SUBSET Generated]
  /\ projection \in [Projections -> Projection]
  /\ graph \in [Projections -> SUBSET Facts]
  /\ reviews \subseteq Review
  /\ command \in [Operators -> Command]
  /\ touched \subseteq Projections

(* A document that has no chunks yet, or one that was published before     *)
(* there were graphs.                                                      *)
RebuildInit ==
  /\ published \in {[active |-> g, newest |-> g, wanted |-> 1..g] : g \in {0, 1}}
  /\ projection = [p \in Projections |-> NoProjection]
  /\ graph = [p \in Projections |-> {}]
  /\ reviews = {}
  /\ command = [o \in Operators |-> NoCommand]
  /\ touched = {}

-----------------------------------------------------------------------------
(* What the transactions look up *)

Running(o, phase) == command[o].phase = phase
Continues(o, phase) == command' = [command EXCEPT ![o].phase = phase]
Stops(o) == command' = [command EXCEPT ![o] = NoCommand]

IsActive(p) == projection[p].generation = published.active
IsWanted(p) == projection[p].generation \in published.wanted

(* require_current() on top of locked_document().                          *)
IsCurrent(p) == IsActive(p) /\ IsWanted(p)

IsNext(p) ==
  projection[p].status = "NONE" /\ \A q \in 1..(p - 1) : projection[q].status # "NONE"

(* The candidate is complete and not yet visible.                          *)
IsComplete(p) ==
  /\ projection[p].base # 0
  /\ projection[p].status = "BUILDING" /\ projection[p].task = "SUCCEEDED"

(* check_snapshot(): the facts that make what PostgreSQL says of the row    *)
(* complete and consistent.  The empty set: no graph would be sound.       *)
SoundFacts(row) ==
  LET facts == Facts \ row.excluded
  IN IF /\ row.built /\ (row.base # 0 => row.task = "SUCCEEDED")
        /\ row.count = Cardinality(facts)
     THEN facts ELSE {}

(* A switch to p, or back to it, has read its graph already.               *)
WasRead(p) ==
  \/ projection[p].status # "BUILDING"
  \/ \E o \in Operators :
       command[o].target = p /\ command[o].phase \in {"approved", "approvedBack"}

(* write_chunk(): refused in a generation that was erased.                 *)
Writes(p, facts) ==
  /\ projection[p].purge # "done"
  /\ graph' = [graph EXCEPT ![p] = facts]
  /\ touched' = IF WasRead(p) /\ facts # graph[p] THEN touched \cup {p} ELSE touched

-----------------------------------------------------------------------------
(* The graph of a generation *)

(* stage_chunks(): a generation of the desired revision gets its row.      *)
Stage(n) ==
  LET g == published.newest + 1
  IN /\ g <= MaxGenerations /\ IsNext(n)
     /\ published' = [published EXCEPT !.newest = g, !.wanted = @ \cup {g}]
     /\ projection' = [projection EXCEPT ![n] = NewProjection(g, 0)]
     /\ UNCHANGED <<graph, reviews, command, touched>>

(* enqueue_candidate() of the back-fill: a published generation without a  *)
(* graph gets one.                                                         *)
Backfill(n) ==
  /\ published.active \in published.wanted /\ IsNext(n)
  /\ \A q \in Projections : projection[q].generation # published.active
  /\ projection' = [projection EXCEPT ![n] = NewProjection(published.active, 0)]
  /\ UNCHANGED <<published, graph, reviews, command, touched>>

(* requeue_failed() of the back-fill: a first graph that failed is tried   *)
(* again.                                                                  *)
Requeue(p) ==
  /\ projection[p].base = 0 /\ projection[p].task = "FAILED" /\ IsCurrent(p)
  /\ projection' = [projection EXCEPT ![p].task = "open", ![p].status = "BUILDING",
                                      ![p].built = FALSE, ![p].count = 0]
  /\ UNCHANGED <<published, graph, reviews, command, touched>>

(* GraphQueue.finish(): a first graph is READY at once, published or not;  *)
(* a candidate stays BUILDING, and is finished only if it is current.      *)
Finish(p) ==
  LET ready == projection[p].base = 0
  IN /\ projection[p].task = "open" /\ IsWanted(p) /\ (ready \/ IsActive(p))
     /\ projection' = [projection EXCEPT
          ![p].task = "SUCCEEDED", ![p].status = IF ready THEN "READY" ELSE "BUILDING",
          ![p].built = TRUE, ![p].count = Cardinality(Facts)]
     /\ graph' = [graph EXCEPT ![p] = Facts]
     /\ UNCHANGED <<published, reviews, command, touched>>

FailBuild(p) ==
  /\ projection[p].task = "open"
  /\ projection' = [projection EXCEPT ![p].task = "FAILED", ![p].status = "FAILED"]
  /\ UNCHANGED <<published, graph, reviews, command, touched>>

(* A worker lost its lease in the middle of a write; another one finished  *)
(* the candidate from the same cache before the write arrives.             *)
LateWrite(p) ==
  /\ projection[p].base # 0 /\ projection[p].task = "SUCCEEDED"
  /\ \E f \in Facts \ graph[p] : Writes(p, graph[p] \cup {f})
  /\ UNCHANGED <<published, projection, reviews, command>>

-----------------------------------------------------------------------------
(* Uploads and publications *)

Cancelled(row) == [row EXCEPT !.task = IF @ = "open" THEN "CANCELLED" ELSE @]

(* The row of a graph nobody will need, and the event that has it erased.  *)
Retired(row) == [Cancelled(row) EXCEPT !.status = "STALE",
                                       !.purge = IF @ = "none" THEN "asked" ELSE @]

(* Of the older revisions only what is READY stays.                        *)
Superseded(row) == IF row.status \in {"BUILDING", "FAILED"} THEN Retired(row) ELSE row

(* persist() of a new revision.                                            *)
Upload ==
  /\ published' = [published EXCEPT !.wanted = {}]
  /\ projection' = [p \in Projections |-> Superseded(projection[p])]
  /\ UNCHANGED <<graph, reviews, command, touched>>

(* publish_chunks(): the graphs of the predecessor are retired, and those  *)
(* of the generation are whatever they are.                                *)
Publish(g) ==
  /\ g \in published.wanted /\ g > published.active
  /\ published' = [published EXCEPT !.active = g]
  /\ projection' = [p \in Projections |->
       IF projection[p].status # "NONE" /\ IsActive(p)
       THEN Retired(projection[p]) ELSE projection[p]]
  /\ UNCHANGED <<graph, reviews, command, touched>>

(* The clean-up: the facts go, and a fence stays.                          *)
Erase(p) ==
  /\ projection[p].purge = "asked"
  /\ projection' = [projection EXCEPT ![p].purge = "done"]
  /\ graph' = [graph EXCEPT ![p] = {}]
  /\ UNCHANGED <<published, reviews, command, touched>>

-----------------------------------------------------------------------------
(* Candidates *)

Plan(o, p) ==
  /\ Running(o, "idle") /\ projection[p].status = "READY" /\ IsCurrent(p)
  /\ command' = [command EXCEPT ![o] = [NoCommand EXCEPT !.phase = "planned", !.target = p]]
  /\ UNCHANGED <<published, projection, graph, reviews, touched>>

(* enqueue(): the base is still the one that serves.                       *)
Enqueue(o, n) ==
  LET p == command[o].target
  IN /\ Running(o, "planned") /\ projection[p].status = "READY" /\ IsCurrent(p)
     /\ \A q \in Projections :
          projection[q].generation = projection[p].generation /\ projection[q].base # 0
            => projection[q].task # "open"
     /\ IsNext(n) /\ Cardinality({q \in Projections : projection[q].base # 0}) < MaxRebuilds
     /\ projection' = [projection EXCEPT ![n] = NewProjection(projection[p].generation, p)]
     /\ Stops(o)
     /\ UNCHANGED <<published, graph, reviews, touched>>

-----------------------------------------------------------------------------
(* Commands on a projection *)

(* projection_context(), the first step of a switch.  Where the rows are   *)
(* not sound it is refused: it need not start.                             *)
Start(o, p, name, active) ==
  /\ Running(o, "idle") /\ IsCurrent(p) /\ SoundFacts(projection[p]) # {}
  /\ command' = [command EXCEPT ![o] =
       [phase |-> name, target |-> p, facts |-> SoundFacts(projection[p]),
        left |-> {}, active |-> active]]
  /\ UNCHANGED <<published, projection, graph, reviews, touched>>

StartSwitch(o, p) ==
  \/ IsComplete(p) /\ Start(o, p, "activate", 0)
  \/ \E q \in Projections : projection[q].status = "READY" /\ Start(o, p, "rollback", q)

(* filter_candidate() knows the facts it excludes and leaves some; what it *)
(* read before, save_state() looks up again.  The decision is recorded     *)
(* before Neo4j is touched ...                                             *)
RecordExclusions(o, p) ==
  /\ Running(o, "idle") /\ IsCurrent(p) /\ IsComplete(p)
  /\ \E excluded \in (SUBSET Facts) \ {{}, Facts} :
       /\ projection' = [projection EXCEPT ![p].excluded = excluded]
       /\ command' = [command EXCEPT ![o] =
            [phase |-> "recorded", target |-> p, facts |-> excluded,
             left |-> Facts, active |-> 0]]
  /\ UNCHANGED <<published, graph, reviews, touched>>

(* ... chunk after chunk is written again, without looking at the rows ... *)
RewriteChunk(o) ==
  LET p == command[o].target
  IN /\ Running(o, "recorded")
     /\ \E f \in command[o].left :
          /\ Writes(p, IF f \in command[o].facts THEN graph[p] \ {f} ELSE graph[p] \cup {f})
          /\ command' = [command EXCEPT ![o].left = @ \ {f}]
     /\ UNCHANGED <<published, projection, reviews>>

(* ... and it is recorded again, with the new numbers.                     *)
RecordCounts(o) ==
  LET p == command[o].target
      excluded == command[o].facts
  IN /\ Running(o, "recorded") /\ command[o].left = {} /\ IsCurrent(p) /\ IsComplete(p)
     /\ projection' = [projection EXCEPT
          ![p].excluded = excluded, ![p].count = Cardinality(Facts \ excluded)]
     /\ Stops(o)
     /\ UNCHANGED <<published, graph, reviews, touched>>

(* verify writes a report on the graph as it is, sound or not, and a       *)
(* reviewer supports all it samples.  Reports on other graphs than         *)
(* candidates decide nothing.                                              *)
Verify(p) ==
  /\ IsCurrent(p) /\ projection[p].base # 0 /\ graph[p] # {}
  /\ reviews' = reviews \cup {[projection |-> p, facts |-> graph[p]]}
  /\ Cardinality(reviews') <= MaxReviews
  /\ UNCHANGED <<published, projection, graph, command, touched>>

(* Fault: the fingerprint of the report is not compared.                   *)
IsReviewed_AnySnapshot(p, facts) == \E r \in reviews : r.projection = p

(* approve_review(): the report is about this graph as it is.              *)
IsReviewed(p, facts) == [projection |-> p, facts |-> facts] \in reviews

(* The graph is read and checked; an activation needs a report as well.    *)
Approve(o) ==
  LET p == command[o].target
  IN /\ p # 0 /\ graph[p] = command[o].facts
     /\ \/ Running(o, "activate") /\ IsReviewed(p, graph[p]) /\ Continues(o, "approved")
        \/ Running(o, "rollback") /\ Continues(o, "approvedBack")
     /\ UNCHANGED <<published, projection, graph, reviews, touched>>

(* The row of the graph to switch to, and that of the one it replaces.     *)
MayReplace(o, active) ==
  LET target == projection[command[o].target]
  IN \/ Running(o, "approved") /\ IsComplete(command[o].target) /\ active = target.base
     \/ /\ Running(o, "approvedBack") /\ target.built /\ target.status = "STALE"
        /\ active = command[o].active

Serves(q, p) ==
  projection[q].status = "READY" /\ projection[q].generation = projection[p].generation

(* switch(): all rows are locked.                                          *)
Switch(o) ==
  LET p == command[o].target
  IN /\ command[o].phase \in {"approved", "approvedBack"} /\ IsCurrent(p)
     /\ \E active \in Projections \ {p} :
          /\ Serves(active, p) /\ MayReplace(o, active)
          /\ projection' = [projection EXCEPT ![active].status = "STALE",
                                              ![p].status = "READY"]
     /\ Stops(o)
     /\ UNCHANGED <<published, graph, reviews, touched>>

(* A command is refused, fails, or its process dies.                       *)
Interrupt(o) ==
  /\ ~Running(o, "idle")
  /\ Stops(o)
  /\ UNCHANGED <<published, projection, graph, reviews, touched>>

-----------------------------------------------------------------------------
RebuildNext ==
  \/ \E o \in Operators :
       \/ \E p \in Projections : \/ Plan(o, p) \/ Enqueue(o, p)
                                 \/ RecordExclusions(o, p) \/ StartSwitch(o, p)
       \/ RewriteChunk(o) \/ RecordCounts(o)
       \/ Approve(o) \/ Switch(o) \/ Interrupt(o)
  \/ \E p \in Projections :
       \/ Stage(p) \/ Backfill(p) \/ Requeue(p)
       \/ Finish(p) \/ FailBuild(p)
       \/ LateWrite(p) \/ Verify(p) \/ Erase(p)
  \/ Upload \/ \E g \in Generated : Publish(g)

RebuildSpec == RebuildInit /\ [][RebuildNext]_rebuildVars

-----------------------------------------------------------------------------
(* Properties *)

(* active_graph_projection() finds this one.                               *)
ServesQueries(p) == projection[p].status = "READY" /\ IsActive(p)

(* A rollback may return to it.                                            *)
IsRetained(p) == projection[p].status = "STALE" /\ IsActive(p) /\ IsWanted(p)

(* A generation never has two READY graphs: the unique index is no         *)
(* obstacle to a worker that finishes, a switch or a rollback, and queries *)
(* are never served by two graphs (finish, switch, requeue_failed).        *)
AtMostOneGraphServes ==
  \A p \in Projections : \A q \in Projections \ {p} :
    projection[p].status = "READY" /\ projection[q].status = "READY"
      => projection[p].generation # projection[q].generation

(* No graph that serves, or that a rollback may make serve, is being       *)
(* erased or was (publish_chunks, persist, delete_generation).             *)
NeededGraphsStay ==
  \A p \in Projections : ServesQueries(p) \/ IsRetained(p) => projection[p].purge = "none"

(* A candidate that serves is, fact by fact, a graph that a reviewer saw,  *)
(* also after it was replaced and switched back to, unless a filter or a   *)
(* late worker changed it after the switch had read it (approve_review,    *)
(* switch).                                                                *)
ServedGraphsWereReviewed ==
  \A p \in Projections \ touched :
    projection[p].status = "READY" /\ projection[p].base # 0
      => [projection |-> p, facts |-> graph[p]] \in reviews

(* A generation that was published and got its graph finished, in either   *)
(* order, is served: by that graph or by one that replaced it.  No upload, *)
(* failure, clean-up or switch takes it away (finish, publish_chunks,      *)
(* persist, switch).                                                       *)
FinishedGraphsServe ==
  \A p \in Projections :
    projection[p].base = 0 /\ projection[p].task = "SUCCEEDED" /\ IsActive(p)
      => \E q \in Projections : ServesQueries(q)

(* Queries are served by at most one graph, by none that is erased, by     *)
(* some graph once the first one is finished, and by a rebuilt one as it   *)
(* was reviewed.                                                           *)
ServesOneReviewedGraph ==
  /\ AtMostOneGraphServes /\ NeededGraphsStay /\ FinishedGraphsServe
  /\ ServedGraphsWereReviewed

=============================================================================
