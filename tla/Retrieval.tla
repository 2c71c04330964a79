------------------------------ MODULE Retrieval ------------------------------
(***************************************************************************)
(* One execution of a hybrid or graph plan: three recall branches, fusion, *)
(* reranking and the selection of evidence, while documents are withdrawn  *)
(* and graphs are replaced.                                                *)
(*                                                                         *)
(* Every database read takes a connection of its own, refreshes the        *)
(* identity and sees what is readable at that moment; between the reads    *)
(* the run waits for the embedder, for Neo4j and for the reranker.  What   *)
(* lies between two waits is one step.  Vectors, scores and texts are      *)
(* abstracted to the order the branches and the reranker return; published *)
(* text never changes, so a chunk stands for its text.                     *)
(***************************************************************************)
EXTENDS Naturals, Sequences, FiniteSets, SequencesExt

CONSTANTS
  Chunks,        \* chunk ids of the planned generations
  DocumentOf,    \* the document of a chunk
  TextOf,        \* equal for chunks of one document with the same text
  PathSeq,       \* business paths, each the set of chunks that prove it, by path_id
  Opinions,      \* bound: orders the branches and the reranker may think of, best first
  TopKs, CandidateKs, \* budgets of the plan
  MaxWorldChanges     \* bound: withdrawals, grants, replaced graphs

ASSUME RetrievalConstantsAssumption ==
  /\ Chunks \subseteq Nat /\ IsFiniteSet(Chunks)
  /\ DOMAIN DocumentOf = Chunks /\ DOMAIN TextOf = Chunks
  /\ PathSeq \in Seq(SUBSET Chunks)
  /\ \A o \in Opinions : /\ o \in Seq(Chunks) /\ Range(o) = Chunks
                         /\ Len(o) = Cardinality(Chunks)
  /\ TopKs \cup CandidateKs \subseteq Nat \ {0} /\ MaxWorldChanges \in Nat

VARIABLES
  readable,      \* documents the asker may read in the planned generation
  projected,     \* documents whose planned projection is READY
  signedIn,
  worldChanges,
  run,
  since          \* what was readable and projected at some moment since the
                 \* last answer from outside (for the properties only)

retrievalVars == <<readable, projected, signedIn, worldChanges, run, since>>

(* Sequences.  Steps and orders are functions and not operators passed to  *)
(* a library's fold, selection or sort, so that their results can be       *)
(* proved.                                                                 *)

(* What is left of base when every element of s has taken its step.        *)
Folded(step, base, s) ==
  LET partial[i \in 0..Len(s)] ==
        IF i = 0 THEN base ELSE step[partial[i - 1]][s[i]]
  IN partial[Len(s)]

(* The sequence f, computed once by TLC.                                   *)
Tuple(f) == <<>> \o f

(* S as a sequence: ahead[c] are the elements that come before c.          *)
SortedBy(S, ahead) ==
  Tuple([i \in 1..Cardinality(S) |-> CHOOSE c \in S : Cardinality(ahead[c]) = i - 1])

(* The elements of s at some of its places, in their order.                *)
Picked(s, places) ==
  LET sorted == SortedBy(places, [i \in places |-> {j \in places : j < i}])
  IN Tuple([k \in 1..Cardinality(places) |-> s[sorted[k]]])

Among(ranking, S) == Picked(ranking, {i \in DOMAIN ranking : ranking[i] \in S})

(* Every element once, in the order of its first occurrence.               *)
Distinct(s) == Picked(s, {i \in DOMAIN s : \A j \in 1..(i - 1) : s[j] # s[i]})

UpTo(s, n) == SubSeq(s, 1, IF Len(s) < n THEN Len(s) ELSE n)

Documents == {DocumentOf[c] : c \in Chunks}
Channels == {"dense", "bm25", "graph"}
KnownPaths == {PathSeq[i] : i \in 1..Len(PathSeq)}
Whole(paths, chunks) == {p \in paths : p \subseteq chunks}
Rankings == {s \in UNION {[1..n -> Chunks] : n \in 0..Cardinality(Chunks)} :
               \A i, j \in DOMAIN s : i # j => s[i] # s[j]}

Answered == {Among(o, S) : o \in Opinions, S \in SUBSET Chunks}

Run ==
  [stage : {"recall", "reranking", "reranked", "provenance", "traced", "done", "failed"},
   graphPlan : BOOLEAN, rerank : BOOLEAN, topK : TopKs, candidateK : CandidateKs,
   waiting : SUBSET Channels,     \* branches that have not answered
   unavailable : SUBSET Channels, \* branches that failed
   hits : [Channels -> Rankings],
   order : Rankings,              \* candidates, best first
   fusedOrder : Rankings,         \* the order of the first check
   facets : Seq(Rankings),        \* rankings for each facet of the question
   related : SUBSET Chunks,       \* candidates that carry graph relations
   paths : SUBSET KnownPaths]     \* complete paths among them

RetrievalTypeOK ==
  /\ readable \subseteq Documents /\ projected \subseteq Documents
  /\ signedIn \in BOOLEAN /\ worldChanges \in 0..MaxWorldChanges
  /\ DOMAIN run = DOMAIN [stage |-> 0, graphPlan |-> 0, rerank |-> 0, topK |-> 0,
                          candidateK |-> 0, waiting |-> 0, unavailable |-> 0, hits |-> 0,
                          order |-> 0, fusedOrder |-> 0, facets |-> 0, related |-> 0,
                          paths |-> 0]
  /\ run.order \in Rankings /\ run.fusedOrder \in Rankings
  /\ run.related \subseteq Chunks /\ run.paths \subseteq KnownPaths
  /\ since \in [readable : SUBSET Documents, projected : SUBSET Documents]


-----------------------------------------------------------------------------
(* Fusion, coverage of facets and path bundles *)

Rank(ranking, c) == CHOOSE i \in DOMAIN ranking : ranking[i] = c

(* 1 / (RRF_K + rank), on the common denominator of the first three ranks. *)
RRF(rank) == (61 * 62 * 63) \div (60 + rank)
Reciprocal(ranking, c) == IF c \in Range(ranking) THEN RRF(Rank(ranking, c)) ELSE 0

(* complete_paths(): every source is a candidate that carries its relation.*)
CompletePaths(paths, order, related) ==
  {p \in paths : p \subseteq Range(order) \cap related}

(* select_path_bundles(): the sources of a path are taken together or not  *)
(* as a path.                                                              *)
Bundling(order, paths, limit, c) ==
  [chosen \in Seq(Chunks) |-> [p \in SUBSET Chunks |->
     LET missing == p \ Range(chosen)
     IN IF p \in paths /\ c \in p /\ Len(chosen) + Cardinality(missing) <= limit
        THEN chosen \o Among(order, missing) ELSE chosen]]

Taking(order, paths, limit) ==
  [chosen \in Seq(Chunks) |-> [c \in Chunks |->
     IF c \in Range(chosen) THEN chosen
     ELSE LET bundled == Folded(Bundling(order, paths, limit, c), chosen, PathSeq)
          IN IF c \in Range(bundled) \/ Len(bundled) >= limit
             THEN bundled ELSE Append(bundled, c)]]

SelectBundles(order, paths, limit) == Folded(Taking(order, paths, limit), <<>>, order)

(* fuse_candidates(): by the sum of the reciprocal ranks, one chunk for    *)
(* each text of a document unless a path needs both.                       *)
Fuse(hits, paths, limit) ==
  LET recalled == UNION {Range(hits[ch]) : ch \in Channels}
      score == [c \in recalled |-> Reciprocal(hits["dense"], c) + Reciprocal(hits["bm25"], c)
                                     + Reciprocal(hits["graph"], c)]
      sorted == SortedBy(recalled, [c \in recalled |->
                  {b \in recalled : \/ score[b] > score[c]
                                    \/ score[b] = score[c] /\ b < c}])
      unique == Picked(sorted, {i \in DOMAIN sorted :
                  \/ sorted[i] \in UNION paths
                  \/ \A j \in 1..(i - 1) : TextOf[sorted[j]] # TextOf[sorted[i]]})
  IN SelectBundles(unique, CompletePaths(paths, unique, Range(hits["graph"])), limit)

(* fuse_facet_rankings(): the order of the recall and that of the facet    *)
(* count alike.                                                            *)
FacetOrder(fused, facet) ==
  LET score == [c \in Range(facet) |-> RRF(Rank(fused, c)) + RRF(Rank(facet, c))]
  IN SortedBy(Range(facet), [c \in Range(facet) |->
       {b \in Range(facet) : \/ score[b] > score[c]
                             \/ score[b] = score[c] /\ Rank(fused, b) < Rank(fused, c)}])

(* zip_longest(): the first of every ranking, then the second, ...         *)
InTurn(rankings) ==
  LET places == {p \in (1..Cardinality(Chunks)) \X (DOMAIN rankings) :
                   p[1] <= Len(rankings[p[2]])}
      sorted == SortedBy(places, [p \in places |->
                  {q \in places : \/ q[1] < p[1]
                                  \/ q[1] = p[1] /\ q[2] < p[2]}])
  IN Tuple([k \in 1..Cardinality(places) |-> rankings[sorted[k][2]][sorted[k][1]]])

(* Fault for checking: the best of every facet is not taken first.         *)
CoverFacets_Unanchored(ranked, fused, facets, S, limit) ==
  IF facets = <<>> THEN UpTo(ranked, limit)
  ELSE LET orders == Tuple([i \in DOMAIN facets |-> Among(FacetOrder(fused, facets[i]), S)])
       IN UpTo(Distinct(UpTo(ranked, 1) \o InTurn(orders) \o ranked), limit)

(* cover_facets(): the best for the question, the best for every facet,    *)
(* then the facets in turn.                                                *)
CoverFacets(ranked, fused, facets, S, limit) ==
  IF facets = <<>> THEN UpTo(ranked, limit)
  ELSE LET anchors == Among([i \in DOMAIN facets |-> facets[i][1]], S)
           orders == Tuple([i \in DOMAIN facets |-> Among(FacetOrder(fused, facets[i]), S)])
       IN UpTo(Distinct(UpTo(ranked, 1) \o anchors \o InTurn(orders) \o ranked), limit)

-----------------------------------------------------------------------------
(* The run *)

At(stage) == run.stage = stage

(* An AuthError of any step ends the run; the session is read every time.  *)
GiveUp ==
  /\ ~ At("done") /\ ~ At("failed")
  /\ run' = [run EXCEPT !.stage = "failed"]
  /\ UNCHANGED <<readable, projected, signedIn, worldChanges, since>>

Now == [readable |-> readable, projected |-> projected]

(* A branch answers with what the asker may read now, the graph branch,    *)
(* which reads several times (GraphRecall), with what could be read before *)
(* and with complete paths.  Vectors rank all that may be read, texts and  *)
(* graphs what matches.                                                    *)
Recall(ch, ranking, paths) ==
  LET found == {c \in Chunks : DocumentOf[c] \in readable}
  IN /\ At("recall") /\ signedIn /\ Len(ranking) <= run.candidateK
     /\ ch # "graph" => Range(ranking) \subseteq found
     /\ ch = "dense" => Len(ranking) = run.candidateK \/ Range(ranking) = found
     /\ ch # "graph" => paths = {}
     /\ run' = [run EXCEPT !.waiting = @ \ {ch}, !.hits[ch] = ranking, !.paths = @ \cup paths]
     /\ since' = Now
     /\ UNCHANGED <<readable, projected, signedIn, worldChanges>>

(* The embedder, Neo4j or the database of a branch fails.                  *)
BranchFails(ch) ==
  /\ At("recall")
  /\ run' = [run EXCEPT !.waiting = @ \ {ch}, !.unavailable = @ \cup {ch}]
  /\ UNCHANGED <<readable, projected, signedIn, worldChanges, since>>

(* Fault for checking: after the reranker has answered nothing is read     *)
(* again.                                                                  *)
Authorized_BeforeRerank(order) ==
  IF At("reranked") THEN order
  ELSE Among(order, {c \in Chunks : DocumentOf[c] \in readable})

(* _revalidate(): what is still readable.                                  *)
Authorized(order) == Among(order, {c \in Chunks : DocumentOf[c] \in readable})

(* What follows a check: candidates without it lose their paths; the       *)
(* selection follows the last check without a wait.                        *)
Continues(order, next) ==
  LET paths == CompletePaths(run.paths, order, run.related)
      covered == CoverFacets(order, run.fusedOrder, run.facets, Range(order), run.topK)
      selected == SelectBundles(Distinct(covered \o order), paths, run.topK)
  IN run' = IF next = "done"
            THEN [run EXCEPT !.stage = "done", !.order = selected,
                             !.paths = CompletePaths(paths, selected, run.related)]
            ELSE [run EXCEPT !.stage = next, !.order = order, !.paths = paths]

AfterRanking == IF run.graphPlan THEN "provenance" ELSE "done"

(* Fusion and the first check; then the texts go to the reranker, or the   *)
(* order of the fusion stays.  Nothing recalled: nothing to check.         *)
Fused(order) ==
  LET related == Range(run.hits["graph"]) \cap Range(order)
      reranks == run.rerank /\ Len(order) > 1
  IN run' = [run EXCEPT
       !.stage = IF reranks THEN "reranking" ELSE AfterRanking,
       !.hits = [ch \in Channels |-> <<>>], !.fusedOrder = order, !.related = related,
       !.order = IF reranks \/ run.graphPlan THEN order
                 ELSE SelectBundles(order, {}, run.topK),
       !.paths = CompletePaths(run.paths, order, related)]

FuseAndCheck ==
  /\ At("recall") /\ run.waiting = {}
  /\ ~ ({"dense", "bm25"} \subseteq run.unavailable /\ run.hits["graph"] = <<>>)
  /\ \E fused \in {Fuse(run.hits, run.paths, run.candidateK)} :
       /\ fused # <<>> => signedIn
       /\ \E order \in {Authorized(fused)} : Fused(order)
  /\ UNCHANGED <<readable, projected, signedIn, worldChanges, since>>

(* The reranker answers for the question and for each of its facets, or it *)
(* fails and the order of the fusion stays.                                *)
Reranked(ranking, facets) ==
  /\ At("reranking")
  /\ run' = [run EXCEPT !.stage = "reranked", !.order = ranking, !.facets = facets]
  /\ since' = Now
  /\ UNCHANGED <<readable, projected, signedIn, worldChanges>>

RerankerAnswers ==
  LET orders == {Among(opinion, Range(run.order)) : opinion \in Opinions}
  IN /\ At("reranking")
     /\ \/ \E ranking \in orders : Reranked(ranking, <<>>)
        \/ /\ run.topK >= 2   \* no more facets than places
           /\ \E ranking, first, second \in orders : Reranked(ranking, <<first, second>>)

RerankerFails == Reranked(run.order, <<>>)

CheckRanked ==
  /\ At("reranked") /\ signedIn /\ Continues(Authorized(run.order), AfterRanking)
  /\ UNCHANGED <<readable, projected, signedIn, worldChanges, since>>

(* _revalidate_graph_provenance(): relations of replaced graphs are        *)
(* stripped, all of them when the graph cannot be asked.                   *)
TraceGraph(answered) ==
  LET allowed == {c \in run.related : answered /\ DocumentOf[c] \in readable \cap projected}
  IN /\ At("provenance") /\ (run.related # {} => signedIn)
     /\ run' = [run EXCEPT !.stage = "traced", !.related = allowed,
                           !.paths = CompletePaths(run.paths, run.order, allowed)]
     /\ UNCHANGED <<readable, projected, signedIn, worldChanges, since>>

CheckTraced ==
  /\ At("traced") /\ signedIn /\ Continues(Authorized(run.order), "done")
  /\ UNCHANGED <<readable, projected, signedIn, worldChanges, since>>

(* The world changes.                                                      *)
ChangeWorld ==
  /\ worldChanges < MaxWorldChanges /\ worldChanges' = worldChanges + 1
  /\ \/ \E d \in Documents : readable' = readable \ {d} /\ UNCHANGED <<projected, signedIn>>
     \/ \E d \in Documents : readable' = readable \cup {d} /\ UNCHANGED <<projected, signedIn>>
     \/ \E d \in projected : projected' = projected \ {d} /\ UNCHANGED <<readable, signedIn>>
     \/ signedIn' = FALSE /\ UNCHANGED <<readable, projected>>
  /\ since' = [readable |-> since.readable \cup readable',
               projected |-> since.projected \cup projected']

RetrievalInit ==
  /\ readable = Documents /\ projected = Documents /\ signedIn = TRUE /\ worldChanges = 0
  /\ since = Now
  /\ \E graphPlan, rerank \in BOOLEAN, topK \in TopKs, candidateK \in CandidateKs :
       /\ topK <= candidateK
       /\ run = [stage |-> "recall", graphPlan |-> graphPlan, rerank |-> rerank,
                 topK |-> topK, candidateK |-> candidateK,
                 waiting |-> IF graphPlan THEN Channels ELSE Channels \ {"graph"},
                 unavailable |-> {}, hits |-> [ch \in Channels |-> <<>>], order |-> <<>>,
                 fusedOrder |-> <<>>, facets |-> <<>>, related |-> {}, paths |-> {}]

RetrievalNext ==
  \/ \E ch \in run.waiting :
       \/ \E ranking \in Answered : \E paths \in SUBSET Whole(KnownPaths, Range(ranking)) :
            Recall(ch, ranking, paths)
       \/ BranchFails(ch)
  \/ FuseAndCheck \/ RerankerAnswers \/ RerankerFails \/ CheckRanked
  \/ \E answered \in BOOLEAN : TraceGraph(answered)
  \/ CheckTraced \/ GiveUp
  \/ ~ At("done") /\ ~ At("failed") /\ ChangeWorld /\ UNCHANGED run

RetrievalSpec == RetrievalInit /\ [][RetrievalNext]_retrievalVars

-----------------------------------------------------------------------------
(* Properties *)

(* Text leaves the service only while it may be read: what goes to the     *)
(* reranker and what is returned as evidence was readable at some moment   *)
(* after the last answer of the embedder, Neo4j or the reranker, and a     *)
(* path is returned only with relations of graphs that were READY then.    *)
WithdrawnTextIsNotPassedOn ==
  [][run.stage # run'.stage /\ run'.stage \in {"reranking", "done"} =>
       /\ \A c \in Range(run'.order) : DocumentOf[c] \in since.readable
       /\ run'.stage = "done" => \A c \in UNION run'.paths : DocumentOf[c] \in since.projected
    ]_retrievalVars

(* What a run returns of the candidates its last check left: no more than  *)
(* asked for, nothing twice, every path with all of its sources, always    *)
(* the best candidate, and when no path claims a place also the best of    *)
(* each facet that is still readable.                                      *)
EvidenceHoldsTogether ==
  [][~ At("recall") /\ ~ At("done") /\ run'.stage = "done" =>
       LET left == Authorized(run.order)
           best == UpTo(left, 1) \o Among([i \in DOMAIN run.facets |-> run.facets[i][1]],
                                          Range(left))
       IN /\ Len(run'.order) <= run.topK
          /\ Cardinality(Range(run'.order)) = Len(run'.order)
          /\ \A p \in run'.paths : p \subseteq Range(run'.order) \cap run'.related
          /\ Range(UpTo(left, 1)) \subseteq Range(run'.order)
          /\ CompletePaths(run.paths, left, run.related) = {}
               => Range(UpTo(Distinct(best), run.topK)) \subseteq Range(run'.order)
    ]_retrievalVars
=============================================================================
