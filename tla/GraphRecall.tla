----------------------------- MODULE GraphRecall -----------------------------
(***************************************************************************)
(* The graph branch of a retrieval: the entities of the question are found *)
(* in the graphs the asker may use, a plan is made of them, and the plan   *)
(* is carried out later.  Both read PostgreSQL and Neo4j in turn, each on  *)
(* a connection of its own, while documents are withdrawn and graphs are   *)
(* replaced and erased: Neo4j is trusted with nothing, what it says counts *)
(* only with a text that PostgreSQL still hands out.                       *)
(*                                                                         *)
(* Entities, relations and mentions are constants, and so is what the      *)
(* texts say of them; of names, contexts and quotes only the comparisons   *)
(* are left.  All documents are of one knowledge base.                     *)
(***************************************************************************)
EXTENDS Retrieval

CONSTANTS
  NameOf,      \* the normalized name of an entity
  KindOf,      \* its type
  TitleOf,     \* the normalized title of a document
  Relations,   \* assertions of the graphs, see Relation
  Mentions,    \* mentions of entities in the texts, see Mention
  Limits,      \* candidates asked for
  SeedLimit, PathLimit

VARIABLE recall

recallVars == <<readable, projected, signedIn, worldChanges, run, since, recall>>

Entities == DOMAIN NameOf
Names == {NameOf[e] : e \in Entities} \cup UNION {m.names : m \in Mentions}
BusinessKinds == {"Material", "Process", "Actor"}

Relation ==
  [id : Nat, subject : Entities, object : Entities, chunk : Chunks,
   predicate : {"REQUIRES_MATERIAL", "HAS_FIELD", "HAS_STEP", "RESPONSIBLE_FOR"},
   verbatim : BOOLEAN,   \* the quote is in the text
   strict : BOOLEAN]     \* and says so, with its conditions

Mention ==
  [id : Nat, entity : Entities, chunk : Chunks,
   names : SUBSET Names,     \* the name and its explicit aliases
   contexts : SUBSET STRING, \* what the text says it belongs to
   denied : BOOLEAN]         \* the text says it is another one

ASSUME RecallConstantsAssumption ==
  /\ Entities \subseteq Nat /\ DOMAIN KindOf = Entities /\ DOMAIN TitleOf = Documents
  /\ Relations \subseteq Relation /\ Mentions \subseteq Mention /\ IsFiniteSet(Relations)
  /\ \A r, s \in Relations : r.id = s.id => r = s
  /\ \A m, n \in Mentions : m.id = n.id => m = n
  /\ Limits \cup {SeedLimit, PathLimit} \subseteq Nat \ {0}

Questions == {"projections", "seeds", "mentions", "mention texts", "relations", "texts",
              "fresh projections", "path mentions", "path mention texts", "path relations",
              "path texts"}

RecallTypeOK ==
  /\ recall.phase \in Questions \cup {"planned", "unplanned", "done", "failed"}
  /\ recall.planning \in BOOLEAN   \* readiness(); otherwise recall()
  /\ recall.limit \in Limits /\ recall.hops \in {1, 2}
  /\ recall.names \subseteq Names  \* of the question
  /\ recall.planned \subseteq Documents /\ recall.seeds \subseteq Entities  \* of the plan
  /\ recall.projections \subseteq Documents  \* what may be asked of Neo4j
  /\ recall.found \subseteq Entities /\ recall.mentions \subseteq Mentions
  /\ recall.rows \cup recall.second \subseteq Relations
  /\ recall.hits \in Rankings /\ Len(recall.paths) <= PathLimit

-----------------------------------------------------------------------------
(* What texts say of entities *)

First(S) == CHOOSE s \in S : \A t \in S : s.id <= t.id
InOrder(S) == SortedBy(S, [s \in S |-> {t \in S : t.id < s.id}])

(* identity_conflict(): a text denies it, or the contexts are others.      *)
Conflict(l, r) ==
  l.denied \/ r.denied \/ (l.contexts # {} /\ r.contexts # {} /\ l.contexts \cap r.contexts = {})

(* identity_bridge(): the same thing under two entities, on the word of    *)
(* the texts: a shared context, or a document with its name.               *)
Bridges(l, r) ==
  LET common == l.names \cap r.names
      titles == {TitleOf[DocumentOf[m.chunk]] : m \in {l, r}}
  IN /\ ~ Conflict(l, r) /\ KindOf[l.entity] = KindOf[r.entity] /\ common # {}
     /\ \/ KindOf[l.entity] \in BusinessKinds /\ l.contexts \cap r.contexts # {}
        \/ KindOf[l.entity] \in BusinessKinds \ {"Actor"} /\ common \cap titles # {}

(* What the text of a relation itself says of one of its ends.             *)
Inline(e, c) ==
  LET here == {m \in Mentions : m.entity = e /\ m.chunk = c}
  IN IF here # {} THEN First(here)
     ELSE [id |-> 0, entity |-> e, chunk |-> c, names |-> {NameOf[e]}, contexts |-> {},
           denied |-> FALSE]

StartsPath(r) == r.predicate \in {"REQUIRES_MATERIAL", "HAS_STEP"} /\ r.subject \in recall.seeds

(* The end of the second relation that the path comes in at.               *)
Entry(first, second) ==
  IF first.predicate = "REQUIRES_MATERIAL" THEN second.subject ELSE second.object

Follows(first, second) ==
  /\ second.predicate = IF first.predicate = "REQUIRES_MATERIAL" THEN "HAS_FIELD"
                        ELSE "RESPONSIBLE_FOR"
  /\ first # second

(* One entity of one document joins two relations unless their texts       *)
(* disagree about it ...                                                   *)
SameEntity(first, second) ==
  first.object = Entry(first, second) /\ DocumentOf[first.chunk] = DocumentOf[second.chunk]

JoinedHere(first, second) ==
  /\ SameEntity(first, second)
  /\ KindOf[first.object] \in BusinessKinds =>
       ~ Conflict(Inline(first.object, first.chunk), Inline(first.object, second.chunk))

(* ... and otherwise a bridge between a mention in either document.        *)
BridgesOf(first, second, mentions) ==
  {pair \in mentions \X mentions :
     /\ pair[1].entity = first.object /\ pair[2].entity = Entry(first, second)
     /\ DocumentOf[pair[1].chunk] = DocumentOf[first.chunk]
     /\ DocumentOf[pair[2].chunk] = DocumentOf[second.chunk]
     /\ Bridges(pair[1], pair[2])}

Earliest(pairs) ==
  CHOOSE p \in pairs : \A q \in pairs : p[1].id < q[1].id \/ (p[1] = q[1] /\ p[2].id <= q[2].id)

(* The texts a path of these two relations needs; none: no path.           *)
SourcesOf(first, second, mentions) ==
  LET bridges == BridgesOf(first, second, mentions)
      own == <<first.chunk, second.chunk>>
  IN IF ~ Follows(first, second) THEN <<>>
     ELSE IF SameEntity(first, second) THEN IF JoinedHere(first, second) THEN own ELSE <<>>
     ELSE IF bridges = {} THEN <<>>
     ELSE own \o <<Earliest(bridges)[1].chunk, Earliest(bridges)[2].chunk>>

Gathering == [texts \in Seq(Chunks) |-> [path \in Seq(Chunks) |-> Distinct(texts \o path)]]
TextsOf(paths) == Folded(Gathering, <<>>, paths)

(* Paths in the order of their relations, as long as all their texts fit.  *)
Adding(first, mentions, limit) ==
  [paths \in Seq(Seq(Chunks)) |-> [second \in Relations |->
     LET more == Append(paths, SourcesOf(first, second, mentions))
     IN IF /\ SourcesOf(first, second, mentions) # <<>> /\ Len(paths) < PathLimit
           /\ Len(TextsOf(more)) <= limit
        THEN more ELSE paths]]

Joining(seconds, mentions, limit) ==
  [paths \in Seq(Seq(Chunks)) |-> [first \in Relations |->
     Folded(Adding(first, mentions, limit), paths, InOrder(seconds))]]

PathsOf(firsts, seconds, mentions, limit) ==
  Folded(Joining(seconds, mentions, limit), <<>>, InOrder(firsts))

-----------------------------------------------------------------------------
(* Steps *)

Asks(phase) == recall.phase = phase
RecallRemains == UNCHANGED <<readable, projected, signedIn, worldChanges, run>>

(* A transaction of PostgreSQL refreshes the identity.                     *)
Reads(phase) == Asks(phase) /\ signedIn /\ UNCHANGED since /\ RecallRemains

(* An answer of Neo4j: the READY graphs it was asked about are there, of   *)
(* the others there may be nothing left.                                   *)
Answers(phase) == Asks(phase) /\ since' = Now /\ RecallRemains
Left(gone) == recall.projections \ gone
Gone == SUBSET (Documents \ projected)

(* What the branch ends with; a plan needs candidates, and paths to go on  *)
(* for two hops.                                                           *)
Returns(hits, paths) ==
  recall' = [recall EXCEPT
    !.phase = IF ~ recall.planning THEN "done" ELSE IF hits = <<>> THEN "unplanned"
              ELSE "planned",
    !.hops = IF recall.planning /\ paths = <<>> THEN 1 ELSE @,
    !.hits = hits, !.paths = paths, !.rows = {}, !.second = {}, !.mentions = {}, !.found = {}]

ReturnsNothing == Returns(<<>>, <<>>)

(* _projections(): READY graphs of documents that may be read; a plan is   *)
(* carried out on its own ones only.                                       *)
Usable == readable \cap projected

ReadProjections ==
  LET current == IF recall.planning THEN Usable ELSE Usable \cap recall.planned
  IN /\ Reads("projections")
     /\ IF current = {} THEN ReturnsNothing
        ELSE recall' = [recall EXCEPT !.phase = "seeds", !.projections = current,
                                      !.planned = IF recall.planning THEN current ELSE @]

MentionedIn(documents) ==
  {e \in Entities : \E m \in Mentions : m.entity = e /\ DocumentOf[m.chunk] \in documents}

(* _chunks(): texts that may be read and whose graph is still the one that *)
(* was asked.                                                              *)
Texts(chunks) == {c \in chunks : DocumentOf[c] \in Usable \cap recall.projections}

(* The seeds of a plan: one entity for each name, or several that texts    *)
(* connect.                                                                *)
Matches(name, found, mentions) ==
  LET named == {e \in found : NameOf[e] = name}
  IN IF Cardinality(named) = 1 THEN named
     ELSE {m.entity : m \in {n \in mentions : name \in n.names}}

Coherent(matches, mentions) ==
  LET grouped == {m \in mentions : m.entity \in matches}
      anchor == CHOOSE m \in grouped : \A n \in grouped :
                  m.entity < n.entity \/ (m.entity = n.entity /\ m.id <= n.id)
  IN \/ Cardinality(matches) = 1
     \/ /\ matches # {}
        /\ \A e \in matches \ {anchor.entity} :
             \E m \in grouped : m.entity = e /\ Bridges(anchor, m)

PlanSeeds(mentions) ==
  LET matches == {Matches(n, recall.found, mentions) : n \in recall.names}
      seeds == UNION matches
  IN IF (\A m \in matches : Coherent(m, mentions)) /\ Cardinality(seeds) <= SeedLimit
     THEN recall' = [recall EXCEPT !.phase = "relations", !.seeds = seeds]
     ELSE ReturnsNothing

FindSeeds(gone) ==
  LET visible == MentionedIn(Left(gone))
      named == {e \in visible : NameOf[e] \in recall.names}
  IN /\ Answers("seeds")
     /\ IF recall.planning
        THEN recall' = [recall EXCEPT !.phase = "mentions", !.found = named]
        ELSE IF ~ recall.seeds \subseteq visible THEN ReturnsNothing
        ELSE recall' = [recall EXCEPT !.phase = "mentions", !.found = recall.seeds]

(* Mentions are asked for only when the names do not settle the seeds.     *)
SeedsAreSettled ==
  IF recall.planning
  THEN \A n \in recall.names : Cardinality({e \in recall.found : NameOf[e] = n}) = 1
  ELSE recall.names \subseteq {NameOf[e] : e \in recall.seeds}

SettleSeeds ==
  /\ Asks("mentions") /\ SeedsAreSettled /\ RecallRemains /\ UNCHANGED since
  /\ IF recall.planning THEN PlanSeeds({})
     ELSE recall' = [recall EXCEPT !.phase = "relations"]

(* _mentions(): first Neo4j, too many are none, ...                        *)
FindMentions(phase, next, entities, names, gone) ==
  /\ Answers(phase)
  /\ \E some \in {TRUE, FALSE} :
       recall' = [recall EXCEPT !.phase = next,
         !.mentions = {m \in Mentions : /\ some /\ DocumentOf[m.chunk] \in Left(gone)
                                        /\ \/ m.entity \in entities
                                           \/ NameOf[m.entity] \in names
                                           \/ m.names \cap names # {}}]

(* ... then the texts.                                                     *)
Supported(mentions) == {m \in mentions : m.chunk \in Texts({n.chunk : n \in mentions})}

MentionSeeds(gone) ==
  /\ ~ SeedsAreSettled
  /\ FindMentions("mentions", "mention texts", IF recall.planning THEN {} ELSE recall.seeds,
                  recall.names, gone)

ReadSeedTexts ==
  LET mentions == Supported(recall.mentions)
      missing == recall.names \ {NameOf[e] : e \in recall.seeds}
  IN /\ Reads("mention texts")
     /\ IF recall.planning THEN PlanSeeds(mentions)
        ELSE IF \A n \in missing : \E m \in mentions : n \in m.names /\ m.entity \in recall.seeds
        THEN recall' = [recall EXCEPT !.phase = "relations"]
        ELSE ReturnsNothing

(* reader.relations() and _valid_relation().                               *)
RelationsOf(entities, gone) ==
  {r \in Relations : /\ {r.subject, r.object} \cap entities # {}
                     /\ DocumentOf[r.chunk] \in Left(gone)}

FindRelations(gone) ==
  LET rows == RelationsOf(recall.seeds, gone)
  IN /\ Answers("relations")
     /\ IF rows = {} THEN ReturnsNothing
        ELSE recall' = [recall EXCEPT !.phase = "texts", !.rows = rows]

(* _quote_matches(): the text is handed out and holds the quote.           *)
Confirmed(rows) ==
  LET texts == Texts({r.chunk : r \in rows}) IN {r \in rows : r.verbatim /\ r.chunk \in texts}

(* The candidates of one hop: the more relations a text has the better.    *)
OneHop(rows) ==
  LET chunks == {r.chunk : r \in rows}
      count == [c \in chunks |-> Cardinality({r \in rows : r.chunk = c})]
  IN UpTo(SortedBy(chunks, [c \in chunks |->
            {b \in chunks : count[b] > count[c] \/ (count[b] = count[c] /\ b < c)}]),
          recall.limit)

ReadTexts ==
  LET rows == Confirmed(recall.rows)
      firsts == {r \in rows : StartsPath(r)}
  IN /\ Reads("texts")
     /\ IF recall.hops = 2 /\ firsts # {}
        THEN recall' = [recall EXCEPT !.phase = "fresh projections", !.rows = firsts,
                                      !.hits = OneHop(rows)]
        ELSE Returns(OneHop(rows), <<>>)

-----------------------------------------------------------------------------
(* Two hops *)

ReadFreshProjections ==
  LET current == Usable \cap recall.planned
  IN /\ Reads("fresh projections")
     /\ IF current = {} THEN Returns(recall.hits, <<>>)
        ELSE recall' = [recall EXCEPT !.phase = "path mentions", !.projections = current]

Middles == {r.object : r \in recall.rows}

MentionMiddles(gone) ==
  FindMentions("path mentions", "path mention texts", Middles, {NameOf[e] : e \in Middles}, gone)

ReadMiddleTexts ==
  LET mentions == Supported(recall.mentions)
  IN /\ Reads("path mention texts")
     /\ recall' = [recall EXCEPT !.phase = "path relations", !.mentions = mentions,
          !.found = Middles \cup {r.entity : r \in {m \in mentions :
                        \E l \in mentions : l.entity \in Middles /\ Bridges(l, m)}}]

FindSeconds(gone) ==
  /\ Answers("path relations")
  /\ recall' = [recall EXCEPT !.phase = "path texts", !.second = RelationsOf(recall.found, gone)]

(* Fault for checking: what was read before the second hop is not read     *)
(* again.                                                                  *)
PathTexts_FirstRead(chunks) == {c \in chunks : DocumentOf[c] \in recall.projections}

PathTexts(chunks) == Texts(chunks)

(* _paths(): every text is read again; a path needs all of its own.  The   *)
(* candidates without paths stay, after those with.                        *)
ReadPathTexts ==
  LET texts == PathTexts({x.chunk : x \in recall.rows \cup recall.second \cup recall.mentions})
      Strict(rows) == {r \in rows : r.verbatim /\ r.strict /\ r.chunk \in texts}
      paths == PathsOf(Strict(recall.rows), Strict(recall.second),
                       {m \in recall.mentions : m.chunk \in texts}, recall.limit)
  IN /\ Reads("path texts")
     /\ Returns(UpTo(Distinct(TextsOf(paths) \o recall.hits), recall.limit), paths)

-----------------------------------------------------------------------------
(* The plan is carried out, by a retrieval that begins after routing.      *)
CarryOut ==
  /\ Asks("planned")
  /\ recall' = [recall EXCEPT !.phase = "projections", !.planning = FALSE, !.hits = <<>>,
                              !.paths = <<>>, !.projections = {}]
  /\ UNCHANGED since /\ RecallRemains

(* A store fails, answers too late or too much, or the sign-in is over:    *)
(* there is no plan, or the branch fails.                                  *)
RecallFails ==
  /\ recall.phase \in Questions
  /\ recall' = [recall EXCEPT !.phase = "failed"]
  /\ UNCHANGED since /\ RecallRemains

RecallInit ==
  /\ readable = Documents /\ projected = Documents /\ signedIn = TRUE /\ worldChanges = 0
  /\ since = Now /\ run = [stage |-> "done"]
  /\ \E names \in (SUBSET Names) \ {{}}, limit \in Limits, hops \in {1, 2} :
       /\ Cardinality(names) <= SeedLimit
       /\ recall = [phase |-> "projections", planning |-> TRUE, limit |-> limit, hops |-> hops,
                    names |-> names, planned |-> {}, seeds |-> {}, projections |-> {},
                    found |-> {}, mentions |-> {}, rows |-> {}, second |-> {}, hits |-> <<>>,
                    paths |-> <<>>]

RecallNext ==
  \/ ReadProjections \/ SettleSeeds \/ ReadSeedTexts \/ ReadTexts
  \/ ReadFreshProjections \/ ReadMiddleTexts \/ ReadPathTexts
  \/ \E gone \in Gone : \/ FindSeeds(gone) \/ MentionSeeds(gone) \/ FindRelations(gone)
                        \/ MentionMiddles(gone) \/ FindSeconds(gone)
  \/ CarryOut \/ RecallFails
  \/ recall.phase \in Questions \cup {"planned"} /\ ChangeWorld /\ UNCHANGED <<run, recall>>

RecallSpec == RecallInit /\ [][RecallNext]_recallVars

-----------------------------------------------------------------------------
(* Properties *)

(* What a plan is made of and what the branch hands on: no more candidates *)
(* than asked for; a path only with all the texts that prove it among      *)
(* them; and each of those texts could be read, and its graph was the      *)
(* planned one, at some moment after the last answer of Neo4j (_paths).    *)
PathsComeWholeAndCurrent ==
  [][recall.phase # recall'.phase /\ recall'.phase \in {"planned", "done"} =>
       /\ Len(recall'.hits) <= recall.limit
       /\ \A i \in DOMAIN recall'.paths :
            /\ Range(recall'.paths[i]) \subseteq Range(recall'.hits)
            /\ \A c \in Range(recall'.paths[i]) :
                 DocumentOf[c] \in since.readable \cap since.projected \cap recall.planned
    ]_recallVars
=============================================================================
