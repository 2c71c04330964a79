---------------------------- MODULE QueryPlanning ----------------------------
(***************************************************************************)
(* From a question to a plan and, for the catalog, to its answer.  The     *)
(* asker may select filters, the question says conditions on the metadata  *)
(* of documents, and a language model says which ones it found: it may     *)
(* miss one, misread one or fail.  A count must rest on every condition;   *)
(* what cannot be understood entirely must stop.                           *)
(*                                                                         *)
(* In a chat the question may refer to the turn before.  A model may put   *)
(* what it refers to in the place of the reference and change nothing      *)
(* else.  What an earlier turn says may be a condition; it is refused      *)
(* where lists of patterns notice that.  Whether the earlier turn may be   *)
(* read is up to ChatRun.                                                  *)
(*                                                                         *)
(* Conditions are on one field and compare for equality; wording is        *)
(* abstracted to the phrases a question consists of.  Conditions of order  *)
(* and on dates are left out: the words of their operators need not be in  *)
(* the fragment that explains them.  readable are the documents the asker  *)
(* may read in the generation that was published when the scope was        *)
(* resolved.                                                               *)
(***************************************************************************)
EXTENDS Retrieval

CONSTANTS
  Values,           \* of the field; 0 is NULL
  MaxConditions,    \* bound: phrases of a question, conditions found in it
  Noticed,          \* conditions whose wording the patterns of the rewriter match
  FilterSelections, \* bound: filters the asker may select
  Histories         \* bound: what earlier turns of a chat said

ASSUME PlanningConstantsAssumption ==
  /\ Values \subseteq Nat \ {0} /\ MaxConditions \in Nat /\ << >> \in Histories
  /\ Noticed \subseteq [operator : {"eq", "neq"}, value : Values]
  /\ FilterSelections \subseteq SUBSET [operator : {"eq", "neq"}, value : Values]

VARIABLES
  attribute,  \* the field of each document
  anchored,   \* the asker may read the knowledge bases of the scope
  updated,    \* documents changed since the catalog was read (updated_at)
  planning,
  seen        \* the right answers at every moment (for the property only)

planningVars ==
  <<readable, projected, signedIn, worldChanges, run, since,
    attribute, anchored, updated, planning, seen>>

Conditions == [operator : {"eq", "neq"}, value : Values]
FoundConditions == [operator : {"eq", "neq", "unspecified"}, value : Values]
Small(sets) == {s \in sets : IsFiniteSet(s) /\ Cardinality(s) <= MaxConditions}

(* What a turn said is a condition, or just names something.               *)
Named == [operator |-> "none", value |-> 0]
Wordings == Conditions \cup {Named}

(* The statements of an answer that was not reviewed do not count.         *)
Turn == [question : SUBSET Wordings, statements : Seq(SUBSET Wordings)]

(* Wording of a turn, of its question or of the statement with a number.   *)
Terms == [turn : 1..Max({1} \cup {Len(h) : h \in Histories}), statement : 0..2, text : Wordings]

ItemOf == [first |-> 1, second |-> 2]

Question ==
  [refers : {"none", "object", "first", "second"},  \* "it", "the first one"
   phrases : SUBSET Conditions,  \* "documents that are (not) ..."
   either : BOOLEAN,             \* joined by "or"
   catalog : BOOLEAN,            \* how many documents, which documents
   more : BOOLEAN,               \* anything else
   filters : SUBSET Conditions]  \* selected beside it

PlanningTypeOK ==
  /\ attribute \in [Documents -> Values \cup {0}] /\ anchored \in BOOLEAN
  /\ updated \subseteq Documents /\ seen \subseteq SUBSET Documents
  /\ planning.stage \in {"rewrite", "analysis", "graph", "execute", "counted", "retrieved",
                         "answered", "stopped"}
  /\ planning.question \in Question /\ planning.said \subseteq Conditions
  /\ planning.scope \subseteq Documents
  /\ planning.route \in {"none", "clarify", "structured", "hybrid", "hybrid_graph"}
  /\ planning.constraints \subseteq FoundConditions /\ planning.filters \subseteq Conditions
  /\ planning.sources \subseteq Documents

-----------------------------------------------------------------------------
(* Conditions *)

(* compile_filters(): NULL meets no condition.                             *)
Meets(value, c) == IF c.operator = "eq" THEN value = c.value ELSE value \notin {c.value, 0}

MeetsAll(d, conditions) == \A c \in conditions : Meets(attribute[d], c)

InCatalog(conditions) == {d \in planning.scope \cap readable : MeetsAll(d, conditions)}

(* _validate_conjunction(): one of them may be another value than Values.  *)
Possible(conditions) ==
  LET allowed == {c.value : c \in {x \in conditions : x.operator = "eq"}}
      excluded == {c.value : c \in {x \in conditions : x.operator = "neq"}}
  IN allowed = {} \/ (Cardinality(allowed) = 1 /\ allowed \cap excluded = {})

(* Fault for checking: the value alone explains a phrase.                  *)
Explains_AnyOperator(c, phrase) == c.value = phrase.value

(* The fragment a found condition removes from the question.               *)
Explains(c, phrase) == c = phrase

(* _catalog_operation(): when the fragments are removed, nothing may be    *)
(* left of the question but the operation.  Business conditions stay, and  *)
(* so does a value the question negates and the condition does not.        *)
CatalogOperation(question, found, business) ==
  /\ question.catalog /\ ~ question.more /\ ~ business
  /\ \A p \in question.phrases : \E c \in found : Explains(c, p)
  /\ \A c \in found : c.operator = "eq" => [c EXCEPT !.operator = "neq"] \notin question.phrases

(* validate_grounding(): the value of a condition is in the question, not  *)
(* necessarily as a condition.                                             *)
Grounded(question, found) ==
  question.more \/ {c.value : c \in found} \subseteq {p.value : p \in question.phrases}

(* What a catalog answer should rest on.                                   *)
Asked == planning.said \cup planning.question.filters \cup planning.constraints

-----------------------------------------------------------------------------
(* The plan *)

InStage(stage) == planning.stage = stage
WorldRemains == UNCHANGED <<readable, projected, signedIn, worldChanges, run, since, attribute,
                            anchored>>
PlanningRemains == WorldRemains /\ UNCHANGED <<updated, seen>>

Stops == planning' = [planning EXCEPT !.stage = "stopped"]

(* The text of the question matters no longer, but to a catalog answer.    *)
Goes(stage, route, constraints, filters) ==
  planning' = [planning EXCEPT !.stage = stage, !.route = route,
    !.constraints = constraints, !.filters = filters,
    !.said = IF route = "structured" THEN @ ELSE {},
    !.question = IF route = "structured" THEN [@ EXCEPT !.refers = "none"]
                 ELSE [@ EXCEPT !.refers = "none", !.phrases = {}, !.either = FALSE,
                                !.catalog = FALSE, !.more = FALSE]]

Hybrid(stage, constraints, filters) ==
  IF planning.scope = {} THEN Stops ELSE Goes(stage, "hybrid", constraints, filters)

(* plan_with_graph() and route(): the filters are resolved, all of them or *)
(* none, then the route follows from what was found.                       *)
Plans(found, business, intent) ==
  LET question == planning.question
      filters == question.filters \cup found
      operation == CatalogOperation(question, found, business)
      unclear == \/ question.either /\ Cardinality(found) > 1
                 \/ \E c \in found : c.operator = "unspecified"
                 \/ ~ Possible(filters)
  IN IF filters # {} /\ unclear THEN Stops
     ELSE IF operation THEN Goes("execute", "structured", found, filters)
     ELSE IF intent = "statistics" THEN Stops
     ELSE IF intent = "chitchat" /\ ~ question.catalog /\ filters = {} THEN Stops
     ELSE Hybrid(IF intent = "relationship" THEN "graph" ELSE "execute", found, filters)

AnalyzerAnswers(found, business, intent) ==
  /\ InStage("analysis")
  /\ Grounded(planning.question, found)
  /\ intent = "chitchat" => found = {} /\ ~ business
  /\ Plans(found, business, intent) /\ WorldRemains /\ UNCHANGED updated
  /\ seen' = {InCatalog(Asked)'}

(* The analyzer asks back, the resolver does not know a department or a    *)
(* date, the question needs its context: the answer is a question.         *)
AsksBack == InStage("analysis") /\ Stops /\ PlanningRemains

(* Without an analysis only what was selected is known.  Nothing is done   *)
(* for a question that refers to another, or that lists all documents: the *)
(* latter is told by other words than a catalog question, see AsksBack.    *)
AnalyzerFails ==
  LET filters == planning.question.filters
  IN /\ InStage("analysis") /\ PlanningRemains
     /\ IF planning.question.refers = "none" /\ Possible(filters)
        THEN Hybrid("execute", {}, filters) ELSE Stops

(* The graph answers for all entities of the question, or retrieval does   *)
(* without it, with the same filters.                                      *)
ConfirmGraph(ready) ==
  /\ InStage("graph")
  /\ planning' = [planning EXCEPT !.stage = "execute",
                                  !.route = IF ready THEN "hybrid_graph" ELSE @]
  /\ PlanningRemains

-----------------------------------------------------------------------------
(* The question of a chat *)

(* _validate_output(): the term is said in the last turn, by the statement *)
(* the question points to, and no pattern of a condition matches it.  The  *)
(* patterns know figures, dates and most file types, but neither business  *)
(* statuses nor other names of file types and departments.                 *)
IsReferent(term) ==
  LET history == planning.history
      turn == history[term.turn]
      refers == planning.question.refers
  IN /\ term.turn = Len(history)
     /\ term.statement <= Len(turn.statements)
     /\ refers # "object" => term.statement = ItemOf[refers]
     /\ term.text \in IF term.statement = 0 THEN turn.question ELSE turn.statements[term.statement]
     /\ term.text \notin Noticed

(* The question with the term in the place of the reference.               *)
Rebuilt(term) == planning.question.phrases \cup ({term.text} \cap Conditions)

GoesOn(question) ==
  planning' = [planning EXCEPT !.stage = "analysis", !.history = << >>, !.question = question]

(* rewrite(): the model names a term and writes the question anew, which   *)
(* has to be the one with the term.                                        *)
RewriterAnswers ==
  /\ InStage("rewrite") /\ planning.history # << >> /\ planning.question.refers # "none"
  /\ \E term \in Terms :
       /\ IsReferent(term)
       /\ GoesOn([planning.question EXCEPT !.refers = "none", !.phrases = Rebuilt(term)])
  /\ PlanningRemains

(* Without a turn before, or when the model fails, leaves the question     *)
(* alone or answers what is not valid, only one that refers to nothing     *)
(* goes on as it is.                                                       *)
KeepsQuestion ==
  /\ InStage("rewrite") /\ PlanningRemains
  /\ IF planning.question.refers = "none" THEN GoesOn(planning.question) ELSE Stops

(* The model asks back.                                                    *)
RewriterAsksBack == InStage("rewrite") /\ planning.history # << >> /\ Stops /\ PlanningRemains

-----------------------------------------------------------------------------
(* The answer *)

(* One statement reads the catalog.                                        *)
ReadCatalog ==
  /\ InStage("execute") /\ planning.route = "structured"
  /\ IF signedIn /\ anchored
     THEN planning' = [planning EXCEPT !.stage = "counted",
                                       !.sources = InCatalog(planning.filters)]
     ELSE Stops
  /\ updated' = {} /\ WorldRemains /\ UNCHANGED seen

(* revalidate_provenance(): everything that was counted is as it was.      *)
CatalogHolds ==
  /\ signedIn /\ anchored
  /\ planning.sources \subseteq InCatalog(planning.filters) \ updated

PublishCatalog ==
  /\ InStage("counted") /\ CatalogHolds
  /\ planning' = [planning EXCEPT !.stage = "answered"] /\ PlanningRemains

(* A document of the scope that was not counted may be gone altogether.    *)
CatalogChanged ==
  /\ InStage("counted") /\ (~ CatalogHolds \/ ~ planning.scope \subseteq readable)
  /\ Stops /\ PlanningRemains

(* Retrieval and answering (see there) check the filters with the rights.  *)
RetrieveFiltered ==
  /\ InStage("execute") /\ planning.route \in {"hybrid", "hybrid_graph"} /\ signedIn
  /\ \E some \in SUBSET InCatalog(planning.filters) :
       planning' = [planning EXCEPT !.stage = "retrieved", !.sources = some]
  /\ PlanningRemains

AnswerFiltered ==
  /\ InStage("retrieved") /\ signedIn
  /\ planning' = [planning EXCEPT !.stage = "answered",
                                  !.sources = @ \cap InCatalog(planning.filters)]
  /\ PlanningRemains

SignedOut ==
  /\ planning.stage \notin {"answered", "stopped"} /\ ~ signedIn
  /\ Stops /\ PlanningRemains

-----------------------------------------------------------------------------
(* Rights, publications and metadata change.  A change while the question  *)
(* is rewritten is one before the analysis: rewriting reads none of them.  *)
ChangeCatalog ==
  /\ planning.stage \notin {"rewrite", "answered", "stopped"}
  /\ worldChanges < MaxWorldChanges /\ worldChanges' = worldChanges + 1
  /\ \/ /\ \E d \in Documents, value \in Values \cup {0} :
             /\ value # attribute[d]
             /\ attribute' = [attribute EXCEPT ![d] = value] /\ updated' = updated \cup {d}
        /\ UNCHANGED <<readable, signedIn, anchored>>
     \/ /\ \E d \in Documents : readable' \in {readable \ {d}, readable \cup {d}}
        /\ UNCHANGED <<attribute, updated, signedIn, anchored>>
     \/ /\ anchored' = FALSE /\ readable' = {}
        /\ UNCHANGED <<attribute, updated, signedIn>>
     \/ signedIn' = FALSE /\ UNCHANGED <<readable, attribute, updated, anchored>>
  /\ UNCHANGED <<projected, run, since, planning>>
  /\ seen' = seen \cup {InCatalog(Asked)'}

PlanningInit ==
  /\ readable \in {{}, Documents} /\ projected = {} /\ signedIn = TRUE /\ worldChanges = 0
  /\ since = Now /\ run = [stage |-> "done"]
  \* Which document has which value makes no difference.
  /\ attribute = CHOOSE a \in [Documents -> Values] : {a[d] : d \in Documents} = Values
  /\ anchored = TRUE /\ updated = {}
  /\ \E phrases \in Small(SUBSET Conditions), either, catalog, more \in BOOLEAN,
        filters \in FilterSelections, stage \in {"rewrite", "analysis"}, history \in Histories,
        refers \in {"none", "object", "first", "second"} :
       /\ either => Cardinality(phrases) > 1
       /\ stage = "analysis" => history = << >> /\ refers \in {"none", "object"}
       /\ stage = "rewrite" => readable # {}  \* an empty scope is that of the analysis
       /\ planning = [stage |-> stage, said |-> phrases, history |-> history, scope |-> readable,
                      route |-> "none", constraints |-> {}, filters |-> {}, sources |-> {},
                      question |-> [refers |-> refers, phrases |-> phrases, either |-> either,
                                    catalog |-> catalog, more |-> more, filters |-> filters]]
  /\ seen = {InCatalog(Asked)}

PlanningNext ==
  \/ \E found \in Small(SUBSET FoundConditions), business \in BOOLEAN,
        intent \in {"statistics", "chitchat", "relationship", "other"} :
       AnalyzerAnswers(found, business, intent)
  \/ RewriterAnswers \/ KeepsQuestion \/ RewriterAsksBack \/ AsksBack \/ AnalyzerFails
  \/ \E ready \in BOOLEAN : ConfirmGraph(ready)
  \/ ReadCatalog \/ PublishCatalog \/ CatalogChanged
  \/ RetrieveFiltered \/ AnswerFiltered \/ SignedOut
  \/ ChangeCatalog

PlanningSpec == PlanningInit /\ [][PlanningNext]_planningVars

-----------------------------------------------------------------------------
(* Properties *)

Valued(conditions) == {c.value : c \in conditions}

(* No condition is lost between the question and the answer, and none that *)
(* the rewriter's patterns notice comes from an earlier turn.  A catalog   *)
(* answer was, at some moment since it was planned, exactly the documents  *)
(* of the scope that meet what the question says, what was selected and    *)
(* what the analyzer found, and all of them still do when it is given; an  *)
(* answer from texts uses only documents that meet what was selected and   *)
(* what the analyzer found (_validate_output, _catalog_operation,          *)
(* validate_grounding).                                                    *)
NoConditionIsLost ==
  [][planning.stage # planning'.stage /\ planning'.stage = "answered" =>
       IF planning.route = "structured"
       THEN /\ ~ planning.question.either /\ ~ planning.question.more
            /\ Valued(planning.constraints) \subseteq
                 Valued(planning.said \cup (Conditions \ Noticed))
            /\ planning'.sources \in seen
            /\ planning'.sources \subseteq InCatalog(Asked)
       ELSE planning'.sources \subseteq
              InCatalog(planning.question.filters \cup planning.constraints)
    ]_planningVars

(* Claim: what a catalog answer is counted with was said in the question   *)
(* itself, and not in an earlier turn (rewrite).                           *)
EarlierConditionsStayOut ==
  [][planning.stage # planning'.stage /\ planning'.stage = "answered"
       /\ planning.route = "structured"
       => Valued(planning.constraints) \subseteq Valued(planning.said)]_planningVars
=============================================================================
