----------------------------- MODULE MCQueries -----------------------------
(***************************************************************************)
(* Questions and the permissions behind them, side by side: a behaviour is *)
(* one of QueryPlanning, Retrieval, GraphRecall, Answering or Permissions, *)
(* and the others stay as they are.                                        *)
(*                                                                         *)
(* Retrieval and Answering run on two chunks of one document with the same *)
(* text, one of another, and two paths over both documents.  The graph has *)
(* a process that needs a form with a field, and the form again in the     *)
(* other document, which is named after it: a path in one document and one *)
(* over a bridge.                                                          *)
(***************************************************************************)
EXTENDS Answering, GraphRecall, QueryPlanning, Permissions, TLC

VARIABLE part

Documents3 == <<"d1", "d1", "d2">>
Texts3 == <<"same", "same", "other">>
Opinions3 == {<<1, 2, 3>>, <<3, 2, 1>>, <<2, 3, 1>>}
Paths3 == << {1, 3}, {2, 3} >>

Names4 == <<"process", "form", "form", "field">>
Kinds4 == <<"Process", "Material", "Material", "Field">>
Titles2 == [d \in {"d1", "d2"} |-> IF d = "d2" THEN "form" ELSE "guide"]

RelationOf(id, subject, predicate, object, chunk) ==
  [id |-> id, subject |-> subject, predicate |-> predicate, object |-> object,
   chunk |-> chunk, verbatim |-> TRUE, strict |-> TRUE]

Relations3 ==
  {RelationOf(1, 1, "REQUIRES_MATERIAL", 2, 1), RelationOf(2, 2, "HAS_FIELD", 4, 2),
   RelationOf(3, 3, "HAS_FIELD", 4, 3)}

MentionOf(id, entity, chunk) ==
  [id |-> id, entity |-> entity, chunk |-> chunk, names |-> {Names4[entity]},
   contexts |-> {}, denied |-> FALSE]

Mentions4 == {MentionOf(1, 1, 1), MentionOf(2, 2, 1), MentionOf(3, 3, 3), MentionOf(4, 4, 2)}

Filters1 == {{}, {[operator |-> "eq", value |-> 1]}}

(* The patterns notice the value 2, whether it is negated or not.          *)
Noticed2 == [operator : {"eq", "neq"}, value : {2}]

(* Asked about documents with the value 2, answered in two statements.     *)
Turn1 == [question |-> {Named, [operator |-> "eq", value |-> 2]},
          statements |-> << {Named}, {[operator |-> "neq", value |-> 1]} >>]
Turn2 == [question |-> {[operator |-> "eq", value |-> 1]}, statements |-> << >>]
Histories3 == {<< >>, <<Turn1>>, <<Turn1, Turn2>>}

planned == <<attribute, anchored, updated, planning, seen>>
queryVars == <<part, answerVars, recall, planned, permissionVars>>

NoAnswer == [stage |-> "done", status |-> "none"]
NoRun == [stage |-> "done"]
NoRecall == [phase |-> "done"]

NoPermissions ==
  /\ member = [u \in Users |-> [department |-> NULL, clearance |-> 0, active |-> FALSE]]
  /\ base = [s \in Subjects |-> "none"] /\ shares = base
  /\ document = [department |-> NULL, creator |-> NULL, confidentiality |-> 0]
  /\ version = 0 /\ request = [r \in Requests |-> NoRequest]

QuietWorld ==
  /\ readable = {} /\ projected = {} /\ signedIn = TRUE /\ worldChanges = 0
  /\ since = Now /\ run = NoRun

NoPlanning ==
  /\ attribute = [d \in Documents |-> 0] /\ anchored = TRUE /\ updated = {} /\ seen = {}
  /\ planning = [stage |-> "answered"]

QueriesInit ==
  /\ \/ part = "planning" /\ PlanningInit /\ answer = NoAnswer /\ recall = NoRecall
     \/ part = "retrieval" /\ RetrievalInit /\ answer = NoAnswer /\ recall = NoRecall
     \/ part = "graph" /\ RecallInit /\ answer = NoAnswer
     \/ part = "answer" /\ AnswerInit /\ recall = NoRecall
     \/ part = "permissions" /\ QuietWorld /\ answer = NoAnswer /\ recall = NoRecall
  /\ part # "planning" => NoPlanning
  /\ IF part = "permissions" THEN PermissionInit ELSE NoPermissions

QueriesNext ==
  /\ UNCHANGED part
  /\ \/ part = "planning" /\ PlanningNext /\ UNCHANGED <<answer, recall, permissionVars>>
     \/ part = "retrieval" /\ RetrievalNext /\ UNCHANGED <<answer, recall, planned, permissionVars>>
     \/ part = "graph" /\ RecallNext /\ UNCHANGED <<answer, planned, permissionVars>>
     \/ part = "answer" /\ AnswerNext /\ UNCHANGED <<recall, planned, permissionVars>>
     \/ part = "permissions" /\ PermissionNext /\ UNCHANGED <<answerVars, recall, planned>>

QueriesSpec == QueriesInit /\ [][QueriesNext]_queryVars
=============================================================================
