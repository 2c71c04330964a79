--------------------------- MODULE GraphExtraction ---------------------------
(***************************************************************************)
(* The facts of one chunk: a language model is asked up to three times for *)
(* entities and relations with verbatim evidence.  An answer that is not   *)
(* valid is asked for again; of some, what can be proved by itself is      *)
(* kept.  GraphPipeline saves what is accepted (SaveExtraction) and fails  *)
(* the attempt otherwise.                                                  *)
(*                                                                         *)
(* A fact is abstracted to what the checks tell apart: whether its fields  *)
(* are well formed, whether its quotes and conditions are in the text, and *)
(* for an entity its id and type, for a relation its ends.  The relations  *)
(* of the model are of one type, from an actor to a step.                  *)
(***************************************************************************)
EXTENDS Naturals, FiniteSets

CONSTANTS
  Ids,            \* local ids of entities
  MaxFacts,       \* bound: entities, and relations, of an answer
  EntityLimit,    \* 80
  RelationLimit   \* 120

ASSUME ExtractionConstantsAssumption ==
  MaxFacts \in Nat /\ EntityLimit \in Nat /\ RelationLimit \in Nat

VARIABLE extraction

Flaws == {"none", "schema", "evidence"}

ExtractedEntity == [id : Ids, type : {"Actor", "Step"}, flaw : Flaws]
ExtractedRelation == [source : Ids, target : Ids, flaw : Flaws]

UpToMaxFacts(facts) == {s \in SUBSET facts : Cardinality(s) <= MaxFacts}

Extraction ==
  [entities : UpToMaxFacts(ExtractedEntity), relations : UpToMaxFacts(ExtractedRelation)]

NoFacts == [entities |-> {}, relations |-> {}]

ExtractionTypeOK ==
  /\ extraction.attempt \in 0..3 /\ extraction.rejected \in BOOLEAN
  /\ extraction.stage \in {"asking", "accepted", "failed"}
  /\ extraction.output \in Extraction /\ extraction.result \in Extraction

-----------------------------------------------------------------------------
(* Checks *)

(* check_endpoints(): both ends exist, with the types of the white list.   *)
EndsOf(relation, entities) ==
  /\ \E e \in entities : e.id = relation.source /\ e.type = "Actor"
  /\ \E e \in entities : e.id = relation.target /\ e.type = "Step"

DistinctIds(entities) == \A e, f \in entities : e.id = f.id => e = f

(* Extraction.model_validate_json()                                        *)
WellFormed(output) ==
  /\ \A fact \in output.entities \cup output.relations : fact.flaw # "schema"
  /\ Cardinality(output.entities) <= EntityLimit
  /\ Cardinality(output.relations) <= RelationLimit
  /\ DistinctIds(output.entities)
  /\ \A r \in output.relations : EndsOf(r, output.entities)

(* Fault for checking: the evidence of relations is not looked at.         *)
Evidenced_EntitiesOnly(output) == \A e \in output.entities : e.flaw = "none"

(* validate_evidence()                                                     *)
Evidenced(output) ==
  \A fact \in output.entities \cup output.relations : fact.flaw = "none"

(* Entities that pass by themselves, unless they share their id.           *)
KeptEntities(entities) ==
  LET passed == {e \in entities : e.flaw = "none"}
  IN {e \in passed : \A f \in passed : f.id = e.id => f = e}

(* validated_endpoint_subset()                                             *)
Subset(output) ==
  LET kept == KeptEntities(output.entities)
  IN [entities |-> kept,
      relations |-> {r \in output.relations : r.flaw = "none" /\ EndsOf(r, kept)}]

(* It fails when no entity is left of some, when nothing had to be dropped *)
(* or when too much is left.                                               *)
IsSalvaged(output) ==
  LET result == Subset(output)
  IN /\ output.entities # {} => result.entities # {}
     /\ result # output
     /\ WellFormed(result) /\ Evidenced(result)

-----------------------------------------------------------------------------
(* extract_chunk() *)

Asking == extraction.stage = "asking" /\ extraction.attempt < 3

Accepts(output, result, rejected) ==
  extraction' = [extraction EXCEPT !.stage = "accepted", !.attempt = @ + 1, !.output = output,
                                   !.result = result, !.rejected = rejected]

(* The model is asked again, with what was wrong.                          *)
AsksAgain(rejected) ==
  extraction' = [extraction EXCEPT !.attempt = @ + 1, !.rejected = rejected]

(* The answer was cut off by the limit of the model.                       *)
IsTruncated == Asking /\ AsksAgain(TRUE)

IsBlank == Asking /\ AsksAgain(extraction.rejected)

(* No JSON, or not an object with two lists.                               *)
IsUnreadable == Asking /\ AsksAgain(TRUE)

(* No facts are believed when there have been some that were not valid.    *)
IsValid(output) ==
  /\ WellFormed(output) /\ Evidenced(output)
  /\ IF output # NoFacts \/ ~ extraction.rejected
     THEN Accepts(output, output, extraction.rejected)
     ELSE AsksAgain(TRUE)

HasWrongStructure(output) ==
  /\ ~ WellFormed(output)
  /\ IF IsSalvaged(output) THEN Accepts(output, Subset(output), TRUE) ELSE AsksAgain(TRUE)

(* Facts without evidence are asked for again, and dropped in the end.     *)
LacksEvidence(output) ==
  /\ WellFormed(output) /\ ~ Evidenced(output)
  /\ IF extraction.attempt = 2 /\ IsSalvaged(output)
     THEN Accepts(output, Subset(output), TRUE) ELSE AsksAgain(TRUE)

(* After three answers, or when the model cannot be asked.                 *)
ExtractionFails ==
  /\ extraction.stage = "asking"
  /\ extraction' = [extraction EXCEPT !.stage = "failed"]

ExtractionInit ==
  extraction = [stage |-> "asking", attempt |-> 0, rejected |-> FALSE,
                output |-> NoFacts, result |-> NoFacts]

ExtractionNext ==
  \/ IsTruncated \/ IsBlank \/ IsUnreadable \/ ExtractionFails
  \/ /\ Asking
     /\ \E output \in Extraction :
          IsValid(output) \/ HasWrongStructure(output) \/ LacksEvidence(output)

ExtractionSpec == ExtractionInit /\ [][ExtractionNext]_extraction

-----------------------------------------------------------------------------
(* Properties *)

(* What is accepted holds by itself and misses nothing that does: it has   *)
(* the flawless entities of the answer whose id no other one has, with     *)
(* exactly the flawless relations between two of them that the white list  *)
(* allows, within the limits.                                              *)
AcceptedFactsAreProved ==
  LET output == extraction.output
      result == extraction.result
      alone == {e \in output.entities : e.flaw = "none" /\
                  \A f \in output.entities \ {e} : f.flaw = "none" => f.id # e.id}
  IN extraction.stage = "accepted" =>
       /\ result.entities = alone
       /\ result.relations = {r \in output.relations : r.flaw = "none" /\ EndsOf(r, alone)}
       /\ Cardinality(result.relations) <= RelationLimit
=============================================================================
