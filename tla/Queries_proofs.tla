--------------------------- MODULE Queries_proofs ---------------------------
(***************************************************************************)
(* Questions, their answers and the permissions behind them.  An answer    *)
(* rests on the evidence shown with it, and nothing withdrawn is passed    *)
(* on, for any chunks, documents and paths and whatever the model writes.  *)
(* No condition of a question is lost on its way to an answer, for any     *)
(* documents, values, filters and histories.  The two forms of the access  *)
(* conditions agree in three-valued logic, and permissions change only by  *)
(* the hand of an administrator, for any number of members, departments    *)
(* and requests.                                                           *)
(***************************************************************************)
EXTENDS Answering, QueryPlanning, Permissions, FiniteSetTheorems, TLAPS

(*                                 Answering                               *)

(* What is readable now counts as readable since the last answer.          *)
SinceIsRecent == readable \subseteq since.readable /\ projected \subseteq since.projected

(* What a check has read is from the time after the last answer: the text  *)
(* after its first step, the graphs after its second one.                  *)
ChecksReadWhatIsRecent ==
  answer.stage \in Checked =>
    /\ answer.check # "text" => \A c \in answer.evidence : DocumentOf[c] \in since.readable
    /\ answer.check \in {"text again", "over"} =>
         \A p \in answer.paths : \A c \in p : DocumentOf[c] \in since.projected

(* A draft that goes to the reviewer is sound, and cites what he is shown. *)
ReviewedDrafts == {"wait review", "review", "reviewing", "reviewed"}

DraftsAreReviewed ==
  /\ answer.stage \in {"generated", "repaired"} => answer.draft.kind # "none"
  /\ answer.stage \in ReviewedDrafts => answer.draft.kind = "sound"
  /\ answer.stage \in {"reviewing", "reviewed"} => answer.draft.cites \subseteq answer.seen
  /\ answer.stage = "reviewing" => answer.evidence = answer.seen
  /\ answer.stage = "reviewed" => answer.before = answer.seen

(* Nothing is read outside a check, and an answer that has ended stays.    *)
AnswersEnd ==
  /\ answer.stage \notin Checked => answer.check = "over"
  /\ answer.status # "none" => answer.stage = "done"

AnswerInv ==
  /\ AnswerTypeOK
  /\ SinceIsRecent
  /\ ChecksReadWhatIsRecent
  /\ DraftsAreReviewed
  /\ AnswersEnd
  /\ AnswersRestOnTheirEvidence

-----------------------------------------------------------------------------
(* The kinds of steps *)

(* A wait for the model or for the reader begins.                          *)
LEMMA OutsideKeeps ==
  ASSUME AnswerInv, WorldStays, NEW stage \in Outside, answer.stage \in Checked,
         answer.check = "over", answer' \in Answer, answer'.stage = stage,
         answer'.check = "over", answer'.evidence = answer.evidence,
         answer'.draft = answer.draft, answer'.status = answer.status,
         stage \in ReviewedDrafts => answer.draft.kind = "sound",
         stage = "reviewing" =>
           answer'.seen = answer.evidence /\ answer.draft.cites \subseteq answer.evidence
  PROVE  AnswerInv'
PROOF
<1>1. answer.status = "none"
  BY DEF AnswerInv, AnswersEnd, Checked
<1>2. SinceIsRecent'
  BY DEF AnswerInv, SinceIsRecent, WorldStays
<1>3. stage \notin Checked
  BY DEF Outside, Checked
<1>4. DraftsAreReviewed'
  BY <1>3 DEF DraftsAreReviewed, Outside, ReviewedDrafts
<1> QED
  BY <1>1, <1>2, <1>3, <1>4
  DEF AnswerInv, AnswerTypeOK, ChecksReadWhatIsRecent, AnswersEnd, AnswersRestOnTheirEvidence

(* A check begins.                                                         *)
LEMMA CheckBegins ==
  ASSUME AnswerInv, SinceIsRecent', NEW stage \in Checked, NEW changed \in Answer,
         Begins(stage, changed), changed.status = "none",
         stage \in {"generated", "repaired"} => changed.draft.kind # "none",
         stage \in ReviewedDrafts => changed.draft.kind = "sound",
         stage = "reviewed" =>
           changed.draft.cites \subseteq changed.seen /\ changed.evidence = changed.seen
  PROVE  AnswerInv'
PROOF
<1>1. /\ answer'.stage = stage /\ answer'.check = "text" /\ answer'.before = changed.evidence
      /\ answer'.evidence = changed.evidence /\ answer'.draft = changed.draft
      /\ answer'.seen = changed.seen /\ answer'.status = "none"
  BY DEF Begins, Answer
<1>2. answer' \in Answer
  BY DEF Begins, Answer
<1>3. ChecksReadWhatIsRecent'
  BY <1>1 DEF ChecksReadWhatIsRecent
<1>4. DraftsAreReviewed'
  BY <1>1 DEF DraftsAreReviewed, ReviewedDrafts, Checked
<1> QED
  BY <1>1, <1>2, <1>3, <1>4
  DEF AnswerInv, AnswerTypeOK, AnswersEnd, AnswersRestOnTheirEvidence

(* The answer ends without an answer.                                      *)
LEMMA EndKeeps ==
  ASSUME AnswerInv, WorldStays, NEW status \in {"insufficient", "unavailable", "rejected"},
         answer.check = "over", Ends(status)
  PROVE  AnswerInv'
PROOF
<1>1. answer'.stage = "done" /\ answer'.status = status /\ answer'.check = "over"
  BY DEF Ends, AnswerInv, AnswerTypeOK, Answer
<1>2. answer' \in Answer
  BY DEF Ends, AnswerInv, AnswerTypeOK, Answer
<1>3. SinceIsRecent'
  BY DEF AnswerInv, SinceIsRecent, WorldStays
<1>4. DraftsAreReviewed' /\ ChecksReadWhatIsRecent'
  BY <1>1 DEF DraftsAreReviewed, ReviewedDrafts, ChecksReadWhatIsRecent, Checked
<1> QED
  BY <1>1, <1>2, <1>3, <1>4
  DEF AnswerInv, AnswerTypeOK, AnswersEnd, AnswersRestOnTheirEvidence

LEMMA TooLargeKeeps ==
  ASSUME AnswerInv, WorldStays, answer.check = "over", TooLarge
  PROVE  AnswerInv'
  BY EndKeeps DEF TooLarge

LEMMA GeneratesKeeps ==
  ASSUME AnswerInv, WorldStays, answer.stage \in Checked, answer.check = "over", Generates
  PROVE  AnswerInv'
PROOF
<1>1. /\ answer' \in Answer /\ answer'.stage = "generating" /\ answer'.check = "over"
      /\ answer'.evidence = answer.evidence /\ answer'.draft = answer.draft
      /\ answer'.status = answer.status
  BY DEF Generates, AnswerInv, AnswerTypeOK, Answer, Outside
<1> QED
  BY <1>1, OutsideKeeps DEF Outside, ReviewedDrafts

LEMMA ReviewsKeeps ==
  ASSUME AnswerInv, WorldStays, answer.stage \in Checked, answer.check = "over",
         answer.draft.kind = "sound", answer.draft.cites \subseteq answer.evidence, Reviews
  PROVE  AnswerInv'
PROOF
<1>1. /\ answer' \in Answer /\ answer'.stage = "reviewing" /\ answer'.check = "over"
      /\ answer'.evidence = answer.evidence /\ answer'.draft = answer.draft
      /\ answer'.status = answer.status /\ answer'.seen = answer.evidence
  BY DEF Reviews, AnswerInv, AnswerTypeOK, Answer, Outside
<1> QED
  BY <1>1, OutsideKeeps DEF Outside

LEMMA CaughtKeeps ==
  ASSUME AnswerInv, SinceIsRecent', answer.status = "none", Begins("caught", answer)
  PROVE  AnswerInv'
  BY CheckBegins DEF AnswerInv, AnswerTypeOK, Checked, ReviewedDrafts

(* A draft without fault is sound and cites the evidence.                  *)
LEMMA FaultlessDraft ==
  ASSUME NEW d \in Draft, Fault(d) = "no", d.kind \notin {"none", "insufficient"}
  PROVE  d.kind = "sound" /\ d.cites \subseteq answer.evidence
PROOF
<1>1. d.kind \in {"none", "insufficient", "imprecise", "wrong", "sound"}
  BY DEF Draft
<1> QED
  BY <1>1 DEF Fault

-----------------------------------------------------------------------------
(* Checks *)

LEMMA AnswerInitially == AnswerInit => AnswerInv
PROOF
<1> SUFFICES ASSUME AnswerInit
             PROVE  AnswerInv
  OBVIOUS
<1>1. PICK order \in Rankings, streamed \in BOOLEAN :
        \E paths \in SUBSET Whole(KnownPaths, Range(order)) :
          answer = [stage |-> "begin", check |-> "text", streamed |-> streamed,
                    evidence |-> Range(order), before |-> Range(order), paths |-> paths,
                    draft |-> NoDraft, repaired |-> FALSE, seen |-> {}, status |-> "none"]
  BY DEF AnswerInit
<1>2. PICK paths \in SUBSET Whole(KnownPaths, Range(order)) :
          answer = [stage |-> "begin", check |-> "text", streamed |-> streamed,
                    evidence |-> Range(order), before |-> Range(order), paths |-> paths,
                    draft |-> NoDraft, repaired |-> FALSE, seen |-> {}, status |-> "none"]
  BY <1>1
<1>3. Range(order) \subseteq Chunks
  <2>1. PICK n \in 0..Cardinality(Chunks) : order \in [1..n -> Chunks]
    BY DEF Rankings
  <2> QED
    BY <2>1 DEF Range
<1>4. paths \subseteq KnownPaths
  BY DEF Whole
<1>5. NoDraft \in Draft
  BY DEF NoDraft, Draft
<1>6. answer \in Answer
  BY <1>2, <1>3, <1>4, <1>5 DEF Answer, Checked
<1>7. SinceIsRecent
  BY DEF AnswerInit, Now, SinceIsRecent
<1> QED
  BY <1>2, <1>6, <1>7
  DEF AnswerInv, AnswerTypeOK, ChecksReadWhatIsRecent, DraftsAreReviewed, ReviewedDrafts,
      AnswersEnd, AnswersRestOnTheirEvidence, Checked

LEMMA CheckTextKeeps ==
  ASSUME AnswerInv, CheckText
  PROVE  AnswerInv'
PROOF
<1> DEFINE left == ReadableOf(answer.evidence)
           paths == Whole(answer.paths, left)
           check == IF answer.check = "text" /\ paths # {} THEN "graph" ELSE "over"
<1>1. /\ answer.check \in {"text", "text again"} /\ WorldStays
      /\ answer' = [answer EXCEPT !.evidence = left, !.paths = paths, !.check = check]
  BY DEF CheckText, AnswerInv, AnswerTypeOK, Answer
<1>2. /\ left \subseteq answer.evidence /\ paths \subseteq answer.paths
      /\ check \in {"graph", "over"} /\ \A c \in left : DocumentOf[c] \in readable
  BY DEF ReadableOf, Whole
<1>3. check = "over" => answer.check = "text again" \/ paths = {}
  BY <1>1
<1> HIDE DEF left, paths, check
<1>4. /\ answer'.stage = answer.stage /\ answer'.check = check /\ answer'.evidence = left
      /\ answer'.paths = paths /\ answer'.before = answer.before /\ answer'.draft = answer.draft
      /\ answer'.seen = answer.seen /\ answer'.status = answer.status
  BY <1>1 DEF AnswerInv, AnswerTypeOK, Answer
<1>5. answer' \in Answer
  BY <1>1, <1>2 DEF AnswerInv, AnswerTypeOK, Answer
<1>6. answer.stage \in Checked /\ answer.status = "none"
  BY <1>1 DEF AnswerInv, AnswersEnd, Checked
<1>7. SinceIsRecent' /\ since' = since
  BY <1>1 DEF AnswerInv, SinceIsRecent, WorldStays
<1>8. ChecksReadWhatIsRecent'
  <2>1. \A c \in left : DocumentOf[c] \in since.readable
    BY <1>2 DEF AnswerInv, SinceIsRecent
  <2>2. check = "over" => \A p \in paths : \A c \in p : DocumentOf[c] \in since.projected
    BY <1>2, <1>3, <1>6 DEF AnswerInv, ChecksReadWhatIsRecent
  <2> QED
    BY <1>2, <1>4, <1>7, <2>1, <2>2 DEF ChecksReadWhatIsRecent
<1>9. DraftsAreReviewed'
  BY <1>4, <1>6 DEF AnswerInv, DraftsAreReviewed, Checked
<1> QED
  BY <1>4, <1>5, <1>6, <1>7, <1>8, <1>9
  DEF AnswerInv, AnswerTypeOK, AnswersEnd, AnswersRestOnTheirEvidence

LEMMA CheckGraphKeeps ==
  ASSUME AnswerInv, NEW answered \in BOOLEAN, CheckGraph(answered)
  PROVE  AnswerInv'
PROOF
<1> DEFINE paths == {p \in answer.paths :
                       answered /\ \A c \in p : DocumentOf[c] \in readable \cap projected}
<1>1. /\ answer.check = "graph" /\ WorldStays
      /\ answer' = [answer EXCEPT !.check = "text again", !.paths = paths]
  BY DEF CheckGraph, AnswerInv, AnswerTypeOK, Answer
<1>2. /\ paths \subseteq answer.paths
      /\ \A p \in paths : \A c \in p : DocumentOf[c] \in projected
  OBVIOUS
<1> HIDE DEF paths
<1>3. /\ answer'.stage = answer.stage /\ answer'.check = "text again"
      /\ answer'.evidence = answer.evidence
      /\ answer'.paths = paths /\ answer'.before = answer.before /\ answer'.draft = answer.draft
      /\ answer'.seen = answer.seen /\ answer'.status = answer.status
  BY <1>1 DEF AnswerInv, AnswerTypeOK, Answer
<1>4. answer' \in Answer
  BY <1>1, <1>2 DEF AnswerInv, AnswerTypeOK, Answer
<1>5. answer.stage \in Checked /\ answer.status = "none"
  BY <1>1 DEF AnswerInv, AnswersEnd, Checked
<1>6. SinceIsRecent' /\ since' = since
  BY <1>1 DEF AnswerInv, SinceIsRecent, WorldStays
<1>7. ChecksReadWhatIsRecent'
  BY <1>1, <1>2, <1>3, <1>5, <1>6 DEF AnswerInv, ChecksReadWhatIsRecent, SinceIsRecent
<1>8. DraftsAreReviewed'
  BY <1>3, <1>5 DEF AnswerInv, DraftsAreReviewed, Checked
<1> QED
  BY <1>3, <1>4, <1>5, <1>6, <1>7, <1>8
  DEF AnswerInv, AnswerTypeOK, AnswersEnd, AnswersRestOnTheirEvidence

LEMMA AnswerGivesUpKeeps ==
  ASSUME AnswerInv, AnswerGivesUp
  PROVE  AnswerInv'
PROOF
<1>1. /\ answer'.stage = "failed" /\ answer'.check = "over" /\ answer'.status = "none"
      /\ answer' \in Answer
  BY DEF AnswerGivesUp, Is, AnswerInv, AnswerTypeOK, Answer, AnswersEnd
<1>2. SinceIsRecent'
  BY DEF AnswerGivesUp, AnswerInv, SinceIsRecent, WorldStays
<1> QED
  BY <1>1, <1>2
  DEF AnswerInv, AnswerTypeOK, ChecksReadWhatIsRecent, DraftsAreReviewed, ReviewedDrafts,
      AnswersEnd, AnswersRestOnTheirEvidence, Checked

(* The world changes under a wait or between two reads.                    *)
LEMMA ChangeWorldKeeps ==
  ASSUME AnswerInv, ~ Is("done"), ChangeWorld, UNCHANGED <<run, answer>>
  PROVE  AnswerInv'
PROOF
<1>1. since' = [readable |-> since.readable \cup readable',
                projected |-> since.projected \cup projected']
  BY DEF ChangeWorld
<1>2. SinceIsRecent' /\ since.readable \subseteq since'.readable
      /\ since.projected \subseteq since'.projected
  BY <1>1 DEF SinceIsRecent
<1> QED
  BY <1>2
  DEF AnswerInv, AnswerTypeOK, ChecksReadWhatIsRecent, DraftsAreReviewed, AnswersEnd,
      AnswersRestOnTheirEvidence

-----------------------------------------------------------------------------
(* The steps of the answer *)

LEMMA AfterBeginKeeps ==
  ASSUME AnswerInv, AfterBegin
  PROVE  AnswerInv'
PROOF
<1>1. /\ answer.stage = "begin" /\ answer.check = "over" /\ WorldStays
      /\ answer.stage \in Checked
  BY DEF AfterBegin, Over, Is, Checked
<1>2. CASE Ends("insufficient") \/ Ends("unavailable") \/ TooLarge
  BY <1>1, <1>2, EndKeeps, TooLargeKeeps
<1>3. CASE Generates
  BY <1>1, <1>3, GeneratesKeeps
<1>4. CASE answer' = [answer EXCEPT !.stage = "wait generation"]
  <2>1. /\ answer' \in Answer /\ answer'.stage = "wait generation" /\ answer'.check = "over"
        /\ answer'.evidence = answer.evidence /\ answer'.draft = answer.draft
        /\ answer'.status = answer.status
    BY <1>1, <1>4 DEF AnswerInv, AnswerTypeOK, Answer, Outside
  <2> QED
    BY <1>1, <2>1, OutsideKeeps DEF Outside, ReviewedDrafts
<1> QED
  BY <1>2, <1>3, <1>4 DEF AfterBegin

LEMMA BeforeGenerationKeeps ==
  ASSUME AnswerInv, BeforeGeneration
  PROVE  AnswerInv'
  BY TooLargeKeeps, GeneratesKeeps DEF BeforeGeneration, Over, Is, Checked

LEMMA AfterDraftKeeps ==
  ASSUME AnswerInv, AfterDraft
  PROVE  AnswerInv'
PROOF
<1>1. /\ answer.stage \in {"generated", "repaired"} /\ answer.check = "over" /\ WorldStays
      /\ answer.stage \in Checked /\ answer.status = "none" /\ answer.draft.kind # "none"
      /\ answer.draft \in Draft
  BY DEF AfterDraft, Over, Is, Checked, AnswerInv, AnswersEnd, DraftsAreReviewed, AnswerTypeOK,
         Answer
<1>2. SinceIsRecent'
  BY <1>1 DEF AnswerInv, SinceIsRecent, WorldStays
<1>3. CASE Ends("insufficient")
  BY <1>1, <1>3, EndKeeps
<1>4. CASE answer.draft.kind # "insufficient" /\ Fault(answer.draft) = "no" /\ ValidDraft
  <2>1. answer.draft.kind = "sound" /\ answer.draft.cites \subseteq answer.evidence
    BY <1>1, <1>4, FaultlessDraft
  <2>2. CASE TooLarge \/ Reviews
    BY <1>1, <2>1, <2>2, TooLargeKeeps, ReviewsKeeps
  <2>3. CASE answer' = [answer EXCEPT !.stage = "wait review"]
    <3>1. /\ answer' \in Answer /\ answer'.stage = "wait review" /\ answer'.check = "over"
          /\ answer'.evidence = answer.evidence /\ answer'.draft = answer.draft
          /\ answer'.status = answer.status
      BY <1>1, <2>3 DEF AnswerInv, AnswerTypeOK, Answer, Outside
    <3> QED
      BY <1>1, <2>1, <3>1, OutsideKeeps DEF Outside
  <2> QED
    BY <1>4, <2>2, <2>3 DEF ValidDraft
<1>5. CASE Begins("repair", answer)
  BY <1>1, <1>2, <1>5, CheckBegins DEF AnswerInv, AnswerTypeOK, Checked, ReviewedDrafts
<1>6. CASE Begins("caught", answer)
  BY <1>1, <1>2, <1>6, CaughtKeeps
<1> QED
  BY <1>3, <1>4, <1>5, <1>6 DEF AfterDraft

LEMMA BeforeRepairKeeps ==
  ASSUME AnswerInv, BeforeRepair
  PROVE  AnswerInv'
PROOF
<1>1. /\ answer.stage \in Checked /\ answer.check = "over" /\ WorldStays
      /\ answer.status = "none"
  BY DEF BeforeRepair, Over, Is, Checked, AnswerInv, AnswersEnd
<1>2. SinceIsRecent'
  BY <1>1 DEF AnswerInv, SinceIsRecent, WorldStays
<1>3. CASE Begins("caught", answer)
  BY <1>1, <1>2, <1>3, CaughtKeeps
<1>4. CASE answer' = [answer EXCEPT !.stage = "repairing", !.repaired = TRUE]
  <2>1. /\ answer' \in Answer /\ answer'.stage = "repairing" /\ answer'.check = "over"
        /\ answer'.evidence = answer.evidence /\ answer'.draft = answer.draft
        /\ answer'.status = answer.status
    BY <1>1, <1>4 DEF AnswerInv, AnswerTypeOK, Answer, Outside
  <2> QED
    BY <1>1, <2>1, OutsideKeeps DEF Outside, ReviewedDrafts
<1> QED
  BY <1>3, <1>4 DEF BeforeRepair

LEMMA BeforeReviewKeeps ==
  ASSUME AnswerInv, BeforeReview
  PROVE  AnswerInv'
PROOF
<1>1. /\ answer.stage = "review" /\ answer.stage \in Checked /\ answer.check = "over"
      /\ WorldStays /\ answer.status = "none" /\ answer.draft.kind = "sound"
      /\ answer.draft \in Draft
  BY DEF BeforeReview, Over, Is, Checked, AnswerInv, AnswersEnd, DraftsAreReviewed,
         ReviewedDrafts, AnswerTypeOK, Answer
<1>2. SinceIsRecent'
  BY <1>1 DEF AnswerInv, SinceIsRecent, WorldStays
<1>3. CASE Begins("caught", answer)
  BY <1>1, <1>2, <1>3, CaughtKeeps
<1>4. CASE Fault(answer.draft) = "no" /\ (TooLarge \/ Reviews)
  BY <1>1, <1>4, FaultlessDraft, TooLargeKeeps, ReviewsKeeps
<1> QED
  BY <1>3, <1>4 DEF BeforeReview

(* The review is over: what it saw is still the evidence.                  *)
LEMMA AfterReviewKeeps ==
  ASSUME AnswerInv, NEW supported \in BOOLEAN, AfterReview(supported)
  PROVE  AnswerInv'
PROOF
<1> DEFINE cited == Cited(answer.draft) \cap answer.draft.keeps
           paths == IF cited = {} THEN {} ELSE answer.paths
<1>1. /\ answer.stage = "reviewed" /\ answer.check = "over" /\ WorldStays
      /\ answer.draft.kind = "sound" /\ answer.evidence = answer.seen
      /\ answer.draft.cites \subseteq answer.evidence
  BY DEF AfterReview, Over, Is, NothingIsMissing, AnswerInv, DraftsAreReviewed, ReviewedDrafts
<1>2. CASE Ends("insufficient")
  BY <1>1, <1>2, EndKeeps
<1>3. CASE answer' = [answer EXCEPT !.stage = "done", !.status = "answered", !.paths = paths]
  <2>1. paths \subseteq answer.paths
    OBVIOUS
  <2>2. paths # {} => \E p \in paths \cap answer.draft.keeps : p \subseteq answer.draft.cites
    BY DEF Cited, Whole
  <2> HIDE DEF paths
  <2>3. /\ answer'.stage = "done" /\ answer'.check = "over" /\ answer'.status = "answered"
        /\ answer'.draft = answer.draft /\ answer'.evidence = answer.evidence
        /\ answer'.seen = answer.seen /\ answer'.paths = paths
    BY <1>1, <1>3 DEF AnswerInv, AnswerTypeOK, Answer
  <2>4. answer' \in Answer
    BY <1>3, <2>1 DEF AnswerInv, AnswerTypeOK, Answer
  <2>5. SinceIsRecent'
    BY <1>1 DEF AnswerInv, SinceIsRecent, WorldStays
  <2>6. AnswersRestOnTheirEvidence'
    BY <1>1, <2>2, <2>3 DEF AnswersRestOnTheirEvidence
  <2> QED
    BY <2>3, <2>4, <2>5, <2>6
    DEF AnswerInv, AnswerTypeOK, ChecksReadWhatIsRecent, DraftsAreReviewed, ReviewedDrafts,
        AnswersEnd, Checked
<1> QED
  BY <1>2, <1>3 DEF AfterReview, AnswerInv, AnswerTypeOK, Answer

LEMMA AfterErrorKeeps ==
  ASSUME AnswerInv, AfterError
  PROVE  AnswerInv'
  BY EndKeeps DEF AfterError, Over

LEMMA RejectKeeps ==
  ASSUME AnswerInv, Reject
  PROVE  AnswerInv'
  BY EndKeeps DEF Reject, Over

(* Somebody comes back after a wait, in which anything may have changed.   *)
LEMMA ReturnKeeps ==
  ASSUME AnswerInv, NEW stage \in Outside, NEW next \in Checked, NEW draft \in Draft,
         Return(stage, next, draft),
         next \in {"generated", "repaired"} => draft.kind # "none",
         next \notin ReviewedDrafts \/ (stage \in ReviewedDrafts /\ draft = answer.draft),
         next = "reviewed" => stage = "reviewing"
  PROVE  AnswerInv'
PROOF
<1>1. SinceIsRecent'
  BY DEF Return, Now, SinceIsRecent
<1>2. answer.stage = stage /\ answer.status = "none"
  BY DEF Return, Is, AnswerInv, AnswersEnd, Outside
<1>3. CASE Begins("caught", answer)
  BY <1>1, <1>2, <1>3, CaughtKeeps
<1>4. CASE Begins(next, [answer EXCEPT !.draft = draft])
  <2> DEFINE changed == [answer EXCEPT !.draft = draft]
  <2>1. /\ changed \in Answer /\ changed.draft = draft /\ changed.status = "none"
        /\ changed.seen = answer.seen /\ changed.evidence = answer.evidence
    BY <1>2 DEF AnswerInv, AnswerTypeOK, Answer
  <2> HIDE DEF changed
  <2>2. next \in ReviewedDrafts => draft.kind = "sound"
    BY <1>2 DEF AnswerInv, DraftsAreReviewed
  <2>3. next = "reviewed" => draft.cites \subseteq answer.seen /\ answer.evidence = answer.seen
    BY <1>2 DEF AnswerInv, DraftsAreReviewed, ReviewedDrafts
  <2> QED
    BY <1>1, <1>4, <2>1, <2>2, <2>3, CheckBegins DEF changed
<1> QED
  BY <1>3, <1>4 DEF Return

-----------------------------------------------------------------------------
(* The theorems *)

LEMMA AnswerStepKeeps ==
  ASSUME AnswerInv, [AnswerNext]_answerVars
  PROVE  AnswerInv'
PROOF
<1>1. CASE CheckText \/ \E answered \in BOOLEAN : CheckGraph(answered)
  BY <1>1, CheckTextKeeps, CheckGraphKeeps
<1>2. CASE AfterBegin \/ BeforeGeneration \/ AfterDraft \/ BeforeRepair \/ BeforeReview
  BY <1>2, AfterBeginKeeps, BeforeGenerationKeeps, AfterDraftKeeps, BeforeRepairKeeps,
     BeforeReviewKeeps
<1>3. CASE \/ \E supported \in BOOLEAN : AfterReview(supported)
           \/ AfterError \/ Reject \/ AnswerGivesUp
  BY <1>3, AfterReviewKeeps, AfterErrorKeeps, RejectKeeps, AnswerGivesUpKeeps
<1>4. CASE \E d \in Drafts : Return("generating", "generated", d) \/ Return("repairing", "repaired", d)
  <2>1. \A d \in Drafts : d \in Draft /\ d.kind # "none"
    BY DEF Drafts
  <2>2. {"generating", "repairing"} \subseteq Outside /\ {"generated", "repaired"} \subseteq Checked
    BY DEF Outside, Checked
  <2>3. "generated" \notin ReviewedDrafts /\ "repaired" \notin ReviewedDrafts
    BY DEF ReviewedDrafts
  <2> QED
    BY <1>4, <2>1, <2>2, <2>3, ReturnKeeps
<1>5. CASE \/ Return("wait generation", "generate", answer.draft)
           \/ Return("wait review", "review", answer.draft)
           \/ Return("reviewing", "reviewed", answer.draft)
  <2>1. answer.draft \in Draft
    BY DEF AnswerInv, AnswerTypeOK, Answer
  <2>2. /\ {"wait generation", "wait review", "reviewing"} \subseteq Outside
        /\ {"generate", "review", "reviewed"} \subseteq Checked
        /\ "generate" \notin ReviewedDrafts /\ {"wait review", "reviewing"} \subseteq ReviewedDrafts
    BY DEF Outside, Checked, ReviewedDrafts
  <2> QED
    BY <1>5, <2>1, <2>2, ReturnKeeps
<1>6. CASE ~ Is("done") /\ ~ Is("failed") /\ ChangeWorld /\ UNCHANGED <<run, answer>>
  BY <1>6, ChangeWorldKeeps
<1>7. CASE UNCHANGED answerVars
  BY <1>7
  DEF answerVars, AnswerInv, AnswerTypeOK, SinceIsRecent, ChecksReadWhatIsRecent,
      DraftsAreReviewed, AnswersEnd, AnswersRestOnTheirEvidence
<1> QED
  BY <1>1, <1>2, <1>3, <1>4, <1>5, <1>6, <1>7 DEF AnswerNext

(* The inductive invariant of answering.                                   *)
THEOREM AnswerInductive == AnswerSpec => []AnswerInv
  BY AnswerInitially, AnswerStepKeeps, PTL DEF AnswerSpec

(* An answer under way keeps its type.                                     *)
THEOREM AnswerTypeCorrect == AnswerSpec => []AnswerTypeOK
PROOF
<1>1. AnswerInv => AnswerTypeOK
  BY DEF AnswerInv
<1> QED
  BY <1>1, AnswerInductive, PTL

(* What an answer cites is shown with it and was seen by the reviewer; of  *)
(* the paths shown it cites one wholly and keeps its conditions.           *)
THEOREM AnswersAreProved == AnswerSpec => []AnswersRestOnTheirEvidence
PROOF
<1>1. AnswerInv => AnswersRestOnTheirEvidence
  BY DEF AnswerInv
<1> QED
  BY <1>1, AnswerInductive, PTL

(* What a step passes on was just checked.                                 *)
PassesOn == {"generating", "repairing", "reviewing", "done"}

LEMMA BegunIsInside ==
  ASSUME NEW stage \in Checked, NEW changed \in Answer, Begins(stage, changed)
  PROVE  answer'.stage \notin PassesOn
PROOF
<1>1. answer'.stage = stage
  BY DEF Begins, Answer
<1> QED
  BY <1>1 DEF PassesOn, Checked

LEMMA PassedOnIsChecked ==
  ASSUME AnswerInv, AnswerNext, answer'.stage # answer.stage, answer'.stage \in PassesOn
  PROVE  /\ answer.stage \in Checked /\ answer.check = "over" /\ WorldStays
         /\ answer'.evidence = answer.evidence /\ answer'.paths \subseteq answer.paths
PROOF
<1>1. answer \in Answer
  BY DEF AnswerInv, AnswerTypeOK
<1>2. \A stage \in Checked : ~ Begins(stage, answer)
  BY <1>1, BegunIsInside
<1>3. CASE \/ AfterBegin \/ BeforeGeneration \/ AfterDraft \/ BeforeRepair \/ BeforeReview
           \/ AfterError \/ Reject \/ \E supported \in BOOLEAN : AfterReview(supported)
  <2>1. answer.stage \in Checked /\ answer.check = "over" /\ WorldStays
    BY <1>3
    DEF AfterBegin, BeforeGeneration, AfterDraft, BeforeRepair, BeforeReview, AfterError, Reject,
        AfterReview, Over, Is, Checked
  <2>2. ~ Begins("repair", answer) /\ ~ Begins("caught", answer)
    BY <1>2 DEF Checked
  <2>3. \/ \E status : Ends(status)
        \/ Generates \/ Reviews
        \/ answer' = [answer EXCEPT !.stage = "wait generation"]
        \/ answer' = [answer EXCEPT !.stage = "wait review"]
        \/ answer' = [answer EXCEPT !.stage = "repairing", !.repaired = TRUE]
        \/ \E paths \in SUBSET answer.paths :
             answer' = [answer EXCEPT !.stage = "done", !.status = "answered", !.paths = paths]
    <3>1. CASE AfterBegin \/ BeforeGeneration \/ AfterError \/ Reject
      BY <3>1 DEF AfterBegin, BeforeGeneration, AfterError, Reject, TooLarge
    <3>2. CASE AfterDraft \/ BeforeRepair \/ BeforeReview
      BY <2>2, <3>2 DEF AfterDraft, BeforeRepair, BeforeReview, ValidDraft, TooLarge
    <3>3. CASE \E supported \in BOOLEAN : AfterReview(supported)
      <4>1. \/ Ends("insufficient")
            \/ answer' = [answer EXCEPT !.stage = "done", !.status = "answered", !.paths = {}]
            \/ answer' = [answer EXCEPT !.stage = "done", !.status = "answered",
                                        !.paths = answer.paths]
        BY <1>1, <3>3 DEF AfterReview, Answer
      <4> QED
        BY <4>1
    <3> QED
      BY <1>3, <3>1, <3>2, <3>3
  <2>4. answer'.evidence = answer.evidence /\ answer'.paths \subseteq answer.paths
    BY <1>1, <2>3 DEF Ends, Generates, Reviews, Answer
  <2> QED
    BY <2>1, <2>4
<1>4. CASE CheckText \/ (\E answered \in BOOLEAN : CheckGraph(answered)) \/ AnswerGivesUp
  BY <1>1, <1>4 DEF CheckText, CheckGraph, AnswerGivesUp, Answer, PassesOn
<1>5. CASE \E stage \in Outside, next \in Checked, draft \in Draft : Return(stage, next, draft)
  <2>1. PICK stage \in Outside, next \in Checked, draft \in Draft : Return(stage, next, draft)
    BY <1>5
  <2>2. [answer EXCEPT !.draft = draft] \in Answer
    BY <1>1 DEF Answer
  <2>3. Begins(next, [answer EXCEPT !.draft = draft]) \/ Begins("caught", answer)
    BY <2>1 DEF Return
  <2>4. "caught" \in Checked
    BY DEF Checked
  <2> QED
    BY <1>1, <2>2, <2>3, <2>4, BegunIsInside
<1>6. CASE ChangeWorld /\ UNCHANGED <<run, answer>>
  BY <1>6
<1>7. /\ {"generating", "repairing", "wait generation", "wait review", "reviewing"} \subseteq Outside
      /\ {"generated", "repaired", "generate", "review", "reviewed"} \subseteq Checked
      /\ Drafts \subseteq Draft /\ answer.draft \in Draft
  BY <1>1 DEF Outside, Checked, Drafts, Answer
<1> QED
  BY <1>3, <1>4, <1>5, <1>6, <1>7 DEF AnswerNext

(* Nothing that was withdrawn during the last call or the last wait goes   *)
(* to the model, to the reviewer or to the asker.                          *)
THEOREM WithdrawnStaysInside == AnswerSpec => WithdrawnEvidenceStaysInside
PROOF
<1>1. AnswerInv /\ [AnswerNext]_answerVars =>
        [answer'.stage # answer.stage /\ answer'.stage \in {"generating", "repairing", "reviewing",
                                                            "done"} =>
           /\ \A c \in answer'.evidence : DocumentOf[c] \in since.readable
           /\ \A c \in UNION answer'.paths : DocumentOf[c] \in since.projected]_answerVars
  <2> SUFFICES ASSUME AnswerInv, AnswerNext, answer'.stage # answer.stage,
                      answer'.stage \in PassesOn
               PROVE  /\ \A c \in answer'.evidence : DocumentOf[c] \in since.readable
                      /\ \A c \in UNION answer'.paths : DocumentOf[c] \in since.projected
    BY DEF PassesOn
  <2>1. /\ answer.stage \in Checked /\ answer.check = "over"
        /\ answer'.evidence = answer.evidence /\ answer'.paths \subseteq answer.paths
    BY PassedOnIsChecked
  <2> QED
    BY <2>1 DEF AnswerInv, ChecksReadWhatIsRecent
<1> QED
  BY <1>1, AnswerInductive, PTL DEF AnswerSpec, WithdrawnEvidenceStaysInside

-----------------------------------------------------------------------------
(*                                Permissions                              *)

(* A condition of a WHERE clause lets a row through only when it is TRUE.  *)
LEMMA AndIsTrue ==
  ASSUME NEW S
  PROVE  And(S) = "T" <=> "F" \notin S /\ NULL \notin S
  BY PermissionBoundsAssumption DEF And

LEMMA OrIsTrue ==
  ASSUME NEW S
  PROVE  Or(S) = "T" <=> "T" \in S
  BY PermissionBoundsAssumption DEF Or

LEMMA EqualIsTrue ==
  ASSUME NEW x, NEW y
  PROVE  Equal(x, y) = "T" <=> x = y /\ x # NULL
  BY PermissionBoundsAssumption DEF Equal, Truth

(* A member without a department matches no row by it, in either form.     *)
LEMMA RowsMatchAlike ==
  ASSUME NEW u, NEW i, NEW s
  PROVE  RowMatches(u, i, s) = "T" <=> ConditionRowMatches(u, i, s) = "T"
PROOF
<1>1. RowMatches(u, i, s) = "T"
        <=> Equal(UserColumn(s), u) = "T" \/ Equal(DepartmentColumn(s), i.department) = "T"
  BY OrIsTrue DEF RowMatches
<1>2. ConditionRowMatches(u, i, s) = "T"
        <=> \/ Equal(UserColumn(s), u) = "T"
            \/ i.department # NULL /\ Equal(DepartmentColumn(s), i.department) = "T"
  BY OrIsTrue DEF ConditionRowMatches
<1>3. Equal(DepartmentColumn(s), i.department) = "T" => i.department # NULL
  BY EqualIsTrue
<1> QED
  BY <1>1, <1>2, <1>3

(* The grants that reach a member, as a set of subjects.                   *)
LEMMA BaseAccessIsTrue ==
  ASSUME NEW u, NEW i, NEW permission
  PROVE  BaseAccess(u, i, permission) = "T"
           <=> \E s \in Subjects : base[s] \in PermissionsFor(permission)
                                     /\ RowMatches(u, i, s) = "T"
  BY DEF BaseAccess, Exists, Truth

LEMMA SharedIsTrue ==
  ASSUME NEW u, NEW i, NEW permission
  PROVE  Shared(u, i, permission) = "T"
           <=> \E s \in Subjects : shares[s] \in DocumentPermissionsFor(permission)
                                     /\ RowMatches(u, i, s) = "T"
  BY DEF Shared, Exists, Truth

LEMMA DocumentAccessIsTrue ==
  ASSUME NEW u, NEW i, NEW permission
  PROVE  DocumentAccess(u, i, permission) = "T"
           <=> /\ BaseAccess(u, i, permission) = "T"
               /\ document.confidentiality <= i.clearance
               /\ \/ document.confidentiality = 0
                  \/ document.department # NULL /\ document.department = i.department
                  \/ document.department = NULL /\ document.creator = u
                  \/ Shared(u, i, permission) = "T"
PROOF
<1> DEFINE near == And({Truth(document.department # NULL), Equal(document.department, i.department)})
           own == And({Truth(document.department = NULL), Truth(document.creator = u)})
<1>1. BaseAccess(u, i, permission) \notin {"F", NULL} <=> BaseAccess(u, i, permission) = "T"
  BY PermissionBoundsAssumption DEF BaseAccess, Exists, Truth
<1>2. near = "T" <=> document.department # NULL /\ document.department = i.department
  <2>1. near = "T" <=> /\ Truth(document.department # NULL) \notin {"F", NULL}
                       /\ Equal(document.department, i.department) \notin {"F", NULL}
    BY AndIsTrue
  <2>2. Equal(document.department, i.department) \notin {"F", NULL}
          <=> Equal(document.department, i.department) = "T"
    BY PermissionBoundsAssumption DEF Equal, Truth
  <2> QED
    BY <2>1, <2>2, EqualIsTrue, PermissionBoundsAssumption DEF Truth
<1>3. own = "T" <=> document.department = NULL /\ document.creator = u
  BY AndIsTrue, PermissionBoundsAssumption DEF Truth
<1> HIDE DEF near, own
<1>4. DocumentScope(u, i, permission) = "T"
        <=> \/ document.confidentiality = 0
            \/ near = "T" \/ own = "T" \/ Shared(u, i, permission) = "T"
  <2>1. DocumentScope(u, i, permission)
          = Or({Truth(document.confidentiality = 0), near, own, Shared(u, i, permission)})
    BY DEF DocumentScope, near, own
  <2> QED
    BY <2>1, OrIsTrue DEF Truth
<1>5. DocumentScope(u, i, permission) \notin {"F", NULL} <=> DocumentScope(u, i, permission) = "T"
  BY PermissionBoundsAssumption DEF DocumentScope, Or, And, Shared, Exists, Equal, Truth
<1>6. DocumentAccess(u, i, permission) = "T"
        <=> /\ BaseAccess(u, i, permission) \notin {"F", NULL}
            /\ Truth(document.confidentiality <= i.clearance) \notin {"F", NULL}
            /\ DocumentScope(u, i, permission) \notin {"F", NULL}
  BY AndIsTrue DEF DocumentAccess
<1> QED
  BY <1>1, <1>2, <1>3, <1>4, <1>5, <1>6, PermissionBoundsAssumption DEF Truth

LEMMA DocumentConditionIsTrue ==
  ASSUME NEW u, NEW i, NEW permission
  PROVE  DocumentCondition(u, i, permission) = "T"
           <=> /\ BaseAccess(u, i, permission) = "T"
               /\ document.confidentiality <= i.clearance
               /\ \/ document.confidentiality = 0
                  \/ document.department # NULL /\ document.department = i.department
                  \/ document.department = NULL /\ document.creator = u
                  \/ Shared(u, i, permission) = "T"
PROOF
<1> DEFINE acl == Exists({s \in Subjects : base[s] \in PermissionsFor(permission)},
                         LAMBDA s : ConditionRowMatches(u, i, s))
           explicit == Exists({s \in Subjects : shares[s] \in DocumentPermissionsFor(permission)},
                              LAMBDA s : ConditionRowMatches(u, i, s))
           near == IF i.department # NULL
                   THEN And({Truth(document.department # NULL),
                             Equal(document.department, i.department)})
                   ELSE "F"
           own == And({Truth(document.department = NULL), Truth(document.creator = u)})
           scope == Or({Truth(document.confidentiality = 0), own, explicit, near})
<1>1. DocumentCondition(u, i, permission)
        = And({acl, Truth(document.confidentiality <= i.clearance), scope})
  BY DEF DocumentCondition
<1>2. acl \in {"T", "F"} /\ (acl = "T" <=> BaseAccess(u, i, permission) = "T")
  BY BaseAccessIsTrue, RowsMatchAlike DEF Exists, Truth
<1>3. explicit = "T" <=> Shared(u, i, permission) = "T"
  BY SharedIsTrue, RowsMatchAlike DEF Exists, Truth
<1>4. near = "T" <=> document.department # NULL /\ document.department = i.department
  <2>1. And({Truth(document.department # NULL), Equal(document.department, i.department)}) = "T"
          <=> /\ Truth(document.department # NULL) \notin {"F", NULL}
              /\ Equal(document.department, i.department) \notin {"F", NULL}
    BY AndIsTrue
  <2>2. Equal(document.department, i.department) \notin {"F", NULL}
          <=> Equal(document.department, i.department) = "T"
    BY PermissionBoundsAssumption DEF Equal, Truth
  <2> QED
    BY <2>1, <2>2, EqualIsTrue, PermissionBoundsAssumption DEF Truth
<1>5. own = "T" <=> document.department = NULL /\ document.creator = u
  BY AndIsTrue, PermissionBoundsAssumption DEF Truth
<1> HIDE DEF acl, explicit, near, own
<1>6. scope = "T" <=> \/ document.confidentiality = 0
                      \/ own = "T" \/ explicit = "T" \/ near = "T"
  BY OrIsTrue DEF Truth
<1>7. scope \in {"T", "F", NULL}
  BY DEF Or
<1> HIDE DEF scope
<1>8. And({acl, Truth(document.confidentiality <= i.clearance), scope}) = "T"
        <=> /\ acl \notin {"F", NULL} /\ scope \notin {"F", NULL}
            /\ Truth(document.confidentiality <= i.clearance) \notin {"F", NULL}
  BY AndIsTrue
<1> QED
  BY <1>1, <1>2, <1>3, <1>4, <1>5, <1>6, <1>7, <1>8, PermissionBoundsAssumption DEF Truth

(* Filters in SQL text and filters built for SQLAlchemy let the same       *)
(* members through.                                                        *)
LEMMA FormsAgree == AccessConditionsAgree
  BY DocumentAccessIsTrue, DocumentConditionIsTrue DEF AccessConditionsAgree

-----------------------------------------------------------------------------
(* One request at a time holds the row of the base, and what it has read   *)
(* stays so until it ends.                                                 *)

OneRequestHoldsTheBase ==
  \A r, q \in Requests : Holding(r) /\ Holding(q) => r = q

HoldersAdministerTheBase ==
  \A r \in Requests : Holding(r) =>
    /\ request[r].identity = member[request[r].user]
    /\ BaseAccess(request[r].user, request[r].identity, "ADMIN") = "T"
    /\ version < MaxVersion

(* What was written leaves an ADMIN grant.                                 *)
WritesKeepAnAdministrator ==
  \A r \in Requests :
    request[r].phase = "written" /\ request[r].change.on = "base" =>
      \E s \in Subjects :
        [base EXCEPT ![request[r].change.subject] = request[r].change.level][s] = "ADMIN"

PermissionInv ==
  /\ PermissionTypeOK
  /\ OneRequestHoldsTheBase
  /\ HoldersAdministerTheBase
  /\ WritesKeepAnAdministrator

LEMMA PermissionInitially == PermissionInit => PermissionInv
PROOF
<1> SUFFICES ASSUME PermissionInit
             PROVE  PermissionInv
  OBVIOUS
<1>1. Creator \in Users
  BY PermissionBoundsAssumption DEF Creator
<1>2. PermissionTypeOK
  <2>1. member \in [Users -> Member]
    <3>1. MaxClearance \in Confidentiality
      BY PermissionBoundsAssumption DEF Confidentiality
    <3>2. [department : Departments \cup {NULL}, clearance : {MaxClearance}, active : {TRUE}]
            \subseteq Member
      BY <3>1 DEF Member
    <3> QED
      BY <3>2 DEF PermissionInit
  <2>2. /\ base \in [Subjects -> Levels \cup {"none"}]
        /\ shares \in [Subjects -> ShareLevels \cup {"none"}]
    BY DEF PermissionInit, Levels, ShareLevels
  <2>3. document \in [department : Departments \cup {NULL}, creator : Users,
                      confidentiality : Confidentiality]
    BY <1>1, PermissionBoundsAssumption DEF PermissionInit, Confidentiality
  <2>4. version \in 0..MaxVersion /\ DOMAIN request = Requests
        /\ \A r \in Requests : request[r] \in Request \cup {NoRequest}
    BY PermissionBoundsAssumption DEF PermissionInit
  <2> QED
    BY <2>1, <2>2, <2>3, <2>4 DEF PermissionTypeOK
<1>3. \A r \in Requests : ~ Holding(r) /\ request[r].phase = "idle"
  BY DEF PermissionInit, Holding, NoRequest
<1> QED
  BY <1>2, <1>3 DEF PermissionInv, OneRequestHoldsTheBase, HoldersAdministerTheBase,
                    WritesKeepAnAdministrator

LEMMA HolderIsRequest ==
  ASSUME PermissionTypeOK, NEW r \in Requests
  PROVE  /\ Holding(r) => request[r] \in Request /\ request[r].change \in Change
                            /\ request[r].user \in Users
         /\ ~ Holding(r) => request[r].phase = "idle"
  BY DEF PermissionTypeOK, Holding, Request, NoRequest

(* The base as a change leaves it.                                         *)
LEMMA ChangeIsTyped ==
  ASSUME PermissionTypeOK, NEW c \in Change
  PROVE  /\ c.on = "base" => [base EXCEPT ![c.subject] = c.level] \in [Subjects -> Levels \cup {"none"}]
         /\ c.on = "document" =>
              [shares EXCEPT ![c.subject] = c.level] \in [Subjects -> ShareLevels \cup {"none"}]
         /\ c.on = "confidentiality" =>
              [document EXCEPT !.confidentiality = c.level]
                \in [department : Departments \cup {NULL}, creator : Users,
                     confidentiality : Confidentiality]
PROOF
<1>1. c.on = "base" => c.level \in Levels \cup {"none"}
  BY DEF Change
<1>2. c.on = "document" => c.level \in ShareLevels \cup {"none"}
  BY DEF Change
<1>3. c.on = "confidentiality" => c.level \in Confidentiality
  BY DEF Change
<1> QED
  BY <1>1, <1>2, <1>3 DEF PermissionTypeOK

LEMMA LockKeeps ==
  ASSUME PermissionInv, NEW r \in Requests, NEW u \in Users, NEW c \in Change, Lock(r, u, c)
  PROVE  PermissionInv'
PROOF
<1> DEFINE x == [phase |-> "locked", user |-> u, identity |-> member[u], change |-> c]
<1>1. /\ \A q \in Requests : ~ Holding(q)
      /\ BaseAccess(u, member[u], "ADMIN") = "T" /\ version < MaxVersion
      /\ request' = [request EXCEPT ![r] = x]
      /\ UNCHANGED <<member, base, shares, document, version>>
  BY DEF Lock, BaseIsFree
<1>2. /\ x \in Request /\ x.phase = "locked" /\ x.user = u /\ x.identity = member[u]
  BY DEF PermissionInv, PermissionTypeOK, Request
<1> HIDE DEF x
<1>3. request'[r] = x /\ \A q \in Requests : q # r => request'[q] = request[q]
  BY <1>1 DEF PermissionInv, PermissionTypeOK
<1>4. PermissionTypeOK'
  BY <1>1, <1>2, <1>3 DEF PermissionInv, PermissionTypeOK
<1>5. \A q \in Requests : q # r => ~ Holding(q)' /\ request'[q].phase = "idle"
  BY <1>1, <1>3, HolderIsRequest DEF Holding, PermissionInv
<1>6. OneRequestHoldsTheBase'
  BY <1>5 DEF OneRequestHoldsTheBase
<1>7. BaseAccess(u, member[u], "ADMIN")' = "T"
  BY <1>1 DEF BaseAccess, Exists
<1>8. HoldersAdministerTheBase'
  <2> SUFFICES ASSUME NEW q \in Requests, Holding(q)'
               PROVE  /\ request'[q].identity = member'[request'[q].user]
                      /\ BaseAccess(request[q].user, request[q].identity, "ADMIN")' = "T"
                      /\ version' < MaxVersion
    BY DEF HoldersAdministerTheBase
  <2>1. q = r /\ request'[q] = x
    BY <1>3, <1>5
  <2> QED
    BY <1>1, <1>2, <1>7, <2>1 DEF BaseAccess, Exists
<1>9. WritesKeepAnAdministrator'
  BY <1>2, <1>3, <1>5 DEF WritesKeepAnAdministrator
<1> QED
  BY <1>4, <1>6, <1>8, <1>9 DEF PermissionInv

LEMMA WriteKeeps ==
  ASSUME PermissionInv, NEW r \in Requests, Write(r)
  PROVE  PermissionInv'
PROOF
<1> DEFINE c == request[r].change
           x == [request[r] EXCEPT !.phase = "written"]
<1>1. /\ request[r].phase = "locked" /\ UNCHANGED <<member, base, shares, document, version>>
      /\ c.on = "base" => Administered([base EXCEPT ![c.subject] = c.level], member)
      /\ request' = [request EXCEPT ![r].phase = "written"]
  BY DEF Write
<1>2. Holding(r) /\ request[r] \in Request
  BY <1>1, HolderIsRequest DEF PermissionInv
<1>3. /\ x \in Request /\ x.user = request[r].user /\ x.identity = request[r].identity
      /\ x.change = c /\ x # NoRequest
  BY <1>2 DEF Request, NoRequest
<1>4. request' = [request EXCEPT ![r] = x]
  BY <1>1 DEF PermissionInv, PermissionTypeOK
<1> HIDE DEF x
<1>5. request'[r] = x /\ \A q \in Requests : q # r => request'[q] = request[q]
  BY <1>4 DEF PermissionInv, PermissionTypeOK
<1>6. PermissionTypeOK'
  BY <1>1, <1>3, <1>4, <1>5 DEF PermissionInv, PermissionTypeOK
<1>7. \A q \in Requests : q # r => ~ Holding(q)' /\ request'[q].phase = "idle"
  BY <1>2, <1>5, HolderIsRequest DEF Holding, PermissionInv, OneRequestHoldsTheBase
<1>8. OneRequestHoldsTheBase'
  BY <1>7 DEF OneRequestHoldsTheBase
<1>9. HoldersAdministerTheBase'
  <2>1. /\ request'[r].identity = member'[request'[r].user] /\ version' < MaxVersion
        /\ BaseAccess(request[r].user, request[r].identity, "ADMIN")' = "T"
    BY <1>1, <1>2, <1>3, <1>5 DEF PermissionInv, HoldersAdministerTheBase, BaseAccess, Exists
  <2> QED
    BY <1>7, <2>1 DEF HoldersAdministerTheBase
<1>10. WritesKeepAnAdministrator'
  <2> SUFFICES ASSUME NEW q \in Requests, request'[q].phase = "written",
                      request'[q].change.on = "base"
               PROVE  \E s \in Subjects :
                        [base' EXCEPT ![request'[q].change.subject] = request'[q].change.level][s]
                          = "ADMIN"
    BY DEF WritesKeepAnAdministrator
  <2>1. q = r /\ request'[q].change = c
    BY <1>3, <1>5, <1>7
  <2> QED
    BY <1>1, <2>1 DEF Administered
<1> QED
  BY <1>6, <1>8, <1>9, <1>10 DEF PermissionInv

(* When a request ends nobody holds the base.                              *)
LEMMA FinishKeeps ==
  ASSUME PermissionInv, NEW r \in Requests, Holding(r), Finishes(r), UNCHANGED member,
         base' \in [Subjects -> Levels \cup {"none"}],
         shares' \in [Subjects -> ShareLevels \cup {"none"}],
         document' \in [department : Departments \cup {NULL}, creator : Users,
                        confidentiality : Confidentiality],
         version' \in {version, version + 1}
  PROVE  PermissionInv'
PROOF
<1>1. request'[r] = NoRequest /\ \A q \in Requests : q # r => request'[q] = request[q]
  BY DEF Finishes, PermissionInv, PermissionTypeOK
<1>2. \A q \in Requests : ~ Holding(q)' /\ request'[q].phase = "idle"
  BY <1>1, HolderIsRequest DEF Holding, NoRequest, PermissionInv, OneRequestHoldsTheBase
<1>3. version' \in 0..MaxVersion
  BY PermissionBoundsAssumption DEF PermissionInv, PermissionTypeOK, HoldersAdministerTheBase
<1>4. PermissionTypeOK'
  BY <1>1, <1>3 DEF Finishes, PermissionInv, PermissionTypeOK
<1> QED
  BY <1>2, <1>4 DEF PermissionInv, OneRequestHoldsTheBase, HoldersAdministerTheBase,
                    WritesKeepAnAdministrator

LEMMA CommitKeeps ==
  ASSUME PermissionInv, NEW r \in Requests, Commit(r)
  PROVE  PermissionInv'
PROOF
<1> DEFINE c == request[r].change
<1>1. Holding(r) /\ c \in Change
  BY HolderIsRequest DEF Commit, PermissionInv
<1>2. /\ base' \in [Subjects -> Levels \cup {"none"}]
      /\ shares' \in [Subjects -> ShareLevels \cup {"none"}]
      /\ document' \in [department : Departments \cup {NULL}, creator : Users,
                        confidentiality : Confidentiality]
  BY <1>1, ChangeIsTyped DEF Commit, PermissionInv, PermissionTypeOK
<1> QED
  BY <1>1, <1>2, FinishKeeps DEF Commit

LEMMA RefuseKeeps ==
  ASSUME PermissionInv, NEW r \in Requests, Refuse(r)
  PROVE  PermissionInv'
  BY FinishKeeps DEF Refuse, PermissionInv, PermissionTypeOK

(* The rows a request relies on are locked: no other one is changed.       *)
LEMMA ChangeMemberKeeps ==
  ASSUME PermissionInv, NEW u \in Users, ChangeMember(u)
  PROVE  PermissionInv'
PROOF
<1>1. UNCHANGED <<base, shares, document, version, request>>
  BY DEF ChangeMember
<1>2. member' \in [Users -> Member]
  <2>1. member[u] \in Member
    BY DEF PermissionInv, PermissionTypeOK
  <2>2. \A d \in Departments \cup {NULL} : [member[u] EXCEPT !.department = d] \in Member
    BY <2>1 DEF Member
  <2>3. \A k \in Confidentiality : [member[u] EXCEPT !.clearance = k] \in Member
    BY <2>1 DEF Member
  <2>4. [member[u] EXCEPT !.active = ~ @] \in Member
    BY <2>1 DEF Member
  <2>5. member \in [Users -> Member]
    BY DEF PermissionInv, PermissionTypeOK
  <2> QED
    BY <2>2, <2>3, <2>4, <2>5 DEF ChangeMember
<1>3. \A v \in Users : v # u => member'[v] = member[v]
  BY DEF ChangeMember, PermissionInv, PermissionTypeOK
<1>4. \A r \in Requests : Holding(r) => request[r].user \in Users /\ request[r].user # u
  BY HolderIsRequest DEF ChangeMember, MemberLocked, PermissionInv
<1>5. HoldersAdministerTheBase'
  BY <1>1, <1>3, <1>4
  DEF PermissionInv, HoldersAdministerTheBase, Holding, BaseAccess, Exists
<1> QED
  BY <1>1, <1>2, <1>5
  DEF PermissionInv, PermissionTypeOK, OneRequestHoldsTheBase, WritesKeepAnAdministrator, Holding

LEMMA PermissionStepKeeps ==
  ASSUME PermissionInv, [PermissionNext]_permissionVars
  PROVE  PermissionInv'
PROOF
<1>1. CASE PermissionNext
  BY <1>1, LockKeeps, WriteKeeps, CommitKeeps, RefuseKeeps, ChangeMemberKeeps DEF PermissionNext
<1>2. CASE UNCHANGED permissionVars
  <2>1. PermissionTypeOK' /\ OneRequestHoldsTheBase' /\ WritesKeepAnAdministrator'
    BY <1>2
    DEF permissionVars, PermissionInv, PermissionTypeOK, OneRequestHoldsTheBase,
        WritesKeepAnAdministrator, Holding
  <2>2. HoldersAdministerTheBase'
    BY <1>2
    DEF permissionVars, PermissionInv, HoldersAdministerTheBase, Holding, BaseAccess, Exists
  <2> QED
    BY <2>1, <2>2 DEF PermissionInv
<1> QED
  BY <1>1, <1>2

(* The inductive invariant of changing permissions.                        *)
THEOREM PermissionInductive == PermissionSpec => []PermissionInv
  BY PermissionInitially, PermissionStepKeeps, PTL DEF PermissionSpec

(* Members, grants and requests keep their types.                          *)
THEOREM PermissionTypeCorrect == PermissionSpec => []PermissionTypeOK
PROOF
<1>1. PermissionInv => PermissionTypeOK
  BY DEF PermissionInv
<1> QED
  BY <1>1, PermissionInductive, PTL

(* The filters in SQL text and those built for SQLAlchemy let the same     *)
(* members through, with or without a department, for every permission.    *)
THEOREM AccessFormsAgree == PermissionSpec => []AccessConditionsAgree
  BY FormsAgree, PTL

(* Only a request whose member, as the change becomes visible, still       *)
(* administers the base changes a permission, and an ADMIN grant remains.  *)
THEOREM AdministratorsChangePermissions == PermissionSpec => PermissionChangesAreAuthorized
PROOF
<1>1. PermissionInv /\ [PermissionNext]_permissionVars =>
        [<<base, shares, document>>' # <<base, shares, document>> =>
           \E r \in Requests :
             /\ request[r].phase = "written" /\ request'[r] = NoRequest
             /\ member[request[r].user] = request[r].identity
             /\ BaseAccess(request[r].user, request[r].identity, "ADMIN") = "T"
             /\ \E s \in Subjects : base'[s] = "ADMIN"]_permissionVars
  <2> SUFFICES ASSUME PermissionInv, PermissionNext,
                      <<base, shares, document>>' # <<base, shares, document>>
               PROVE  \E r \in Requests :
                        /\ request[r].phase = "written" /\ request'[r] = NoRequest
                        /\ member[request[r].user] = request[r].identity
                        /\ BaseAccess(request[r].user, request[r].identity, "ADMIN") = "T"
                        /\ \E s \in Subjects : base'[s] = "ADMIN"
    OBVIOUS
  <2>1. PICK r \in Requests : Commit(r)
    BY DEF PermissionNext, Lock, Write, Refuse, ChangeMember
  <2>2. Holding(r) /\ request[r].phase = "written"
    BY <2>1, HolderIsRequest DEF Commit, PermissionInv
  <2>3. /\ member[request[r].user] = request[r].identity
        /\ BaseAccess(request[r].user, request[r].identity, "ADMIN") = "T"
    BY <2>2 DEF PermissionInv, HoldersAdministerTheBase
  <2>4. request'[r] = NoRequest
    BY <2>1 DEF Commit, Finishes, PermissionInv, PermissionTypeOK
  <2>5. \E s \in Subjects : base'[s] = "ADMIN"
    <3>1. CASE request[r].change.on = "base"
      BY <2>1, <2>2, <3>1 DEF Commit, PermissionInv, WritesKeepAnAdministrator
    <3>2. CASE request[r].change.on # "base"
      BY <2>1, <2>3, <3>2, BaseAccessIsTrue DEF Commit, PermissionsFor
    <3> QED
      BY <3>1, <3>2
  <2> QED
    BY <2>2, <2>3, <2>4, <2>5
<1> QED
  BY <1>1, PermissionInductive, PTL DEF PermissionSpec, PermissionChangesAreAuthorized

-----------------------------------------------------------------------------
(*                              QueryPlanning                              *)

PlanningRecord ==
  [stage : {"rewrite", "analysis", "graph", "execute", "counted", "retrieved", "answered",
            "stopped"},
   question : Question, said : SUBSET Conditions, history : Histories,
   scope : SUBSET Documents,
   route : {"none", "clarify", "structured", "hybrid", "hybrid_graph"},
   constraints : SUBSET FoundConditions, filters : SUBSET Conditions,
   sources : SUBSET Documents]

(* What was said, and the conditions of earlier turns that may come in.    *)
Acceptable == planning.said \cup (Conditions \ Noticed)

(* Until there is a plan, the question says what was said: a reference is  *)
(* replaced by something that is no condition, or not noticed to be one.   *)
QuestionsSayTheSame ==
  planning.stage \in {"rewrite", "analysis"} =>
    /\ planning.said \subseteq planning.question.phrases
    /\ planning.question.phrases \subseteq Acceptable
    /\ planning.route = "none"

(* "or" joins something.                                                   *)
OrJoinsTwo ==
  planning.question.either => \E p, q \in planning.question.phrases : p # q

(* The filters of a plan are those that were selected or found.            *)
PlansHaveAllFilters ==
  /\ planning.stage \in {"graph", "execute", "counted", "retrieved"} => planning.route # "none"
  /\ planning.route # "none" =>
       planning.filters = planning.question.filters \cup planning.constraints

(* A catalog plan has explained everything that was said and compares with *)
(* nothing else, and what it would answer has been looked at since.        *)
CatalogPlansAreWhole ==
  planning.route = "structured" =>
    /\ ~ planning.question.either /\ ~ planning.question.more
    /\ planning.said \subseteq planning.constraints
    /\ Valued(planning.constraints) \subseteq Valued(Acceptable)
    /\ InCatalog(Asked) \in seen

(* What has been counted was right at some moment.                         *)
CountsWereRight ==
  /\ planning.stage = "counted" => planning.route = "structured" /\ planning.sources \in seen
  /\ planning.stage \in {"graph", "retrieved"} => planning.route # "structured"

PlanningInv ==
  /\ planning \in PlanningRecord
  /\ QuestionsSayTheSame
  /\ OrJoinsTwo
  /\ PlansHaveAllFilters
  /\ CatalogPlansAreWhole
  /\ CountsWereRight

-----------------------------------------------------------------------------

(* Two members make more than one.                                         *)
LEMMA MoreThanOne ==
  ASSUME NEW S, IsFiniteSet(S)
  PROVE  Cardinality(S) > 1 <=> \E p, q \in S : p # q
PROOF
<1>1. Cardinality(S) \in Nat
  BY FS_CardinalityType
<1>2. Cardinality(S) = 0 <=> S = {}
  BY FS_EmptySet
<1>3. Cardinality(S) = 1 <=> \E x : S = {x}
  BY FS_Singleton
<1>4. (\E p, q \in S : p # q) <=> ~ (S = {} \/ \E x : S = {x})
  OBVIOUS
<1> QED
  BY <1>1, <1>2, <1>3, <1>4

(* When everything said is explained, all that a catalog plan compares are *)
(* its filters.                                                            *)
LEMMA FiltersAreAsked ==
  ASSUME PlanningInv, planning.route = "structured"
  PROVE  Asked = planning.filters
BY DEF PlanningInv, PlansHaveAllFilters, CatalogPlansAreWhole, Asked

(* A step that keeps the plan and what was seen.                           *)
LEMMA MovesOn ==
  ASSUME PlanningInv, WorldRemains, seen' = seen, planning' \in PlanningRecord,
         planning'.said = planning.said, planning'.scope = planning.scope,
         planning'.constraints = planning.constraints, planning'.filters = planning.filters,
         planning'.question = planning.question,
         planning'.route = "structured" <=> planning.route = "structured",
         planning'.route = "none" <=> planning.route = "none",
         planning'.stage \notin {"rewrite", "analysis"},
         planning'.stage \in {"graph", "execute", "counted", "retrieved"} => planning.route # "none",
         planning'.stage = "counted" =>
           planning.route = "structured" /\ planning'.sources = InCatalog(planning.filters),
         planning'.stage \in {"graph", "retrieved"} => planning.route # "structured"
  PROVE  PlanningInv'
PROOF
<1>1. QuestionsSayTheSame'
  BY DEF QuestionsSayTheSame
<1>2. OrJoinsTwo'
  BY DEF PlanningInv, OrJoinsTwo
<1>3. PlansHaveAllFilters'
  BY DEF PlanningInv, PlansHaveAllFilters
<1>4. CatalogPlansAreWhole'
  BY DEF PlanningInv, CatalogPlansAreWhole, InCatalog, MeetsAll, Meets, Asked, Acceptable,
         WorldRemains
<1>5. CountsWereRight'
  <2>1. CASE planning'.stage = "counted"
    BY <2>1, FiltersAreAsked DEF PlanningInv, CatalogPlansAreWhole, CountsWereRight
  <2>2. CASE planning'.stage # "counted"
    BY <2>2 DEF PlanningInv, CountsWereRight
  <2> QED
    BY <2>1, <2>2
<1> QED
  BY <1>1, <1>2, <1>3, <1>4, <1>5 DEF PlanningInv

LEMMA StopsKeeps ==
  ASSUME PlanningInv, Stops, PlanningRemains
  PROVE  PlanningInv'
PROOF
<1>1. planning' \in PlanningRecord /\ planning' = [planning EXCEPT !.stage = "stopped"]
  BY DEF PlanningInv, Stops, PlanningRecord
<1>2. /\ planning'.stage = "stopped" /\ planning'.said = planning.said
      /\ planning'.scope = planning.scope /\ planning'.constraints = planning.constraints
      /\ planning'.filters = planning.filters /\ planning'.question = planning.question
      /\ planning'.route = planning.route
  BY <1>1 DEF PlanningInv, PlanningRecord
<1> QED
  BY <1>1, <1>2, MovesOn DEF PlanningRemains

(* A plan is made; whatever it searches, the text of the question has gone *)
(* from one that is not for the catalog.                                   *)
LEMMA GoesKeeps ==
  ASSUME PlanningInv, InStage("analysis"), WorldRemains,
         NEW stage \in {"graph", "execute"}, NEW route \in {"structured", "hybrid"},
         NEW constraints \in SUBSET FoundConditions,
         NEW filters \in SUBSET Conditions,
         filters = planning.question.filters \cup constraints,
         Goes(stage, route, constraints, filters),
         route = "structured" =>
           /\ stage = "execute" /\ ~ planning.question.either /\ ~ planning.question.more
           /\ planning.said \subseteq constraints
           /\ Valued(constraints) \subseteq Valued(Acceptable)
           /\ seen' = {InCatalog(Asked)'}
  PROVE  PlanningInv'
PROOF
<1>1. planning \in PlanningRecord /\ planning.question \in Question
  BY DEF PlanningInv, PlanningRecord
<1>2. planning' \in PlanningRecord
  BY <1>1, ZenonT(40) DEF Goes, PlanningRecord, Question
<1>3. /\ planning'.stage = stage /\ planning'.route = route
      /\ planning'.constraints = constraints /\ planning'.filters = filters
      /\ planning'.question.filters = planning.question.filters
      /\ route = "structured" =>
           planning'.said = planning.said /\ planning'.question.either = planning.question.either
           /\ planning'.question.more = planning.question.more
           /\ planning'.question.phrases = planning.question.phrases
      /\ route # "structured" => ~ planning'.question.either
  BY <1>1 DEF Goes, PlanningRecord, Question
<1>4. QuestionsSayTheSame'
  BY <1>3 DEF QuestionsSayTheSame
<1>5. OrJoinsTwo'
  BY <1>3 DEF OrJoinsTwo, PlanningInv
<1>6. PlansHaveAllFilters'
  BY <1>3 DEF PlansHaveAllFilters
<1>7. CatalogPlansAreWhole'
  BY <1>3 DEF CatalogPlansAreWhole, Acceptable
<1>8. CountsWereRight'
  BY <1>3 DEF CountsWereRight
<1> QED
  BY <1>2, <1>4, <1>5, <1>6, <1>7, <1>8 DEF PlanningInv

LEMMA StoppedAnalysis ==
  ASSUME PlanningInv, InStage("analysis"), WorldRemains, Stops
  PROVE  PlanningInv'
PROOF
<1>1. planning' \in PlanningRecord /\ planning' = [planning EXCEPT !.stage = "stopped"]
  BY DEF PlanningInv, Stops, PlanningRecord
<1>2. /\ planning'.stage = "stopped" /\ planning'.route = planning.route
      /\ planning'.filters = planning.filters /\ planning'.constraints = planning.constraints
      /\ planning'.question = planning.question
  BY <1>1 DEF PlanningInv, PlanningRecord
<1> QED
  BY <1>1, <1>2 DEF PlanningInv, InStage, QuestionsSayTheSame, OrJoinsTwo, PlansHaveAllFilters,
                    CatalogPlansAreWhole, CountsWereRight, Acceptable

LEMMA HybridKeeps ==
  ASSUME PlanningInv, InStage("analysis"), WorldRemains,
         NEW stage \in {"graph", "execute"}, NEW constraints \in SUBSET FoundConditions,
         NEW filters \in SUBSET Conditions,
         filters = planning.question.filters \cup constraints,
         Hybrid(stage, constraints, filters)
  PROVE  PlanningInv'
PROOF
<1>1. CASE planning.scope = {}
  BY <1>1, StoppedAnalysis DEF Hybrid
<1>2. CASE planning.scope # {}
  BY <1>2, GoesKeeps DEF Hybrid
<1> QED
  BY <1>1, <1>2

LEMMA AnalyzerAnswersKeeps ==
  ASSUME PlanningInv, NEW found \in Small(SUBSET FoundConditions), NEW business \in BOOLEAN,
         NEW intent, AnalyzerAnswers(found, business, intent)
  PROVE  PlanningInv'
PROOF
<1> DEFINE question == planning.question
           filters == question.filters \cup found
           unclear == \/ question.either /\ Cardinality(found) > 1
                      \/ \E c \in found : c.operator = "unspecified"
                      \/ ~ Possible(filters)
<1>1. /\ InStage("analysis") /\ WorldRemains /\ seen' = {InCatalog(Asked)'}
      /\ Plans(found, business, intent)
  BY DEF AnalyzerAnswers
<1>2. found \in SUBSET FoundConditions /\ IsFiniteSet(found)
  BY DEF Small
<1>3. question.filters \subseteq Conditions
  BY DEF PlanningInv, PlanningRecord, Question
<1>4. CASE filters # {} /\ unclear
  <2>1. Stops
    BY <1>1, <1>4 DEF Plans
  <2> QED
    BY <2>1, <1>1, StoppedAnalysis
<1>5. CASE ~ (filters # {} /\ unclear)
  <2>1. filters \in SUBSET Conditions
    <3>1. ASSUME NEW c \in found PROVE c \in Conditions
      <4>1. c \in FoundConditions /\ c.operator # "unspecified"
        BY <1>2, <1>5, <3>1
      <4> QED
        BY <4>1 DEF FoundConditions, Conditions
    <3> QED
      BY <1>3, <3>1
  <2>2. CASE CatalogOperation(question, found, business)
    <3>1. Goes("execute", "structured", found, filters)
      BY <1>1, <1>5, <2>2 DEF Plans
    <3>2. ~ question.more /\ question.phrases \subseteq found
      BY <2>2 DEF CatalogOperation, Explains
    <3>3. planning.said \subseteq found /\ question.phrases \subseteq Acceptable
      BY <3>2, <1>1 DEF PlanningInv, QuestionsSayTheSame, InStage
    <3>4. ~ question.either
      <4>1. ASSUME question.either PROVE FALSE
        <5>1. \E p, q \in found : p # q
          BY <4>1, <3>2 DEF PlanningInv, OrJoinsTwo
        <5>2. Cardinality(found) > 1
          BY <5>1, <1>2, MoreThanOne
        <5>3. filters # {}
          BY <5>1
        <5> QED
          BY <4>1, <5>2, <5>3, <1>5
      <4> QED
        BY <4>1
    <3>5. Valued(found) \subseteq Valued(Acceptable)
      BY <3>2, <3>3 DEF AnalyzerAnswers, Grounded, Valued
    <3> HIDE DEF filters, question
    <3> QED
      BY <1>1, <1>2, <2>1, <3>1, <3>2, <3>3, <3>4, <3>5, GoesKeeps DEF filters, question
  <2>3. CASE ~ CatalogOperation(question, found, business)
    <3>1. \/ Stops
          \/ Hybrid("graph", found, filters)
          \/ Hybrid("execute", found, filters)
      BY <1>1, <1>5, <2>3 DEF Plans
    <3> QED
      BY <3>1, <1>1, <1>2, <2>1, StoppedAnalysis, HybridKeeps
  <2> QED
    BY <2>2, <2>3
<1> QED
  BY <1>4, <1>5

LEMMA AnalyzerFailsKeeps ==
  ASSUME PlanningInv, AnalyzerFails
  PROVE  PlanningInv'
PROOF
<1>1. /\ InStage("analysis") /\ WorldRemains
      /\ Stops \/ Hybrid("execute", {}, planning.question.filters)
  BY DEF AnalyzerFails, PlanningRemains
<1>2. planning.question.filters \in SUBSET Conditions
  BY DEF PlanningInv, PlanningRecord, Question
<1> QED
  BY <1>1, <1>2, StoppedAnalysis, HybridKeeps

(* What is added to the question is acceptable.                            *)
LEMMA GoesOnKeeps ==
  ASSUME PlanningInv, InStage("rewrite"), PlanningRemains, NEW question \in Question,
         GoesOn(question), planning.question.phrases \subseteq question.phrases,
         question.phrases \subseteq Acceptable,
         question.either = planning.question.either,
         << >> \in Histories
  PROVE  PlanningInv'
PROOF
<1>1. planning' \in PlanningRecord
  BY DEF PlanningInv, GoesOn, PlanningRecord
<1>2. /\ planning'.stage = "analysis" /\ planning'.question = question
      /\ planning'.said = planning.said /\ planning'.route = planning.route
  BY DEF PlanningInv, GoesOn, PlanningRecord
<1>3. planning.said \subseteq planning.question.phrases /\ planning.route = "none"
  BY DEF PlanningInv, QuestionsSayTheSame, InStage
<1> QED
  BY <1>1, <1>2, <1>3 DEF PlanningInv, QuestionsSayTheSame, OrJoinsTwo, PlansHaveAllFilters,
                          CatalogPlansAreWhole, CountsWereRight, Acceptable

LEMMA RewriterAnswersKeeps ==
  ASSUME PlanningInv, RewriterAnswers, << >> \in Histories
  PROVE  PlanningInv'
PROOF
<1>1. PICK term \in Terms :
        /\ IsReferent(term)
        /\ GoesOn([planning.question EXCEPT !.refers = "none", !.phrases = Rebuilt(term)])
  BY DEF RewriterAnswers
<1>2. planning.question.phrases \subseteq Acceptable
  BY DEF RewriterAnswers, InStage, PlanningInv, QuestionsSayTheSame
<1>3. planning.question.phrases \subseteq Rebuilt(term) /\ Rebuilt(term) \subseteq Acceptable
  BY <1>1, <1>2 DEF IsReferent, Rebuilt, Acceptable
<1> DEFINE question == [planning.question EXCEPT !.refers = "none", !.phrases = Rebuilt(term)]
<1>4. planning.question \in Question
  BY DEF PlanningInv, PlanningRecord
<1>5. Rebuilt(term) \subseteq Conditions
  BY <1>4 DEF Rebuilt, Question
<1>6. /\ question \in Question /\ question.phrases = Rebuilt(term)
      /\ question.either = planning.question.either
  BY <1>4, <1>5 DEF Question
<1>7. GoesOn(question)
  BY <1>1
<1> HIDE DEF question
<1> QED
  BY <1>3, <1>6, <1>7, GoesOnKeeps DEF RewriterAnswers

LEMMA KeepsQuestionKeeps ==
  ASSUME PlanningInv, KeepsQuestion, << >> \in Histories
  PROVE  PlanningInv'
PROOF
<1>1. planning.question \in Question
  BY DEF PlanningInv, PlanningRecord
<1>2. InStage("rewrite") => planning.question.phrases \subseteq Acceptable
  BY DEF InStage, PlanningInv, QuestionsSayTheSame
<1> QED
  BY <1>1, <1>2, StopsKeeps, GoesOnKeeps DEF KeepsQuestion

LEMMA ConfirmGraphKeeps ==
  ASSUME PlanningInv, NEW ready \in BOOLEAN, ConfirmGraph(ready)
  PROVE  PlanningInv'
PROOF
<1>1. planning \in PlanningRecord /\ planning.stage = "graph"
  BY DEF PlanningInv, ConfirmGraph, InStage
<1>2. planning.route # "none" /\ planning.route # "structured"
  BY <1>1 DEF PlanningInv, PlansHaveAllFilters, CountsWereRight
<1>3. planning' = [planning EXCEPT !.stage = "execute",
                                   !.route = IF ready THEN "hybrid_graph" ELSE @]
  BY DEF ConfirmGraph
<1>4. planning' \in PlanningRecord
  BY <1>1, <1>3 DEF PlanningRecord
<1>5. /\ planning'.stage = "execute" /\ planning'.said = planning.said
      /\ planning'.scope = planning.scope /\ planning'.constraints = planning.constraints
      /\ planning'.filters = planning.filters /\ planning'.question = planning.question
      /\ planning'.route = IF ready THEN "hybrid_graph" ELSE planning.route
  BY <1>1, <1>3 DEF PlanningRecord
<1> QED
  BY <1>2, <1>4, <1>5, MovesOn DEF ConfirmGraph, PlanningRemains

LEMMA ReadCatalogKeeps ==
  ASSUME PlanningInv, ReadCatalog
  PROVE  PlanningInv'
PROOF
<1>1. planning \in PlanningRecord /\ planning.route = "structured" /\ WorldRemains /\ seen' = seen
  BY DEF PlanningInv, ReadCatalog
<1>2. CASE signedIn /\ anchored
  <2>1. planning' = [planning EXCEPT !.stage = "counted",
                                     !.sources = InCatalog(planning.filters)]
    BY <1>2 DEF ReadCatalog
  <2>2. InCatalog(planning.filters) \subseteq planning.scope
    BY DEF InCatalog
  <2>3. planning' \in PlanningRecord
    BY <1>1, <2>1, <2>2 DEF PlanningRecord
  <2>4. /\ planning'.stage = "counted" /\ planning'.said = planning.said
        /\ planning'.scope = planning.scope /\ planning'.constraints = planning.constraints
        /\ planning'.filters = planning.filters /\ planning'.question = planning.question
        /\ planning'.route = planning.route
        /\ planning'.sources = InCatalog(planning.filters)
    BY <1>1, <2>1 DEF PlanningRecord
  <2> QED
    BY <1>1, <2>3, <2>4, MovesOn
<1>3. CASE ~ (signedIn /\ anchored)
  <2>1. planning' = [planning EXCEPT !.stage = "stopped"]
    BY <1>3 DEF ReadCatalog, Stops
  <2>2. planning' \in PlanningRecord
    BY <1>1, <2>1 DEF PlanningRecord
  <2>3. /\ planning'.stage = "stopped" /\ planning'.said = planning.said
        /\ planning'.scope = planning.scope /\ planning'.constraints = planning.constraints
        /\ planning'.filters = planning.filters /\ planning'.question = planning.question
        /\ planning'.route = planning.route
    BY <1>1, <2>1 DEF PlanningRecord
  <2> QED
    BY <1>1, <2>2, <2>3, MovesOn
<1> QED
  BY <1>2, <1>3

(* The later steps, that change the stage and the sources only.            *)
LEMMA EndsKeeps ==
  ASSUME PlanningInv, PlanningRemains, NEW stage \in {"retrieved", "answered"},
         NEW sources \in SUBSET Documents,
         planning' = [planning EXCEPT !.stage = stage, !.sources = sources],
         planning.route # "none",
         stage = "retrieved" => planning.route # "structured"
  PROVE  PlanningInv'
PROOF
<1>1. planning \in PlanningRecord
  BY DEF PlanningInv
<1>2. planning' \in PlanningRecord
  BY <1>1 DEF PlanningRecord
<1>3. /\ planning'.stage = stage /\ planning'.said = planning.said
      /\ planning'.scope = planning.scope /\ planning'.constraints = planning.constraints
      /\ planning'.filters = planning.filters /\ planning'.question = planning.question
      /\ planning'.route = planning.route
  BY <1>1 DEF PlanningRecord
<1> QED
  BY <1>2, <1>3, MovesOn DEF PlanningRemains

LEMMA PublishCatalogKeeps ==
  ASSUME PlanningInv, PublishCatalog
  PROVE  PlanningInv'
PROOF
<1>1. planning \in PlanningRecord /\ planning.route = "structured" /\ PlanningRemains
  BY DEF PlanningInv, CountsWereRight, PublishCatalog, InStage
<1>2. planning' = [planning EXCEPT !.stage = "answered", !.sources = planning.sources]
  BY <1>1 DEF PublishCatalog, PlanningRecord
<1>3. planning.sources \in SUBSET Documents
  BY <1>1 DEF PlanningRecord
<1> QED
  BY <1>1, <1>2, <1>3, EndsKeeps

LEMMA RetrieveFilteredKeeps ==
  ASSUME PlanningInv, RetrieveFiltered
  PROVE  PlanningInv'
PROOF
<1>1. planning \in PlanningRecord /\ planning.scope \subseteq Documents
  BY DEF PlanningInv, PlanningRecord
<1>2. PICK some \in SUBSET InCatalog(planning.filters) :
        planning' = [planning EXCEPT !.stage = "retrieved", !.sources = some]
  BY DEF RetrieveFiltered
<1>3. some \in SUBSET Documents
  BY <1>1, <1>2 DEF InCatalog
<1> QED
  BY <1>2, <1>3, EndsKeeps DEF RetrieveFiltered

LEMMA AnswerFilteredKeeps ==
  ASSUME PlanningInv, AnswerFiltered
  PROVE  PlanningInv'
PROOF
<1>1. planning \in PlanningRecord /\ planning.stage = "retrieved" /\ PlanningRemains
  BY DEF PlanningInv, AnswerFiltered, InStage
<1>2. planning.route # "none"
  BY <1>1 DEF PlanningInv, PlansHaveAllFilters
<1> DEFINE sources == planning.sources \cap InCatalog(planning.filters)
<1>3. planning' = [planning EXCEPT !.stage = "answered", !.sources = sources]
  BY <1>1 DEF AnswerFiltered
<1>4. sources \in SUBSET Documents
  BY <1>1 DEF PlanningRecord
<1> HIDE DEF sources
<1> QED
  BY <1>1, <1>2, <1>3, <1>4, EndsKeeps

LEMMA ChangeCatalogKeeps ==
  ASSUME PlanningInv, ChangeCatalog
  PROVE  PlanningInv'
PROOF
<1>1. planning' = planning /\ seen' = seen \cup {InCatalog(Asked)'}
  BY DEF ChangeCatalog
<1> QED
  BY <1>1 DEF PlanningInv, QuestionsSayTheSame, OrJoinsTwo, PlansHaveAllFilters,
              CatalogPlansAreWhole, CountsWereRight, Acceptable

LEMMA PlanningInitially == PlanningInit /\ << >> \in Histories => PlanningInv
PROOF
<1> SUFFICES ASSUME PlanningInit, << >> \in Histories PROVE PlanningInv
  OBVIOUS
<1>1. PICK phrases \in Small(SUBSET Conditions), either, catalog, more \in BOOLEAN,
        filters \in FilterSelections, stage \in {"rewrite", "analysis"}, history \in Histories,
        refers \in {"none", "object", "first", "second"} :
       /\ either => Cardinality(phrases) > 1
       /\ stage = "analysis" => history = << >> /\ refers \in {"none", "object"}
       /\ stage = "rewrite" => readable # {}
       /\ planning = [stage |-> stage, said |-> phrases, history |-> history, scope |-> readable,
                      route |-> "none", constraints |-> {}, filters |-> {}, sources |-> {},
                      question |-> [refers |-> refers, phrases |-> phrases, either |-> either,
                                    catalog |-> catalog, more |-> more, filters |-> filters]]
  BY Zenon DEF PlanningInit
<1>2. phrases \in SUBSET Conditions /\ IsFiniteSet(phrases)
  BY DEF Small
<1>3. filters \in SUBSET Conditions
  BY PlanningConstantsAssumption DEF Conditions
<1>4. readable \in SUBSET Documents
  BY DEF PlanningInit
<1>5. planning \in PlanningRecord
  BY <1>1, <1>2, <1>3, <1>4 DEF PlanningRecord, Question
<1>6. OrJoinsTwo
  BY <1>1, <1>2, MoreThanOne DEF OrJoinsTwo
<1> QED
  BY <1>1, <1>5, <1>6 DEF PlanningInv, QuestionsSayTheSame, PlansHaveAllFilters,
                          CatalogPlansAreWhole, CountsWereRight, Acceptable

LEMMA PlanningStepKeeps == PlanningInv /\ [PlanningNext]_planningVars => PlanningInv'
PROOF
<1> SUFFICES ASSUME PlanningInv, [PlanningNext]_planningVars PROVE PlanningInv'
  OBVIOUS
<1>0. << >> \in Histories
  BY PlanningConstantsAssumption
<1>1. CASE UNCHANGED planningVars
  <2>1. planning' = planning /\ seen' = seen /\ readable' = readable /\ attribute' = attribute
    BY <1>1 DEF planningVars
  <2>2. planning' \in PlanningRecord /\ OrJoinsTwo' /\ PlansHaveAllFilters' /\ CountsWereRight'
    BY <2>1 DEF PlanningInv, OrJoinsTwo, PlansHaveAllFilters, CountsWereRight
  <2>3. QuestionsSayTheSame'
    BY <2>1 DEF PlanningInv, QuestionsSayTheSame, Acceptable
  <2>4. InCatalog(Asked)' = InCatalog(Asked)
    BY <2>1 DEF InCatalog, MeetsAll, Meets, Asked
  <2>5. CatalogPlansAreWhole'
    BY <2>1, <2>4 DEF PlanningInv, CatalogPlansAreWhole, Acceptable
  <2> QED
    BY <2>2, <2>3, <2>5 DEF PlanningInv
<1>2. CASE \E found \in Small(SUBSET FoundConditions), business \in BOOLEAN,
              intent \in {"statistics", "chitchat", "relationship", "other"} :
             AnalyzerAnswers(found, business, intent)
  BY <1>2, AnalyzerAnswersKeeps
<1>3. CASE RewriterAnswers
  BY <1>0, <1>3, RewriterAnswersKeeps
<1>4. CASE KeepsQuestion
  BY <1>0, <1>4, KeepsQuestionKeeps
<1>5. CASE RewriterAsksBack \/ AsksBack \/ CatalogChanged \/ SignedOut
  BY <1>5, StopsKeeps DEF RewriterAsksBack, AsksBack, CatalogChanged, SignedOut
<1>6. CASE AnalyzerFails
  BY <1>6, AnalyzerFailsKeeps
<1>7. CASE \E ready \in BOOLEAN : ConfirmGraph(ready)
  BY <1>7, ConfirmGraphKeeps
<1>8. CASE ReadCatalog
  BY <1>8, ReadCatalogKeeps
<1>9. CASE PublishCatalog
  BY <1>9, PublishCatalogKeeps
<1>10. CASE RetrieveFiltered
  BY <1>10, RetrieveFilteredKeeps
<1>11. CASE AnswerFiltered
  BY <1>11, AnswerFilteredKeeps
<1>12. CASE ChangeCatalog
  BY <1>12, ChangeCatalogKeeps
<1> QED
  BY <1>1, <1>2, <1>3, <1>4, <1>5, <1>6, <1>7, <1>8, <1>9, <1>10, <1>11, <1>12 DEF PlanningNext

(* The step that gives an answer.                                          *)
LEMMA AnswersKeepConditions ==
  ASSUME PlanningInv, [PlanningNext]_planningVars,
         planning.stage # planning'.stage, planning'.stage = "answered"
  PROVE  IF planning.route = "structured"
         THEN /\ ~ planning.question.either /\ ~ planning.question.more
              /\ Valued(planning.constraints) \subseteq
                   Valued(planning.said \cup (Conditions \ Noticed))
              /\ planning'.sources \in seen
              /\ planning'.sources \subseteq InCatalog(Asked)
         ELSE planning'.sources \subseteq
                InCatalog(planning.question.filters \cup planning.constraints)
PROOF
<1>1. planning \in PlanningRecord
  BY DEF PlanningInv
<1>2. PublishCatalog \/ AnswerFiltered
  <2>1. ASSUME Stops PROVE FALSE
    BY <2>1, <1>1 DEF Stops, PlanningRecord
  <2>2. ASSUME NEW stage, NEW route, NEW constraints, NEW filters, stage # "answered",
               Goes(stage, route, constraints, filters)
        PROVE FALSE
    BY <2>2, <1>1 DEF Goes, PlanningRecord
  <2>3. ASSUME NEW question, GoesOn(question) PROVE FALSE
    BY <2>3, <1>1 DEF GoesOn, PlanningRecord
  <2>4. ASSUME NEW found, NEW business, NEW intent, AnalyzerAnswers(found, business, intent)
        PROVE FALSE
    BY <2>4, <2>1, <2>2 DEF AnalyzerAnswers, Plans, Hybrid
  <2>5. ~ AnalyzerFails
    BY <2>1, <2>2 DEF AnalyzerFails, Hybrid
  <2>6. ASSUME NEW ready, ConfirmGraph(ready) PROVE FALSE
    BY <2>6, <1>1 DEF ConfirmGraph, PlanningRecord
  <2>7. ~ ReadCatalog
    BY <2>1, <1>1 DEF ReadCatalog, PlanningRecord
  <2>8. ~ RetrieveFiltered
    BY <1>1 DEF RetrieveFiltered, PlanningRecord
  <2>9. ~ (RewriterAnswers \/ KeepsQuestion)
    BY <2>1, <2>3 DEF RewriterAnswers, KeepsQuestion
  <2>10. ~ (RewriterAsksBack \/ AsksBack \/ CatalogChanged \/ SignedOut)
    BY <2>1 DEF RewriterAsksBack, AsksBack, CatalogChanged, SignedOut
  <2>11. ~ (ChangeCatalog \/ UNCHANGED planningVars)
    BY DEF ChangeCatalog, planningVars
  <2> QED
    BY <2>4, <2>5, <2>6, <2>7, <2>8, <2>9, <2>10, <2>11 DEF PlanningNext
<1>3. CASE PublishCatalog
  <2>1. planning.stage = "counted" /\ planning'.sources = planning.sources
    BY <1>1, <1>3 DEF PublishCatalog, InStage, PlanningRecord
  <2>2. planning.route = "structured" /\ planning.sources \in seen
    BY <2>1 DEF PlanningInv, CountsWereRight
  <2>3. planning.sources \subseteq InCatalog(planning.filters)
    BY <1>3 DEF PublishCatalog, CatalogHolds
  <2>4. Asked = planning.filters
    BY <2>2, FiltersAreAsked
  <2> QED
    BY <2>1, <2>2, <2>3, <2>4 DEF PlanningInv, CatalogPlansAreWhole, Acceptable
<1>4. CASE AnswerFiltered
  <2>1. /\ planning.stage = "retrieved"
        /\ planning'.sources = planning.sources \cap InCatalog(planning.filters)
    BY <1>1, <1>4 DEF AnswerFiltered, InStage, PlanningRecord
  <2>2. planning.route \notin {"none", "structured"}
    BY <2>1 DEF PlanningInv, PlansHaveAllFilters, CountsWereRight
  <2>3. planning.filters = planning.question.filters \cup planning.constraints
    BY <2>2 DEF PlanningInv, PlansHaveAllFilters
  <2> QED
    BY <2>1, <2>2, <2>3
<1> QED
  BY <1>2, <1>3, <1>4

(* Every reachable state of a question satisfies PlanningInv.              *)
THEOREM PlanningInductive == PlanningSpec => []PlanningInv
PROOF
<1> QED
  BY PlanningInitially, PlanningStepKeeps, PlanningConstantsAssumption, PTL DEF PlanningSpec

(* No condition is lost between the question and the answer, and none that *)
(* the rewriter's patterns notice comes from an earlier turn: the property *)
(* of the run, for any documents, values, filters, patterns and histories. *)
THEOREM ConditionsAreKept == PlanningSpec => NoConditionIsLost
PROOF
<1>1. PlanningInv /\ [PlanningNext]_planningVars =>
        [planning.stage # planning'.stage /\ planning'.stage = "answered" =>
           IF planning.route = "structured"
           THEN /\ ~ planning.question.either /\ ~ planning.question.more
                /\ Valued(planning.constraints) \subseteq
                     Valued(planning.said \cup (Conditions \ Noticed))
                /\ planning'.sources \in seen
                /\ planning'.sources \subseteq InCatalog(Asked)
           ELSE planning'.sources \subseteq
                  InCatalog(planning.question.filters \cup planning.constraints)
          ]_planningVars
  BY AnswersKeepConditions
<1> QED
  BY <1>1, PlanningInductive, PTL DEF PlanningSpec, NoConditionIsLost

=============================================================================
