------------------------------ MODULE Answering ------------------------------
(***************************************************************************)
(* An answer from the evidence of a finished retrieval: generation, at     *)
(* most one repair, review.                                                *)
(*                                                                         *)
(* Every call of the model and every wait for a slow reader of the event   *)
(* stream is followed by a check of what may still be read; a check reads  *)
(* the text, the graphs of the paths, and the text again.  Anything that   *)
(* is missing then ends the answer.  The model ends with the check after   *)
(* the review: the finished answer may still wait in the event queue until *)
(* it is read.  The run of the retrieval is over; the world goes on        *)
(* changing.  What the model writes is nondeterministic: which evidence it *)
(* cites, whose conditions it keeps, and whether the other rules for       *)
(* drafts are met.                                                         *)
(***************************************************************************)
EXTENDS Retrieval

VARIABLE answer

answerVars == <<readable, projected, signedIn, worldChanges, run, since, answer>>

Outside == {"wait generation", "generating", "repairing", "wait review", "reviewing"}
Checked == {"begin", "generate", "generated", "repair", "repaired", "review", "reviewed",
            "caught"}

(* "imprecise": a rule is broken that a repair may mend, such as a quote   *)
(* that is not verbatim; "wrong": one that it may not.                     *)
Draft == [kind : {"none", "insufficient", "imprecise", "wrong"}, cites : {{}}, keeps : {{}}]
           \cup [kind : {"sound"}, cites : (SUBSET Chunks) \ {{}}, keeps : SUBSET KnownPaths]

NoDraft == [kind |-> "none", cites |-> {}, keeps |-> {}]

Answer ==
  [stage : Outside \cup Checked \cup {"done", "failed"},
   check : {"over", "text", "graph", "text again"},
   streamed : BOOLEAN,            \* /answer/stream
   evidence : SUBSET Chunks,
   before : SUBSET Chunks,        \* the evidence before the check
   paths : SUBSET KnownPaths,
   draft : Draft,
   repaired : BOOLEAN,
   seen : SUBSET Chunks,          \* what the reviewer was shown
   status : {"none", "insufficient", "unavailable", "rejected", "answered"}]

AnswerTypeOK == answer \in Answer

-----------------------------------------------------------------------------
(* Checks *)

Is(stage) == answer.stage = stage
Over(stage) == Is(stage) /\ answer.check = "over"
WorldStays == UNCHANGED <<readable, projected, signedIn, worldChanges, run, since>>

ReadableOf(chunks) == {c \in chunks : DocumentOf[c] \in readable}

(* _revalidate() with _with_evidence(); without paths it is the only read. *)
CheckText ==
  LET left == ReadableOf(answer.evidence)  paths == Whole(answer.paths, left)
  IN /\ answer.check \in {"text", "text again"} /\ signedIn
     /\ answer' = [answer EXCEPT
          !.evidence = left, !.paths = paths,
          !.check = IF @ = "text" /\ paths # {} THEN "graph" ELSE "over"]
     /\ WorldStays

(* _revalidate_paths(): a path stays while all its graphs are the planned  *)
(* ones; none stays when the graphs cannot be asked.                       *)
CheckGraph(answered) ==
  /\ answer.check = "graph" /\ signedIn
  /\ answer' = [answer EXCEPT
       !.check = "text again",
       !.paths = {p \in @ : answered /\ \A c \in p : DocumentOf[c] \in readable \cap projected}]
  /\ WorldStays

(* An AuthError ends the request, whatever was under way.                  *)
AnswerGivesUp ==
  /\ ~ Is("done") /\ ~ Is("failed")
  /\ answer' = [answer EXCEPT !.stage = "failed", !.check = "over"]
  /\ WorldStays

(* Fault for checking: after a wait for the reader nothing is read again.  *)
Begins_WaitsUnchecked(stage, changed) ==
  answer' = [changed EXCEPT !.stage = stage, !.before = changed.evidence,
                            !.check = IF stage \in {"generate", "review"} THEN "over" ELSE "text"]

Begins(stage, changed) ==
  answer' = [changed EXCEPT !.stage = stage, !.check = "text", !.before = changed.evidence]

Ends(status) == answer' = [answer EXCEPT !.stage = "done", !.status = status]

(* Fault for checking: what is missing after a check is not noticed.       *)
NothingIsMissing_Ignored == TRUE

NothingIsMissing == answer.evidence = answer.before

(* After a check: withdrawn evidence ends the answer with what is left.    *)
Reject == /\ \E s \in Checked \ {"begin", "caught"} : Over(s)
          /\ ~ NothingIsMissing /\ Ends("rejected") /\ WorldStays

-----------------------------------------------------------------------------
(* The steps of the answer *)

(* _validate_draft(): citations are of the evidence, one path is cited     *)
(* wholly when there are any, and of the cited ones one keeps its          *)
(* conditions.                                                             *)
Cited(d) == Whole(answer.paths, d.cites)
Fault(d) ==
  CASE d.kind = "wrong" \/ ~ d.cites \subseteq answer.evidence -> "fatal"
    [] d.kind = "imprecise" \/ (answer.paths # {} /\ Cited(d) \cap d.keeps = {}) -> "repairable"
    [] OTHER -> "no"

(* The request to the model is too large.                                  *)
TooLarge == Ends("insufficient")

Generates == answer' = [answer EXCEPT !.stage = "generating"]
Reviews == answer' = [answer EXCEPT !.stage = "reviewing", !.seen = answer.evidence]

AfterBegin ==
  /\ Over("begin") /\ WorldStays
  /\ \/ answer.evidence = {} /\ Ends("insufficient")
     \/ /\ answer.evidence # {}
        /\ \/ Ends("unavailable")   \* answering is switched off
           \/ TooLarge
           \/ answer.streamed /\ answer' = [answer EXCEPT !.stage = "wait generation"]
           \/ ~ answer.streamed /\ Generates

BeforeGeneration ==
  /\ Over("generate") /\ NothingIsMissing /\ (TooLarge \/ Generates) /\ WorldStays

ValidDraft ==
  \/ answer.streamed /\ answer' = [answer EXCEPT !.stage = "wait review"]
  \/ ~ answer.streamed /\ (TooLarge \/ Reviews)

AfterDraft ==
  /\ Over("generated") \/ Over("repaired")
  /\ NothingIsMissing /\ WorldStays
  /\ \/ answer.draft.kind = "insufficient" /\ Ends("insufficient")
     \/ /\ answer.draft.kind # "insufficient"
        /\ \/ Fault(answer.draft) = "no" /\ ValidDraft
           \/ /\ Fault(answer.draft) = "repairable" /\ Is("generated")
              /\ Begins("repair", answer)
           \/ /\ Fault(answer.draft) # "no"
              /\ Is("repaired") \/ Fault(answer.draft) = "fatal"
              /\ Begins("caught", answer)

BeforeRepair ==
  /\ Over("repair") /\ NothingIsMissing /\ WorldStays
  /\ \/ Begins("caught", answer)
     \/ answer' = [answer EXCEPT !.stage = "repairing", !.repaired = TRUE]

BeforeReview ==
  /\ Over("review") /\ NothingIsMissing /\ WorldStays
  /\ \/ Fault(answer.draft) # "no" /\ Begins("caught", answer)
     \/ Fault(answer.draft) = "no" /\ (TooLarge \/ Reviews)

(* A path that was cited may be gone by now; another one does not stand in *)
(* for it, and the paths are left out.                                     *)
AfterReview(supported) ==
  /\ Over("reviewed") /\ NothingIsMissing /\ WorldStays
  /\ \/ ~ supported /\ Ends("insufficient")
     \/ /\ supported
        /\ answer' = [answer EXCEPT
             !.stage = "done", !.status = "answered",
             !.paths = IF Cited(answer.draft) \cap answer.draft.keeps = {} THEN {} ELSE @]

(* An invalid reply or a failed call: what is returned is checked again.   *)
AfterError ==
  /\ Over("caught") /\ WorldStays
  /\ \/ Ends("rejected") \/ Ends("unavailable") \/ Ends("insufficient")

(* The model or the reader of the stream comes back.                       *)
Return(stage, next, draft) ==
  /\ Is(stage)
  /\ \/ Begins(next, [answer EXCEPT !.draft = draft])
     \/ stage \notin {"wait generation", "wait review"} /\ Begins("caught", answer)
  /\ since' = Now
  /\ UNCHANGED <<readable, projected, signedIn, worldChanges, run>>

Drafts == {d \in Draft : d.kind # "none" /\ d.cites \subseteq answer.evidence}

AnswerInit ==
  /\ readable = Documents /\ projected = Documents /\ signedIn = TRUE /\ worldChanges = 0
  /\ since = Now
  /\ \E order \in Rankings, streamed \in BOOLEAN, candidateK \in CandidateKs :
     \E paths \in SUBSET Whole(KnownPaths, Range(order)) :
       /\ Len(order) <= candidateK   \* which the budget of evidence may equal
       /\ \A i, j \in DOMAIN order : i < j => order[i] < order[j]
       /\ run = [stage |-> "done", order |-> order]
       /\ answer = [stage |-> "begin", check |-> "text", streamed |-> streamed,
                    evidence |-> Range(order), before |-> Range(order), paths |-> paths,
                    draft |-> NoDraft, repaired |-> FALSE, seen |-> {}, status |-> "none"]

AnswerNext ==
  \/ CheckText \/ \E answered \in BOOLEAN : CheckGraph(answered)
  \/ AfterBegin \/ BeforeGeneration \/ AfterDraft \/ BeforeRepair \/ BeforeReview
  \/ \E supported \in BOOLEAN : AfterReview(supported)
  \/ AfterError \/ Reject \/ AnswerGivesUp
  \/ \E d \in Drafts : Return("generating", "generated", d) \/ Return("repairing", "repaired", d)
  \/ Return("wait generation", "generate", answer.draft)
  \/ Return("wait review", "review", answer.draft)
  \/ Return("reviewing", "reviewed", answer.draft)
  \/ ~ Is("done") /\ ~ Is("failed") /\ ChangeWorld /\ UNCHANGED <<run, answer>>

AnswerSpec == AnswerInit /\ [][AnswerNext]_answerVars

-----------------------------------------------------------------------------
(* Properties *)

(* Nothing that was withdrawn during the last call or the last wait before *)
(* it goes to the model or is handed on to the asker: evidence was         *)
(* readable, and paths were of the planned graphs, at some moment after    *)
(* it.  How long the event queue then holds the answer is left out.        *)
WithdrawnEvidenceStaysInside ==
  [][answer'.stage # answer.stage /\ answer'.stage \in {"generating", "repairing", "reviewing",
                                                      "done"} =>
       /\ \A c \in answer'.evidence : DocumentOf[c] \in since.readable
       /\ \A c \in UNION answer'.paths : DocumentOf[c] \in since.projected]_answerVars

(* An answer rests on what is shown with it: every cited source is among   *)
(* the evidence returned, the reviewer was shown exactly that evidence,    *)
(* and when paths are shown the answer cites one of them wholly and keeps  *)
(* its conditions.                                                         *)
AnswersRestOnTheirEvidence ==
  answer.status = "answered" =>
    /\ answer.draft.kind = "sound" /\ answer.draft.cites \subseteq answer.evidence
    /\ answer.evidence = answer.seen
    /\ answer.paths # {} => \E p \in answer.paths \cap answer.draft.keeps :
                              p \subseteq answer.draft.cites
=============================================================================
