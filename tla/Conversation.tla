---------------------------- MODULE Conversation ----------------------------
(***************************************************************************)
(* What one chat session promises to its owner: each request is asked at   *)
(* most once and answered at most once, one at a time, and in the          *)
(* transcript an answer directly follows its question.  A question that    *)
(* has lapsed can no longer be answered and no longer blocks the next one. *)
(***************************************************************************)
EXTENDS Sequences, Naturals

CONSTANTS
  Requests,   \* client_request_id values
  None

VARIABLES
  transcript,   \* the messages, oldest first
  open,         \* the request being answered, or None
  lapsed        \* its answer will not come any more

conversation == <<transcript, open, lapsed>>

Asked == {transcript[i].request : i \in DOMAIN transcript}

Init ==
  /\ transcript = <<>>
  /\ open = None
  /\ lapsed = FALSE

(* A new request; it may take the place of one that has lapsed.            *)
Ask(q) ==
  /\ open = None \/ lapsed
  /\ q \notin Asked
  /\ transcript' = Append(transcript, [request |-> q, role |-> "USER"])
  /\ open' = q
  /\ lapsed' = FALSE

Answer ==
  /\ open # None /\ ~lapsed
  /\ transcript' = Append(transcript, [request |-> open, role |-> "ASSISTANT"])
  /\ open' = None
  /\ UNCHANGED lapsed

GiveUp ==
  /\ open # None
  /\ open' = None
  /\ lapsed' = FALSE
  /\ UNCHANGED transcript

Lapse ==
  /\ open # None
  /\ lapsed' = TRUE
  /\ UNCHANGED <<transcript, open>>

Next == Answer \/ GiveUp \/ Lapse \/ \E q \in Requests : Ask(q)

Spec == Init /\ [][Next]_conversation

=============================================================================
