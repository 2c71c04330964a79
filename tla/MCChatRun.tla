------------------------------ MODULE MCChatRun ------------------------------
(* What is checked together with ChatRun: the pages that show a chat.  A   *)
(* behaviour is one of ChatRun or of BrowserSession, while the other stays *)
(* as it begins.                                                           *)
EXTENDS ChatRun, BrowserSession, TLC

CONSTANT Body  \* the body of every question that is stored

ASSUME BodyAssumption == Body \in Bodies

VARIABLE part

partVars == <<part, chatVars, browserVars>>

PartInit ==
  /\ part \in {"chat", "browser"}
  /\ ChatInit /\ BrowserInit /\ (part = "chat" => owner = << >>)

PartNext ==
  /\ UNCHANGED part
  /\ \/ part = "chat" /\ ChatNext /\ UNCHANGED browserVars
     \/ part = "browser" /\ BrowserNext /\ UNCHANGED chatVars

PartSpec == PartInit /\ [][PartNext]_partVars

(* Bound: all questions have the same body; others come as repetitions of  *)
(* a request with another body.                                            *)
QuestionsAreAlike == \A r \in Runs : Exists(r) => run[r].body = Body

\* The pages and people of the browser have the names of the calls.
Symmetry == Permutations(Calls) \cup Permutations(Requests)
=============================================================================
