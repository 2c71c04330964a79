------------------------------- MODULE ChatRun -------------------------------
(***************************************************************************)
(* One chat session: its runs, its messages, the HTTP requests that ask,   *)
(* and the sources the answers rest on.                                    *)
(*                                                                         *)
(* A request goes through many transactions with model calls between them. *)
(* Every transaction below except the heartbeat locks the session row, so  *)
(* it is one action.  The transaction that stores the answer runs in a     *)
(* thread: when its request is cancelled or times out, it goes on.         *)
(*                                                                         *)
(* A source is a chunk of a published generation or a statistical result;  *)
(* it is readable while permissions and publication say so.  The lease of  *)
(* a run is never handed over: its owner is a fresh identifier and its     *)
(* epoch 1, so holding it means to be the request that inserted the run.   *)
(***************************************************************************)
EXTENDS Naturals, FiniteSets, Sequences

CONSTANTS
  Calls,          \* HTTP requests being served at once
  Logins,         \* sign-ins of the owner, on several devices
  Requests,       \* client_request_id values
  Bodies,         \* request bodies, told apart by request_sha256
  Sources,        \* what answers may cite
  None,
  MaxRuns,        \* bound: runs of the session
  HistoryTurns    \* settings.chat_history_turns

ASSUME ChatNoneAssumption ==
  None \notin Requests /\ None \notin Bodies /\ None \notin Logins
ASSUME ChatBoundsAssumption == MaxRuns \in Nat /\ HistoryTurns \in Nat

VARIABLES
  run,        \* chat_run rows, in the order of their ids
  messages,   \* chat_message rows, in the order of sequence_no
  call,       \* requests inside the server
  commits,    \* complete() calls that run in a thread
  readable,   \* sources the owner may read now
  signedIn    \* sign-ins that are still valid

chatVars == <<run, messages, call, commits, readable, signedIn>>

Runs == 1..MaxRuns

Run ==
  [status : {"NONE", "RUNNING", "SUCCEEDED", "FAILED", "ABANDONED"},
   request : Requests \cup {None},
   body : Bodies \cup {None},
   live : BOOLEAN,                  \* lease_expires_at > clock_timestamp()
   context : SUBSET Runs,           \* history_run_ids
   evidence : SUBSET Sources,       \* response.retrieval.evidence
   inherited : SUBSET Sources]      \* history_sources

Message == [run : Runs, role : {"USER", "ASSISTANT"}]

(* A request: "begun" has inserted its run, "repeat" found it there.        *)
Call ==
  [phase : {"idle", "begun", "repeat", "scoped", "informed", "rewritten",
            "completing", "committed", "shown", "failing"},
   login : Logins \cup {None},
   request : Requests \cup {None},
   body : Bodies \cup {None},
   run : 0..MaxRuns,
   scope : SUBSET Sources,          \* what it may search
   turns : SUBSET Runs,             \* earlier turns it knows, then uses
   unchecked : SUBSET Runs]         \* used turns still to be checked again

Commit ==
  [run : Runs, login : Logins, turns : SUBSET Runs, evidence : SUBSET Sources]

NoRun == [status |-> "NONE", request |-> None, body |-> None, live |-> FALSE,
          context |-> {}, evidence |-> {}, inherited |-> {}]

NewRun(q, b) == [status |-> "RUNNING", request |-> q, body |-> b, live |-> TRUE,
                 context |-> {}, evidence |-> {}, inherited |-> {}]

Idle == [phase |-> "idle", login |-> None, request |-> None, body |-> None,
         run |-> 0, scope |-> {}, turns |-> {}, unchecked |-> {}]

NewCall(phase, l, q, b, r) ==
  [phase |-> phase, login |-> l, request |-> q, body |-> b,
   run |-> r, scope |-> {}, turns |-> {}, unchecked |-> {}]

ChatTypeOK ==
  /\ run \in [Runs -> Run]
  /\ messages \in Seq(Message)
  /\ call \in [Calls -> Call]
  /\ commits \subseteq Commit
  /\ readable \subseteq Sources
  /\ signedIn \subseteq Logins

ChatInit ==
  /\ run = [r \in Runs |-> NoRun]
  /\ messages = <<>>
  /\ call = [c \in Calls |-> Idle]
  /\ commits = {}
  /\ readable = Sources
  /\ signedIn = Logins

-----------------------------------------------------------------------------
(* Rows *)

Exists(r) == run[r].status # "NONE"

(* Runs whose lease ran out are given up.  So does every transaction that  *)
(* reads the session or starts a run.                                      *)
Reaped ==
  [r \in Runs |->
     IF run[r].status = "RUNNING" /\ ~run[r].live
     THEN [run[r] EXCEPT !.status = "ABANDONED"] ELSE run[r]]

(* What the answer of a run rests on, as its snapshot records it.          *)
RecordedSources(r) == run[r].evidence \cup run[r].inherited

(* The response of a run is returned.                                      *)
Visible(r) == run[r].status = "SUCCEEDED" /\ RecordedSources(r) \subseteq readable

(* Fault: the turns that cannot be used are skipped.                       *)
History_Skips(r, scope) ==
  {h \in Runs : h < r /\ h + HistoryTurns >= r /\ Visible(h) /\ run[h].evidence \subseteq scope}

(* The unbroken series of usable turns that ends just before r, within the *)
(* window of list_runs.                                                    *)
History(r, scope) ==
  {h \in Runs :
     /\ h < r /\ h + HistoryTurns >= r
     /\ \A k \in h..(r - 1) : Visible(k) /\ run[k].evidence \subseteq scope}

(* Fault: the status alone is compared, so an expired run can be completed. *)
Owned_Expired(r) == run[r].status = "RUNNING"

(* The lease of r is still held by the request that started it.            *)
Owned(r) == run[r].status = "RUNNING" /\ run[r].live

(* Fault: what the used turns themselves inherited is forgotten.           *)
InheritedSources_OneTurn(turns) == UNION {run[h].evidence : h \in turns}

InheritedSources(turns) == UNION {RecordedSources(h) : h \in turns}

At(c, phase) == call[c].phase = phase
Moved(c, phase) == call' = [call EXCEPT ![c].phase = phase]
Leaves(c) == call' = [call EXCEPT ![c] = Idle]
Authenticated(c) == call[c].login \in signedIn

-----------------------------------------------------------------------------
(* Asking *)

(* No run of the session is still being answered (uq_chat_one_active_run). *)
NoneActive == \A r \in Runs : Reaped[r].status # "RUNNING"

(* start_run() of a new request: the run, the user's message.              *)
StartRun(c, l, q, b) ==
  /\ At(c, "idle") /\ l \in signedIn
  /\ \A r \in Runs : run[r].request # q
  /\ NoneActive
  /\ \E r \in Runs :
       /\ ~Exists(r) /\ \A k \in 1..(r - 1) : Exists(k)
       /\ run' = [Reaped EXCEPT ![r] = NewRun(q, b)]
       /\ messages' = Append(messages, [run |-> r, role |-> "USER"])
       /\ call' = [call EXCEPT ![c] = NewCall("begun", l, q, b, r)]
  /\ UNCHANGED <<commits, readable, signedIn>>

(* Fault: the digest is not compared.                                      *)
SameRequest_AnyBody(r, q, b) == run[r].request = q

SameRequest(r, q, b) == run[r].request = q /\ run[r].body = b

(* start_run() of a request that is known, with the same body and ended:   *)
(* its run will be returned.  All other cases are refused and roll back.   *)
RepeatRun(c, l, q, b) ==
  /\ At(c, "idle") /\ l \in signedIn
  /\ \E r \in Runs :
       /\ SameRequest(r, q, b) /\ Reaped[r].status # "RUNNING"
       /\ call' = [call EXCEPT ![c] = NewCall("repeat", l, q, b, r)]
  /\ run' = Reaped
  /\ UNCHANGED <<messages, commits, readable, signedIn>>

(* The search scope is read, then the first heartbeat confirms the lease.  *)
LoadScope(c) ==
  /\ At(c, "begun") /\ Authenticated(c) /\ Owned(call[c].run)
  /\ \E scope \in SUBSET readable :
       call' = [call EXCEPT ![c].phase = "scoped", ![c].scope = scope]
  /\ UNCHANGED <<run, messages, commits, readable, signedIn>>

ReadHistory(c) ==
  /\ At(c, "scoped") /\ Authenticated(c)
  /\ call' = [call EXCEPT ![c].phase = "informed",
                          ![c].turns = History(call[c].run, call[c].scope)]
  /\ run' = Reaped
  /\ UNCHANGED <<messages, commits, readable, signedIn>>

(* The rewriter names the turns that its question takes objects from.      *)
Rewrite(c) ==
  /\ At(c, "informed")
  /\ \E used \in SUBSET call[c].turns :
       call' = [call EXCEPT ![c].phase = "rewritten", ![c].turns = used,
                            ![c].unchecked = used]
  /\ UNCHANGED <<run, messages, commits, readable, signedIn>>

(* get_run() of one used turn; when it is hidden, the call fails.          *)
RecheckTurn(c, h) ==
  /\ At(c, "rewritten") /\ Authenticated(c)
  /\ h \in call[c].unchecked /\ Visible(h)
  /\ call' = [call EXCEPT ![c].unchecked = @ \ {h}]
  /\ run' = Reaped
  /\ UNCHANGED <<messages, commits, readable, signedIn>>

(* Retrieval and generation end; the answer is handed to a thread.  A      *)
(* clarification has no evidence.                                          *)
SubmitAnswer(c) ==
  /\ At(c, "rewritten") /\ call[c].unchecked = {}
  /\ \E evidence \in SUBSET call[c].scope :
       commits' = commits \cup
         {[run |-> call[c].run, login |-> call[c].login,
           turns |-> call[c].turns, evidence |-> evidence]}
  /\ call' = [call EXCEPT ![c].phase = "completing", ![c].scope = {}, ![c].turns = {}]
  /\ UNCHANGED <<run, messages, readable, signedIn>>

(* The calls that still wait for the thread of run r.                      *)
Notified(r, phase) ==
  call' = [c \in Calls |-> IF At(c, "completing") /\ call[c].run = r
                           THEN [call[c] EXCEPT !.phase = phase] ELSE call[c]]

(* complete(): citations, message, snapshot and status in one transaction. *)
CommitAnswer(t) ==
  /\ t \in commits /\ t.login \in signedIn /\ Owned(t.run)
  /\ \A h \in t.turns : run[h].status = "SUCCEEDED"
  /\ t.evidence \cup InheritedSources(t.turns) \subseteq readable
  /\ run' = [run EXCEPT ![t.run].status = "SUCCEEDED", ![t.run].live = FALSE,
                        ![t.run].context = t.turns,
                        ![t.run].evidence = t.evidence,
                        ![t.run].inherited = InheritedSources(t.turns)]
  /\ messages' = Append(messages, [run |-> t.run, role |-> "ASSISTANT"])
  /\ commits' = commits \ {t}
  /\ Notified(t.run, "committed")
  /\ UNCHANGED <<readable, signedIn>>

(* complete() raises, or its process dies.                                 *)
FailCommit(t) ==
  /\ t \in commits
  /\ commits' = commits \ {t}
  /\ Notified(t.run, "failing")
  /\ UNCHANGED <<run, messages, readable, signedIn>>

(* get_run() after the commit or for a repeated request: the response is   *)
(* sent if it may be seen now.  A stream asks again before each event.     *)
Publish(c) ==
  /\ At(c, "committed") \/ At(c, "repeat")
  /\ Authenticated(c)
  /\ IF Visible(call[c].run) THEN Moved(c, "shown") ELSE Leaves(c)
  /\ run' = Reaped
  /\ UNCHANGED <<messages, commits, readable, signedIn>>

-----------------------------------------------------------------------------
(* Failing *)

(* Phases in which a renewal task keeps the lease.                         *)
Renewing == {"scoped", "informed", "rewritten", "completing"}

(* Fault: the time limit does not cover complete().                        *)
Interrupt_NotWhileCompleting(c) ==
  /\ call[c].phase \in {"begun", "committed"} \cup (Renewing \ {"completing"})
  /\ call' = [call EXCEPT ![c].phase = "failing", ![c].scope = {},
                          ![c].turns = {}, ![c].unchecked = {}]
  /\ UNCHANGED <<run, messages, commits, readable, signedIn>>

(* The call raises, loses its lease, is cancelled or exceeds its time.     *)
Interrupt(c) ==
  /\ call[c].phase \in {"begun", "committed"} \cup Renewing
  /\ call' = [call EXCEPT ![c].phase = "failing", ![c].scope = {},
                          ![c].turns = {}, ![c].unchecked = {}]
  /\ UNCHANGED <<run, messages, commits, readable, signedIn>>

(* terminate(), whose own failure is suppressed.  FAILED also stands for   *)
(* CANCELLED here.                                                         *)
Terminate(c) ==
  /\ At(c, "failing")
  /\ run' = IF Authenticated(c) /\ Owned(call[c].run)
            THEN [run EXCEPT ![call[c].run].status = "FAILED", ![call[c].run].live = FALSE]
            ELSE run
  /\ Leaves(c)
  /\ UNCHANGED <<messages, commits, readable, signedIn>>

(* The response is complete, the client goes away, or the process dies.    *)
Drop(c) ==
  /\ ~At(c, "idle")
  /\ Leaves(c)
  /\ UNCHANGED <<run, messages, commits, readable, signedIn>>

ExpireRun(r) ==
  /\ Owned(r)
  /\ run' = [run EXCEPT ![r].live = FALSE]
  /\ UNCHANGED <<messages, call, commits, readable, signedIn>>

-----------------------------------------------------------------------------
(* The surroundings *)

(* The owner looks at the session on some device.                          *)
Browse(l) ==
  /\ l \in signedIn
  /\ run' = Reaped
  /\ UNCHANGED <<messages, call, commits, readable, signedIn>>

SignOut(l) ==
  /\ signedIn' = signedIn \ {l}
  /\ UNCHANGED <<run, messages, call, commits, readable>>

(* A permission, or the generation that is published, changes.             *)
ChangeAccess(s) ==
  /\ readable' = IF s \in readable THEN readable \ {s} ELSE readable \cup {s}
  /\ UNCHANGED <<run, messages, call, commits, signedIn>>

CallStep(c) ==
  \/ \E l \in Logins, q \in Requests, b \in Bodies :
       StartRun(c, l, q, b) \/ RepeatRun(c, l, q, b)
  \/ LoadScope(c) \/ ReadHistory(c) \/ Rewrite(c)
  \/ \E h \in Runs : RecheckTurn(c, h)
  \/ SubmitAnswer(c) \/ Publish(c)
  \/ Interrupt(c) \/ Terminate(c) \/ Drop(c)

ChatNext ==
  \/ \E c \in Calls : CallStep(c)
  \/ \E t \in commits : CommitAnswer(t) \/ FailCommit(t)
  \/ \E r \in Runs : ExpireRun(r)
  \/ \E l \in Logins : Browse(l) \/ SignOut(l)
  \/ \E s \in Sources : ChangeAccess(s)

ChatSpec == ChatInit /\ [][ChatNext]_chatVars

(* asyncio.timeout bounds a call; a lease nobody renews runs out.          *)
Renewed(r) == \E c \in Calls : call[c].run = r /\ call[c].phase \in Renewing

ExpireAbandonedRun(r) == ~Renewed(r) /\ ExpireRun(r)

ChatFairness ==
  /\ \A c \in Calls : WF_chatVars(Interrupt(c))
  /\ \A r \in Runs : WF_chatVars(ExpireAbandonedRun(r))

ChatFairSpec == ChatSpec /\ ChatFairness

-----------------------------------------------------------------------------
(* Properties *)

(* The turns an answer rests on, directly or through other answers.        *)
Ancestors(r) ==
  {a \in Runs :
     \A S \in SUBSET Runs :
       r \in S /\ (\A k \in S : run[k].context \subseteq S) => a \in S}

(* Whoever sees an answer may read everything it rests on: its evidence    *)
(* and that of every earlier turn its question was rewritten from, through *)
(* any number of turns (history_sources of complete(), _visible_runs).     *)
VisibleAnswersRestOnReadableSources ==
  \A r \in Runs : Visible(r) =>
    \A a \in Ancestors(r) : run[a].status = "SUCCEEDED" /\ run[a].evidence \subseteq readable

(* A question is never rewritten from an older turn when a later one could *)
(* not be used: "the second point" would mean another answer (_history).   *)
ContextHasNoGaps ==
  \A r \in Runs : run[r].status = "SUCCEEDED" =>
    \A h \in run[r].context : \A k \in h..(r - 1) :
      h < r /\ run[k].status = "SUCCEEDED"

(* What a client is shown is in the transcript for good and answers the    *)
(* very request it sent, also when it was sent twice (start_run, execute). *)
ShownAnswersAreTheirs ==
  \A c \in Calls : At(c, "shown") =>
    LET r == call[c].run IN
      /\ run[r].status = "SUCCEEDED"
      /\ run[r].request = call[c].request /\ run[r].body = call[c].body
      /\ \E i \in DOMAIN messages : messages[i] = [run |-> r, role |-> "ASSISTANT"]

(* The session is a Conversation: whatever requests race, repeat, time out *)
(* or die, each question is stored and answered at most once, one at a     *)
(* time, and never after its lease has run out.                            *)
Running == {r \in Runs : run[r].status = "RUNNING"}

Transcript ==
  [i \in DOMAIN messages |->
     [request |-> run[messages[i].run].request, role |-> messages[i].role]]

OpenRequest == IF Running = {} THEN None ELSE run[CHOOSE r \in Running : TRUE].request

OpenLapsed == \E r \in Running : ~run[r].live

Promise == INSTANCE Conversation
             WITH transcript <- Transcript, open <- OpenRequest, lapsed <- OpenLapsed

ConversationSpec == Promise!Spec

(* The inductive invariant: the parts that make the properties above       *)
(* inductive.                                                              *)

(* The ids of the runs have no gaps, and only the newest run may be        *)
(* running, so an older one never changes.                                 *)
OnlyTheNewestRuns ==
  \A r \in Runs :
    /\ Exists(r) => \A k \in 1..(r - 1) : Exists(k)
    /\ run[r].status = "RUNNING" => \A k \in Runs : k > r => ~Exists(k)
    /\ run[r].live => run[r].status = "RUNNING"

RequestsHaveOneRun ==
  \A r \in Runs :
    /\ Exists(r) <=> run[r].request # None
    /\ Exists(r) => \A k \in Runs : run[k].request = run[r].request => k = r

MessagesMatchRuns ==
  /\ \A i \in DOMAIN messages : Exists(messages[i].run)
  /\ \A r \in Runs : run[r].status = "SUCCEEDED" =>
       \E i \in DOMAIN messages : messages[i] = [run |-> r, role |-> "ASSISTANT"]

(* Turns a question of run r may be rewritten from.                        *)
Usable(turns, r) ==
  \A h \in turns : h < r /\ \A k \in h..(r - 1) : run[k].status = "SUCCEEDED"

SnapshotsAreClosed ==
  \A r \in Runs : run[r].status = "SUCCEEDED" =>
    /\ Usable(run[r].context, r)
    /\ \A h \in run[r].context : RecordedSources(h) \subseteq run[r].inherited

CallMatches(c) ==
  ~At(c, "idle") =>
    /\ call[c].run \in Runs /\ call[c].login \in Logins
    /\ Exists(call[c].run)
    /\ run[call[c].run].request = call[c].request
    /\ run[call[c].run].body = call[c].body
    /\ At(c, "shown") => run[call[c].run].status = "SUCCEEDED"

CallsMatchRuns ==
  /\ \A c \in Calls : CallMatches(c) /\ Usable(call[c].turns, call[c].run)
  /\ \A t \in commits : Exists(t.run) /\ Usable(t.turns, t.run)

ChatInv ==
  /\ ChatTypeOK
  /\ OnlyTheNewestRuns
  /\ RequestsHaveOneRun
  /\ MessagesMatchRuns
  /\ SnapshotsAreClosed
  /\ CallsMatchRuns

(* A session is not blocked for ever: every run ends, or its lease runs    *)
(* out so that the next question finds the session free.                   *)
SessionFreesUp == \A r \in Runs : Owned(r) ~> ~Owned(r)

=============================================================================
