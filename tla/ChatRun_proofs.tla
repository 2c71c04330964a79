--------------------------- MODULE ChatRun_proofs ---------------------------
(***************************************************************************)
(* Proofs about ChatRun, for any number of requests, sign-ins, sources and *)
(* runs.  Most transactions only let runs fade: a running one may end      *)
(* without an answer, or lose its lease.  Two do more: StartRun inserts a  *)
(* run and CommitAnswer answers one.                                       *)
(***************************************************************************)
EXTENDS ChatRun, SequenceTheorems, TLAPS

(* Rows as they may be after a transaction that neither inserts nor        *)
(* answers a run.                                                          *)
Fades ==
  \A r \in Runs :
    /\ run'[r].request = run[r].request /\ run'[r].body = run[r].body
    /\ run'[r].context = run[r].context
    /\ run'[r].evidence = run[r].evidence /\ run'[r].inherited = run[r].inherited
    /\ run'[r].live => run[r].live
    /\ \/ run'[r].status = run[r].status
       \/ run[r].status = "RUNNING" /\ run'[r].status \in {"FAILED", "ABANDONED"}
          /\ ~run'[r].live

(* What every transaction leaves true of the rows.                         *)
Grows ==
  \A r \in Runs :
    /\ Exists(r) => Exists(r)' /\ run'[r].request = run[r].request
                    /\ run'[r].body = run[r].body
    /\ run[r].status = "SUCCEEDED" => run'[r].status = "SUCCEEDED"

-----------------------------------------------------------------------------
(* Rows *)

(* Reaping touches a row in its status only, and an expired one at that.   *)
LEMMA ReapedRow ==
  ASSUME run \in [Runs -> Run], NEW r \in Runs
  PROVE  /\ Reaped[r] \in Run
         /\ Reaped[r].request = run[r].request /\ Reaped[r].body = run[r].body
         /\ Reaped[r].context = run[r].context
         /\ Reaped[r].evidence = run[r].evidence
         /\ Reaped[r].inherited = run[r].inherited
         /\ Reaped[r].live = run[r].live
         /\ Reaped[r].status = IF run[r].status = "RUNNING" /\ ~run[r].live
                               THEN "ABANDONED" ELSE run[r].status
<1>1. run[r] \in Run
  OBVIOUS
<1>2. CASE run[r].status = "RUNNING" /\ ~run[r].live
  <2>1. Reaped[r] = [run[r] EXCEPT !.status = "ABANDONED"]
    BY <1>2 DEF Reaped
  <2> QED BY <1>1, <1>2, <2>1 DEF Run
<1>3. CASE ~(run[r].status = "RUNNING" /\ ~run[r].live)
  <2>1. Reaped[r] = run[r]
    BY <1>3 DEF Reaped
  <2> QED BY <1>1, <1>3, <2>1
<1> QED BY <1>2, <1>3

(* A transaction that only reaps. *)
LEMMA ReapedFades ==
  ASSUME ChatTypeOK, run' = Reaped
  PROVE  run' \in [Runs -> Run] /\ Fades
<1>1. run \in [Runs -> Run]
  BY DEF ChatTypeOK
<1>2. \A r \in Runs : run'[r] \in Run
  BY <1>1, ReapedRow
<1>3. run' \in [Runs -> Run]
  <2>1. run' = [r \in Runs |-> run'[r]]
    BY DEF Reaped
  <2> QED BY <1>2, <2>1
<1>4. Fades
  <2> SUFFICES ASSUME NEW r \in Runs
               PROVE  /\ run'[r].request = run[r].request /\ run'[r].body = run[r].body
                      /\ run'[r].context = run[r].context
                      /\ run'[r].evidence = run[r].evidence
                      /\ run'[r].inherited = run[r].inherited
                      /\ run'[r].live => run[r].live
                      /\ \/ run'[r].status = run[r].status
                         \/ run[r].status = "RUNNING"
                            /\ run'[r].status \in {"FAILED", "ABANDONED"} /\ ~run'[r].live
    BY DEF Fades
  <2>1. CASE run[r].status = "RUNNING" /\ ~run[r].live
    BY <1>1, <2>1, ReapedRow
  <2>2. CASE ~(run[r].status = "RUNNING" /\ ~run[r].live)
    BY <1>1, <2>2, ReapedRow
  <2> QED BY <2>1, <2>2
<1> QED BY <1>3, <1>4

(* A transaction that writes no run. *)
LEMMA SameFades ==
  ASSUME ChatTypeOK, run' = run
  PROVE  run' \in [Runs -> Run] /\ Fades
BY DEF ChatTypeOK, Fades

(* A message belongs to a row of the table of runs. *)
LEMMA MessageRuns ==
  ASSUME ChatTypeOK, NEW i \in DOMAIN messages
  PROVE  messages[i] \in Message /\ messages[i].run \in Runs
<1>1. messages \in Seq(Message)
  BY DEF ChatTypeOK
<1>2. messages[i] \in Message
  BY <1>1
<1> QED BY <1>2 DEF Message

(* Fading keeps what the invariant says of runs and messages. *)
LEMMA FadeKeepsRows ==
  ASSUME ChatInv, run' \in [Runs -> Run], Fades, messages' = messages
  PROVE  /\ OnlyTheNewestRuns' /\ RequestsHaveOneRun'
         /\ MessagesMatchRuns' /\ SnapshotsAreClosed'
         /\ Grows
<1> USE DEF Exists
<1>0. \A r \in Runs : Exists(r)' <=> Exists(r)
  BY DEF Fades
<1>1. \A r \in Runs : run'[r].status = "SUCCEEDED" <=> run[r].status = "SUCCEEDED"
  BY DEF Fades
<1>2. OnlyTheNewestRuns'
  <2> SUFFICES ASSUME NEW r \in Runs
               PROVE  /\ Exists(r)' => \A k \in 1..(r - 1) : Exists(k)'
                      /\ run'[r].status = "RUNNING" => \A k \in Runs : k > r => ~Exists(k)'
                      /\ run'[r].live => run'[r].status = "RUNNING"
    BY DEF OnlyTheNewestRuns
  <2>1. Exists(r)' => \A k \in 1..(r - 1) : Exists(k)'
    <3>1. \A k \in 1..(r - 1) : k \in Runs
      BY ChatBoundsAssumption DEF Runs
    <3> QED BY <1>0, <3>1 DEF ChatInv, OnlyTheNewestRuns
  <2>2. run'[r].status = "RUNNING" => \A k \in Runs : k > r => ~Exists(k)'
    <3>1. run'[r].status = "RUNNING" => run[r].status = "RUNNING"
      BY DEF Fades
    <3> QED BY <1>0, <3>1 DEF ChatInv, OnlyTheNewestRuns
  <2>3. run'[r].live => run'[r].status = "RUNNING"
    BY DEF Fades, ChatInv, OnlyTheNewestRuns
  <2> QED BY <2>1, <2>2, <2>3
<1>3. RequestsHaveOneRun'
  <2>1. \A r \in Runs : run'[r].request = run[r].request
    BY DEF Fades
  <2> QED BY <1>0, <2>1 DEF ChatInv, RequestsHaveOneRun
<1>4. MessagesMatchRuns'
  <2>1. \A i \in DOMAIN messages : messages[i].run \in Runs
    BY MessageRuns DEF ChatInv
  <2> QED BY <1>0, <1>1, <2>1 DEF ChatInv, MessagesMatchRuns
<1>5. SnapshotsAreClosed'
  <2> SUFFICES ASSUME NEW r \in Runs, run'[r].status = "SUCCEEDED"
               PROVE  /\ Usable(run[r].context, r)'
                      /\ \A h \in run'[r].context : RecordedSources(h)' \subseteq run'[r].inherited
    BY DEF SnapshotsAreClosed
  <2>1. run[r].status = "SUCCEEDED" /\ run'[r].context = run[r].context
    BY <1>1 DEF Fades
  <2>2. run[r].context \subseteq Runs
    BY DEF ChatInv, ChatTypeOK, Run
  <2>3. \A h \in Runs : \A k \in h..(r - 1) : k \in Runs
    BY ChatBoundsAssumption DEF Runs
  <2>4. Usable(run[r].context, r)
    BY <2>1 DEF ChatInv, SnapshotsAreClosed
  <2>5. Usable(run[r].context, r)'
    BY <1>1, <2>1, <2>2, <2>3, <2>4 DEF Usable
  <2>6. \A h \in Runs : RecordedSources(h)' = RecordedSources(h)
    BY DEF Fades, RecordedSources
  <2>7. run'[r].inherited = run[r].inherited
    BY DEF Fades
  <2> QED BY <2>1, <2>2, <2>5, <2>6, <2>7 DEF ChatInv, SnapshotsAreClosed
<1>6. Grows
  BY <1>0, <1>1 DEF Grows, Fades
<1> QED BY <1>2, <1>3, <1>4, <1>5, <1>6

(* Usable turns stay usable. *)
LEMMA GrowKeepsUsable ==
  ASSUME Grows, NEW turns \in SUBSET Runs, NEW r \in 0..MaxRuns, Usable(turns, r)
  PROVE  \A h \in turns : h < r /\ \A k \in h..(r - 1) : run'[k].status = "SUCCEEDED"
<1>1. \A h \in Runs : \A k \in h..(r - 1) : k \in Runs
  BY ChatBoundsAssumption DEF Runs
<1> QED BY <1>1 DEF Grows, Usable

(* A call that the step leaves alone still matches its run. *)
LEMMA GrowKeepsCall ==
  ASSUME ChatInv, Grows, NEW c \in Calls, call'[c] = call[c]
  PROVE  CallMatches(c)' /\ Usable(call[c].turns, call[c].run)'
<1>1. call[c] \in Call /\ CallMatches(c) /\ Usable(call[c].turns, call[c].run)
  BY DEF ChatInv, ChatTypeOK, CallsMatchRuns
<1>2. call[c].turns \in SUBSET Runs /\ call[c].run \in 0..MaxRuns
  BY <1>1 DEF Call
<1>3. Usable(call[c].turns, call[c].run)'
  BY <1>1, <1>2, GrowKeepsUsable DEF Usable
<1>4. CallMatches(c)'
  BY <1>1 DEF CallMatches, At, Grows
<1> QED BY <1>3, <1>4

(* So do the threads that are still to commit. *)
LEMMA GrowKeepsCommits ==
  ASSUME ChatInv, Grows, commits' \subseteq commits
  PROVE  /\ commits' \subseteq Commit
         /\ \A t \in commits' : Exists(t.run)' /\ Usable(t.turns, t.run)'
<1> SUFFICES ASSUME NEW t \in commits
             PROVE  t \in Commit /\ Exists(t.run)' /\ Usable(t.turns, t.run)'
  OBVIOUS
<1>1. t \in Commit /\ Exists(t.run) /\ Usable(t.turns, t.run)
  BY DEF ChatInv, ChatTypeOK, CallsMatchRuns
<1>2. t.run \in Runs /\ t.turns \in SUBSET Runs /\ t.run \in 0..MaxRuns
  BY <1>1, ChatBoundsAssumption DEF Commit, Runs
<1>3. Usable(t.turns, t.run)'
  BY <1>1, <1>2, GrowKeepsUsable DEF Usable
<1> QED BY <1>1, <1>2, <1>3 DEF Grows

(* A call that goes on, with no more turns than before, matches its run.    *)
LEMMA KeptCall ==
  ASSUME ChatInv, Grows, NEW c \in Calls, ~At(c, "idle"),
         call'[c].run = call[c].run, call'[c].login = call[c].login,
         call'[c].request = call[c].request, call'[c].body = call[c].body,
         call'[c].turns \subseteq call[c].turns,
         call'[c].phase = "shown" => run'[call[c].run].status = "SUCCEEDED"
  PROVE  CallMatches(c)' /\ Usable(call[c].turns, call[c].run)'
<1>1. call[c] \in Call /\ CallMatches(c) /\ Usable(call[c].turns, call[c].run)
  BY DEF ChatInv, ChatTypeOK, CallsMatchRuns
<1>2. call[c].turns \in SUBSET Runs /\ call[c].run \in 0..MaxRuns
  BY <1>1 DEF Call
<1>3. \A h \in call[c].turns :
        h < call[c].run /\ \A k \in h..(call[c].run - 1) : run'[k].status = "SUCCEEDED"
  BY <1>1, <1>2, GrowKeepsUsable
<1>4. Usable(call[c].turns, call[c].run)'
  BY <1>3 DEF Usable
<1>5. CallMatches(c)'
  BY <1>1 DEF CallMatches, At, Grows
<1> QED BY <1>4, <1>5

(* A call that is over. *)
LEMMA IdleCall ==
  ASSUME NEW c \in Calls, call'[c] = Idle
  PROVE  CallMatches(c)' /\ Usable(call[c].turns, call[c].run)'
BY DEF CallMatches, At, Usable, Idle

(* What is left to show of a step that only lets runs fade. *)
LEMMA FadeKeepsInv ==
  ASSUME ChatInv, run' \in [Runs -> Run], Fades, messages' = messages,
         commits' \subseteq commits, readable' \subseteq Sources, signedIn' \subseteq Logins,
         call' \in [Calls -> Call],
         \A c \in Calls : \/ call'[c] = call[c]
                          \/ CallMatches(c)' /\ Usable(call[c].turns, call[c].run)'
  PROVE  ChatInv'
<1>1. /\ OnlyTheNewestRuns' /\ RequestsHaveOneRun' /\ MessagesMatchRuns'
      /\ SnapshotsAreClosed' /\ Grows
  BY FadeKeepsRows
<1>2. CallsMatchRuns'
  BY <1>1, GrowKeepsCall, GrowKeepsCommits DEF CallsMatchRuns
<1>3. ChatTypeOK'
  BY <1>1, GrowKeepsCommits DEF ChatInv, ChatTypeOK
<1> QED BY <1>1, <1>2, <1>3 DEF ChatInv

-----------------------------------------------------------------------------
(* Steps that only let runs fade *)

(* The step of one call: it goes on with its run or is over.               *)
LEMMA CallStepKeepsInv ==
  ASSUME ChatInv, run' \in [Runs -> Run], Fades, messages' = messages,
         commits' = commits, readable' = readable, signedIn' = signedIn,
         NEW c \in Calls, NEW e \in Call, call' = [call EXCEPT ![c] = e],
         \/ e = Idle
         \/ /\ ~At(c, "idle")
            /\ e.run = call[c].run /\ e.login = call[c].login
            /\ e.request = call[c].request /\ e.body = call[c].body
            /\ e.turns \subseteq call[c].turns
            /\ e.phase = "shown" => run'[call[c].run].status = "SUCCEEDED"
  PROVE  ChatInv'
<1>1. call \in [Calls -> Call] /\ readable \subseteq Sources /\ signedIn \subseteq Logins
  BY DEF ChatInv, ChatTypeOK
<1>2. call' \in [Calls -> Call] /\ call'[c] = e /\ \A d \in Calls : d # c => call'[d] = call[d]
  BY <1>1
<1>3. Grows
  BY FadeKeepsRows
<1>4. CallMatches(c)' /\ Usable(call[c].turns, call[c].run)'
  <2>1. CASE e = Idle
    BY <1>2, <2>1, IdleCall
  <2>2. CASE e # Idle
    BY <1>2, <1>3, <2>2, KeptCall
  <2> QED BY <2>1, <2>2
<1>5. \A d \in Calls : \/ call'[d] = call[d]
                       \/ CallMatches(d)' /\ Usable(call[d].turns, call[d].run)'
  BY <1>2, <1>4
<1> QED BY <1>1, <1>2, <1>5, FadeKeepsInv

(* The place of a request that is over. *)
LEMMA IdleIsACall == Idle \in Call
BY ChatBoundsAssumption DEF Idle, Call

(* A call of the invariant, as the step lemmas below need it. *)
LEMMA CallRow ==
  ASSUME ChatInv, NEW c \in Calls
  PROVE  /\ call[c] \in Call /\ CallMatches(c)
         /\ call[c].turns \subseteq Runs /\ call[c].run \in 0..MaxRuns
         /\ call[c].scope \subseteq Sources
<1>1. call[c] \in Call /\ CallMatches(c)
  BY DEF ChatInv, ChatTypeOK, CallsMatchRuns
<1> QED BY <1>1 DEF Call

(* The scope is read: the call goes on. *)
LEMMA LoadScopeKeeps ==
  ASSUME ChatInv, NEW c \in Calls, LoadScope(c)
  PROVE  ChatInv'
<1>1. PICK scope \in SUBSET readable :
        call' = [call EXCEPT ![c].phase = "scoped", ![c].scope = scope]
  BY DEF LoadScope
<1> DEFINE e == [call[c] EXCEPT !.phase = "scoped", !.scope = scope]
<1>2. call[c] \in Call
  BY CallRow
<1>3. call' = [call EXCEPT ![c] = e]
  BY <1>1
<1>4. e \in Call
  BY <1>2 DEF Call, ChatInv, ChatTypeOK
<1>5. /\ e.run = call[c].run /\ e.login = call[c].login
      /\ e.request = call[c].request /\ e.body = call[c].body
      /\ e.turns = call[c].turns /\ e.phase = "scoped"
  BY <1>2 DEF Call
<1>6. ~At(c, "idle") /\ run' = run
  BY DEF LoadScope, At
<1> HIDE DEF e
<1>7. run' \in [Runs -> Run] /\ Fades
  BY <1>6, SameFades DEF ChatInv
<1> QED BY <1>3, <1>4, <1>5, <1>6, <1>7, CallStepKeepsInv DEF LoadScope

(* What _history() selects may be used: an unbroken series of answers.     *)
LEMMA HistoryIsUsable ==
  ASSUME ChatTypeOK, NEW r \in Runs, NEW scope
  PROVE  /\ History(r, scope) \subseteq Runs
         /\ Usable(History(r, scope), r)
BY DEF History, Usable, Visible

(* The usable turns are read: the newest ones without a gap.              *)
LEMMA ReadHistoryKeeps ==
  ASSUME ChatInv, NEW c \in Calls, ReadHistory(c)
  PROVE  ChatInv'
<1> DEFINE turns == History(call[c].run, call[c].scope)
           e == [call[c] EXCEPT !.phase = "informed", !.turns = turns]
<1>1. call[c] \in Call /\ CallMatches(c) /\ call[c].run \in Runs /\ ~At(c, "idle")
  BY CallRow DEF ReadHistory, At, CallMatches
<1>2. turns \subseteq Runs /\ Usable(turns, call[c].run)
  BY <1>1, HistoryIsUsable DEF ChatInv
<1> HIDE DEF turns
<1>3. call' = [call EXCEPT ![c] = e]
  BY DEF ReadHistory, turns
<1>4. e \in Call
  BY <1>1, <1>2 DEF Call
<1>5. /\ e.run = call[c].run /\ e.login = call[c].login
      /\ e.request = call[c].request /\ e.body = call[c].body
      /\ e.turns = turns /\ e.phase = "informed"
  BY <1>1 DEF Call
<1> HIDE DEF e
<1>6. run' \in [Runs -> Run] /\ Fades
  BY ReapedFades DEF ChatInv, ReadHistory
<1>7. Grows
  BY <1>6, FadeKeepsRows DEF ReadHistory
<1>8. /\ call \in [Calls -> Call] /\ call' \in [Calls -> Call] /\ call'[c] = e
      /\ \A d \in Calls : d # c => call'[d] = call[d]
  BY <1>3, <1>4 DEF ChatInv, ChatTypeOK
<1>9. CallMatches(c)'
  BY <1>1, <1>5, <1>7, <1>8 DEF CallMatches, At, Grows
<1>10. Usable(call[c].turns, call[c].run)'
  <2>1. call[c].run \in 0..MaxRuns
    BY CallRow
  <2>2. \A h \in turns :
          h < call[c].run /\ \A k \in h..(call[c].run - 1) : run'[k].status = "SUCCEEDED"
    BY <1>2, <1>7, <2>1, GrowKeepsUsable
  <2> QED BY <1>5, <1>8, <2>2 DEF Usable
<1>11. /\ messages' = messages /\ commits' \subseteq commits
       /\ readable' \subseteq Sources /\ signedIn' \subseteq Logins
  BY DEF ReadHistory, ChatInv, ChatTypeOK
<1> QED BY <1>6, <1>8, <1>9, <1>10, <1>11, FadeKeepsInv

(* The rewriter keeps some of these turns. *)
LEMMA RewriteKeeps ==
  ASSUME ChatInv, NEW c \in Calls, Rewrite(c)
  PROVE  ChatInv'
<1>1. PICK used \in SUBSET call[c].turns :
        call' = [call EXCEPT ![c].phase = "rewritten", ![c].turns = used,
                             ![c].unchecked = used]
  BY DEF Rewrite
<1> DEFINE e == [call[c] EXCEPT !.phase = "rewritten", !.turns = used, !.unchecked = used]
<1>2. call[c] \in Call /\ used \subseteq Runs
  BY <1>1, CallRow
<1>3. call' = [call EXCEPT ![c] = e]
  BY <1>1
<1>4. e \in Call
  BY <1>2 DEF Call
<1>5. /\ e.run = call[c].run /\ e.login = call[c].login
      /\ e.request = call[c].request /\ e.body = call[c].body
      /\ e.turns = used /\ e.phase = "rewritten"
  BY <1>2 DEF Call
<1>6. ~At(c, "idle") /\ run' = run
  BY DEF Rewrite, At
<1> HIDE DEF e
<1>7. run' \in [Runs -> Run] /\ Fades
  BY <1>6, SameFades DEF ChatInv
<1> QED BY <1>1, <1>3, <1>4, <1>5, <1>6, <1>7, CallStepKeepsInv DEF Rewrite

(* One turn less to check again. *)
LEMMA RecheckTurnKeeps ==
  ASSUME ChatInv, NEW c \in Calls, NEW h \in Runs, RecheckTurn(c, h)
  PROVE  ChatInv'
<1> DEFINE e == [call[c] EXCEPT !.unchecked = @ \ {h}]
<1>2. call[c] \in Call /\ ~At(c, "idle") /\ call[c].phase = "rewritten"
  BY CallRow DEF RecheckTurn, At
<1>3. call' = [call EXCEPT ![c] = e]
  BY DEF RecheckTurn
<1>4. e \in Call
  BY <1>2 DEF Call
<1>5. /\ e.run = call[c].run /\ e.login = call[c].login
      /\ e.request = call[c].request /\ e.body = call[c].body
      /\ e.turns = call[c].turns /\ e.phase = "rewritten"
  BY <1>2 DEF Call
<1> HIDE DEF e
<1>7. run' \in [Runs -> Run] /\ Fades
  BY ReapedFades DEF ChatInv, RecheckTurn
<1> QED BY <1>2, <1>3, <1>4, <1>5, <1>7, CallStepKeepsInv DEF RecheckTurn

(* A response is sent only of a run that succeeded. *)
LEMMA PublishKeeps ==
  ASSUME ChatInv, NEW c \in Calls, Publish(c)
  PROVE  ChatInv'
<1>1. call[c] \in Call /\ CallMatches(c) /\ call[c].run \in Runs /\ ~At(c, "idle")
  BY CallRow DEF Publish, At, CallMatches
<1>2. run' \in [Runs -> Run] /\ Fades
  BY ReapedFades DEF ChatInv, Publish
<1>3. CASE Visible(call[c].run)
  <2> DEFINE e == [call[c] EXCEPT !.phase = "shown"]
  <2>1. call' = [call EXCEPT ![c] = e]
    BY <1>3 DEF Publish, Moved
  <2>2. e \in Call
    BY <1>1 DEF Call
  <2>3. /\ e.run = call[c].run /\ e.login = call[c].login
        /\ e.request = call[c].request /\ e.body = call[c].body
        /\ e.turns = call[c].turns
    BY <1>1 DEF Call
  <2>4. run'[call[c].run].status = "SUCCEEDED"
    BY <1>1, <1>2, <1>3 DEF Visible, Fades
  <2> HIDE DEF e
  <2> QED BY <1>1, <1>2, <2>1, <2>2, <2>3, <2>4, CallStepKeepsInv DEF Publish
<1>4. CASE ~Visible(call[c].run)
  <2>1. call' = [call EXCEPT ![c] = Idle]
    BY <1>4 DEF Publish, Leaves
  <2> QED BY <1>2, <2>1, IdleIsACall, CallStepKeepsInv DEF Publish
<1> QED BY <1>3, <1>4

(* An interrupted call forgets its turns. *)
LEMMA InterruptKeeps ==
  ASSUME ChatInv, NEW c \in Calls, Interrupt(c)
  PROVE  ChatInv'
<1> DEFINE e == [call[c] EXCEPT !.phase = "failing", !.scope = {}, !.turns = {},
                                !.unchecked = {}]
<1>2. call[c] \in Call
  BY CallRow
<1>3. call' = [call EXCEPT ![c] = e]
  BY DEF Interrupt
<1>4. e \in Call
  BY <1>2 DEF Call
<1>5. /\ e.run = call[c].run /\ e.login = call[c].login
      /\ e.request = call[c].request /\ e.body = call[c].body
      /\ e.turns = {} /\ e.phase = "failing"
  BY <1>2 DEF Call
<1>6. ~At(c, "idle") /\ run' = run
  BY DEF Interrupt, Renewing, At
<1> HIDE DEF e
<1>7. run' \in [Runs -> Run] /\ Fades
  BY <1>6, SameFades DEF ChatInv
<1> QED BY <1>3, <1>4, <1>5, <1>6, <1>7, CallStepKeepsInv DEF Interrupt

(* A run that ends or loses its lease, on its own. *)
LEMMA RowFades ==
  ASSUME ChatInv, NEW r \in Runs, run[r].status = "RUNNING",
         \/ run' = [run EXCEPT ![r].status = "FAILED", ![r].live = FALSE]
         \/ run' = [run EXCEPT ![r].live = FALSE]
  PROVE  run' \in [Runs -> Run] /\ Fades
<1>1. run \in [Runs -> Run] /\ run[r] \in Run
  BY DEF ChatInv, ChatTypeOK
<1>2. \A k \in Runs : k # r => run'[k] = run[k]
  BY <1>1
<1>3. /\ run'[r] \in Run
      /\ run'[r].request = run[r].request /\ run'[r].body = run[r].body
      /\ run'[r].context = run[r].context /\ run'[r].evidence = run[r].evidence
      /\ run'[r].inherited = run[r].inherited /\ ~run'[r].live
      /\ run'[r].status \in {"RUNNING", "FAILED"}
  <2>1. CASE run' = [run EXCEPT ![r].status = "FAILED", ![r].live = FALSE]
    <3>1. run'[r] = [run[r] EXCEPT !.status = "FAILED", !.live = FALSE]
      BY <1>1, <2>1
    <3> QED BY <1>1, <3>1 DEF Run
  <2>2. CASE run' = [run EXCEPT ![r].live = FALSE]
    <3>1. run'[r] = [run[r] EXCEPT !.live = FALSE]
      BY <1>1, <2>2
    <3> QED BY <1>1, <3>1 DEF Run
  <2> QED BY <2>1, <2>2
<1>4. run' \in [Runs -> Run]
  BY <1>1, <1>3
<1>5. Fades
  <2> SUFFICES ASSUME NEW k \in Runs
               PROVE  /\ run'[k].request = run[k].request /\ run'[k].body = run[k].body
                      /\ run'[k].context = run[k].context
                      /\ run'[k].evidence = run[k].evidence
                      /\ run'[k].inherited = run[k].inherited
                      /\ run'[k].live => run[k].live
                      /\ \/ run'[k].status = run[k].status
                         \/ run[k].status = "RUNNING"
                            /\ run'[k].status \in {"FAILED", "ABANDONED"} /\ ~run'[k].live
    BY DEF Fades
  <2> QED BY <1>2, <1>3
<1> QED BY <1>4, <1>5

(* The run ends without an answer, or does not change. *)
LEMMA TerminateKeeps ==
  ASSUME ChatInv, NEW c \in Calls, Terminate(c)
  PROVE  ChatInv'
<1>1. CallMatches(c) /\ call[c].run \in Runs
  BY CallRow DEF Terminate, At, CallMatches
<1>2. run' \in [Runs -> Run] /\ Fades
  <2>1. CASE Authenticated(c) /\ Owned(call[c].run)
    BY <1>1, <2>1, RowFades DEF Terminate, Owned
  <2>2. CASE ~(Authenticated(c) /\ Owned(call[c].run))
    BY <2>2, SameFades DEF Terminate, ChatInv
  <2> QED BY <2>1, <2>2
<1>3. call' = [call EXCEPT ![c] = Idle]
  BY DEF Terminate, Leaves
<1> QED BY <1>2, <1>3, IdleIsACall, CallStepKeepsInv DEF Terminate

(* A call that disappears leaves every row as it is. *)
LEMMA DropKeeps ==
  ASSUME ChatInv, NEW c \in Calls, Drop(c)
  PROVE  ChatInv'
<1>1. call' = [call EXCEPT ![c] = Idle] /\ run' = run
  BY DEF Drop, Leaves
<1>2. run' \in [Runs -> Run] /\ Fades
  BY <1>1, SameFades DEF ChatInv
<1> QED BY <1>1, <1>2, IdleIsACall, CallStepKeepsInv DEF Drop

(* The surroundings, and time. *)
LEMMA SurroundingsKeep ==
  ASSUME ChatInv,
         \/ \E r \in Runs : ExpireRun(r)
         \/ \E l \in Logins : Browse(l) \/ SignOut(l)
         \/ \E s \in Sources : ChangeAccess(s)
  PROVE  ChatInv'
<1>1. run' \in [Runs -> Run] /\ Fades
  <2>1. CASE \E r \in Runs : ExpireRun(r)
    BY <2>1, RowFades DEF ExpireRun, Owned
  <2>2. CASE \E l \in Logins : Browse(l)
    BY <2>2, ReapedFades DEF Browse, ChatInv
  <2>3. CASE (\E l \in Logins : SignOut(l)) \/ (\E s \in Sources : ChangeAccess(s))
    BY <2>3, SameFades DEF SignOut, ChangeAccess, ChatInv
  <2> QED BY <2>1, <2>2, <2>3
<1>2. messages' = messages /\ commits' = commits /\ call' = call
  BY DEF ExpireRun, Browse, SignOut, ChangeAccess
<1>3. call \in [Calls -> Call] /\ readable \subseteq Sources /\ signedIn \subseteq Logins
  BY DEF ChatInv, ChatTypeOK
<1>4. readable' \subseteq Sources /\ signedIn' \subseteq Logins
  BY <1>3 DEF ExpireRun, Browse, SignOut, ChangeAccess
<1> QED BY <1>1, <1>2, <1>3, <1>4, FadeKeepsInv

-----------------------------------------------------------------------------
(* Asking and answering *)

(* The calls that wait for a thread are told, the others are left alone.   *)
LEMMA NotifiedCalls ==
  ASSUME ChatInv, Grows, NEW r \in Runs, NEW phase \in {"committed", "failing"},
         Notified(r, phase)
  PROVE  /\ call' \in [Calls -> Call]
         /\ \A c \in Calls : CallMatches(c)' /\ Usable(call[c].turns, call[c].run)'
<1> SUFFICES ASSUME NEW c \in Calls
             PROVE  /\ call'[c] \in Call
                    /\ CallMatches(c)' /\ Usable(call[c].turns, call[c].run)'
  <2>1. call' = [c \in Calls |-> call'[c]]
    BY DEF Notified
  <2> QED BY <2>1
<1>1. call[c] \in Call
  BY CallRow
<1>2. CASE At(c, "completing") /\ call[c].run = r
  <2>1. call'[c] = [call[c] EXCEPT !.phase = phase]
    BY <1>2 DEF Notified
  <2>2. call'[c] \in Call
    BY <1>1, <2>1 DEF Call
  <2>3. /\ call'[c].run = call[c].run /\ call'[c].login = call[c].login
        /\ call'[c].request = call[c].request /\ call'[c].body = call[c].body
        /\ call'[c].turns = call[c].turns /\ call'[c].phase = phase
    BY <1>1, <2>1 DEF Call
  <2>4. ~At(c, "idle") /\ phase # "shown"
    BY <1>2 DEF At
  <2> QED BY <2>2, <2>3, <2>4, KeptCall
<1>3. CASE ~(At(c, "completing") /\ call[c].run = r)
  <2>1. call'[c] = call[c]
    BY <1>3 DEF Notified
  <2> QED BY <1>1, <2>1, GrowKeepsCall
<1> QED BY <1>2, <1>3

(* A failed complete() leaves every row as it is. *)
LEMMA FailCommitKeeps ==
  ASSUME ChatInv, NEW t \in commits, FailCommit(t)
  PROVE  ChatInv'
<1>1. t.run \in Runs
  BY DEF ChatInv, ChatTypeOK, Commit
<1>2. run' \in [Runs -> Run] /\ Fades
  BY SameFades DEF ChatInv, FailCommit
<1>3. Grows
  BY <1>2, FadeKeepsRows DEF FailCommit
<1>4. /\ call' \in [Calls -> Call]
      /\ \A c \in Calls : CallMatches(c)' /\ Usable(call[c].turns, call[c].run)'
  BY <1>1, <1>3, NotifiedCalls DEF FailCommit
<1>5. /\ messages' = messages /\ commits' \subseteq commits
      /\ readable' \subseteq Sources /\ signedIn' \subseteq Logins
  BY DEF FailCommit, ChatInv, ChatTypeOK
<1> QED BY <1>2, <1>4, <1>5, FadeKeepsInv

(* The turns of the call go over to the thread that will commit.           *)
LEMMA SubmitAnswerKeeps ==
  ASSUME ChatInv, NEW c \in Calls, SubmitAnswer(c)
  PROVE  ChatInv'
<1>1. PICK evidence \in SUBSET call[c].scope :
        commits' = commits \cup
          {[run |-> call[c].run, login |-> call[c].login,
            turns |-> call[c].turns, evidence |-> evidence]}
  BY DEF SubmitAnswer
<1> DEFINE e == [call[c] EXCEPT !.phase = "completing", !.scope = {}, !.turns = {}]
<1>2. /\ call[c] \in Call /\ CallMatches(c) /\ call[c].run \in Runs /\ call[c].login \in Logins
      /\ call[c].turns \subseteq Runs /\ ~At(c, "idle") /\ evidence \subseteq Sources
      /\ Exists(call[c].run) /\ Usable(call[c].turns, call[c].run)
  BY <1>1, CallRow DEF SubmitAnswer, At, CallMatches, ChatInv, CallsMatchRuns
<1>3. call' = [call EXCEPT ![c] = e]
  BY DEF SubmitAnswer
<1>4. e \in Call
  BY <1>2 DEF Call
<1>5. /\ e.run = call[c].run /\ e.login = call[c].login
      /\ e.request = call[c].request /\ e.body = call[c].body
      /\ e.turns = {} /\ e.phase = "completing"
  BY <1>2 DEF Call
<1> HIDE DEF e
<1>6. run' = run /\ messages' = messages /\ readable' = readable /\ signedIn' = signedIn
  BY DEF SubmitAnswer
<1>7. run' \in [Runs -> Run] /\ Fades
  BY <1>6, SameFades DEF ChatInv
<1>8. /\ OnlyTheNewestRuns' /\ RequestsHaveOneRun' /\ MessagesMatchRuns'
      /\ SnapshotsAreClosed' /\ Grows
  BY <1>6, <1>7, FadeKeepsRows
<1>9. PICK n \in Commit :
        n.run = call[c].run /\ n.turns = call[c].turns /\ commits' = commits \cup {n}
  BY <1>1, <1>2 DEF Commit
<1>11. /\ call \in [Calls -> Call] /\ call' \in [Calls -> Call] /\ call'[c] = e
       /\ \A d \in Calls : d # c => call'[d] = call[d]
  BY <1>3, <1>4 DEF ChatInv, ChatTypeOK
<1>12. \A d \in Calls : CallMatches(d)' /\ Usable(call[d].turns, call[d].run)'
  <2>1. CallMatches(c)' /\ Usable(call[c].turns, call[c].run)'
    BY <1>2, <1>5, <1>8, <1>11, KeptCall
  <2>2. ASSUME NEW d \in Calls, d # c
        PROVE  CallMatches(d)' /\ Usable(call[d].turns, call[d].run)'
    BY <1>8, <1>11, <2>2, GrowKeepsCall
  <2> QED BY <2>1, <2>2
<1>13. \A t \in commits' : t \in Commit /\ Exists(t.run)' /\ Usable(t.turns, t.run)'
  <2>1. ASSUME NEW t \in commits
        PROVE  t \in Commit /\ Exists(t.run)' /\ Usable(t.turns, t.run)'
    <3>1. t \in Commit /\ Exists(t.run) /\ Usable(t.turns, t.run)
      BY <2>1 DEF ChatInv, ChatTypeOK, CallsMatchRuns
    <3> QED BY <1>6, <3>1 DEF Exists, Usable
  <2>2. Exists(n.run)' /\ Usable(n.turns, n.run)'
    BY <1>2, <1>6, <1>9 DEF Exists, Usable
  <2> QED BY <1>9, <2>1, <2>2
<1>14. CallsMatchRuns'
  BY <1>12, <1>13 DEF CallsMatchRuns
<1>15. ChatTypeOK'
  BY <1>6, <1>7, <1>11, <1>13 DEF ChatInv, ChatTypeOK
<1> QED BY <1>8, <1>14, <1>15 DEF ChatInv

(* The call that start_run() makes. *)
LEMMA FreshCall ==
  ASSUME NEW phase \in {"begun", "repeat"}, NEW l \in Logins, NEW q \in Requests,
         NEW b \in Bodies, NEW r \in Runs
  PROVE  LET e == NewCall(phase, l, q, b, r)
         IN  /\ e \in Call /\ e.phase = phase /\ e.login = l /\ e.request = q
             /\ e.body = b /\ e.run = r /\ e.turns = {}
<1>1. r \in 0..MaxRuns
  BY ChatBoundsAssumption DEF Runs
<1> QED BY <1>1 DEF NewCall, Call

(* The run that it inserts. *)
LEMMA FreshRun ==
  ASSUME NEW q \in Requests, NEW b \in Bodies
  PROVE  LET n == NewRun(q, b)
         IN  n \in Run /\ n.status = "RUNNING" /\ n.request = q /\ n.body = b /\ n.context = {}
BY DEF NewRun, Run

(* A known request gets the run that was inserted for it. *)
LEMMA RepeatRunKeeps ==
  ASSUME ChatInv, NEW c \in Calls, NEW l \in Logins, NEW q \in Requests, NEW b \in Bodies,
         RepeatRun(c, l, q, b)
  PROVE  ChatInv'
<1>1. PICK r \in Runs :
        /\ SameRequest(r, q, b)
        /\ call' = [call EXCEPT ![c] = NewCall("repeat", l, q, b, r)]
  BY DEF RepeatRun
<1> DEFINE e == NewCall("repeat", l, q, b, r)
<1>2. e \in Call /\ e.run = r /\ e.login = l /\ e.request = q /\ e.body = b
      /\ e.turns = {} /\ e.phase = "repeat"
  BY FreshCall
<1>3. call' = [call EXCEPT ![c] = e]
  BY <1>1
<1> HIDE DEF e
<1>4. run' \in [Runs -> Run] /\ Fades
  BY ReapedFades DEF ChatInv, RepeatRun
<1>5. Grows
  BY <1>4, FadeKeepsRows DEF RepeatRun
<1>6. /\ call' \in [Calls -> Call] /\ call'[c] = e
      /\ \A d \in Calls : d # c => call'[d] = call[d]
  BY <1>2, <1>3 DEF ChatInv, ChatTypeOK
<1>7. Exists(r) /\ run[r].request = q /\ run[r].body = b
  BY <1>1, ChatNoneAssumption DEF SameRequest, ChatInv, RequestsHaveOneRun
<1>8. CallMatches(c)'
  BY <1>2, <1>5, <1>6, <1>7 DEF CallMatches, At, Grows
<1>9. Usable(call[c].turns, call[c].run)'
  BY <1>2, <1>6 DEF Usable
<1>10. /\ messages' = messages /\ commits' \subseteq commits
       /\ readable' \subseteq Sources /\ signedIn' \subseteq Logins
  BY DEF RepeatRun, ChatInv, ChatTypeOK
<1> QED BY <1>4, <1>6, <1>8, <1>9, <1>10, FadeKeepsInv

(* A new run: every older one has ended, and its request was never asked.  *)
LEMMA StartRunKeeps ==
  ASSUME ChatInv, NEW c \in Calls, NEW l \in Logins, NEW q \in Requests, NEW b \in Bodies,
         StartRun(c, l, q, b)
  PROVE  ChatInv'
<1>1. PICK r \in Runs :
        /\ ~Exists(r) /\ \A k \in 1..(r - 1) : Exists(k)
        /\ run' = [Reaped EXCEPT ![r] = NewRun(q, b)]
        /\ messages' = Append(messages, [run |-> r, role |-> "USER"])
        /\ call' = [call EXCEPT ![c] = NewCall("begun", l, q, b, r)]
  BY DEF StartRun
<1> DEFINE e == NewCall("begun", l, q, b, r)
           n == NewRun(q, b)
<1>2. e \in Call /\ e.run = r /\ e.login = l /\ e.request = q /\ e.body = b
      /\ e.turns = {} /\ e.phase = "begun"
  BY FreshCall
<1>3. n \in Run /\ n.status = "RUNNING" /\ n.request = q /\ n.body = b /\ n.context = {}
  BY FreshRun
<1>4. call' = [call EXCEPT ![c] = e] /\ run' = [Reaped EXCEPT ![r] = n]
  BY <1>1
<1> HIDE DEF e, n
<1>5. run \in [Runs -> Run] /\ call \in [Calls -> Call] /\ messages \in Seq(Message)
  BY DEF ChatInv, ChatTypeOK
<1>6. /\ Reaped \in [Runs -> Run]
      /\ \A k \in Runs : /\ Reaped[k].request = run[k].request
                         /\ Reaped[k].body = run[k].body
                         /\ Reaped[k].context = run[k].context
                         /\ Reaped[k].evidence = run[k].evidence
                         /\ Reaped[k].inherited = run[k].inherited
                         /\ Reaped[k].live = run[k].live
                         /\ Reaped[k].status \in {run[k].status, "ABANDONED"}
                         /\ Reaped[k].status # run[k].status => run[k].status = "RUNNING"
  <2>1. \A k \in Runs : Reaped[k] \in Run
    BY <1>5, ReapedRow
  <2>2. Reaped = [k \in Runs |-> Reaped[k]]
    BY DEF Reaped
  <2>3. Reaped \in [Runs -> Run]
    BY <2>1, <2>2
  <2> QED BY <1>5, <2>3, ReapedRow
<1>7. /\ run' \in [Runs -> Run] /\ run'[r] = n
      /\ \A k \in Runs : k # r => run'[k] = Reaped[k]
  BY <1>3, <1>4, <1>6
<1>8. \A k \in Runs : k # r =>
        /\ Exists(k)' <=> Exists(k)
        /\ run'[k].request = run[k].request /\ run'[k].body = run[k].body
        /\ run'[k].context = run[k].context
        /\ RecordedSources(k)' = RecordedSources(k)
        /\ run'[k].inherited = run[k].inherited
        /\ run'[k].status = "SUCCEEDED" <=> run[k].status = "SUCCEEDED"
  BY <1>6, <1>7 DEF Exists, RecordedSources
<1>9. Exists(r)' /\ run'[r].status = "RUNNING"
  BY <1>3, <1>7 DEF Exists
<1>10. \A k \in Runs : k # r => run'[k].status # "RUNNING"
  BY <1>7 DEF StartRun, NoneActive
<1>11. \A k \in Runs : k > r => ~Exists(k)
  <2> SUFFICES ASSUME NEW k \in Runs, k > r, Exists(k)
               PROVE  FALSE
    OBVIOUS
  <2>1. r \in 1..(k - 1)
    BY DEF Runs
  <2> QED BY <1>1, <2>1 DEF ChatInv, OnlyTheNewestRuns
<1>12. Grows
  BY <1>1, <1>8, <1>9 DEF Grows, Exists
<1>13. OnlyTheNewestRuns'
  <2> SUFFICES ASSUME NEW k \in Runs
               PROVE  /\ Exists(k)' => \A j \in 1..(k - 1) : Exists(j)'
                      /\ run'[k].status = "RUNNING" => \A j \in Runs : j > k => ~Exists(j)'
                      /\ run'[k].live => run'[k].status = "RUNNING"
    BY DEF OnlyTheNewestRuns
  <2>0. \A j \in 1..(k - 1) : j \in Runs
    BY ChatBoundsAssumption DEF Runs
  <2>1. Exists(k)' => \A j \in 1..(k - 1) : Exists(j)'
    <3>1. CASE k = r
      BY <1>1, <1>8, <2>0, <3>1 DEF Runs
    <3>2. CASE k # r
      BY <1>8, <1>9, <2>0, <3>2 DEF ChatInv, OnlyTheNewestRuns
    <3> QED BY <3>1, <3>2
  <2>2. run'[k].status = "RUNNING" => \A j \in Runs : j > k => ~Exists(j)'
    <3>1. CASE k = r
      <4>1. \A j \in Runs : j > k => j # r
        BY <3>1 DEF Runs
      <4> QED BY <1>8, <1>11, <3>1, <4>1
    <3>2. CASE k # r
      BY <1>10, <3>2
    <3> QED BY <3>1, <3>2
  <2>3. run'[k].live => run'[k].status = "RUNNING"
    <3>1. CASE k = r
      BY <1>9, <3>1
    <3>2. CASE k # r
      <4>1. run[k].live => run[k].status = "RUNNING"
        BY DEF ChatInv, OnlyTheNewestRuns
      <4>2. run'[k] = Reaped[k] /\ Reaped[k].live = run[k].live
            /\ Reaped[k].status = IF run[k].status = "RUNNING" /\ ~run[k].live
                                  THEN "ABANDONED" ELSE run[k].status
        BY <1>5, <1>7, <3>2, ReapedRow
      <4> QED BY <4>1, <4>2
    <3> QED BY <3>1, <3>2
  <2> QED BY <2>1, <2>2, <2>3
<1>14. RequestsHaveOneRun'
  <2>1. \A k \in Runs : run[k].request # q
    BY DEF StartRun
  <2>2. q # None
    BY ChatNoneAssumption
  <2>3. run'[r].request = q
    BY <1>3, <1>7
  <2> SUFFICES ASSUME NEW k \in Runs
               PROVE  /\ Exists(k)' <=> run'[k].request # None
                      /\ Exists(k)' => \A j \in Runs : run'[j].request = run'[k].request => j = k
    BY DEF RequestsHaveOneRun
  <2>4. CASE k = r
    BY <1>8, <1>9, <2>1, <2>2, <2>3, <2>4
  <2>5. CASE k # r
    BY <1>8, <2>1, <2>3, <2>5 DEF ChatInv, RequestsHaveOneRun
  <2> QED BY <2>4, <2>5
<1> DEFINE m == [run |-> r, role |-> "USER"]
<1>15. m \in Message /\ m.run = r
  BY DEF Message
<1> HIDE DEF m
<1>16. /\ messages' \in Seq(Message)
       /\ Len(messages') = Len(messages) + 1
       /\ messages'[Len(messages) + 1] = m
       /\ \A i \in 1..Len(messages) : messages'[i] = messages[i]
       /\ DOMAIN messages = 1..Len(messages)
       /\ DOMAIN messages' = 1..(Len(messages) + 1)
  BY <1>1, <1>5, <1>15 DEF m
<1>17. MessagesMatchRuns'
  <2>1. ASSUME NEW i \in DOMAIN messages'
        PROVE  Exists(messages[i].run)'
    <3>1. CASE i = Len(messages) + 1
      BY <1>9, <1>15, <1>16, <3>1
    <3>2. CASE i # Len(messages) + 1
      <4>1. i \in DOMAIN messages /\ messages'[i] = messages[i]
        BY <1>5, <1>16, <3>2
      <4>2. messages[i].run \in Runs /\ Exists(messages[i].run)
        BY <4>1, MessageRuns DEF ChatInv, MessagesMatchRuns
      <4> QED BY <1>12, <4>1, <4>2 DEF Grows, Exists
    <3> QED BY <3>1, <3>2
  <2>2. ASSUME NEW k \in Runs, run'[k].status = "SUCCEEDED"
        PROVE  \E i \in DOMAIN messages' : messages'[i] = [run |-> k, role |-> "ASSISTANT"]
    <3>1. k # r /\ run[k].status = "SUCCEEDED"
      BY <1>8, <1>9, <2>2
    <3>2. PICK i \in DOMAIN messages : messages[i] = [run |-> k, role |-> "ASSISTANT"]
      BY <3>1 DEF ChatInv, MessagesMatchRuns
    <3>3. i \in DOMAIN messages' /\ messages'[i] = messages[i]
      BY <1>5, <1>16, <3>2
    <3> QED BY <3>2, <3>3
  <2> QED BY <2>1, <2>2 DEF MessagesMatchRuns
<1>18. SnapshotsAreClosed'
  <2> SUFFICES ASSUME NEW k \in Runs, run'[k].status = "SUCCEEDED"
               PROVE  /\ Usable(run[k].context, k)'
                      /\ \A h \in run'[k].context : RecordedSources(h)' \subseteq run'[k].inherited
    BY DEF SnapshotsAreClosed
  <2>1. k # r /\ run[k].status = "SUCCEEDED" /\ run'[k].context = run[k].context
        /\ run'[k].inherited = run[k].inherited
    BY <1>8, <1>9
  <2>2. run[k].context \subseteq Runs /\ k \in 0..MaxRuns
    BY <1>5, ChatBoundsAssumption DEF Run, Runs
  <2>3. /\ Usable(run[k].context, k)
        /\ \A h \in run[k].context : RecordedSources(h) \subseteq run[k].inherited
    BY <2>1 DEF ChatInv, SnapshotsAreClosed
  <2>4. Usable(run[k].context, k)'
    <3>1. \A h \in run[k].context :
            h < k /\ \A j \in h..(k - 1) : run'[j].status = "SUCCEEDED"
      BY <1>12, <2>2, <2>3, GrowKeepsUsable
    <3> QED BY <2>1, <3>1 DEF Usable
  <2>5. \A h \in run[k].context : h # r
    <3>1. \A h \in run[k].context : run[h].status = "SUCCEEDED"
      BY <2>2, <2>3 DEF Usable, Runs
    <3> QED BY <1>1, <3>1 DEF Exists
  <2>6. ASSUME NEW h \in run[k].context PROVE RecordedSources(h)' \subseteq run'[k].inherited
    <3>1. h \in Runs /\ h # r
      BY <2>2, <2>5
    <3>2. RecordedSources(h)' = RecordedSources(h)
      BY <1>8, <3>1
    <3>3. RecordedSources(h) \subseteq run[k].inherited
      BY <2>3
    <3> QED BY <2>1, <3>2, <3>3
  <2> QED BY <2>1, <2>4, <2>6
<1>19. CallsMatchRuns'
  <2>1. /\ call'[c] = e /\ \A d \in Calls : d # c => call'[d] = call[d]
    BY <1>4, <1>5
  <2>2. CallMatches(c)' /\ Usable(call[c].turns, call[c].run)'
    BY <1>2, <1>3, <1>7, <1>9, <2>1 DEF CallMatches, At, Usable
  <2>3. commits' = commits
    BY DEF StartRun
  <2> QED BY <1>12, <2>1, <2>2, <2>3, GrowKeepsCall, GrowKeepsCommits DEF CallsMatchRuns
<1>20. ChatTypeOK'
  <2>1. call' \in [Calls -> Call]
    BY <1>2, <1>4, <1>5
  <2> QED BY <1>7, <1>16, <2>1 DEF StartRun, ChatInv, ChatTypeOK
<1> QED BY <1>13, <1>14, <1>17, <1>18, <1>19, <1>20 DEF ChatInv

(* The row that complete() leaves behind. *)
LEMMA AnsweredRow ==
  ASSUME ChatInv, NEW t \in commits, CommitAnswer(t)
  PROVE  /\ t \in Commit /\ t.run \in Runs
         /\ run' \in [Runs -> Run]
         /\ run'[t.run].status = "SUCCEEDED" /\ ~run'[t.run].live
         /\ run'[t.run].request = run[t.run].request
         /\ run'[t.run].body = run[t.run].body
         /\ run'[t.run].context = t.turns
         /\ run'[t.run].evidence = t.evidence
         /\ run'[t.run].inherited = InheritedSources(t.turns)
         /\ \A k \in Runs : k # t.run => run'[k] = run[k]
<1>1. run \in [Runs -> Run] /\ t \in Commit /\ readable \subseteq Sources
  BY DEF ChatInv, ChatTypeOK
<1>2. t.run \in Runs /\ t.turns \subseteq Runs /\ t.evidence \subseteq Sources
  BY <1>1 DEF Commit
<1>3. PICK i : i = InheritedSources(t.turns)
  OBVIOUS
<1>4. i \subseteq Sources
  BY <1>1, <1>3 DEF CommitAnswer
<1> DEFINE n == [run[t.run] EXCEPT !.status = "SUCCEEDED", !.live = FALSE,
                                   !.context = t.turns, !.evidence = t.evidence,
                                   !.inherited = i]
<1>5. run' = [run EXCEPT ![t.run] = n]
  BY <1>3 DEF CommitAnswer
<1>6. run[t.run] \in Run
  BY <1>1, <1>2
<1>7. n \in Run /\ n.status = "SUCCEEDED" /\ ~n.live
      /\ n.request = run[t.run].request /\ n.body = run[t.run].body
      /\ n.context = t.turns /\ n.evidence = t.evidence /\ n.inherited = i
  BY <1>2, <1>4, <1>6 DEF Run
<1> HIDE DEF n
<1>8. run' \in [Runs -> Run] /\ run'[t.run] = n /\ \A k \in Runs : k # t.run => run'[k] = run[k]
  BY <1>1, <1>2, <1>5, <1>7
<1> QED BY <1>1, <1>2, <1>3, <1>7, <1>8

(* An answer: the turns it rests on are older runs that stay as they are.  *)
LEMMA CommitAnswerKeeps ==
  ASSUME ChatInv, NEW t \in commits, CommitAnswer(t)
  PROVE  ChatInv'
<1>1. PICK r \in Runs : r = t.run
  BY AnsweredRow
<1>2. /\ t \in Commit /\ run' \in [Runs -> Run]
      /\ run'[r].status = "SUCCEEDED" /\ ~run'[r].live
      /\ run'[r].request = run[r].request /\ run'[r].body = run[r].body
      /\ run'[r].context = t.turns /\ run'[r].evidence = t.evidence
      /\ run'[r].inherited = InheritedSources(t.turns)
      /\ \A k \in Runs : k # r => run'[k] = run[k]
  BY <1>1, AnsweredRow
<1>3. run[r].status = "RUNNING" /\ Exists(r) /\ Exists(r)'
  BY <1>1, <1>2 DEF CommitAnswer, Owned, Exists
<1>4. t.turns \subseteq Runs /\ r \in 0..MaxRuns /\ Usable(t.turns, r)
  BY <1>1, <1>2, ChatBoundsAssumption DEF Commit, Runs, ChatInv, CallsMatchRuns
<1>5. \A k \in Runs : k # r => /\ Exists(k)' <=> Exists(k)
                               /\ RecordedSources(k)' = RecordedSources(k)
  BY <1>2 DEF Exists, RecordedSources
<1>6. Grows
  BY <1>2, <1>3 DEF Grows, Exists
<1>7. OnlyTheNewestRuns'
  <2> SUFFICES ASSUME NEW k \in Runs
               PROVE  /\ Exists(k)' => \A j \in 1..(k - 1) : Exists(j)'
                      /\ run'[k].status = "RUNNING" => \A j \in Runs : j > k => ~Exists(j)'
                      /\ run'[k].live => run'[k].status = "RUNNING"
    BY DEF OnlyTheNewestRuns
  <2>0. \A j \in 1..(k - 1) : j \in Runs
    BY ChatBoundsAssumption DEF Runs
  <2>1. \A j \in Runs : Exists(j)' <=> Exists(j)
    BY <1>3, <1>5
  <2>2. CASE k = r
    BY <1>2, <1>3, <2>0, <2>1, <2>2 DEF ChatInv, OnlyTheNewestRuns
  <2>3. CASE k # r
    BY <1>2, <2>0, <2>1, <2>3 DEF ChatInv, OnlyTheNewestRuns
  <2> QED BY <2>2, <2>3
<1>8. RequestsHaveOneRun'
  <2>1. \A k \in Runs : (Exists(k)' <=> Exists(k)) /\ run'[k].request = run[k].request
    BY <1>2, <1>3, <1>5
  <2> QED BY <2>1 DEF ChatInv, RequestsHaveOneRun
<1>9. PICK m \in Message : m = [run |-> r, role |-> "ASSISTANT"] /\ m.run = r
  <2>1. [run |-> r, role |-> "ASSISTANT"] \in Message
    BY DEF Message
  <2> QED BY <2>1
<1>10. messages \in Seq(Message) /\ messages' = Append(messages, m)
  BY <1>1, <1>9 DEF ChatInv, ChatTypeOK, CommitAnswer
<1>11. /\ messages' \in Seq(Message)
       /\ Len(messages) + 1 \in DOMAIN messages'
       /\ messages'[Len(messages) + 1] = m
       /\ \A i \in DOMAIN messages : i \in DOMAIN messages' /\ messages'[i] = messages[i]
       /\ \A i \in DOMAIN messages' : i \in DOMAIN messages \/ i = Len(messages) + 1
  BY <1>10
<1>12. MessagesMatchRuns'
  <2>1. ASSUME NEW i \in DOMAIN messages'
        PROVE  Exists(messages[i].run)'
    <3>1. CASE i = Len(messages) + 1
      BY <1>3, <1>9, <1>11, <3>1
    <3>2. CASE i \in DOMAIN messages
      <4>1. messages[i].run \in Runs /\ Exists(messages[i].run)
        BY <3>2, MessageRuns DEF ChatInv, MessagesMatchRuns
      <4> QED BY <1>6, <1>11, <3>2, <4>1 DEF Grows, Exists
    <3> QED BY <1>11, <3>1, <3>2
  <2>2. ASSUME NEW k \in Runs, run'[k].status = "SUCCEEDED"
        PROVE  \E i \in DOMAIN messages' : messages'[i] = [run |-> k, role |-> "ASSISTANT"]
    <3>1. CASE k = r
      BY <1>9, <1>11, <3>1
    <3>2. CASE k # r
      <4>1. run[k].status = "SUCCEEDED"
        BY <1>2, <2>2, <3>2
      <4>2. PICK i \in DOMAIN messages : messages[i] = [run |-> k, role |-> "ASSISTANT"]
        BY <4>1 DEF ChatInv, MessagesMatchRuns
      <4> QED BY <1>11, <4>2
    <3> QED BY <3>1, <3>2
  <2> QED BY <2>1, <2>2 DEF MessagesMatchRuns
<1>13. SnapshotsAreClosed'
  <2> SUFFICES ASSUME NEW k \in Runs, run'[k].status = "SUCCEEDED"
               PROVE  /\ Usable(run[k].context, k)'
                      /\ \A h \in run'[k].context : RecordedSources(h)' \subseteq run'[k].inherited
    BY DEF SnapshotsAreClosed
  <2>1. CASE k = r
    <3>1. \A h \in t.turns : h # r /\ RecordedSources(h)' = RecordedSources(h)
      BY <1>3, <1>4, <1>5, <1>1 DEF CommitAnswer
    <3>2. Usable(run[k].context, k)'
      <4>1. \A h \in t.turns : h < r /\ \A j \in h..(r - 1) : run'[j].status = "SUCCEEDED"
        BY <1>4, <1>6, GrowKeepsUsable
      <4> QED BY <1>2, <2>1, <4>1 DEF Usable
    <3>3. \A h \in t.turns : RecordedSources(h) \subseteq InheritedSources(t.turns)
      BY DEF InheritedSources
    <3> QED BY <1>2, <2>1, <3>1, <3>2, <3>3
  <2>2. CASE k # r
    <3>1. run'[k] = run[k] /\ run[k].status = "SUCCEEDED"
      BY <1>2, <2>2
    <3>2. run[k].context \subseteq Runs /\ k \in 0..MaxRuns
      BY ChatBoundsAssumption DEF ChatInv, ChatTypeOK, Run, Runs
    <3>3. /\ Usable(run[k].context, k)
          /\ \A h \in run[k].context : RecordedSources(h) \subseteq run[k].inherited
      BY <3>1 DEF ChatInv, SnapshotsAreClosed
    <3>4. \A h \in run[k].context : h # r
      <4>1. \A h \in run[k].context : run[h].status = "SUCCEEDED"
        BY <3>2, <3>3 DEF Usable, Runs
      <4> QED BY <1>3, <4>1
    <3>5. Usable(run[k].context, k)'
      <4>1. \A h \in run[k].context :
              h < k /\ \A j \in h..(k - 1) : run'[j].status = "SUCCEEDED"
        BY <1>6, <3>2, <3>3, GrowKeepsUsable
      <4> QED BY <3>1, <4>1 DEF Usable
    <3> QED BY <1>5, <3>1, <3>2, <3>3, <3>4, <3>5
  <2> QED BY <2>1, <2>2
<1>14. /\ call' \in [Calls -> Call]
       /\ \A c \in Calls : CallMatches(c)' /\ Usable(call[c].turns, call[c].run)'
  BY <1>1, <1>6, NotifiedCalls DEF CommitAnswer
<1>15. commits' \subseteq commits /\ readable' = readable /\ signedIn' = signedIn
  BY DEF CommitAnswer
<1>16. CallsMatchRuns'
  BY <1>6, <1>14, <1>15, GrowKeepsCommits DEF CallsMatchRuns
<1>17. ChatTypeOK'
  BY <1>2, <1>6, <1>11, <1>14, <1>15, GrowKeepsCommits DEF ChatInv, ChatTypeOK
<1> QED BY <1>7, <1>8, <1>12, <1>13, <1>16, <1>17 DEF ChatInv


-----------------------------------------------------------------------------
(* The inductive invariant *)

(* A session without runs. *)
LEMMA InitEstablishes ==
  ASSUME ChatInit
  PROVE  ChatInv
<1>1. NoRun \in Run
  BY DEF NoRun, Run
<1>2. run \in [Runs -> Run] /\ \A r \in Runs : run[r] = NoRun
  BY <1>1 DEF ChatInit
<1>3. call \in [Calls -> Call] /\ \A c \in Calls : call[c] = Idle
  BY IdleIsACall DEF ChatInit
<1>4. ChatTypeOK
  BY <1>2, <1>3 DEF ChatTypeOK, ChatInit
<1>5. \A r \in Runs : /\ run[r].status = "NONE" /\ run[r].request = None /\ ~run[r].live
  BY <1>2 DEF NoRun
<1>6. OnlyTheNewestRuns /\ RequestsHaveOneRun /\ SnapshotsAreClosed
  BY <1>5 DEF OnlyTheNewestRuns, RequestsHaveOneRun, SnapshotsAreClosed, Exists
<1>7. MessagesMatchRuns
  BY <1>5 DEF MessagesMatchRuns, ChatInit
<1>8. CallsMatchRuns
  BY <1>3 DEF CallsMatchRuns, CallMatches, At, Usable, Idle, ChatInit
<1> QED BY <1>4, <1>6, <1>7, <1>8 DEF ChatInv

(* One step per transaction. *)
LEMMA NextKeeps ==
  ASSUME ChatInv, ChatNext
  PROVE  ChatInv'
<1>1. ASSUME NEW c \in Calls, CallStep(c)
      PROVE  ChatInv'
  <2>1. CASE \E l \in Logins, q \in Requests, b \in Bodies : StartRun(c, l, q, b)
    BY <2>1, StartRunKeeps
  <2>2. CASE \E l \in Logins, q \in Requests, b \in Bodies : RepeatRun(c, l, q, b)
    BY <2>2, RepeatRunKeeps
  <2>3. CASE LoadScope(c)
    BY <2>3, LoadScopeKeeps
  <2>4. CASE ReadHistory(c)
    BY <2>4, ReadHistoryKeeps
  <2>5. CASE Rewrite(c)
    BY <2>5, RewriteKeeps
  <2>6. CASE \E h \in Runs : RecheckTurn(c, h)
    BY <2>6, RecheckTurnKeeps
  <2>7. CASE SubmitAnswer(c)
    BY <2>7, SubmitAnswerKeeps
  <2>8. CASE Publish(c)
    BY <2>8, PublishKeeps
  <2>9. CASE Interrupt(c)
    BY <2>9, InterruptKeeps
  <2>10. CASE Terminate(c)
    BY <2>10, TerminateKeeps
  <2>11. CASE Drop(c)
    BY <2>11, DropKeeps
  <2> QED BY <1>1, <2>1, <2>2, <2>3, <2>4, <2>5, <2>6, <2>7, <2>8, <2>9, <2>10, <2>11
          DEF CallStep
<1>2. ASSUME NEW t \in commits, CommitAnswer(t) \/ FailCommit(t)
      PROVE  ChatInv'
  BY <1>2, CommitAnswerKeeps, FailCommitKeeps
<1>3. CASE \/ \E r \in Runs : ExpireRun(r)
           \/ \E l \in Logins : Browse(l) \/ SignOut(l)
           \/ \E s \in Sources : ChangeAccess(s)
  BY <1>3, SurroundingsKeep
<1> QED BY <1>1, <1>2, <1>3 DEF ChatNext

(* The invariant is inductive: it holds in every reachable state of a      *)
(* session, for any number of requests, sign-ins, sources and runs.        *)
THEOREM ChatInductive == ChatSpec => []ChatInv
<1>1. ChatInit => ChatInv
  BY InitEstablishes
<1>2. ChatInv /\ [ChatNext]_chatVars => ChatInv'
  <2> SUFFICES ASSUME ChatInv, [ChatNext]_chatVars
               PROVE  ChatInv'
    OBVIOUS
  <2>1. CASE ChatNext
    BY <2>1, NextKeeps
  <2>2. CASE UNCHANGED chatVars
    <3>1. /\ run' = run /\ messages' = messages /\ commits' = commits
          /\ call' = call /\ readable' = readable /\ signedIn' = signedIn
      BY <2>2 DEF chatVars
    <3>2. run' \in [Runs -> Run] /\ Fades
      BY <3>1, SameFades DEF ChatInv
    <3> QED BY <3>1, <3>2, FadeKeepsInv DEF ChatInv, ChatTypeOK
  <2> QED BY <2>1, <2>2
<1> QED BY <1>1, <1>2, PTL DEF ChatSpec

(* Every variable keeps its type. *)
THEOREM ChatTypeCorrect == ChatSpec => []ChatTypeOK
<1>1. ChatInv => ChatTypeOK
  BY DEF ChatInv
<1> QED BY <1>1, ChatInductive, PTL

-----------------------------------------------------------------------------
(* What the invariant gives *)

(* Every answer an answer rests on was itself given, and recorded sources  *)
(* that the later one has recorded as well.                                *)
LEMMA AncestorsAreRecorded ==
  ASSUME ChatInv, NEW r \in Runs, run[r].status = "SUCCEEDED", NEW a \in Ancestors(r)
  PROVE  run[a].status = "SUCCEEDED" /\ RecordedSources(a) \subseteq RecordedSources(r)
<1> DEFINE S == {k \in Runs : /\ run[k].status = "SUCCEEDED"
                              /\ RecordedSources(k) \subseteq RecordedSources(r)}
<1>1. r \in S /\ S \in SUBSET Runs
  OBVIOUS
<1>2. ASSUME NEW k \in S, NEW h \in run[k].context
      PROVE  h \in S
  <2>1. k \in Runs /\ run[k].context \subseteq Runs
    BY DEF ChatInv, ChatTypeOK, Run
  <2>2. h \in Runs /\ h < k /\ run[h].status = "SUCCEEDED"
    BY <2>1 DEF ChatInv, SnapshotsAreClosed, Usable, Runs
  <2>3. RecordedSources(h) \subseteq run[k].inherited
    BY <2>1 DEF ChatInv, SnapshotsAreClosed
  <2> QED BY <2>2, <2>3 DEF RecordedSources
<1>3. \A T \in SUBSET Runs :
        r \in T /\ (\A k \in T : run[k].context \subseteq T) => a \in T
  BY DEF Ancestors
<1>4. a \in S
  <2>1. \A k \in S : run[k].context \subseteq S
    BY <1>2
  <2> HIDE DEF S
  <2> QED BY <1>1, <1>3, <2>1
<1> QED BY <1>4

(* Whoever sees an answer may read all evidence it rests on, its own and   *)
(* that of the turns its question was rewritten from, however many turns   *)
(* ago: the check of _visible_runs() reaches no further than one snapshot. *)
THEOREM AnswersRestOnReadableSources ==
  ChatSpec => []VisibleAnswersRestOnReadableSources
<1>1. ASSUME ChatInv
      PROVE  VisibleAnswersRestOnReadableSources
  <2> SUFFICES ASSUME NEW r \in Runs, Visible(r), NEW a \in Ancestors(r)
               PROVE  run[a].status = "SUCCEEDED" /\ run[a].evidence \subseteq readable
    BY DEF VisibleAnswersRestOnReadableSources
  <2>1. run[r].status = "SUCCEEDED" /\ RecordedSources(r) \subseteq readable
    BY DEF Visible
  <2>2. run[a].status = "SUCCEEDED" /\ RecordedSources(a) \subseteq RecordedSources(r)
    BY <1>1, <2>1, AncestorsAreRecorded
  <2> QED BY <2>1, <2>2 DEF RecordedSources
<1> QED BY <1>1, ChatInductive, PTL

(* A question is rewritten from an unbroken series of turns that ends just *)
(* before it (_history), also in the answer that is stored minutes later.  *)
THEOREM ContextsHaveNoGaps == ChatSpec => []ContextHasNoGaps
<1>1. ChatInv => ContextHasNoGaps
  BY DEF ChatInv, SnapshotsAreClosed, Usable, ContextHasNoGaps
<1> QED BY <1>1, ChatInductive, PTL

(* What a client is shown is a stored answer to the request it sent, also  *)
(* when the request was sent again or raced with another one (start_run).  *)
THEOREM ClientsAreShownTheirs == ChatSpec => []ShownAnswersAreTheirs
<1>1. ASSUME ChatInv
      PROVE  ShownAnswersAreTheirs
  <2> SUFFICES ASSUME NEW c \in Calls, At(c, "shown")
               PROVE  LET r == call[c].run IN
                        /\ run[r].status = "SUCCEEDED"
                        /\ run[r].request = call[c].request /\ run[r].body = call[c].body
                        /\ \E i \in DOMAIN messages :
                             messages[i] = [run |-> r, role |-> "ASSISTANT"]
    BY DEF ShownAnswersAreTheirs
  <2>1. CallMatches(c) /\ ~At(c, "idle")
    BY <1>1, CallRow DEF At
  <2> QED BY <1>1, <2>1 DEF CallMatches, ChatInv, MessagesMatchRuns
<1> QED BY <1>1, ChatInductive, PTL


-----------------------------------------------------------------------------
(* A session is a Conversation *)

(* The question that is open, in terms of the run that answers it.         *)
OpenQuestion ==
  /\ \A r \in Running : /\ Running = {r} /\ OpenRequest = run[r].request
                        /\ OpenRequest # None /\ (OpenLapsed <=> ~run[r].live)
  /\ Running = {} => OpenRequest = None /\ ~OpenLapsed

(* At most one run is running, so the open question is its request. *)
LEMMA OneOpenQuestion ==
  ASSUME ChatInv
  PROVE  OpenQuestion
<1>1. ASSUME NEW r \in Running
      PROVE  /\ Running = {r} /\ OpenRequest = run[r].request
             /\ OpenRequest # None /\ (OpenLapsed <=> ~run[r].live)
  <2>1. r \in Runs /\ run[r].status = "RUNNING" /\ Exists(r)
    BY DEF Running, Exists
  <2>2. ASSUME NEW k \in Running
        PROVE  k = r
    <3>1. k \in Runs /\ run[k].status = "RUNNING" /\ Exists(k)
      BY DEF Running, Exists
    <3>2. ~(k > r) /\ ~(r > k)
      BY <2>1, <3>1 DEF ChatInv, OnlyTheNewestRuns
    <3>3. k \in Nat /\ r \in Nat
      BY <2>1, <3>1 DEF Runs
    <3> QED BY <3>2, <3>3
  <2>3. Running = {r}
    BY <2>2
  <2>4. OpenRequest = run[r].request
    BY <2>3 DEF OpenRequest
  <2>5. run[r].request # None
    BY <2>1 DEF ChatInv, RequestsHaveOneRun
  <2>6. OpenLapsed <=> ~run[r].live
    BY <2>3 DEF OpenLapsed
  <2> QED BY <2>3, <2>4, <2>5, <2>6
<1>2. Running = {} => OpenRequest = None /\ ~OpenLapsed
  BY DEF OpenRequest, OpenLapsed
<1> QED BY <1>1, <1>2 DEF OpenQuestion

Entry == [request : Requests \cup {None}, role : {"USER", "ASSISTANT"}]

(* The transcript has one entry for each message. *)
LEMMA TranscriptEntries ==
  ASSUME ChatTypeOK
  PROVE  /\ Transcript \in Seq(Entry) /\ Len(Transcript) = Len(messages)
         /\ DOMAIN Transcript = DOMAIN messages
         /\ DOMAIN messages = 1..Len(messages) /\ Len(messages) \in Nat
         /\ \A i \in DOMAIN messages :
              Transcript[i] = [request |-> run[messages[i].run].request,
                               role |-> messages[i].role]
<1>1. DOMAIN messages = 1..Len(messages) /\ Len(messages) \in Nat
  BY DEF ChatTypeOK
<1>2. ASSUME NEW i \in DOMAIN messages
      PROVE  [request |-> run[messages[i].run].request, role |-> messages[i].role] \in Entry
  <2>1. messages[i] \in Message /\ run[messages[i].run] \in Run
    BY MessageRuns DEF ChatTypeOK
  <2> QED BY <2>1 DEF Message, Run, Entry
<1>3. Transcript \in [1..Len(messages) -> Entry]
  BY <1>1, <1>2 DEF Transcript
<1>4. Transcript \in Seq(Entry)
  BY <1>1, <1>3, SeqDef
<1> QED BY <1>1, <1>3, <1>4 DEF Transcript

(* Requests of runs never change, so neither do the entries. *)
LEMMA EntriesStay ==
  ASSUME ChatInv, Grows, NEW i \in DOMAIN messages
  PROVE  run'[messages[i].run].request = run[messages[i].run].request
<1>1. messages[i].run \in Runs /\ Exists(messages[i].run)
  BY MessageRuns DEF ChatInv, MessagesMatchRuns
<1> QED BY <1>1 DEF Grows

(* A new message is a new entry. *)
LEMMA TranscriptGrows ==
  ASSUME ChatInv, ChatTypeOK', Grows, NEW r \in Runs, NEW role \in {"USER", "ASSISTANT"},
         messages' = Append(messages, [run |-> r, role |-> role])
  PROVE  Transcript' = Append(Transcript, [request |-> run'[r].request, role |-> role])
<1> DEFINE x == [request |-> run'[r].request, role |-> role]
           m == [run |-> r, role |-> role]
<1>1. x \in Entry
  BY DEF ChatTypeOK, Run, Entry
<1>2. /\ Transcript \in Seq(Entry) /\ Len(Transcript) = Len(messages)
      /\ DOMAIN messages = 1..Len(messages) /\ Len(messages) \in Nat
      /\ \A i \in DOMAIN messages :
           Transcript[i] = [request |-> run[messages[i].run].request,
                            role |-> messages[i].role]
  BY TranscriptEntries DEF ChatInv
<1>3. messages \in Seq(Message) /\ m \in Message /\ m.run = r /\ m.role = role
  BY DEF ChatInv, ChatTypeOK, Message
<1>4. messages' = Append(messages, m)
  OBVIOUS
<1> HIDE DEF m
<1>5. /\ Len(messages') = Len(messages) + 1
      /\ DOMAIN messages' = 1..(Len(messages) + 1)
      /\ messages'[Len(messages) + 1] = m
      /\ \A i \in 1..Len(messages) : messages'[i] = messages[i]
  BY <1>2, <1>3, <1>4
<1>6. /\ DOMAIN Transcript' = 1..(Len(messages) + 1)
      /\ Transcript'[Len(messages) + 1] = x
      /\ \A i \in 1..Len(messages) : Transcript'[i] = Transcript[i]
  <2>1. Transcript' = [i \in 1..(Len(messages) + 1) |->
                         [request |-> run'[messages'[i].run].request,
                          role |-> messages'[i].role]]
    BY <1>5 DEF Transcript
  <2>2. Transcript'[Len(messages) + 1] = x
    BY <1>2, <1>3, <1>5, <2>1
  <2>3. ASSUME NEW i \in 1..Len(messages)
        PROVE  Transcript'[i] = Transcript[i]
    <3>1. i \in DOMAIN messages /\ i \in 1..(Len(messages) + 1)
      BY <1>2
    <3>2. run'[messages[i].run].request = run[messages[i].run].request
      BY <3>1, EntriesStay
    <3> QED BY <1>2, <1>5, <2>1, <3>1, <3>2
  <2> QED BY <2>1, <2>2, <2>3
<1> HIDE DEF x
<1>7. /\ Append(Transcript, x) \in Seq(Entry)
      /\ Len(Append(Transcript, x)) = Len(messages) + 1
      /\ Append(Transcript, x)[Len(messages) + 1] = x
      /\ \A i \in 1..Len(messages) : Append(Transcript, x)[i] = Transcript[i]
  BY <1>1, <1>2
<1>8. /\ Transcript' \in Seq(Entry) /\ Len(Transcript') = Len(messages) + 1
  <2>1. \A i \in 1..(Len(messages) + 1) : Transcript'[i] \in Entry
    <3> SUFFICES ASSUME NEW i \in 1..(Len(messages) + 1)
                 PROVE  Transcript'[i] \in Entry
      OBVIOUS
    <3>1. CASE i = Len(messages) + 1
      BY <1>1, <1>6, <3>1
    <3>2. CASE i # Len(messages) + 1
      <4>1. i \in 1..Len(messages) /\ i \in 1..Len(Transcript)
        BY <1>2, <3>2
      <4>2. Transcript[i] \in Entry
        BY <1>2, <4>1, ElementOfSeq
      <4> QED BY <1>6, <4>1, <4>2
    <3> QED BY <3>1, <3>2
  <2>2. Transcript' = [i \in 1..(Len(messages) + 1) |-> Transcript'[i]]
    BY <1>5 DEF Transcript
  <2>3. Transcript' \in [1..(Len(messages) + 1) -> Entry]
    BY <2>1, <2>2
  <2>4. Len(messages) + 1 \in Nat
    BY <1>2
  <2> QED BY <2>3, <2>4, SeqDef
<1>9. \A i \in 1..Len(Transcript') : Transcript'[i] = Append(Transcript, x)[i]
  BY <1>2, <1>6, <1>7, <1>8
<1>10. Transcript' = Append(Transcript, x)
  BY <1>7, <1>8, <1>9, SeqEqual
<1> QED BY <1>10 DEF x


(* The steps other than StartRun and CommitAnswer. *)
LEMMA OtherStepsFade ==
  ASSUME ChatInv, ChatNext
  PROVE  \/ messages' = messages /\ Fades
         \/ \E c \in Calls, l \in Logins, q \in Requests, b \in Bodies : StartRun(c, l, q, b)
         \/ \E t \in commits : CommitAnswer(t)
<1>1. ASSUME run' = run \/ run' = Reaped
      PROVE  Fades
  BY <1>1, SameFades, ReapedFades DEF ChatInv
<1>2. ASSUME NEW c \in Calls, CallStep(c)
      PROVE  \/ messages' = messages /\ Fades
             \/ \E l \in Logins, q \in Requests, b \in Bodies : StartRun(c, l, q, b)
  <2>1. CASE \E l \in Logins, q \in Requests, b \in Bodies :
               StartRun(c, l, q, b) \/ RepeatRun(c, l, q, b)
    BY <1>1, <2>1 DEF RepeatRun
  <2>2. CASE \/ LoadScope(c) \/ ReadHistory(c) \/ Rewrite(c)
             \/ \E h \in Runs : RecheckTurn(c, h)
    BY <1>1, <2>2 DEF LoadScope, ReadHistory, Rewrite, RecheckTurn
  <2>3. CASE SubmitAnswer(c) \/ Publish(c) \/ Interrupt(c) \/ Drop(c)
    BY <1>1, <2>3 DEF SubmitAnswer, Publish, Interrupt, Drop
  <2>4. CASE Terminate(c)
    <3>1. CallMatches(c) /\ call[c].run \in Runs
      BY <2>4, CallRow DEF Terminate, At, CallMatches
    <3>2. CASE Authenticated(c) /\ Owned(call[c].run)
      BY <2>4, <3>1, <3>2, RowFades DEF Terminate, Owned
    <3>3. CASE ~(Authenticated(c) /\ Owned(call[c].run))
      BY <1>1, <2>4, <3>3 DEF Terminate
    <3> QED BY <2>4, <3>2, <3>3 DEF Terminate
  <2> QED BY <1>2, <2>1, <2>2, <2>3, <2>4 DEF CallStep
<1>3. ASSUME NEW t \in commits, FailCommit(t)
      PROVE  messages' = messages /\ Fades
  BY <1>1, <1>3 DEF FailCommit
<1>4. ASSUME NEW r \in Runs, ExpireRun(r)
      PROVE  messages' = messages /\ Fades
  BY <1>4, RowFades DEF ExpireRun, Owned
<1>5. CASE \/ \E l \in Logins : Browse(l) \/ SignOut(l)
           \/ \E s \in Sources : ChangeAccess(s)
  BY <1>1, <1>5 DEF Browse, SignOut, ChangeAccess
<1> QED BY <1>2, <1>3, <1>4, <1>5 DEF ChatNext

(* Where runs only fade, the open question lapses, is given up, or stays.   *)
LEMMA FadesAreSteps ==
  ASSUME ChatInv, run' \in [Runs -> Run], Fades, messages' = messages,
         OpenQuestion, OpenQuestion'
  PROVE  [Promise!Next]_(Promise!conversation)
<1>1. Transcript' = Transcript
  <2>1. Grows
    BY FadeKeepsRows
  <2>2. \A i \in DOMAIN messages :
          run'[messages[i].run].request = run[messages[i].run].request
    BY <2>1, EntriesStay
  <2> QED BY <2>2 DEF Transcript
<1>2. Running' \subseteq Running
  BY DEF Running, Fades
<1>3. CASE Running = {}
  <2>1. Running' = {}
    BY <1>2, <1>3
  <2>2. OpenRequest' = OpenRequest /\ OpenLapsed' = OpenLapsed
    BY <1>3, <2>1 DEF OpenQuestion, OpenLapsed
  <2> QED BY <1>1, <2>2 DEF Promise!conversation
<1>4. CASE Running # {}
  <2>1. PICK r \in Running : TRUE
    BY <1>4
  <2>2. /\ Running = {r} /\ OpenRequest = run[r].request /\ OpenRequest # None
        /\ (OpenLapsed <=> ~run[r].live) /\ r \in Runs
    BY DEF OpenQuestion, Running
  <2>3. run'[r].request = run[r].request /\ (run'[r].live => run[r].live)
    BY <2>2 DEF Fades
  <2>4. CASE r \in Running'
    <3>1. OpenRequest' = run'[r].request /\ (OpenLapsed' <=> ~run'[r].live)
      BY <2>4 DEF OpenQuestion
    <3>2. OpenRequest' = OpenRequest
      BY <2>2, <2>3, <3>1
    <3>3. CASE OpenLapsed'
      <4>1. Promise!Lapse
        BY <1>1, <2>2, <3>2, <3>3 DEF Promise!Lapse, OpenLapsed
      <4> QED BY <4>1 DEF Promise!Next
    <3>4. CASE ~OpenLapsed'
      <4>1. OpenLapsed' = OpenLapsed
        BY <2>2, <2>3, <3>1, <3>4 DEF OpenLapsed
      <4> QED BY <1>1, <3>2, <4>1 DEF Promise!conversation
    <3> QED BY <3>3, <3>4
  <2>5. CASE r \notin Running'
    <3>1. Running' = {}
      BY <1>2, <2>2, <2>5
    <3>2. OpenRequest' = None /\ ~OpenLapsed'
      BY <3>1 DEF OpenQuestion
    <3>3. Promise!GiveUp
      BY <1>1, <2>2, <3>2 DEF Promise!GiveUp, OpenLapsed
    <3> QED BY <3>3 DEF Promise!Next
  <2> QED BY <2>4, <2>5
<1> QED BY <1>3, <1>4

(* A new run asks a question that was never asked, when none is open or    *)
(* the open one has lapsed.                                                *)
LEMMA StartRunAsks ==
  ASSUME ChatInv, ChatInv', OpenQuestion, OpenQuestion',
         NEW c \in Calls, NEW l \in Logins, NEW q \in Requests, NEW b \in Bodies,
         StartRun(c, l, q, b)
  PROVE  Promise!Ask(q)
<1>1. PICK r \in Runs :
        /\ ~Exists(r) /\ run' = [Reaped EXCEPT ![r] = NewRun(q, b)]
        /\ messages' = Append(messages, [run |-> r, role |-> "USER"])
  BY DEF StartRun
<1>2. run \in [Runs -> Run] /\ \A k \in Runs : run[k].request # q
  BY DEF StartRun, ChatInv, ChatTypeOK
<1>3. run'[r] = NewRun(q, b) /\ \A k \in Runs : k # r => run'[k] = Reaped[k]
  <2>1. Reaped = [k \in Runs |-> Reaped[k]]
    BY DEF Reaped
  <2> QED BY <1>1, <2>1
<1>4. run'[r].status = "RUNNING" /\ run'[r].request = q /\ run'[r].live
  BY <1>3 DEF NewRun
<1>5. Grows
  <2> SUFFICES ASSUME NEW k \in Runs
               PROVE  /\ Exists(k) => Exists(k)' /\ run'[k].request = run[k].request
                                      /\ run'[k].body = run[k].body
                      /\ run[k].status = "SUCCEEDED" => run'[k].status = "SUCCEEDED"
    BY DEF Grows
  <2>1. CASE k = r
    BY <1>1, <2>1 DEF Exists
  <2>2. CASE k # r
    BY <1>2, <1>3, <2>2, ReapedRow DEF Exists
  <2> QED BY <2>1, <2>2
<1>6. Transcript' = Append(Transcript, [request |-> q, role |-> "USER"])
  <2>1. "USER" \in {"USER", "ASSISTANT"}
    OBVIOUS
  <2> QED BY <1>1, <1>4, <1>5, <2>1, TranscriptGrows DEF ChatInv
<1>7. OpenRequest' = q /\ ~OpenLapsed'
  <2>1. r \in Running'
    BY <1>4 DEF Running
  <2> QED BY <1>4, <2>1 DEF OpenQuestion
<1>8. OpenRequest = None \/ OpenLapsed
  <2>1. CASE Running = {}
    BY <2>1 DEF OpenQuestion
  <2>2. ASSUME NEW k \in Running
        PROVE  OpenLapsed
    <3>1. k \in Runs /\ run[k].status = "RUNNING"
      BY DEF Running
    <3>2. Reaped[k].status # "RUNNING"
      BY <3>1 DEF StartRun, NoneActive
    <3>3. ~run[k].live
      BY <1>2, <3>1, <3>2, ReapedRow
    <3> QED BY <3>3 DEF OpenLapsed
  <2> QED BY <2>1, <2>2
<1>9. ASSUME NEW i \in DOMAIN Transcript
      PROVE  Transcript[i].request # q
  <2>1. i \in DOMAIN messages /\ Transcript[i].request = run[messages[i].run].request
    BY DEF Transcript
  <2>2. messages[i].run \in Runs
    BY <2>1, MessageRuns DEF ChatInv
  <2> QED BY <1>2, <2>1, <2>2
<1> QED BY <1>6, <1>7, <1>8, <1>9 DEF Promise!Ask, Promise!Asked

(* The answer that is stored is that of the open question. *)
LEMMA CommitAnswers ==
  ASSUME ChatInv, ChatInv', OpenQuestion, OpenQuestion', NEW t \in commits, CommitAnswer(t)
  PROVE  Promise!Answer
<1>1. PICK r \in Runs : r = t.run
  BY AnsweredRow
<1>2. /\ run'[r].status = "SUCCEEDED"
      /\ run'[r].request = run[r].request /\ run'[r].body = run[r].body
      /\ \A k \in Runs : k # r => run'[k] = run[k]
  BY <1>1, AnsweredRow
<1>3. run[r].status = "RUNNING" /\ run[r].live /\ r \in Running
  BY <1>1 DEF CommitAnswer, Owned, Running
<1>4. Grows
  BY <1>2, <1>3 DEF Grows, Exists
<1>5. /\ Running = {r} /\ OpenRequest = run[r].request /\ OpenRequest # None /\ ~OpenLapsed
  BY <1>3 DEF OpenQuestion
<1>6. Running' = {}
  BY <1>2, <1>5 DEF Running
<1>7. OpenRequest' = None /\ OpenLapsed' = OpenLapsed
  BY <1>5, <1>6 DEF OpenQuestion, OpenLapsed
<1>8. Transcript' = Append(Transcript, [request |-> OpenRequest, role |-> "ASSISTANT"])
  <2>1. "ASSISTANT" \in {"USER", "ASSISTANT"}
    OBVIOUS
  <2>2. messages' = Append(messages, [run |-> r, role |-> "ASSISTANT"])
    BY <1>1 DEF CommitAnswer
  <2>3. Transcript' = Append(Transcript, [request |-> run'[r].request, role |-> "ASSISTANT"])
    BY <1>4, <2>1, <2>2, TranscriptGrows DEF ChatInv
  <2> QED BY <1>2, <1>5, <2>3
<1> QED BY <1>5, <1>7, <1>8 DEF Promise!Answer

(* Each transaction is a step of the conversation or does not touch it.    *)
LEMMA ChatStepConverses ==
  ASSUME ChatInv, ChatInv', OpenQuestion, OpenQuestion', [ChatNext]_chatVars
  PROVE  [Promise!Next]_(Promise!conversation)
<1>1. run' \in [Runs -> Run]
  BY DEF ChatInv, ChatTypeOK
<1>2. CASE messages' = messages /\ Fades
  BY <1>1, <1>2, FadesAreSteps
<1>3. CASE \E c \in Calls, l \in Logins, q \in Requests, b \in Bodies : StartRun(c, l, q, b)
  <2>1. PICK q \in Requests : Promise!Ask(q)
    BY <1>3, StartRunAsks
  <2> QED BY <2>1 DEF Promise!Next
<1>4. CASE \E t \in commits : CommitAnswer(t)
  BY <1>4, CommitAnswers DEF Promise!Next
<1>5. CASE UNCHANGED chatVars
  <2>1. run' = run /\ messages' = messages
    BY <1>5 DEF chatVars
  <2>2. Fades
    BY <2>1, SameFades DEF ChatInv
  <2> QED BY <1>1, <2>1, <2>2, FadesAreSteps
<1> QED BY <1>2, <1>3, <1>4, <1>5, OtherStepsFade

(* The session is a Conversation: whatever requests race, repeat, time out *)
(* or die, a question is stored and answered at most once, one at a time,  *)
(* its answer directly after it, and never after its lease has run out.    *)
THEOREM ChatImplementsConversation == ChatSpec => ConversationSpec
<1>1. ChatInit => Promise!Init
  <2> SUFFICES ASSUME ChatInit
               PROVE  Promise!Init
    OBVIOUS
  <2>1. \A r \in Runs : run[r].status = "NONE"
    BY DEF ChatInit, NoRun
  <2>2. Running = {}
    BY <2>1 DEF Running
  <2>3. OpenRequest = None /\ OpenLapsed = FALSE
    BY <2>2 DEF OpenRequest, OpenLapsed
  <2>4. Transcript = <<>>
    BY DEF ChatInit, Transcript
  <2> QED BY <2>3, <2>4 DEF Promise!Init
<1>2. ChatInv => OpenQuestion
  BY OneOpenQuestion
<1>3. ChatInv /\ ChatInv' /\ OpenQuestion /\ OpenQuestion' /\ [ChatNext]_chatVars
        => [Promise!Next]_(Promise!conversation)
  BY ChatStepConverses
<1> QED BY <1>1, <1>2, <1>3, ChatInductive, PTL
        DEF ChatSpec, ConversationSpec, Promise!Spec


=============================================================================
