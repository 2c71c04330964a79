---------------------------- MODULE AuthSession ----------------------------
(***************************************************************************)
(* Sign-in of one user of one tenant.  A password opens a selection in     *)
(* Redis; the selection opens a session row in PostgreSQL together with a  *)
(* refresh ticket in Redis; each refresh replaces the ticket in both       *)
(* stores; a logout revokes every session of the user.                     *)
(*                                                                         *)
(* A transaction holds the row of the user from its first statement to its *)
(* end, so a step that neither writes Redis nor ends the transaction is    *)
(* merged with the next one.  Redis is written before the commit, and an   *)
(* answer of either store may be lost although the store did the work.     *)
(*                                                                         *)
(* A session is named by its first ticket: key and digest are made at once *)
(* and never used again.  An access token is issued with each ticket and   *)
(* is as good as the session and the authorization it names.               *)
(***************************************************************************)
EXTENDS Naturals, FiniteSets

CONSTANTS
  Calls,          \* HTTP requests being served at once
  MaxTickets,     \* bound: refresh tickets ever made
  MaxSelections,  \* bound: selections ever issued
  MaxChanges      \* bound: changes of the password, and of the authorization

Nobody == "nobody"

ASSUME AuthBoundsAssumption ==
  MaxTickets \in Nat /\ MaxSelections \in Nat /\ MaxChanges \in Nat
ASSUME NobodyAssumption == Nobody \notin Calls

VARIABLES
  session,     \* auth_session rows, by their first ticket
  record,      \* what was written to Redis for each ticket
  stored,      \* tickets whose record is in Redis now
  selection,   \* what was written to Redis for each selection
  offered,     \* selections that are in Redis now
  known,       \* tickets clients were given
  call,        \* requests inside the server
  holder,      \* the request whose transaction holds the user row
  account,     \* password, authorization versions and status of the user
  logouts,     \* ghost: logouts so far
  broken       \* ghost: sessions whose ticket a fault of a store took away

authVars == <<session, record, stored, selection, offered, known, call, holder,
              account, logouts, broken>>

Tickets == 1..MaxTickets
Selections == 1..MaxSelections

Session ==
  [status : {"none", "live", "expired", "revoked"},
   ticket : 0..MaxTickets,          \* refresh_token_hash
   rotation : 0..MaxTickets,
   selection : 0..MaxSelections]    \* ghost: the selection that opened it

Record == [session : 0..MaxTickets, rotation : 0..MaxTickets, version : 0..MaxChanges]

Selection ==
  [password : 0..(MaxChanges + 1),  \* password_stamp
   stamp : 0..MaxTickets,           \* revocation_stamp
   since : 0..MaxTickets]           \* ghost: logouts before it

Account == [password : 1..(MaxChanges + 1), version : 0..MaxChanges, active : BOOLEAN]

Call ==
  [phase : {"idle", "verified", "choosing", "consumed", "opened", "refreshing",
            "rotated", "leaving", "revoked", "failing"},
   version : 0..MaxChanges,         \* the authorization it read
   password : 0..(MaxChanges + 1),  \* the hash the password was verified with
   selection : 0..MaxSelections,
   ticket : 0..MaxTickets,          \* the ticket it was called with
   fresh : 0..MaxTickets,           \* the ticket it made
   gone : SUBSET Tickets]           \* tickets of the sessions it revoked

NoSession == [status |-> "none", ticket |-> 0, rotation |-> 0, selection |-> 0]
NoRecord == [session |-> 0, rotation |-> 0, version |-> 0]
NoSelection == [password |-> 0, stamp |-> 0, since |-> 0]
Idle == [phase |-> "idle", version |-> 0, password |-> 0, selection |-> 0,
         ticket |-> 0, fresh |-> 0, gone |-> {}]

AuthTypeOK ==
  /\ session \in [Tickets -> Session]
  /\ record \in [Tickets -> Record]
  /\ stored \subseteq Tickets
  /\ selection \in [Selections -> Selection]
  /\ offered \subseteq Selections
  /\ known \subseteq Tickets
  /\ call \in [Calls -> Call]
  /\ holder \in Calls \cup {Nobody}
  /\ account \in Account
  /\ logouts \in 0..MaxTickets
  /\ broken \subseteq Tickets

AuthInit ==
  /\ session = [s \in Tickets |-> NoSession]
  /\ record = [t \in Tickets |-> NoRecord]
  /\ stored = {}
  /\ selection = [k \in Selections |-> NoSelection]
  /\ offered = {}
  /\ known = {}
  /\ call = [c \in Calls |-> Idle]
  /\ holder = Nobody
  /\ account = [password |-> 1, version |-> 0, active |-> TRUE]
  /\ logouts = 0
  /\ broken = {}

-----------------------------------------------------------------------------
(* What the handlers look up *)

At(c, phase) == call[c].phase = phase
Moved(c, phase) == call' = [call EXCEPT ![c].phase = phase]
Leaves(c) == call' = [call EXCEPT ![c] = Idle]

(* Fault: lock_user() reads the user without FOR UPDATE.                   *)
UserIsFree_Unlocked == TRUE

(* lock_user(): the transaction that holds the row ends first.             *)
UserIsFree == holder = Nobody

(* Time, greatest id and number of the revoked sessions: the number alone  *)
(* grows with every logout.                                                *)
RevocationStamp == Cardinality({s \in Tickets : session[s].status = "revoked"})

(* Fault: the rotation is not compared.                                    *)
Matches_AnyRotation(t) == TRUE

(* _match_record(): the ticket is the latest of its session.               *)
Matches(t) == session[record[t].session].rotation = record[t].rotation

(* validate_session() of the session a ticket names.                       *)
IsLive(t) == record[t].session # 0 /\ session[record[t].session].status = "live"

(* validate_authorization() of what the ticket was issued for.             *)
IsAuthorized(t) == account.active /\ record[t].version = account.version

(* identity_from_access(): the token that came with ticket t is accepted.  *)
AccessAccepted(t) == IsLive(t) /\ IsAuthorized(t)

(* A digest that was never used.                                           *)
IsFresh(t) == record[t] = NoRecord /\ \A u \in 1..(t - 1) : record[u] # NoRecord

-----------------------------------------------------------------------------
(* Signing in *)

VerifyPassword(c) ==
  /\ At(c, "idle") /\ account.active
  /\ call' = [call EXCEPT ![c] = [Idle EXCEPT !.phase = "verified",
                                              !.password = account.password]]
  /\ UNCHANGED <<session, record, stored, selection, offered, known, holder,
                 account, logouts, broken>>

(* The rest of login(): the hash is compared again under the lock.  When   *)
(* its commit or answer is lost, nobody knows the selection.               *)
IssueSelection(c, k) ==
  /\ At(c, "verified") /\ UserIsFree
  /\ account.active /\ account.password = call[c].password
  /\ selection[k] = NoSelection /\ \A j \in 1..(k - 1) : selection[j] # NoSelection
  /\ selection' = [selection EXCEPT ![k] =
                     [password |-> account.password, stamp |-> RevocationStamp,
                      since |-> logouts]]
  /\ offered' = offered \cup {k}
  /\ Leaves(c)
  /\ UNCHANGED <<session, record, stored, known, holder, account, logouts, broken>>

ReadSelection(c, k) ==
  /\ At(c, "idle") /\ k \in offered
  /\ call' = [call EXCEPT ![c] = [Idle EXCEPT !.phase = "choosing", !.selection = k]]
  /\ UNCHANGED <<session, record, stored, selection, offered, known, holder,
                 account, logouts, broken>>

(* select_tenant() under the lock of the user, up to the script that finds *)
(* the selection in Redis and deletes it.                                  *)
MayChoose(c) ==
  LET k == call[c].selection
  IN /\ At(c, "choosing") /\ UserIsFree /\ account.active
     /\ selection[k].password = account.password
     /\ selection[k].stamp = RevocationStamp
     /\ k \in offered

ConsumeSelection(c) ==
  /\ MayChoose(c)
  /\ offered' = offered \ {call[c].selection}
  /\ \/ /\ holder' = c
        /\ call' = [call EXCEPT ![c].phase = "consumed", ![c].version = account.version]
     \/ /\ Leaves(c)                       \* its answer is lost
        /\ UNCHANGED holder
  /\ UNCHANGED <<session, record, stored, selection, known, account, logouts, broken>>

(* put_refresh() of the first ticket.                                      *)
PutRefresh(c, t) ==
  /\ At(c, "consumed") /\ IsFresh(t)
  /\ record' = [record EXCEPT ![t] = [session |-> t, rotation |-> 0,
                                      version |-> call[c].version]]
  /\ stored' = stored \cup {t}
  /\ \/ /\ call' = [call EXCEPT ![c].phase = "opened", ![c].fresh = t]
        /\ UNCHANGED holder
     \/ /\ call' = [call EXCEPT ![c].phase = "failing", ![c].fresh = t]
        /\ holder' = Nobody                \* its answer is lost
  /\ UNCHANGED <<session, selection, offered, known, account, logouts, broken>>

(* The commit of the session row is answered, or the answer is lost.       *)
CommitSelection(c) ==
  LET t == call[c].fresh
  IN /\ At(c, "opened")
     /\ session' = [session EXCEPT ![t] =
                      [status |-> "live", ticket |-> t, rotation |-> 0,
                       selection |-> call[c].selection]]
     /\ holder' = Nobody
     /\ \/ /\ known' = known \cup {t} /\ Leaves(c)
           /\ UNCHANGED broken
        \/ /\ broken' = broken \cup {t} /\ Moved(c, "failing")
           /\ UNCHANGED known
     /\ UNCHANGED <<record, stored, selection, offered, account, logouts>>

-----------------------------------------------------------------------------
(* Refreshing *)

(* refresh() and logout() read the record of the ticket before they lock.  *)
ReadRefresh(c, t, phase) ==
  /\ At(c, "idle") /\ t \in known \cap stored
  /\ call' = [call EXCEPT ![c] = [Idle EXCEPT !.phase = phase, !.ticket = t]]
  /\ UNCHANGED <<session, record, stored, selection, offered, known, holder,
                 account, logouts, broken>>

(* Fault: the new record is written with the rotation it replaces.         *)
NextRecord_SameRotation(t) == record[t]

NextRecord(t) == [record[t] EXCEPT !.rotation = @ + 1]

(* refresh() under the lock of the user, up to the script that finds the   *)
(* old ticket in Redis and puts the new one in its place.                  *)
Rotate(c, n) ==
  LET t == call[c].ticket
  IN /\ At(c, "refreshing") /\ UserIsFree
     /\ IsLive(t) /\ Matches(t) /\ IsAuthorized(t)
     /\ t \in stored /\ IsFresh(n)
     /\ record' = [record EXCEPT ![n] = NextRecord(t)]
     /\ stored' = (stored \ {t}) \cup {n}
     /\ \/ /\ call' = [call EXCEPT ![c].phase = "rotated", ![c].fresh = n]
           /\ holder' = c
           /\ UNCHANGED broken
        \/ /\ call' = [call EXCEPT ![c].phase = "failing", ![c].fresh = n]
           /\ broken' = broken \cup {record[t].session}
           /\ UNCHANGED holder             \* its answer is lost
     /\ UNCHANGED <<session, selection, offered, known, account, logouts>>

(* The commit of the rotation is answered, or the answer is lost.          *)
CommitRotation(c) ==
  LET n == call[c].fresh
      s == record[n].session
  IN /\ At(c, "rotated")
     /\ session' = [session EXCEPT ![s].ticket = n, ![s].rotation = @ + 1]
     /\ holder' = Nobody
     /\ \/ /\ known' = known \cup {n} /\ Leaves(c)
           /\ UNCHANGED broken
        \/ /\ broken' = broken \cup {s} /\ Moved(c, "failing")
           /\ UNCHANGED known
     /\ UNCHANGED <<record, stored, selection, offered, account, logouts>>

(* _discard_refresh() after an exception; Redis may not answer again.      *)
DiscardRefresh(c) ==
  /\ At(c, "failing")
  /\ stored' \in {stored \ {call[c].fresh}, stored}
  /\ Leaves(c)
  /\ UNCHANGED <<session, record, selection, offered, known, holder, account,
                 logouts, broken>>

-----------------------------------------------------------------------------
(* Leaving *)

(* revoke_user() in the transaction that found session s live.             *)
RevokeUser(c) ==
  LET revoked == {s \in Tickets : session[s].status \in {"live", "expired"}}
  IN /\ session' = [s \in Tickets |-> IF s \in revoked
                                      THEN [session[s] EXCEPT !.status = "revoked"]
                                      ELSE session[s]]
     /\ logouts' = logouts + 1
     /\ call' = [call EXCEPT ![c] = [Idle EXCEPT !.phase = "revoked",
                                       !.gone = {session[s].ticket : s \in revoked}]]

(* logout() with an access token: it is younger than 15 minutes.           *)
LogoutByAccess(c, t) ==
  /\ At(c, "idle") /\ t \in known /\ UserIsFree /\ IsLive(t)
  /\ RevokeUser(c)
  /\ UNCHANGED <<record, stored, selection, offered, known, holder, account, broken>>

(* logout() with a refresh ticket, whose record is read again.             *)
LogoutByRefresh(c) ==
  LET t == call[c].ticket
  IN /\ At(c, "leaving") /\ UserIsFree /\ IsLive(t) /\ Matches(t) /\ t \in stored
     /\ RevokeUser(c)
     /\ UNCHANGED <<record, stored, selection, offered, known, holder, account, broken>>

(* The tickets are deleted after the commit, if Redis answers.             *)
DeleteRefreshes(c) ==
  /\ At(c, "revoked")
  /\ stored' = stored \ call[c].gone
  /\ Leaves(c)
  /\ UNCHANGED <<session, record, selection, offered, known, holder, account,
                 logouts, broken>>

-----------------------------------------------------------------------------
(* Failures and the surroundings *)

(* A request is refused, loses a store, or its process dies.  An open      *)
(* transaction rolls back; what Redis was told stays.  An exception goes   *)
(* on to discard the new ticket.                                           *)
Abort(c) ==
  /\ ~At(c, "idle")
  /\ holder' = IF holder = c THEN Nobody ELSE holder
  /\ \/ Leaves(c)
     \/ At(c, "opened") /\ Moved(c, "failing")
     \/ At(c, "rotated") /\ Moved(c, "failing")
  /\ broken' = IF At(c, "rotated")
               THEN broken \cup {record[call[c].ticket].session} ELSE broken
  /\ UNCHANGED <<session, record, stored, selection, offered, known, account, logouts>>

(* Redis loses keys: expiry of a selection, or a restart.                  *)
RedisForgets ==
  /\ \/ \E k \in offered : offered' = offered \ {k} /\ UNCHANGED <<stored, broken>>
     \/ \E t \in stored : /\ stored' = stored \ {t}
                          /\ broken' = broken \cup {record[t].session}
                          /\ UNCHANGED offered
  /\ UNCHANGED <<session, record, selection, known, call, holder, account, logouts>>

ExpireSession(s) ==
  /\ session[s].status = "live"
  /\ session' = [session EXCEPT ![s].status = "expired"]
  /\ UNCHANGED <<record, stored, selection, offered, known, call, holder, account,
                 logouts, broken>>

(* An administrator changes the password, the authorization or the status. *)
ChangeAccount ==
  /\ \/ account.password <= MaxChanges /\ account' = [account EXCEPT !.password = @ + 1]
     \/ account.version < MaxChanges /\ account' = [account EXCEPT !.version = @ + 1]
     \/ account' = [account EXCEPT !.active = ~@]
  /\ UNCHANGED <<session, record, stored, selection, offered, known, call, holder,
                 logouts, broken>>

AuthNext ==
  \/ \E c \in Calls :
       \/ VerifyPassword(c)
       \/ \E k \in Selections : IssueSelection(c, k) \/ ReadSelection(c, k)
       \/ ConsumeSelection(c)
       \/ \E t \in Tickets : PutRefresh(c, t) \/ Rotate(c, t) \/ LogoutByAccess(c, t)
       \/ CommitSelection(c)
       \/ \E t \in Tickets : ReadRefresh(c, t, "refreshing") \/ ReadRefresh(c, t, "leaving")
       \/ CommitRotation(c)
       \/ DiscardRefresh(c)
       \/ LogoutByRefresh(c)
       \/ DeleteRefreshes(c)
       \/ Abort(c)
  \/ RedisForgets
  \/ \E s \in Tickets : ExpireSession(s)
  \/ ChangeAccount

AuthSpec == AuthInit /\ [][AuthNext]_authVars

-----------------------------------------------------------------------------
(* Properties *)

(* "Log out everywhere" reaches sign-ins that are half done: a session     *)
(* that is live stems from a selection issued after the last logout, and   *)
(* no two sessions ever stem from the same selection, however often its    *)
(* token is sent and whatever answers are lost (select_tenant, logout).    *)
SessionsComeFromSignIns ==
  \A s \in Tickets : session[s].status # "none" =>
    /\ session[s].status = "live" => selection[session[s].selection].since = logouts
    /\ \A r \in Tickets \ {s} : session[r].selection # session[s].selection

(* The refresh in Redis is accepted.                                       *)
RefreshAccepted(t) == t \in stored /\ IsLive(t) /\ Matches(t)

(* A ticket that was replaced never works again, and neither does one that *)
(* a rolled back refresh left in Redis: the only ticket accepted for a     *)
(* session is the one its row names (_match_record, ROTATE_SCRIPT).        *)
ReplacedTicketsStayUnusable ==
  \A t \in Tickets : RefreshAccepted(t) => session[record[t].session].ticket = t

(* While no store fails in the middle of a rotation, a live session can    *)
(* always go on: the ticket of its row is known to a client and accepted,  *)
(* however many refreshes race for it (refresh, _discard_refresh).         *)
RefreshStaysPossible ==
  \A s \in Tickets :
    (/\ session[s].status = "live" /\ s \notin broken
     /\ \A c \in Calls : At(c, "rotated") => record[call[c].fresh].session # s)
      => session[s].ticket \in known /\ RefreshAccepted(session[s].ticket)

=============================================================================
