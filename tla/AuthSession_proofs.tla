------------------------- MODULE AuthSession_proofs -------------------------
(***************************************************************************)
(* What a session, its tickets in Redis and the selections of a user say   *)
(* of each other, for any number of requests, tickets and logouts; and     *)
(* what the signed-in pages of a browser, for any number of pages, people, *)
(* sign-ins and requests, keep of the session they show.                   *)
(***************************************************************************)
EXTENDS AuthSession, BrowserSession, FiniteSetTheorems, TLAPS

(*                               AuthSession                               *)

IsMade(t) == record[t].session # 0
Exists(s) == session[s].status # "none"

(* The user row is held exactly by the transactions that are open.         *)
UserRowIsHeld ==
  \A c \in Calls : call[c].phase \in {"consumed", "opened", "rotated"} <=> holder = c

(* Tickets are made in the order of their numbers, never twice, and each   *)
(* rotation of a session at most once.                                     *)
TicketsAreMade ==
  /\ \A t \in Tickets : ~ IsMade(t) => record[t] = NoRecord
  /\ \A t, u \in Tickets : IsMade(t) /\ u < t => IsMade(u)
  /\ \A t \in Tickets : IsMade(t) =>
       record[record[t].session].session = record[t].session /\ record[t].rotation < t
  /\ \A t, u \in Tickets :
       /\ IsMade(t) /\ record[t].session = record[u].session
       /\ record[t].rotation = record[u].rotation
       => t = u

CallsMakeTheirTicket ==
  /\ \A c \in Calls : call[c].fresh # 0 => IsMade(call[c].fresh)
  /\ \A c, d \in Calls : call[c].fresh = call[d].fresh => c = d \/ call[c].fresh = 0
  /\ \A t \in stored : IsMade(t)

(* The row names one of the tickets of its session.  At most one is newer, *)
(* and has then taken its place in Redis.                                  *)
RowsNameTheirTicket ==
  \A s \in Tickets :
    /\ ~ Exists(s) => session[s] = NoSession /\ \A t \in Tickets : record[t].session = s => t = s
    /\ Exists(s) =>
         /\ session[s].ticket \in Tickets /\ record[session[s].ticket].session = s
         /\ record[session[s].ticket].rotation = session[s].rotation
         /\ \A t \in Tickets : record[t].session = s =>
              /\ record[t].rotation <= session[s].rotation + 1
              /\ record[t].rotation = session[s].rotation + 1 => session[s].ticket \notin stored

(* What an open transaction has read and done is still so.                 *)
OpensOneSession(c) ==
  LET k == call[c].selection
      t == call[c].fresh
  IN /\ call[c].phase \in {"consumed", "opened"} =>
          /\ k \in Selections /\ k \notin offered /\ selection[k].password # 0
          /\ selection[k].since = logouts
          /\ \A s \in Tickets : session[s].selection # k
     /\ call[c].phase = "opened" =>
          /\ t \in Tickets /\ ~ Exists(t) /\ record[t].session = t /\ record[t].rotation = 0
          /\ t \in stored \cup broken

RotatesOneSession(c) ==
  LET n == call[c].fresh
      s == record[n].session
  IN call[c].phase = "rotated" =>
       /\ n \in Tickets /\ s \in Tickets /\ session[s].status \in {"live", "expired"}
       /\ call[c].ticket \in Tickets /\ record[call[c].ticket].session = s
       /\ record[n].rotation = session[s].rotation + 1
       /\ n \in stored \/ s \in broken

(* What a request still removes from Redis is of no use to anybody.        *)
RemovesUnusable(c) ==
  /\ call[c].phase = "failing" =>
       \A s \in Tickets : Exists(s) /\ session[s].ticket = call[c].fresh => s \in broken
  /\ call[c].phase = "revoked" =>
       \A t \in call[c].gone : IsMade(t) /\ session[record[t].session].status = "revoked"

TransactionsKnowTheirRows ==
  \A c \in Calls : OpensOneSession(c) /\ RotatesOneSession(c) /\ RemovesUnusable(c)

(* A selection that still has the revocation stamp was issued after the    *)
(* last logout; while it is offered it was not used.                       *)
SelectionsKnowLogouts ==
  /\ logouts <= RevocationStamp
  /\ \A k \in Selections :
       /\ selection[k].password = 0 => selection[k] = NoSelection
       /\ selection[k].stamp <= RevocationStamp
       /\ selection[k].password # 0 /\ selection[k].stamp = RevocationStamp =>
            selection[k].since = logouts
       /\ k \in offered =>
            selection[k].password # 0 /\ \A s \in Tickets : session[s].selection # k
  /\ \A s \in Tickets : Exists(s) =>
       session[s].selection \in Selections /\ selection[session[s].selection].password # 0

ClientsKnowTheirTicket ==
  \A s \in Tickets : Exists(s) /\ s \notin broken => session[s].ticket \in known

AuthInv ==
  /\ AuthTypeOK
  /\ UserRowIsHeld
  /\ TicketsAreMade
  /\ CallsMakeTheirTicket
  /\ RowsNameTheirTicket
  /\ TransactionsKnowTheirRows
  /\ SelectionsKnowLogouts
  /\ ClientsKnowTheirTicket
  /\ SessionsComeFromSignIns
  /\ RefreshStaysPossible

-----------------------------------------------------------------------------
(* Types and the revocation stamp *)

LEMMA IdleType == Idle \in Call /\ Idle.phase = "idle" /\ Idle.fresh = 0
  BY AuthBoundsAssumption DEF Idle, Call, Tickets

LEMMA AuthInitially == AuthInit => AuthInv
PROOF
<1> SUFFICES ASSUME AuthInit
             PROVE  AuthInv
  OBVIOUS
<1>1. AuthTypeOK
  <2>1. NoSession \in Session /\ NoRecord \in Record /\ NoSelection \in Selection
    BY AuthBoundsAssumption DEF NoSession, Session, NoRecord, Record, NoSelection, Selection
  <2>2. [password |-> 1, version |-> 0, active |-> TRUE] \in Account
    BY AuthBoundsAssumption DEF Account
  <2> QED
    BY <2>1, <2>2, IdleType, AuthBoundsAssumption DEF AuthInit, AuthTypeOK
<1>2. \A s \in Tickets : session[s].status = "none" /\ session[s].selection = 0
  BY DEF AuthInit, NoSession
<1>3. RevocationStamp = 0
  BY <1>2, FS_EmptySet DEF RevocationStamp
<1>4. \A t \in Tickets : t \in Nat /\ t # 0 /\ record[t].session = 0 /\ record[t] = NoRecord
  BY AuthBoundsAssumption DEF AuthInit, NoRecord, Tickets
<1>5. \A c \in Calls : call[c].phase = "idle" /\ call[c].fresh = 0
  BY IdleType DEF AuthInit
<1>6. UserRowIsHeld
  BY <1>5, NobodyAssumption DEF UserRowIsHeld, AuthInit
<1>7. TicketsAreMade /\ CallsMakeTheirTicket
  BY <1>4, <1>5 DEF TicketsAreMade, CallsMakeTheirTicket, IsMade, AuthInit
<1>8. RowsNameTheirTicket
  BY <1>2, <1>4 DEF RowsNameTheirTicket, Exists, AuthInit
<1>9. TransactionsKnowTheirRows
  BY <1>5 DEF TransactionsKnowTheirRows, OpensOneSession, RotatesOneSession, RemovesUnusable
<1>10. SelectionsKnowLogouts
  BY <1>2, <1>3, AuthBoundsAssumption DEF SelectionsKnowLogouts, Exists, NoSelection, AuthInit
<1>11. ClientsKnowTheirTicket /\ SessionsComeFromSignIns /\ RefreshStaysPossible
  BY <1>2 DEF ClientsKnowTheirTicket, SessionsComeFromSignIns, RefreshStaysPossible, Exists
<1> QED
  BY <1>1, <1>6, <1>7, <1>8, <1>9, <1>10, <1>11 DEF AuthInv

(* The number of revoked sessions is at most that of the tickets, and it   *)
(* grows when a session is revoked and none is lost.                       *)
LEMMA StampIsNumber == RevocationStamp \in 0..MaxTickets
PROOF
<1>1. IsFiniteSet(Tickets) /\ Cardinality(Tickets) = MaxTickets
  BY FS_Interval, AuthBoundsAssumption DEF Tickets
<1>2. {s \in Tickets : session[s].status = "revoked"} \subseteq Tickets
  OBVIOUS
<1>3. /\ IsFiniteSet({s \in Tickets : session[s].status = "revoked"})
      /\ RevocationStamp <= MaxTickets
  BY <1>1, <1>2, FS_Subset DEF RevocationStamp
<1> QED
  BY <1>3, FS_CardinalityType, AuthBoundsAssumption DEF RevocationStamp

LEMMA StampGrows ==
  ASSUME NEW r \in Tickets, session[r].status # "revoked", session'[r].status = "revoked",
         \A s \in Tickets : session[s].status = "revoked" => session'[s].status = "revoked"
  PROVE  RevocationStamp < RevocationStamp' /\ RevocationStamp' \in 0..MaxTickets
PROOF
<1> DEFINE S == {s \in Tickets : session[s].status = "revoked"}
           T == {s \in Tickets : session'[s].status = "revoked"}
<1>1. IsFiniteSet(Tickets) /\ Cardinality(Tickets) = MaxTickets
  BY FS_Interval, AuthBoundsAssumption DEF Tickets
<1>2. S \subseteq T /\ T \subseteq Tickets /\ r \in T /\ r \notin S /\ S \cup {r} \subseteq T
  OBVIOUS
<1> HIDE DEF S, T
<1>3. IsFiniteSet(T) /\ Cardinality(T) <= MaxTickets /\ IsFiniteSet(S)
  BY <1>1, <1>2, FS_Subset
<1>4. Cardinality(S \cup {r}) = Cardinality(S) + 1
  BY <1>2, <1>3, FS_AddElement
<1>5. Cardinality(S \cup {r}) <= Cardinality(T)
  BY <1>2, <1>3, FS_Subset
<1>6. Cardinality(S) \in Nat /\ Cardinality(T) \in Nat
  BY <1>3, FS_CardinalityType
<1>7. Cardinality(S) < Cardinality(T) /\ Cardinality(T) \in 0..MaxTickets
  BY <1>3, <1>4, <1>5, <1>6, AuthBoundsAssumption
<1> QED
  BY <1>7 DEF S, T, RevocationStamp

LEMMA StampStays ==
  ASSUME \A s \in Tickets : session[s].status = "revoked" <=> session'[s].status = "revoked"
  PROVE  RevocationStamp' = RevocationStamp
PROOF
<1>1. {s \in Tickets : session[s].status = "revoked"}
        = {s \in Tickets : session'[s].status = "revoked"}
  OBVIOUS
<1> QED
  BY <1>1 DEF RevocationStamp

-----------------------------------------------------------------------------
(* Steps that write no row, no record and no selection: they end requests  *)
(* and lose what is in Redis.  Nobody misses what they lose.               *)

Locking == {"consumed", "opened", "rotated"}

LEMMA QuietStep ==
  ASSUME AuthInv, AuthTypeOK', UserRowIsHeld',
         UNCHANGED <<session, record, selection, known, logouts>>,
         stored' \subseteq stored, offered' \subseteq offered, broken \subseteq broken',
         \A c \in Calls :
           \/ call'[c] = call[c]
           \/ /\ call'[c].phase \notin Locking /\ call'[c].fresh \in {0, call[c].fresh}
              /\ RemovesUnusable(c)'
              /\ call[c].phase = "rotated" => record[call[c].fresh].session \in broken',
         \A t \in stored \ stored' :
           /\ \A s \in Tickets :
                session[s].status = "live" /\ session[s].ticket = t => s \in broken'
           /\ \A c \in Calls : call'[c].phase \in {"opened", "rotated"} /\ call'[c].fresh = t =>
                record[t].session \in broken'
  PROVE  AuthInv'
PROOF
<1>1. TicketsAreMade'
  BY DEF AuthInv, TicketsAreMade, IsMade
<1>2. CallsMakeTheirTicket'
  BY DEF AuthInv, CallsMakeTheirTicket, IsMade
<1>3. RowsNameTheirTicket'
  BY DEF AuthInv, RowsNameTheirTicket, Exists
<1>4. TransactionsKnowTheirRows'
  <2> SUFFICES ASSUME NEW c \in Calls
               PROVE  (OpensOneSession(c) /\ RotatesOneSession(c) /\ RemovesUnusable(c))'
    BY DEF TransactionsKnowTheirRows
  <2>1. CASE call'[c] = call[c]
    <3>1. OpensOneSession(c) /\ RotatesOneSession(c) /\ RemovesUnusable(c)
      BY DEF AuthInv, TransactionsKnowTheirRows
    <3>2. OpensOneSession(c)'
      BY <2>1, <3>1 DEF OpensOneSession, Exists
    <3>3. RotatesOneSession(c)'
      BY <2>1, <3>1 DEF RotatesOneSession
    <3>4. RemovesUnusable(c)'
      BY <2>1, <3>1 DEF RemovesUnusable, Exists, IsMade
    <3> QED
      BY <3>2, <3>3, <3>4
  <2>2. CASE call'[c].phase \notin Locking /\ RemovesUnusable(c)'
    BY <2>2 DEF OpensOneSession, RotatesOneSession, Locking
  <2> QED
    BY <2>1, <2>2
<1>5. SelectionsKnowLogouts'
  BY StampStays DEF AuthInv, SelectionsKnowLogouts, Exists
<1>6. ClientsKnowTheirTicket'
  BY DEF AuthInv, ClientsKnowTheirTicket, Exists
<1>7. SessionsComeFromSignIns'
  BY DEF AuthInv, SessionsComeFromSignIns
<1>8. RefreshStaysPossible'
  <2> SUFFICES ASSUME NEW s \in Tickets, session[s].status = "live", s \notin broken',
                      \A c \in Calls : call'[c].phase = "rotated" =>
                        record[call'[c].fresh].session # s
               PROVE  session[s].ticket \in known /\ RefreshAccepted(session[s].ticket)'
    BY DEF RefreshStaysPossible, At
  <2>1. \A c \in Calls : call[c].phase = "rotated" => record[call[c].fresh].session # s
    BY DEF Locking
  <2>2. session[s].ticket \in known /\ RefreshAccepted(session[s].ticket)
    BY <2>1 DEF AuthInv, RefreshStaysPossible, At
  <2>3. session[s].ticket \in stored'
    BY <2>2 DEF RefreshAccepted
  <2> QED
    BY <2>2, <2>3 DEF RefreshAccepted, IsLive, Matches
<1> QED
  BY <1>1, <1>2, <1>3, <1>4, <1>5, <1>6, <1>7, <1>8 DEF AuthInv

(* A request that holds nothing is replaced by one that holds nothing.     *)
LEMMA QuietCall ==
  ASSUME AuthInv, NEW c \in Calls, NEW x \in Call, call' = [call EXCEPT ![c] = x],
         call[c].phase \notin Locking, x.phase \notin Locking \cup {"failing", "revoked"},
         x.fresh = 0, UNCHANGED <<session, record, selection, known, logouts, holder, account, broken>>,
         stored' \subseteq stored, offered' \subseteq offered,
         \A t \in stored \ stored' :
           /\ \A s \in Tickets :
                session[s].status = "live" /\ session[s].ticket = t => s \in broken
           /\ \A d \in Calls \ {c} : call[d].phase \in {"opened", "rotated"} /\ call[d].fresh = t =>
                record[t].session \in broken
  PROVE  AuthInv'
PROOF
<1>1. call'[c] = x /\ \A d \in Calls : d # c => call'[d] = call[d]
  BY DEF AuthInv, AuthTypeOK
<1>2. AuthTypeOK'
  BY DEF AuthInv, AuthTypeOK
<1>3. UserRowIsHeld'
  BY <1>1 DEF AuthInv, UserRowIsHeld, Locking
<1>4. RemovesUnusable(c)'
  BY <1>1 DEF RemovesUnusable
<1>5. call[c].phase # "rotated" /\ x.phase \notin {"opened", "rotated"}
  BY DEF Locking
<1>6. \A d \in Calls :
        \/ call'[d] = call[d]
        \/ /\ call'[d].phase \notin Locking /\ call'[d].fresh \in {0, call[d].fresh}
           /\ RemovesUnusable(d)'
           /\ call[d].phase = "rotated" => record[call[d].fresh].session \in broken'
  BY <1>1, <1>4, <1>5
<1>7. \A t \in stored \ stored' :
           /\ \A s \in Tickets :
                session[s].status = "live" /\ session[s].ticket = t => s \in broken'
           /\ \A d \in Calls : call'[d].phase \in {"opened", "rotated"} /\ call'[d].fresh = t =>
                record[t].session \in broken'
  BY <1>1, <1>5
<1> QED
  BY <1>2, <1>3, <1>6, <1>7, QuietStep

LEMMA VerifyPasswordKeeps ==
  ASSUME AuthInv, NEW c \in Calls, VerifyPassword(c)
  PROVE  AuthInv'
PROOF
<1> DEFINE x == [Idle EXCEPT !.phase = "verified", !.password = account.password]
<1>1. x \in Call /\ x.phase = "verified" /\ x.fresh = 0
  <2>1. account.password \in 0..(MaxChanges + 1)
    BY AuthBoundsAssumption DEF AuthInv, AuthTypeOK, Account
  <2>2. x \in Call
    BY <2>1, IdleType DEF Call
  <2> QED
    BY <2>2 DEF Idle
<1> HIDE DEF x
<1>2. call' = [call EXCEPT ![c] = x] /\ call[c].phase = "idle"
  BY DEF VerifyPassword, At, x
<1> QED
  BY <1>1, <1>2, QuietCall DEF VerifyPassword, Locking

LEMMA ReadSelectionKeeps ==
  ASSUME AuthInv, NEW c \in Calls, NEW k \in Selections, ReadSelection(c, k)
  PROVE  AuthInv'
PROOF
<1> DEFINE x == [Idle EXCEPT !.phase = "choosing", !.selection = k]
<1>1. x \in Call /\ x.phase = "choosing" /\ x.fresh = 0
  <2>1. k \in 0..MaxSelections
    BY AuthBoundsAssumption DEF Selections
  <2>2. x \in Call
    BY <2>1, IdleType DEF Call
  <2> QED
    BY <2>2 DEF Idle
<1> HIDE DEF x
<1>2. call' = [call EXCEPT ![c] = x] /\ call[c].phase = "idle"
  BY DEF ReadSelection, At, x
<1> QED
  BY <1>1, <1>2, QuietCall DEF ReadSelection, Locking

LEMMA ReadRefreshKeeps ==
  ASSUME AuthInv, NEW c \in Calls, NEW t \in Tickets, NEW phase \in {"refreshing", "leaving"},
         ReadRefresh(c, t, phase)
  PROVE  AuthInv'
PROOF
<1> DEFINE x == [Idle EXCEPT !.phase = phase, !.ticket = t]
<1>1. x \in Call /\ x.phase = phase /\ x.fresh = 0
  <2>1. t \in 0..MaxTickets
    BY AuthBoundsAssumption DEF Tickets
  <2>2. x \in Call
    BY <2>1, IdleType DEF Call
  <2> QED
    BY <2>2 DEF Idle
<1> HIDE DEF x
<1>2. call' = [call EXCEPT ![c] = x] /\ call[c].phase = "idle"
  BY DEF ReadRefresh, At, x
<1> QED
  BY <1>1, <1>2, QuietCall DEF ReadRefresh, Locking

(* What a failed request removes is no session's ticket, or a fault had    *)
(* taken it away before.                                                   *)
LEMMA DiscardRefreshKeeps ==
  ASSUME AuthInv, NEW c \in Calls, DiscardRefresh(c)
  PROVE  AuthInv'
PROOF
<1> DEFINE n == call[c].fresh
<1>1. /\ call[c].phase = "failing" /\ call' = [call EXCEPT ![c] = Idle]
      /\ stored' \in {stored \ {n}, stored}
      /\ UNCHANGED <<session, record, selection, offered, known, holder, account, logouts, broken>>
  BY DEF DiscardRefresh, At, Leaves
<1>2. ASSUME NEW t \in stored \ stored'
      PROVE  /\ \A s \in Tickets :
                  session[s].status = "live" /\ session[s].ticket = t => s \in broken
             /\ \A d \in Calls \ {c} : call[d].fresh = t => FALSE
  <2>1. t = n /\ t \in Tickets /\ t # 0
    BY <1>1, <1>2, AuthBoundsAssumption DEF AuthInv, AuthTypeOK, Tickets
  <2>2. RemovesUnusable(c)
    BY DEF AuthInv, TransactionsKnowTheirRows
  <2>3. \A s \in Tickets : session[s].status = "live" /\ session[s].ticket = t => s \in broken
    BY <1>1, <2>1, <2>2 DEF RemovesUnusable, Exists
  <2> QED
    BY <2>1, <2>3 DEF AuthInv, CallsMakeTheirTicket
<1> QED
  BY <1>1, <1>2, QuietCall, IdleType DEF Locking

LEMMA DeleteRefreshesKeeps ==
  ASSUME AuthInv, NEW c \in Calls, DeleteRefreshes(c)
  PROVE  AuthInv'
PROOF
<1>1. /\ call[c].phase = "revoked" /\ call' = [call EXCEPT ![c] = Idle]
      /\ stored' = stored \ call[c].gone
      /\ UNCHANGED <<session, record, selection, offered, known, holder, account, logouts, broken>>
  BY DEF DeleteRefreshes, At, Leaves
<1>2. ASSUME NEW t \in stored \ stored'
      PROVE  /\ \A s \in Tickets : session[s].status = "live" => session[s].ticket # t
             /\ \A d \in Calls \ {c} :
                  call[d].phase \in {"opened", "rotated"} => call[d].fresh # t
  <2>1. t \in Tickets /\ session[record[t].session].status = "revoked"
    <3>1. RemovesUnusable(c)
      BY DEF AuthInv, TransactionsKnowTheirRows
    <3> QED
      BY <1>1, <1>2, <3>1 DEF RemovesUnusable, AuthInv, AuthTypeOK
  <2>2. \A s \in Tickets : session[s].status = "live" => session[s].ticket # t
    BY <2>1 DEF AuthInv, RowsNameTheirTicket, Exists
  <2>3. ASSUME NEW d \in Calls, call[d].phase \in {"opened", "rotated"}
        PROVE  call[d].fresh # t
    BY <2>1, <2>3 DEF AuthInv, TransactionsKnowTheirRows, OpensOneSession, RotatesOneSession, Exists
  <2> QED
    BY <2>2, <2>3
<1> QED
  BY <1>1, <1>2, QuietCall, IdleType DEF Locking

LEMMA RedisForgetsKeeps ==
  ASSUME AuthInv, RedisForgets
  PROVE  AuthInv'
PROOF
<1>1. /\ UNCHANGED <<session, record, selection, known, call, holder, account, logouts>>
      /\ stored' \subseteq stored /\ offered' \subseteq offered /\ broken \subseteq broken'
      /\ \A t \in stored \ stored' : record[t].session \in broken'
      /\ broken' \subseteq Tickets
  <2>1. CASE \E k \in offered : offered' = offered \ {k} /\ UNCHANGED <<stored, broken>>
    BY <2>1 DEF RedisForgets, AuthInv, AuthTypeOK
  <2>2. ASSUME NEW t \in stored, stored' = stored \ {t}, UNCHANGED offered,
               broken' = broken \cup {record[t].session}
        PROVE  <1>1
    <3>1. t \in Tickets /\ record[t] \in Record /\ record[t].session # 0
      BY DEF AuthInv, AuthTypeOK, CallsMakeTheirTicket, IsMade
    <3>2. record[t].session \in Tickets
      BY <3>1, AuthBoundsAssumption DEF Record, Tickets
    <3> QED
      BY <2>2, <3>2 DEF RedisForgets, AuthInv, AuthTypeOK
  <2> QED
    BY <2>1, <2>2 DEF RedisForgets
<1>2. AuthTypeOK'
  BY <1>1 DEF AuthInv, AuthTypeOK
<1>3. UserRowIsHeld'
  BY <1>1 DEF AuthInv, UserRowIsHeld
<1>4. ASSUME NEW t \in stored \ stored', NEW s \in Tickets,
             session[s].status = "live", session[s].ticket = t
      PROVE  s \in broken'
  BY <1>1, <1>4 DEF AuthInv, RowsNameTheirTicket, Exists
<1> QED
  BY <1>1, <1>2, <1>3, <1>4, QuietStep

LEMMA ChangeAccountKeeps ==
  ASSUME AuthInv, ChangeAccount
  PROVE  AuthInv'
PROOF
<1>1. UNCHANGED <<session, record, stored, selection, offered, known, call, holder, logouts, broken>>
  BY DEF ChangeAccount
<1>2. AuthTypeOK'
  <2>1. account \in Account /\ account.password \in Nat /\ account.version \in Nat
    BY DEF AuthInv, AuthTypeOK, Account
  <2>2. account' \in Account
    <3>1. CASE account.password <= MaxChanges /\ account' = [account EXCEPT !.password = @ + 1]
      BY <2>1, <3>1, AuthBoundsAssumption DEF Account
    <3>2. CASE account.version < MaxChanges /\ account' = [account EXCEPT !.version = @ + 1]
      BY <2>1, <3>2, AuthBoundsAssumption DEF Account
    <3>3. CASE account' = [account EXCEPT !.active = ~@]
      <4>1. (~ account.active) \in BOOLEAN
        OBVIOUS
      <4> QED
        BY <2>1, <3>3, <4>1 DEF Account
    <3> QED
      BY <3>1, <3>2, <3>3 DEF ChangeAccount
  <2> QED
    BY <1>1, <2>2 DEF AuthInv, AuthTypeOK
<1>3. UserRowIsHeld'
  BY <1>1 DEF AuthInv, UserRowIsHeld
<1> QED
  BY <1>1, <1>2, <1>3, QuietStep

LEMMA AbortKeeps ==
  ASSUME AuthInv, NEW c \in Calls, Abort(c)
  PROVE  AuthInv'
PROOF
<1> DEFINE failing == [call[c] EXCEPT !.phase = "failing"]
           x == call'[c]
<1>1. /\ UNCHANGED <<session, record, stored, selection, offered, known, account, logouts>>
      /\ holder' = IF holder = c THEN Nobody ELSE holder
      /\ broken' = IF call[c].phase = "rotated"
                   THEN broken \cup {record[call[c].ticket].session} ELSE broken
  BY DEF Abort, At
<1>2. /\ x \in Call /\ call' = [call EXCEPT ![c] = x] /\ call'[c] = x
      /\ \A d \in Calls : d # c => call'[d] = call[d]
      /\ \/ x.phase = "idle" /\ x.fresh = 0
         \/ /\ x.phase = "failing" /\ x.fresh = call[c].fresh
            /\ call[c].phase \in {"opened", "rotated"}
  <2>1. failing \in Call /\ failing.phase = "failing" /\ failing.fresh = call[c].fresh
    BY DEF AuthInv, AuthTypeOK, Call
  <2>2. CASE Leaves(c)
    BY <2>2, IdleType DEF Leaves, AuthInv, AuthTypeOK
  <2>3. CASE Moved(c, "failing") /\ call[c].phase \in {"opened", "rotated"}
    <3>1. call' = [call EXCEPT ![c] = failing] /\ x = failing
      BY <2>3 DEF Moved, AuthInv, AuthTypeOK
    <3> QED
      BY <2>1, <2>3, <3>1 DEF AuthInv, AuthTypeOK
  <2> QED
    BY <2>2, <2>3 DEF Abort, At
<1> HIDE DEF x
<1>3. OpensOneSession(c) /\ RotatesOneSession(c)
  BY DEF AuthInv, TransactionsKnowTheirRows
<1>4. call[c].phase = "rotated" =>
        /\ record[call[c].fresh].session = record[call[c].ticket].session
        /\ record[call[c].fresh].session \in Tickets
        /\ record[call[c].fresh].session \in broken'
  BY <1>1, <1>3 DEF RotatesOneSession
<1>5. AuthTypeOK'
  BY <1>1, <1>2, <1>4 DEF AuthInv, AuthTypeOK
<1>6. UserRowIsHeld'
  BY <1>1, <1>2, NobodyAssumption DEF AuthInv, UserRowIsHeld
<1>7. RemovesUnusable(c)'
  <2> SUFFICES ASSUME x.phase = "failing", NEW s \in Tickets, Exists(s),
                      session[s].ticket = call[c].fresh
               PROVE  s \in broken'
    BY <1>1, <1>2 DEF RemovesUnusable, Exists
  <2>1. record[call[c].fresh].session = s
    BY DEF AuthInv, RowsNameTheirTicket
  <2>2. call[c].phase # "opened"
    BY <1>3, <2>1 DEF OpensOneSession
  <2> QED
    BY <1>2, <1>4, <2>1, <2>2
<1> QED
  BY <1>1, <1>2, <1>4, <1>5, <1>6, <1>7, QuietStep DEF Locking

-----------------------------------------------------------------------------
(* Sessions end *)

LEMMA ExpireSessionKeeps ==
  ASSUME AuthInv, NEW s \in Tickets, ExpireSession(s)
  PROVE  AuthInv'
PROOF
<1> DEFINE x == [session[s] EXCEPT !.status = "expired"]
<1>1. /\ session[s].status = "live" /\ session' = [session EXCEPT ![s] = x]
      /\ UNCHANGED <<record, stored, selection, offered, known, call, holder, account, logouts, broken>>
  BY DEF ExpireSession
<1>2. /\ x \in Session /\ x.status = "expired" /\ x.ticket = session[s].ticket
      /\ x.rotation = session[s].rotation /\ x.selection = session[s].selection
  BY DEF AuthInv, AuthTypeOK, Session
<1> HIDE DEF x
<1>3. \A r \in Tickets :
        /\ session'[r].ticket = session[r].ticket /\ session'[r].rotation = session[r].rotation
        /\ session'[r].selection = session[r].selection
        /\ session'[r].status = "none" <=> session[r].status = "none"
        /\ session'[r].status = "none" => session'[r] = session[r]
        /\ session'[r].status = "revoked" <=> session[r].status = "revoked"
        /\ session'[r].status \in {"live", "expired"} <=> session[r].status \in {"live", "expired"}
        /\ session'[r].status = "live" => session[r].status = "live"
  BY <1>1, <1>2 DEF AuthInv, AuthTypeOK
<1>4. AuthTypeOK'
  BY <1>1, <1>2 DEF AuthInv, AuthTypeOK
<1>5. UserRowIsHeld' /\ TicketsAreMade' /\ CallsMakeTheirTicket'
  BY <1>1 DEF AuthInv, UserRowIsHeld, TicketsAreMade, CallsMakeTheirTicket, IsMade
<1>6. RowsNameTheirTicket'
  BY <1>1, <1>3 DEF AuthInv, RowsNameTheirTicket, Exists
<1>7. TransactionsKnowTheirRows'
  <2> SUFFICES ASSUME NEW c \in Calls
               PROVE  (OpensOneSession(c) /\ RotatesOneSession(c) /\ RemovesUnusable(c))'
    BY DEF TransactionsKnowTheirRows
  <2>1. OpensOneSession(c) /\ RotatesOneSession(c) /\ RemovesUnusable(c)
    BY DEF AuthInv, TransactionsKnowTheirRows
  <2>2. OpensOneSession(c)'
    BY <1>1, <1>3, <2>1 DEF OpensOneSession, Exists
  <2>3. RotatesOneSession(c)'
    BY <1>1, <1>3, <2>1 DEF RotatesOneSession
  <2>4. RemovesUnusable(c)'
    <3>1. \A t \in Tickets : IsMade(t) => record[t].session \in Tickets
      BY AuthBoundsAssumption, SMTT(30) DEF AuthInv, AuthTypeOK, IsMade, Record, Tickets
    <3>2. call[c].gone \subseteq Tickets
      BY DEF AuthInv, AuthTypeOK, Call
    <3> QED
      BY <1>1, <1>3, <2>1, <3>1, <3>2 DEF RemovesUnusable, Exists, IsMade
  <2> QED
    BY <2>2, <2>3, <2>4
<1>8. SelectionsKnowLogouts'
  BY <1>1, <1>3, StampStays DEF AuthInv, SelectionsKnowLogouts, Exists
<1>9. ClientsKnowTheirTicket'
  BY <1>1, <1>3 DEF AuthInv, ClientsKnowTheirTicket, Exists
<1>10. SessionsComeFromSignIns'
  BY <1>1, <1>3 DEF AuthInv, SessionsComeFromSignIns
<1>11. RefreshStaysPossible'
  <2> SUFFICES ASSUME NEW r \in Tickets, session'[r].status = "live", r \notin broken,
                      \A c \in Calls : call[c].phase = "rotated" =>
                        record[call[c].fresh].session # r
               PROVE  session'[r].ticket \in known /\ RefreshAccepted(session[r].ticket)'
    BY <1>1 DEF RefreshStaysPossible, At
  <2>1. session[r].status = "live" /\ session'[r] = session[r]
    BY <1>1, <1>2, <1>3 DEF AuthInv, AuthTypeOK
  <2>2. session[r].ticket \in known /\ RefreshAccepted(session[r].ticket)
    BY <2>1 DEF AuthInv, RefreshStaysPossible, At
  <2>3. record[session[r].ticket].session = r
    BY <2>1 DEF AuthInv, RowsNameTheirTicket, Exists
  <2> QED
    BY <1>1, <2>1, <2>2, <2>3 DEF RefreshAccepted, IsLive, Matches
<1> QED
  BY <1>4, <1>5, <1>6, <1>7, <1>8, <1>9, <1>10, <1>11 DEF AuthInv

(* A logout: a session was live, the user row is free.                     *)
LEMMA RevokeUserKeeps ==
  ASSUME AuthInv, NEW c \in Calls, NEW t \in Tickets, RevokeUser(c), UserIsFree, IsLive(t),
         call[c].phase \notin Locking,
         UNCHANGED <<record, stored, selection, offered, known, holder, account, broken>>
  PROVE  AuthInv'
PROOF
<1> DEFINE closed == {s \in Tickets : session[s].status \in {"live", "expired"}}
           x == [Idle EXCEPT !.phase = "revoked", !.gone = {session[s].ticket : s \in closed}]
<1>1. /\ session' = [s \in Tickets |-> IF s \in closed
                                       THEN [session[s] EXCEPT !.status = "revoked"]
                                       ELSE session[s]]
      /\ logouts' = logouts + 1 /\ call' = [call EXCEPT ![c] = x]
  BY DEF RevokeUser
<1>2. \A s \in Tickets :
        /\ session'[s] \in Session
        /\ session'[s].ticket = session[s].ticket /\ session'[s].rotation = session[s].rotation
        /\ session'[s].selection = session[s].selection
        /\ session'[s].status = "none" <=> session[s].status = "none"
        /\ session'[s].status = "none" => session'[s] = session[s]
        /\ session'[s].status \in {"none", "revoked"}
        /\ session[s].status = "revoked" => session'[s].status = "revoked"
  BY <1>1 DEF AuthInv, AuthTypeOK, Session
<1>3. record[t].session \in Tickets /\ session[record[t].session].status = "live"
  BY AuthBoundsAssumption DEF IsLive, AuthInv, AuthTypeOK, Record, Tickets
<1>4. RevocationStamp < RevocationStamp' /\ RevocationStamp' \in 0..MaxTickets
  BY <1>2, <1>3, StampGrows
<1>5. \A s \in closed : session[s].ticket \in Tickets /\ record[session[s].ticket].session = s
  BY DEF AuthInv, RowsNameTheirTicket, Exists
<1>6. x \in Call /\ x.phase = "revoked" /\ x.fresh = 0 /\ x.gone = {session[s].ticket : s \in closed}
  <2>1. {session[s].ticket : s \in closed} \in SUBSET Tickets
    BY <1>5
  <2>2. x \in Call
    BY <2>1, IdleType DEF Call
  <2> HIDE DEF closed
  <2> QED
    BY <2>2 DEF Idle
<1> HIDE DEF x
<1>7. call'[c] = x /\ \A d \in Calls : d # c => call'[d] = call[d]
  BY <1>1 DEF AuthInv, AuthTypeOK
<1>8. \A d \in Calls : call'[d].phase \notin Locking
  BY <1>6, <1>7, NobodyAssumption DEF AuthInv, UserRowIsHeld, UserIsFree, Locking
<1>9. AuthTypeOK'
  <2>1. logouts' \in 0..MaxTickets
    BY <1>1, <1>4, StampIsNumber, AuthBoundsAssumption
    DEF AuthInv, AuthTypeOK, SelectionsKnowLogouts
  <2>2. session' \in [Tickets -> Session]
    BY <1>1, <1>2
  <2> QED
    BY <1>1, <1>6, <2>1, <2>2 DEF AuthInv, AuthTypeOK
<1>10. UserRowIsHeld'
  BY <1>8, NobodyAssumption DEF UserRowIsHeld, UserIsFree, Locking
<1>11. TicketsAreMade' /\ CallsMakeTheirTicket'
  BY <1>6, <1>7 DEF AuthInv, TicketsAreMade, CallsMakeTheirTicket, IsMade
<1>12. RowsNameTheirTicket'
  BY <1>2 DEF AuthInv, RowsNameTheirTicket, Exists
<1>13. TransactionsKnowTheirRows'
  <2> SUFFICES ASSUME NEW d \in Calls
               PROVE  RemovesUnusable(d)'
    BY <1>8 DEF TransactionsKnowTheirRows, OpensOneSession, RotatesOneSession, Locking
  <2>1. CASE d = c
    <3>1. \A n \in x.gone : IsMade(n) /\ record[n].session \in Tickets
                           /\ session'[record[n].session].status = "revoked"
      BY <1>2, <1>5, <1>6, AuthBoundsAssumption DEF IsMade, Tickets
    <3> QED
      BY <1>6, <1>7, <2>1, <3>1 DEF RemovesUnusable, IsMade
  <2>2. CASE d # c
    <3>1. RemovesUnusable(d) /\ call'[d] = call[d] /\ call[d].gone \subseteq Tickets
      BY <1>7, <2>2 DEF AuthInv, TransactionsKnowTheirRows, AuthTypeOK, Call
    <3>2. \A n \in Tickets : IsMade(n) => record[n].session \in Tickets
      BY AuthBoundsAssumption, SMTT(30) DEF AuthInv, AuthTypeOK, IsMade, Record, Tickets
    <3> QED
      BY <1>2, <3>1, <3>2 DEF RemovesUnusable, Exists, IsMade
  <2> QED
    BY <2>1, <2>2
<1>14. SelectionsKnowLogouts'
  <2>1. logouts \in Nat /\ RevocationStamp \in Nat /\ RevocationStamp' \in Nat
        /\ logouts <= RevocationStamp
    BY <1>4, StampIsNumber, AuthBoundsAssumption DEF AuthInv, AuthTypeOK, SelectionsKnowLogouts
  <2>2. \A k \in Selections : selection[k].stamp \in Nat
    BY AuthBoundsAssumption DEF AuthInv, AuthTypeOK, Selection
  <2>3. \A k \in Selections : selection[k].stamp < RevocationStamp'
    BY <1>4, <2>1, <2>2 DEF AuthInv, SelectionsKnowLogouts
  <2>4. logouts' <= RevocationStamp'
    BY <1>1, <1>4, <2>1
  <2> QED
    BY <1>2, <1>4, <2>1, <2>2, <2>3, <2>4 DEF AuthInv, SelectionsKnowLogouts, Exists
<1>15. ClientsKnowTheirTicket'
  BY <1>2 DEF AuthInv, ClientsKnowTheirTicket, Exists
<1>16. SessionsComeFromSignIns'
  BY <1>2 DEF AuthInv, SessionsComeFromSignIns
<1>17. RefreshStaysPossible'
  BY <1>2 DEF RefreshStaysPossible
<1> QED
  BY <1>9, <1>10, <1>11, <1>12, <1>13, <1>14, <1>15, <1>16, <1>17 DEF AuthInv

LEMMA LogoutByAccessKeeps ==
  ASSUME AuthInv, NEW c \in Calls, NEW t \in Tickets, LogoutByAccess(c, t)
  PROVE  AuthInv'
PROOF
<1>1. call[c].phase \notin Locking
  BY DEF LogoutByAccess, At, Locking
<1> QED
  BY <1>1, RevokeUserKeeps DEF LogoutByAccess

LEMMA LogoutByRefreshKeeps ==
  ASSUME AuthInv, NEW c \in Calls, LogoutByRefresh(c)
  PROVE  AuthInv'
PROOF
<1>1. call[c].phase \notin Locking
  BY DEF LogoutByRefresh, At, Locking
<1>2. call[c].ticket \in Tickets
  BY DEF LogoutByRefresh, AuthInv, AuthTypeOK
<1> QED
  BY <1>1, <1>2, RevokeUserKeeps DEF LogoutByRefresh

-----------------------------------------------------------------------------
(* Signing in *)

LEMMA IssueSelectionKeeps ==
  ASSUME AuthInv, NEW c \in Calls, NEW k \in Selections, IssueSelection(c, k)
  PROVE  AuthInv'
PROOF
<1> DEFINE x == [password |-> account.password, stamp |-> RevocationStamp, since |-> logouts]
<1>1. /\ call[c].phase = "verified" /\ selection[k] = NoSelection
      /\ selection' = [selection EXCEPT ![k] = x] /\ offered' = offered \cup {k}
      /\ call' = [call EXCEPT ![c] = Idle]
      /\ UNCHANGED <<session, record, stored, known, holder, account, logouts, broken>>
  BY DEF IssueSelection, At, Leaves
<1>2. x \in Selection /\ x.password # 0 /\ x.stamp = RevocationStamp /\ x.since = logouts
  BY StampIsNumber, AuthBoundsAssumption DEF AuthInv, AuthTypeOK, Account, Selection
<1> HIDE DEF x
<1>3. /\ call'[c] = Idle /\ \A d \in Calls : d # c => call'[d] = call[d]
      /\ selection'[k] = x /\ \A j \in Selections : j # k => selection'[j] = selection[j]
  BY <1>1 DEF AuthInv, AuthTypeOK
<1>4. selection[k].password = 0 /\ \A s \in Tickets : session[s].selection # k
  <2>1. selection[k].password = 0 /\ k # 0
    BY <1>1, AuthBoundsAssumption DEF NoSelection, Selections
  <2>2. ASSUME NEW s \in Tickets, session[s].selection = k
        PROVE  FALSE
    <3>1. CASE Exists(s)
      BY <2>1, <2>2, <3>1 DEF AuthInv, SelectionsKnowLogouts
    <3>2. CASE ~ Exists(s)
      BY <2>1, <2>2, <3>2 DEF AuthInv, RowsNameTheirTicket, NoSession
    <3> QED
      BY <3>1, <3>2
  <2> QED
    BY <2>1, <2>2
<1>5. AuthTypeOK'
  BY <1>1, <1>2, IdleType DEF AuthInv, AuthTypeOK
<1>6. UserRowIsHeld' /\ TicketsAreMade' /\ CallsMakeTheirTicket' /\ RowsNameTheirTicket'
  BY <1>1, <1>3, IdleType
  DEF AuthInv, UserRowIsHeld, TicketsAreMade, CallsMakeTheirTicket, RowsNameTheirTicket, IsMade,
      Exists
<1>7. TransactionsKnowTheirRows'
  <2> SUFFICES ASSUME NEW d \in Calls
               PROVE  (OpensOneSession(d) /\ RotatesOneSession(d) /\ RemovesUnusable(d))'
    BY DEF TransactionsKnowTheirRows
  <2>1. CASE d = c
    BY <1>3, <2>1, IdleType DEF OpensOneSession, RotatesOneSession, RemovesUnusable
  <2>2. CASE d # c
    <3>1. /\ OpensOneSession(d) /\ RotatesOneSession(d) /\ RemovesUnusable(d)
          /\ call'[d] = call[d]
      BY <1>3, <2>2 DEF AuthInv, TransactionsKnowTheirRows
    <3>2. OpensOneSession(d)'
      BY <1>1, <1>3, <1>4, <3>1 DEF OpensOneSession, Exists
    <3>3. RotatesOneSession(d)' /\ RemovesUnusable(d)'
      BY <1>1, <3>1 DEF RotatesOneSession, RemovesUnusable, Exists, IsMade
    <3> QED
      BY <3>2, <3>3
  <2> QED
    BY <2>1, <2>2
<1>8. SelectionsKnowLogouts'
  <2>1. RevocationStamp' = RevocationStamp /\ RevocationStamp \in Nat
    BY <1>1, StampStays, StampIsNumber
  <2>2. selection'[k].stamp <= RevocationStamp
    BY <1>2, <1>3, <2>1
  <2> QED
    BY <1>1, <1>2, <1>3, <1>4, <2>1, <2>2 DEF AuthInv, SelectionsKnowLogouts, Exists
<1>9. ClientsKnowTheirTicket' /\ RefreshStaysPossible'
  <2>1. \A d \in Calls : call[d].phase = "rotated" => d # c /\ call'[d] = call[d]
    BY <1>1, <1>3
  <2> QED
    BY <1>1, <2>1
    DEF AuthInv, ClientsKnowTheirTicket, RefreshStaysPossible, RefreshAccepted, IsLive, Matches,
        Exists, At
<1>10. SessionsComeFromSignIns'
  <2>1. \A s \in Tickets : Exists(s) => selection'[session[s].selection] = selection[session[s].selection]
    BY <1>3, <1>4 DEF AuthInv, SelectionsKnowLogouts
  <2> QED
    BY <1>1, <2>1 DEF AuthInv, SessionsComeFromSignIns, Exists
<1> QED
  BY <1>5, <1>6, <1>7, <1>8, <1>9, <1>10 DEF AuthInv

LEMMA ConsumeSelectionKeeps ==
  ASSUME AuthInv, NEW c \in Calls, ConsumeSelection(c)
  PROVE  AuthInv'
PROOF
<1> DEFINE k == call[c].selection
           x == [call[c] EXCEPT !.phase = "consumed", !.version = account.version]
<1>1. /\ call[c].phase = "choosing" /\ holder = Nobody /\ k \in offered
      /\ selection[k].stamp = RevocationStamp /\ offered' = offered \ {k}
      /\ UNCHANGED <<session, record, stored, selection, known, account, logouts, broken>>
  BY DEF ConsumeSelection, MayChoose, At, UserIsFree
<1>2. CASE Leaves(c) /\ UNCHANGED holder
  BY <1>1, <1>2, IdleType, QuietCall DEF Leaves, Locking
<1>3. CASE /\ holder' = c
           /\ call' = [call EXCEPT ![c].phase = "consumed", ![c].version = account.version]
  <2>1. call' = [call EXCEPT ![c] = x]
    BY <1>3 DEF AuthInv, AuthTypeOK
  <2>2. /\ x \in Call /\ x.phase = "consumed" /\ x.selection = k
        /\ x.fresh = call[c].fresh
    BY ZenonT(40) DEF AuthInv, AuthTypeOK, Account, Call
  <2> HIDE DEF x
  <2>3. call'[c] = x /\ \A d \in Calls : d # c => call'[d] = call[d]
    BY <2>1 DEF AuthInv, AuthTypeOK
  <2>4. /\ k \in Selections /\ selection[k].password # 0 /\ selection[k].since = logouts
        /\ \A s \in Tickets : session[s].selection # k
    BY <1>1 DEF AuthInv, AuthTypeOK, SelectionsKnowLogouts
  <2>5. AuthTypeOK'
    BY <1>1, <1>3, <2>1, <2>2 DEF AuthInv, AuthTypeOK
  <2>6. UserRowIsHeld'
    BY <1>1, <1>3, <2>2, <2>3, NobodyAssumption DEF AuthInv, UserRowIsHeld
  <2>7. TicketsAreMade' /\ CallsMakeTheirTicket' /\ RowsNameTheirTicket'
    BY <1>1, <2>2, <2>3
    DEF AuthInv, TicketsAreMade, CallsMakeTheirTicket, RowsNameTheirTicket, IsMade, Exists
  <2>8. TransactionsKnowTheirRows'
    <3> SUFFICES ASSUME NEW d \in Calls
                 PROVE  (OpensOneSession(d) /\ RotatesOneSession(d) /\ RemovesUnusable(d))'
      BY DEF TransactionsKnowTheirRows
    <3>1. CASE d = c
      BY <1>1, <2>2, <2>3, <2>4, <3>1
      DEF OpensOneSession, RotatesOneSession, RemovesUnusable
    <3>2. CASE d # c
      <4>1. OpensOneSession(d) /\ RotatesOneSession(d) /\ RemovesUnusable(d) /\ call'[d] = call[d]
        BY <2>3, <3>2 DEF AuthInv, TransactionsKnowTheirRows
      <4> QED
        BY <1>1, <4>1 DEF OpensOneSession, RotatesOneSession, RemovesUnusable, Exists, IsMade
    <3> QED
      BY <3>1, <3>2
  <2>9. SelectionsKnowLogouts'
    BY <1>1, StampStays DEF AuthInv, SelectionsKnowLogouts, Exists
  <2>10. ClientsKnowTheirTicket' /\ SessionsComeFromSignIns'
    BY <1>1 DEF AuthInv, ClientsKnowTheirTicket, SessionsComeFromSignIns, Exists
  <2>11. RefreshStaysPossible'
    <3>1. \A d \in Calls : call[d].phase = "rotated" => d # c /\ call'[d] = call[d]
      BY <1>1, <2>3
    <3> QED
      BY <1>1, <3>1 DEF AuthInv, RefreshStaysPossible, RefreshAccepted, IsLive, Matches, At
  <2> QED
    BY <2>5, <2>6, <2>7, <2>8, <2>9, <2>10, <2>11 DEF AuthInv
<1> QED
  BY <1>2, <1>3 DEF ConsumeSelection

(* Nothing knows a ticket that was not made.                               *)
LEMMA FreshTicket ==
  ASSUME AuthInv, NEW t \in Tickets, IsFresh(t)
  PROVE  /\ t \in Nat /\ t # 0 /\ t <= MaxTickets /\ ~ IsMade(t) /\ ~ Exists(t) /\ t \notin stored
         /\ \A u \in Tickets : u < t <=> IsMade(u)
         /\ \A u \in Tickets : record[u].session # t
         /\ \A s \in Tickets : Exists(s) => session[s].ticket # t
         /\ \A c \in Calls : call[c].fresh # t
PROOF
<1>1. t \in Nat /\ t # 0 /\ t <= MaxTickets /\ \A u \in Tickets : u \in Nat
  BY AuthBoundsAssumption DEF Tickets
<1>2. ~ IsMade(t)
  BY DEF IsFresh, NoRecord, IsMade
<1>3. \A u \in Tickets : u < t => IsMade(u)
  BY <1>1, AuthBoundsAssumption DEF IsFresh, AuthInv, TicketsAreMade, Tickets
<1>4. \A u \in Tickets : IsMade(u) => u < t
  BY <1>1, <1>2 DEF AuthInv, TicketsAreMade
<1>5. \A u \in Tickets : record[u].session # t
  BY <1>1, <1>2 DEF AuthInv, TicketsAreMade, IsMade
<1>6. ~ Exists(t)
  BY <1>5 DEF AuthInv, RowsNameTheirTicket
<1>7. \A s \in Tickets : Exists(s) => session[s].ticket # t
  BY <1>2, AuthBoundsAssumption DEF AuthInv, RowsNameTheirTicket, IsMade, Tickets
<1>8. t \notin stored /\ \A c \in Calls : call[c].fresh # t
  BY <1>1, <1>2 DEF AuthInv, CallsMakeTheirTicket
<1> QED
  BY <1>1, <1>2, <1>3, <1>4, <1>5, <1>6, <1>7, <1>8

(* A ticket is added to those of its session, or opens a new one.          *)
LEMMA TicketIsAdded ==
  ASSUME AuthInv, NEW t \in Tickets, IsFresh(t), NEW r \in Record,
         record' = [record EXCEPT ![t] = r], r.session # 0, r.rotation < t,
         r.session = t \/ (r.session \in Tickets /\ record[r.session].session = r.session),
         \A u \in Tickets : record[u].session = r.session => record[u].rotation # r.rotation
  PROVE  /\ TicketsAreMade'
         /\ record'[t] = r /\ \A u \in Tickets : u # t => record'[u] = record[u]
         /\ \A u \in Tickets : IsMade(u)' <=> IsMade(u) \/ u = t
PROOF
<1>1. /\ t \in Nat /\ t # 0 /\ ~ IsMade(t)
      /\ \A u \in Tickets : u < t <=> IsMade(u)
      /\ \A u \in Tickets : record[u].session # t
  BY FreshTicket
<1>2. record'[t] = r /\ \A u \in Tickets : u # t => record'[u] = record[u]
  BY DEF AuthInv, AuthTypeOK
<1>3. \A u \in Tickets : IsMade(u)' <=> IsMade(u) \/ u = t
  BY <1>1, <1>2 DEF IsMade
<1>4. \A u \in Tickets : ~ IsMade(u)' => record'[u] = NoRecord
  BY <1>2, <1>3 DEF AuthInv, TicketsAreMade
<1>5. \A u, v \in Tickets : IsMade(u)' /\ v < u => IsMade(v)'
  BY <1>1, <1>3 DEF AuthInv, TicketsAreMade
<1>6. ASSUME NEW u \in Tickets, IsMade(u)'
      PROVE  /\ record'[record'[u].session].session = record'[u].session
             /\ record'[u].rotation < u
  <2>1. CASE u = t
    BY <1>1, <1>2, <2>1
  <2>2. CASE u # t
    <3>1. IsMade(u) /\ record'[u] = record[u] /\ record[u].session \in Tickets
      BY <1>2, <1>3, <1>6, <2>2, AuthBoundsAssumption
      DEF AuthInv, AuthTypeOK, Record, Tickets, IsMade
    <3>2. record[u].session # t
      BY <1>1
    <3> QED
      BY <1>2, <3>1, <3>2 DEF AuthInv, TicketsAreMade
  <2> QED
    BY <2>1, <2>2
<1>7. ASSUME NEW u \in Tickets, NEW v \in Tickets, IsMade(u)',
             record'[u].session = record'[v].session, record'[u].rotation = record'[v].rotation
      PROVE  u = v
  BY <1>2, <1>3, <1>7 DEF AuthInv, TicketsAreMade
<1> QED
  BY <1>2, <1>3, <1>4, <1>5, <1>6, <1>7 DEF TicketsAreMade

(* The request that made it is the only one that knows it.                 *)
LEMMA MakerKnowsTicket ==
  ASSUME AuthInv, NEW c \in Calls, NEW t \in Tickets, IsFresh(t), call'[c].fresh = t,
         \A d \in Calls : d # c => call'[d] = call[d],
         \A u \in Tickets : IsMade(u)' <=> IsMade(u) \/ u = t,
         stored' \subseteq stored \cup {t}
  PROVE  CallsMakeTheirTicket'
PROOF
<1>1. \A d \in Calls : d # c => call'[d].fresh = call[d].fresh /\ call[d].fresh # t
  BY FreshTicket
<1>2. \A d \in Calls : call[d].fresh \in 0..MaxTickets
  BY DEF AuthInv, AuthTypeOK, Call
<1>3. \A d \in Calls : call[d].fresh # 0 => call[d].fresh \in Tickets
  BY <1>2, AuthBoundsAssumption DEF Tickets
<1>4. \A d \in Calls : call'[d].fresh # 0 => IsMade(call[d].fresh)'
  BY <1>1, <1>3 DEF AuthInv, CallsMakeTheirTicket, IsMade
<1>5. \A u \in stored' : IsMade(u)'
  BY DEF AuthInv, AuthTypeOK, CallsMakeTheirTicket
<1> QED
  BY <1>1, <1>4, <1>5 DEF AuthInv, CallsMakeTheirTicket, IsMade

LEMMA PutRefreshKeeps ==
  ASSUME AuthInv, NEW c \in Calls, NEW t \in Tickets, PutRefresh(c, t)
  PROVE  AuthInv'
PROOF
<1> DEFINE r == [session |-> t, rotation |-> 0, version |-> call[c].version]
           Next(phase) == [call[c] EXCEPT !.phase = phase, !.fresh = t]
           x == call'[c]
<1>1. /\ call[c].phase = "consumed" /\ holder = c /\ IsFresh(t)
      /\ record' = [record EXCEPT ![t] = r] /\ stored' = stored \cup {t}
      /\ UNCHANGED <<session, selection, offered, known, account, logouts, broken>>
  BY DEF PutRefresh, At, AuthInv, UserRowIsHeld
<1>2. r \in Record /\ r.session = t /\ r.rotation = 0
  <2>1. call[c].version \in 0..MaxChanges
    BY DEF AuthInv, AuthTypeOK, Call
  <2> QED
    BY <2>1, AuthBoundsAssumption DEF Record, Tickets
<1>3. /\ x \in Call /\ call' = [call EXCEPT ![c] = x] /\ x.fresh = t
      /\ x.selection = call[c].selection /\ call'[c] = x
      /\ \/ x.phase = "opened" /\ holder' = c
         \/ x.phase = "failing" /\ holder' = Nobody
      /\ \A d \in Calls : d # c => call'[d] = call[d]
  <2>1. ASSUME NEW phase \in {"opened", "failing"}
        PROVE  /\ Next(phase) \in Call /\ Next(phase).phase = phase /\ Next(phase).fresh = t
               /\ Next(phase).selection = call[c].selection
    <3>1. call[c] \in Call /\ t \in 0..MaxTickets
      BY AuthBoundsAssumption DEF AuthInv, AuthTypeOK, Tickets
    <3> QED
      BY <3>1 DEF Call
  <2>2. \A phase \in {"opened", "failing"} :
          call' = [call EXCEPT ![c].phase = phase, ![c].fresh = t] =>
            call' = [call EXCEPT ![c] = Next(phase)] /\ x = Next(phase)
    BY DEF AuthInv, AuthTypeOK
  <2> HIDE DEF Next, x
  <2>3. \/ /\ call' = [call EXCEPT ![c].phase = "opened", ![c].fresh = t] /\ holder' = c
        \/ /\ call' = [call EXCEPT ![c].phase = "failing", ![c].fresh = t] /\ holder' = Nobody
    BY <1>1 DEF PutRefresh
  <2>4. x \in Call /\ call' = [call EXCEPT ![c] = x] /\ x.fresh = t
        /\ x.selection = call[c].selection
        /\ \/ x.phase = "opened" /\ holder' = c
           \/ x.phase = "failing" /\ holder' = Nobody
    BY <2>1, <2>2, <2>3
  <2> QED
    BY <2>4 DEF AuthInv, AuthTypeOK
<1> HIDE DEF r, x
<1>4. /\ t \in Nat /\ t # 0 /\ ~ IsMade(t) /\ ~ Exists(t) /\ t \notin stored
      /\ \A u \in Tickets : u < t <=> IsMade(u)
      /\ \A u \in Tickets : record[u].session # t
      /\ \A s \in Tickets : Exists(s) => session[s].ticket # t
      /\ \A d \in Calls : call[d].fresh # t
  BY <1>1, FreshTicket
<1>5. record'[t] = r /\ \A u \in Tickets : u # t => record'[u] = record[u]
  BY <1>1 DEF AuthInv, AuthTypeOK
<1>6. \A d \in Calls : d # c => call[d].phase \notin Locking /\ call'[d] = call[d]
  BY <1>1, <1>3 DEF AuthInv, UserRowIsHeld, Locking
<1>7. AuthTypeOK'
  BY <1>1, <1>2, <1>3 DEF AuthInv, AuthTypeOK
<1>8. UserRowIsHeld'
  <2>1. \A d \in Calls : d # c => call'[d].phase \notin Locking /\ holder' # d
    BY <1>3, <1>6, NobodyAssumption
  <2>2. call'[c].phase \in Locking <=> holder' = c
    BY <1>3, NobodyAssumption DEF Locking
  <2> QED
    BY <2>1, <2>2 DEF UserRowIsHeld, Locking
<1>9. TicketsAreMade' /\ \A u \in Tickets : IsMade(u)' <=> IsMade(u) \/ u = t
  <2>1. /\ r.session # 0 /\ r.rotation < t /\ r.session = t
        /\ \A u \in Tickets : record[u].session = r.session => record[u].rotation # r.rotation
    <3>1. r.session = t /\ r.rotation = 0
      BY <1>2
    <3>2. t \in Nat /\ t # 0
      BY <1>4
    <3>3. r.rotation < t /\ r.session # 0
      BY <3>1, <3>2
    <3> QED
      BY <1>4, <3>1, <3>3
  <2>2. IsFresh(t) /\ r \in Record /\ record' = [record EXCEPT ![t] = r]
    BY <1>1, <1>2
  <2> QED
    BY <2>1, <2>2, TicketIsAdded
<1>10. CallsMakeTheirTicket'
  BY <1>1, <1>3, <1>9, MakerKnowsTicket
<1>11. RowsNameTheirTicket'
  BY <1>1, <1>2, <1>4, <1>5 DEF AuthInv, RowsNameTheirTicket, Exists
<1>12. TransactionsKnowTheirRows'
  <2> SUFFICES ASSUME NEW d \in Calls
               PROVE  (OpensOneSession(d) /\ RotatesOneSession(d) /\ RemovesUnusable(d))'
    BY DEF TransactionsKnowTheirRows
  <2>0. OpensOneSession(d) /\ RotatesOneSession(d) /\ RemovesUnusable(d)
    BY DEF AuthInv, TransactionsKnowTheirRows
  <2>1. CASE d = c
    BY <1>1, <1>2, <1>3, <1>4, <1>5, <2>0, <2>1
    DEF OpensOneSession, RotatesOneSession, RemovesUnusable, Exists
  <2>2. CASE d # c
    <3>1. \A u \in call[d].gone : u \in Tickets
      BY DEF AuthInv, AuthTypeOK, Call
    <3> QED
      BY <1>1, <1>4, <1>5, <1>6, <2>0, <2>2, <3>1
      DEF OpensOneSession, RotatesOneSession, RemovesUnusable, Exists, IsMade, Locking
  <2> QED
    BY <2>1, <2>2
<1>13. SelectionsKnowLogouts'
  BY <1>1, StampStays DEF AuthInv, SelectionsKnowLogouts, Exists
<1>14. ClientsKnowTheirTicket' /\ SessionsComeFromSignIns'
  BY <1>1 DEF AuthInv, ClientsKnowTheirTicket, SessionsComeFromSignIns, Exists
<1>15. RefreshStaysPossible'
  <2> SUFFICES ASSUME NEW s \in Tickets, session[s].status = "live", s \notin broken
               PROVE  session[s].ticket \in known /\ RefreshAccepted(session[s].ticket)'
    BY <1>1 DEF RefreshStaysPossible
  <2>1. \A d \in Calls : call[d].phase # "rotated"
    BY <1>1, <1>6 DEF Locking
  <2>2. session[s].ticket \in known /\ RefreshAccepted(session[s].ticket)
    BY <2>1 DEF AuthInv, RefreshStaysPossible, At
  <2>3. session[s].ticket \in Tickets /\ record'[session[s].ticket] = record[session[s].ticket]
    BY <1>4, <1>5 DEF AuthInv, RowsNameTheirTicket, Exists
  <2> QED
    BY <1>1, <2>2, <2>3 DEF RefreshAccepted, IsLive, Matches
<1> QED
  BY <1>7, <1>8, <1>9, <1>10, <1>11, <1>12, <1>13, <1>14, <1>15 DEF AuthInv

LEMMA CommitSelectionKeeps ==
  ASSUME AuthInv, NEW c \in Calls, CommitSelection(c)
  PROVE  AuthInv'
PROOF
<1> DEFINE t == call[c].fresh
           k == call[c].selection
           row == [status |-> "live", ticket |-> t, rotation |-> 0, selection |-> k]
           x == call'[c]
<1>1. /\ call[c].phase = "opened" /\ holder = c /\ holder' = Nobody
      /\ session' = [session EXCEPT ![t] = row]
      /\ UNCHANGED <<record, stored, selection, offered, account, logouts>>
      /\ broken \subseteq broken' /\ known \subseteq known' /\ known' \subseteq Tickets
      /\ broken' \subseteq Tickets
  <2>1. call[c].phase = "opened" /\ holder = c
    BY DEF CommitSelection, At, AuthInv, UserRowIsHeld
  <2>2. t \in Tickets
    BY <2>1 DEF AuthInv, TransactionsKnowTheirRows, OpensOneSession
  <2> QED
    BY <2>1, <2>2 DEF CommitSelection, AuthInv, AuthTypeOK
<1>2. /\ k \in Selections /\ k \notin offered /\ selection[k].password # 0
      /\ selection[k].since = logouts /\ \A s \in Tickets : session[s].selection # k
      /\ t \in Tickets /\ t # 0 /\ ~ Exists(t) /\ record[t].session = t
      /\ record[t].rotation = 0 /\ t \in stored \cup broken
  BY <1>1, AuthBoundsAssumption
  DEF AuthInv, TransactionsKnowTheirRows, OpensOneSession, Tickets
<1>3. row \in Session /\ row.status = "live" /\ row.ticket = t /\ row.rotation = 0
      /\ row.selection = k
  BY <1>2, AuthBoundsAssumption DEF Session, Tickets, Selections
<1>4. /\ x \in Call /\ call' = [call EXCEPT ![c] = x] /\ call'[c] = x
      /\ \/ x.phase = "idle" /\ x.fresh = 0 /\ t \in known'
         \/ x.phase = "failing" /\ x.fresh = t /\ t \in broken'
      /\ \A d \in Calls : d # c => call'[d] = call[d]
  <2>1. CASE known' = known \cup {t} /\ Leaves(c)
    BY <2>1, IdleType DEF Leaves, AuthInv, AuthTypeOK
  <2>2. CASE broken' = broken \cup {t} /\ Moved(c, "failing")
    <3>1. [call[c] EXCEPT !.phase = "failing"] \in Call
      BY DEF AuthInv, AuthTypeOK, Call
    <3>2. call[c] \in Call
      BY DEF AuthInv, AuthTypeOK
    <3>3. x = [call[c] EXCEPT !.phase = "failing"]
      BY <2>2 DEF Moved, AuthInv, AuthTypeOK
    <3>4. x.phase = "failing" /\ x.fresh = t
      BY <3>2, <3>3 DEF Call
    <3> QED
      BY <2>2, <3>1, <3>3, <3>4 DEF Moved, AuthInv, AuthTypeOK
  <2> QED
    BY <2>1, <2>2 DEF CommitSelection
<1> HIDE DEF row, x
<1>5. session'[t] = row /\ \A s \in Tickets : s # t => session'[s] = session[s]
  BY <1>1, <1>2 DEF AuthInv, AuthTypeOK
<1>6. \A d \in Calls : d # c =>
        call[d].phase \notin Locking /\ call'[d] = call[d] /\ call[d].fresh # t
  BY <1>1, <1>2, <1>4 DEF AuthInv, UserRowIsHeld, CallsMakeTheirTicket, Locking
<1>7. AuthTypeOK'
  BY <1>1, <1>2, <1>3, <1>4 DEF AuthInv, AuthTypeOK
<1>8. UserRowIsHeld'
  BY <1>1, <1>4, <1>6, NobodyAssumption DEF UserRowIsHeld, Locking
<1>9. TicketsAreMade' /\ CallsMakeTheirTicket'
  BY <1>1, <1>4 DEF AuthInv, TicketsAreMade, CallsMakeTheirTicket, IsMade
<1>10. RowsNameTheirTicket'
  <2> SUFFICES ASSUME NEW s \in Tickets
               PROVE  RowsNameTheirTicket!(s)'
    BY DEF RowsNameTheirTicket
  <2>1. CASE s = t
    <3>1. \A u \in Tickets : record[u].session = t => u = t
      BY <1>2 DEF AuthInv, RowsNameTheirTicket
    <3> QED
      BY <1>1, <1>2, <1>3, <1>5, <2>1, <3>1 DEF Exists
  <2>2. CASE s # t
    BY <1>1, <1>5, <2>2 DEF AuthInv, RowsNameTheirTicket, Exists
  <2> QED
    BY <2>1, <2>2
<1>11. TransactionsKnowTheirRows'
  <2> SUFFICES ASSUME NEW d \in Calls
               PROVE  (OpensOneSession(d) /\ RotatesOneSession(d) /\ RemovesUnusable(d))'
    BY DEF TransactionsKnowTheirRows
  <2>1. call'[d].phase \notin Locking
    BY <1>4, <1>6 DEF Locking
  <2>2. ASSUME call'[d].phase = "failing", NEW s \in Tickets, Exists(s)',
               session'[s].ticket = call'[d].fresh
        PROVE  s \in broken'
    <3>1. CASE d = c
      <4>1. CASE s = t
        BY <1>4, <2>2, <3>1, <4>1
      <4>2. CASE s # t
        BY <1>2, <1>4, <1>5, <2>2, <3>1, <4>2 DEF AuthInv, RowsNameTheirTicket, Exists
      <4> QED
        BY <4>1, <4>2
    <3>2. CASE d # c
      <4>1. RemovesUnusable(d) /\ call'[d] = call[d] /\ call[d].fresh # t
        BY <1>6, <3>2 DEF AuthInv, TransactionsKnowTheirRows
      <4> QED
        BY <1>1, <1>3, <1>5, <2>2, <4>1 DEF RemovesUnusable, Exists
    <3> QED
      BY <3>1, <3>2
  <2>3. ASSUME call'[d].phase = "revoked", NEW u \in call'[d].gone
        PROVE  (IsMade(u) /\ session[record[u].session].status = "revoked")'
    <3>1. d # c /\ call'[d] = call[d] /\ RemovesUnusable(d) /\ u \in Tickets
      BY <1>4, <1>6, <2>3 DEF AuthInv, AuthTypeOK, Call, TransactionsKnowTheirRows
    <3>2. IsMade(u) /\ session[record[u].session].status = "revoked"
      BY <2>3, <3>1 DEF RemovesUnusable
    <3>3. record[u].session \in Tickets /\ record[u].session # t
      BY <1>2, <3>1, <3>2, AuthBoundsAssumption
      DEF AuthInv, AuthTypeOK, Record, Tickets, IsMade, Exists
    <3> QED
      BY <1>1, <1>5, <3>2, <3>3 DEF IsMade
  <2> QED
    BY <2>1, <2>2, <2>3 DEF OpensOneSession, RotatesOneSession, RemovesUnusable, Locking
<1>12. SelectionsKnowLogouts'
  <2>1. RevocationStamp' = RevocationStamp
    BY <1>2, <1>3, <1>5, StampStays DEF Exists
  <2> QED
    BY <1>1, <1>2, <1>3, <1>5, <2>1 DEF AuthInv, SelectionsKnowLogouts, Exists
<1>13. ClientsKnowTheirTicket'
  <2>1. t \in known' \/ t \in broken'
    BY <1>4
  <2> QED
    BY <1>1, <1>3, <1>5, <2>1 DEF AuthInv, ClientsKnowTheirTicket, Exists
<1>14. SessionsComeFromSignIns'
  BY <1>1, <1>2, <1>3, <1>5 DEF AuthInv, SessionsComeFromSignIns, Exists
<1>15. RefreshStaysPossible'
  <2> SUFFICES ASSUME NEW s \in Tickets, session'[s].status = "live", s \notin broken'
               PROVE  (session[s].ticket \in known /\ RefreshAccepted(session[s].ticket))'
    BY DEF RefreshStaysPossible
  <2>1. CASE s = t
    <3>1. t \in known' /\ t \in stored
      BY <1>1, <1>2, <1>4, <2>1
    <3> QED
      BY <1>1, <1>2, <1>3, <1>5, <2>1, <3>1, SMTT(30) DEF RefreshAccepted, IsLive, Matches
  <2>2. CASE s # t
    <3>1. \A d \in Calls : call[d].phase # "rotated"
      BY <1>1, <1>6 DEF Locking
    <3>2. session'[s] = session[s] /\ s \notin broken
      BY <1>1, <1>5, <2>2
    <3>3. session[s].ticket \in known /\ RefreshAccepted(session[s].ticket)
      BY <3>1, <3>2 DEF AuthInv, RefreshStaysPossible, At
    <3>4. record[session[s].ticket].session = s
      BY <3>2 DEF AuthInv, RowsNameTheirTicket, Exists
    <3> QED
      BY <1>1, <3>2, <3>3, <3>4 DEF RefreshAccepted, IsLive, Matches
  <2> QED
    BY <2>1, <2>2
<1> QED
  BY <1>7, <1>8, <1>9, <1>10, <1>11, <1>12, <1>13, <1>14, <1>15 DEF AuthInv

-----------------------------------------------------------------------------
(* Refreshing *)

(* The ticket that is accepted is the one of its row, and nothing newer of *)
(* its session was made.                                                   *)
LEMMA AcceptedIsTheRows ==
  ASSUME AuthInv, NEW t \in Tickets, IsLive(t), Matches(t), t \in stored
  PROVE  LET s == record[t].session
         IN /\ s \in Tickets /\ session[s].ticket = t
            /\ \A u \in Tickets : record[u].session = s =>
                 record[u].rotation # record[t].rotation + 1
PROOF
<1> DEFINE s == record[t].session
<1>1. s \in Tickets /\ Exists(s) /\ IsMade(t)
  BY AuthBoundsAssumption DEF IsLive, AuthInv, AuthTypeOK, Record, Tickets, Exists, IsMade
<1>2. /\ session[s].ticket \in Tickets /\ record[session[s].ticket].session = s
      /\ record[session[s].ticket].rotation = record[t].rotation
  BY <1>1 DEF AuthInv, RowsNameTheirTicket, Matches
<1>3. session[s].ticket = t
  BY <1>1, <1>2 DEF AuthInv, TicketsAreMade
<1> QED
  BY <1>1, <1>3 DEF AuthInv, RowsNameTheirTicket, Matches

LEMMA RotateKeeps ==
  ASSUME AuthInv, NEW c \in Calls, NEW n \in Tickets, Rotate(c, n)
  PROVE  AuthInv'
PROOF
<1> DEFINE t == call[c].ticket
           s == record[t].session
           r == NextRecord(t)
           x == call'[c]
           Next(phase) == [call[c] EXCEPT !.phase = phase, !.fresh = n]
<1>1. /\ call[c].phase = "refreshing" /\ holder = Nobody /\ IsFresh(n)
      /\ t \in stored /\ t \in Tickets /\ IsLive(t) /\ Matches(t)
      /\ record' = [record EXCEPT ![n] = r] /\ stored' = (stored \ {t}) \cup {n}
      /\ UNCHANGED <<session, selection, offered, known, account, logouts>>
  BY DEF Rotate, At, UserIsFree, AuthInv, AuthTypeOK
<1>2. /\ s \in Tickets /\ session[s].ticket = t /\ session[s].status = "live"
      /\ session[s].rotation = record[t].rotation
      /\ \A u \in Tickets : record[u].session = s => record[u].rotation # record[t].rotation + 1
  BY <1>1, AcceptedIsTheRows DEF IsLive, Matches
<1>3. /\ n \in Nat /\ n <= MaxTickets /\ ~ IsMade(n) /\ n # t /\ t < n /\ t \in Nat
      /\ \A u \in Tickets : record[u].session # n
      /\ \A q \in Tickets : Exists(q) => session[q].ticket # n
  <2>1. /\ n \in Nat /\ n <= MaxTickets /\ ~ IsMade(n) /\ n \notin stored
        /\ \A u \in Tickets : u < n <=> IsMade(u)
        /\ \A u \in Tickets : record[u].session # n
        /\ \A q \in Tickets : Exists(q) => session[q].ticket # n
    BY <1>1, FreshTicket
  <2> QED
    BY <1>1, <2>1, AuthBoundsAssumption DEF IsLive, IsMade, Tickets
<1>4. r \in Record /\ r.session = s /\ r.rotation = record[t].rotation + 1 /\ r.rotation < n
      /\ record[s].session = s /\ s # 0
  <2>1. record[t] \in Record /\ IsMade(t) /\ record[t].rotation \in Nat
    BY <1>1, AuthBoundsAssumption DEF IsLive, AuthInv, AuthTypeOK, Record, IsMade
  <2>2. record[s].session = s /\ record[t].rotation < t
    BY <1>1, <2>1 DEF AuthInv, TicketsAreMade
  <2>3. record[t].rotation + 1 < n /\ record[t].rotation + 1 \in 0..MaxTickets
    BY <1>3, <2>1, <2>2, AuthBoundsAssumption
  <2> QED
    BY <1>1, <2>1, <2>2, <2>3 DEF NextRecord, Record, IsLive
<1>5. /\ x \in Call /\ call' = [call EXCEPT ![c] = x] /\ call'[c] = x
      /\ x.fresh = n /\ x.ticket = t
      /\ \/ x.phase = "rotated" /\ holder' = c /\ broken' = broken
         \/ x.phase = "failing" /\ holder' = Nobody /\ broken' = broken \cup {s}
      /\ \A d \in Calls : d # c => call'[d] = call[d]
  <2>1. ASSUME NEW phase \in {"rotated", "failing"}
        PROVE  /\ Next(phase) \in Call /\ Next(phase).phase = phase /\ Next(phase).fresh = n
               /\ Next(phase).ticket = t
    <3>1. call[c] \in Call /\ n \in 0..MaxTickets
      BY AuthBoundsAssumption DEF AuthInv, AuthTypeOK, Tickets
    <3> QED
      BY <3>1 DEF Call
  <2>2. \A phase \in {"rotated", "failing"} :
          call' = [call EXCEPT ![c].phase = phase, ![c].fresh = n] =>
            call' = [call EXCEPT ![c] = Next(phase)] /\ x = Next(phase)
    BY DEF AuthInv, AuthTypeOK
  <2> HIDE DEF Next, x
  <2>3. \/ /\ call' = [call EXCEPT ![c].phase = "rotated", ![c].fresh = n] /\ holder' = c
           /\ broken' = broken
        \/ /\ call' = [call EXCEPT ![c].phase = "failing", ![c].fresh = n] /\ holder' = Nobody
           /\ broken' = broken \cup {s}
    BY <1>1 DEF Rotate
  <2>4. x \in Call /\ call' = [call EXCEPT ![c] = x] /\ x.fresh = n /\ x.ticket = t
        /\ \/ x.phase = "rotated" /\ holder' = c /\ broken' = broken
           \/ x.phase = "failing" /\ holder' = Nobody /\ broken' = broken \cup {s}
    BY <2>1, <2>2, <2>3
  <2> QED
    BY <2>4 DEF x, AuthInv, AuthTypeOK
<1> HIDE DEF r, x
<1>6. /\ TicketsAreMade'
      /\ record'[n] = r /\ \A u \in Tickets : u # n => record'[u] = record[u]
      /\ \A u \in Tickets : IsMade(u)' <=> IsMade(u) \/ u = n
  <2>1. /\ r.session # 0 /\ r.rotation < n /\ r.session \in Tickets
        /\ record[r.session].session = r.session
        /\ \A u \in Tickets : record[u].session = r.session => record[u].rotation # r.rotation
    BY <1>2, <1>4
  <2>2. IsFresh(n) /\ r \in Record /\ record' = [record EXCEPT ![n] = r]
    BY <1>1, <1>4
  <2> QED
    BY <2>1, <2>2, TicketIsAdded
<1>7. \A d \in Calls : call[d].phase \notin Locking
  BY <1>1, NobodyAssumption DEF AuthInv, UserRowIsHeld, Locking
<1>8. AuthTypeOK'
  BY <1>1, <1>2, <1>4, <1>5 DEF AuthInv, AuthTypeOK
<1>9. UserRowIsHeld'
  <2>1. \A d \in Calls : d # c => call'[d].phase \notin Locking /\ holder' # d
    BY <1>5, <1>7, NobodyAssumption
  <2>2. call'[c].phase \in Locking <=> holder' = c
    BY <1>5, NobodyAssumption DEF Locking
  <2> QED
    BY <2>1, <2>2 DEF UserRowIsHeld, Locking
<1>10. CallsMakeTheirTicket'
  BY <1>1, <1>5, <1>6, MakerKnowsTicket
<1>11. RowsNameTheirTicket'
  <2> SUFFICES ASSUME NEW q \in Tickets
               PROVE  RowsNameTheirTicket!(q)'
    BY DEF RowsNameTheirTicket
  <2>1. ASSUME ~ Exists(q), NEW u \in Tickets, record'[u].session = q
        PROVE  u = q
    <3>1. u # n
      BY <1>2, <1>4, <1>6, <2>1 DEF Exists
    <3> QED
      BY <1>6, <2>1, <3>1 DEF AuthInv, RowsNameTheirTicket
  <2>2. ASSUME Exists(q), NEW u \in Tickets, record'[u].session = q
        PROVE  /\ record'[u].rotation <= session[q].rotation + 1
               /\ record'[u].rotation = session[q].rotation + 1 => session[q].ticket \notin stored'
    <3>1. session[q].ticket # n
      BY <1>3, <2>2
    <3>2. CASE u = n
      <4>1. /\ q = s /\ record'[u].rotation = session[q].rotation + 1
            /\ session[q].rotation \in Nat
        BY <1>2, <1>4, <1>6, <2>2, <3>2, AuthBoundsAssumption DEF AuthInv, AuthTypeOK, Session
      <4>2. record'[u].rotation <= session[q].rotation + 1
        BY <4>1
      <4>3. session[q].ticket \notin stored'
        BY <1>1, <1>2, <3>1, <4>1
      <4> QED
        BY <4>2, <4>3
    <3>3. CASE u # n
      <4>1. record'[u] = record[u]
        BY <1>6, <3>3
      <4> QED
        BY <1>1, <2>2, <3>1, <4>1 DEF AuthInv, RowsNameTheirTicket
    <3> QED
      BY <3>2, <3>3
  <2>3. Exists(q) => /\ session[q].ticket \in Tickets
                     /\ record'[session[q].ticket] = record[session[q].ticket]
    BY <1>3, <1>6 DEF AuthInv, RowsNameTheirTicket
  <2> QED
    BY <1>1, <2>1, <2>2, <2>3 DEF AuthInv, RowsNameTheirTicket, Exists
<1>12. TransactionsKnowTheirRows'
  <2> SUFFICES ASSUME NEW d \in Calls
               PROVE  (OpensOneSession(d) /\ RotatesOneSession(d) /\ RemovesUnusable(d))'
    BY DEF TransactionsKnowTheirRows
  <2>1. CASE d = c
    <3>1. OpensOneSession(d)'
      BY <1>5, <2>1 DEF OpensOneSession
    <3>2. RotatesOneSession(d)'
      BY <1>1, <1>2, <1>3, <1>4, <1>5, <1>6, <2>1, SMTT(30) DEF RotatesOneSession
    <3>3. RemovesUnusable(d)'
      BY <1>1, <1>3, <1>5, <2>1 DEF RemovesUnusable, Exists
    <3> QED
      BY <3>1, <3>2, <3>3
  <2>2. CASE d # c
    <3>1. RemovesUnusable(d) /\ call'[d] = call[d] /\ call[d].phase \notin Locking
      BY <1>5, <1>7, <2>2 DEF AuthInv, TransactionsKnowTheirRows
    <3>2. \A u \in call[d].gone : u \in Tickets
      BY DEF AuthInv, AuthTypeOK, Call
    <3>3. \A u \in Tickets : IsMade(u) => IsMade(u)' /\ record'[u] = record[u]
      BY <1>3, <1>6
    <3>4. RemovesUnusable(d)'
      BY <1>1, <1>5, <3>1, <3>2, <3>3 DEF RemovesUnusable, Exists
    <3> QED
      BY <3>1, <3>4 DEF OpensOneSession, RotatesOneSession, Locking
  <2> QED
    BY <2>1, <2>2
<1>13. SelectionsKnowLogouts'
  BY <1>1, StampStays DEF AuthInv, SelectionsKnowLogouts, Exists
<1>14. ClientsKnowTheirTicket' /\ SessionsComeFromSignIns'
  BY <1>1, <1>5 DEF AuthInv, ClientsKnowTheirTicket, SessionsComeFromSignIns, Exists
<1>15. RefreshStaysPossible'
  <2> SUFFICES ASSUME NEW q \in Tickets, session[q].status = "live", q \notin broken',
                      \A d \in Calls : call'[d].phase = "rotated" =>
                        record'[call'[d].fresh].session # q
               PROVE  session[q].ticket \in known /\ RefreshAccepted(session[q].ticket)'
    BY <1>1 DEF RefreshStaysPossible, At
  <2>1. q # s /\ q \notin broken
    BY <1>4, <1>5, <1>6
  <2>2. session[q].ticket \in known /\ RefreshAccepted(session[q].ticket)
    BY <1>7, <2>1 DEF AuthInv, RefreshStaysPossible, At, Locking
  <2>3. /\ session[q].ticket \in Tickets /\ session[q].ticket \notin {n, t}
        /\ record'[session[q].ticket] = record[session[q].ticket]
    BY <1>3, <1>6, <2>1 DEF AuthInv, RowsNameTheirTicket, Exists
  <2> QED
    BY <1>1, <2>2, <2>3 DEF RefreshAccepted, IsLive, Matches
<1> QED
  BY <1>6, <1>8, <1>9, <1>10, <1>11, <1>12, <1>13, <1>14, <1>15 DEF AuthInv

LEMMA CommitRotationKeeps ==
  ASSUME AuthInv, NEW c \in Calls, CommitRotation(c)
  PROVE  AuthInv'
PROOF
<1> DEFINE n == call[c].fresh
           s == record[n].session
           row == [session[s] EXCEPT !.ticket = n, !.rotation = @ + 1]
           x == call'[c]
<1>1. call[c].phase = "rotated" /\ holder = c
  BY DEF CommitRotation, At, AuthInv, UserRowIsHeld
<1>2. /\ n \in Tickets /\ n # 0 /\ s \in Tickets /\ session[s].status \in {"live", "expired"}
      /\ record[n].rotation = session[s].rotation + 1
      /\ n \in stored \/ s \in broken
  BY <1>1, AuthBoundsAssumption
  DEF AuthInv, TransactionsKnowTheirRows, RotatesOneSession, Tickets
<1>3. /\ holder' = Nobody /\ session' = [session EXCEPT ![s] = row]
      /\ UNCHANGED <<record, stored, selection, offered, account, logouts>>
      /\ broken \subseteq broken' /\ known \subseteq known' /\ known' \subseteq Tickets
      /\ broken' \subseteq Tickets
  BY <1>2 DEF CommitRotation, AuthInv, AuthTypeOK
<1>4. /\ row \in Session /\ row.status = session[s].status /\ row.ticket = n
      /\ row.rotation = record[n].rotation /\ row.selection = session[s].selection
  <2>1. session[s] \in Session /\ n \in 0..MaxTickets
    BY <1>2, AuthBoundsAssumption DEF AuthInv, AuthTypeOK, Tickets
  <2>2. session[s].rotation + 1 \in 0..MaxTickets
    <3>1. record[n] \in Record
      BY <1>2 DEF AuthInv, AuthTypeOK
    <3>2. record[n].rotation \in 0..MaxTickets
      BY <3>1 DEF Record
    <3> QED
      BY <1>2, <3>2
  <2>3. row.rotation = session[s].rotation + 1 /\ row.status = session[s].status
        /\ row.ticket = n /\ row.selection = session[s].selection
    BY <2>1 DEF Session
  <2>4. row \in Session
    BY <2>1, <2>2 DEF Session
  <2> QED
    BY <1>2, <2>3, <2>4
<1>5. /\ x \in Call /\ call' = [call EXCEPT ![c] = x] /\ call'[c] = x
      /\ \/ x.phase = "idle" /\ x.fresh = 0 /\ n \in known'
         \/ x.phase = "failing" /\ x.fresh = n /\ s \in broken'
      /\ \A d \in Calls : d # c => call'[d] = call[d]
  <2>1. CASE known' = known \cup {n} /\ Leaves(c)
    BY <2>1, IdleType DEF Leaves, AuthInv, AuthTypeOK
  <2>2. CASE broken' = broken \cup {s} /\ Moved(c, "failing")
    <3>1. [call[c] EXCEPT !.phase = "failing"] \in Call
      BY DEF AuthInv, AuthTypeOK, Call
    <3>2. call[c] \in Call
      BY DEF AuthInv, AuthTypeOK
    <3>3. x = [call[c] EXCEPT !.phase = "failing"]
      BY <2>2 DEF Moved, AuthInv, AuthTypeOK
    <3>4. x.phase = "failing" /\ x.fresh = n
      BY <3>2, <3>3 DEF Call
    <3> QED
      BY <2>2, <3>1, <3>3, <3>4 DEF Moved, AuthInv, AuthTypeOK
  <2> QED
    BY <2>1, <2>2 DEF CommitRotation
<1> HIDE DEF row, x
<1>6. session'[s] = row /\ \A q \in Tickets : q # s => session'[q] = session[q]
  BY <1>2, <1>3 DEF AuthInv, AuthTypeOK
<1>7. \A d \in Calls : d # c =>
        call[d].phase \notin Locking /\ call'[d] = call[d] /\ call[d].fresh # n
  BY <1>1, <1>2, <1>5 DEF AuthInv, UserRowIsHeld, CallsMakeTheirTicket, Locking
<1>8. \A q \in Tickets : session'[q].status = session[q].status
                        /\ session'[q].selection = session[q].selection
  BY <1>4, <1>6
<1>9. AuthTypeOK'
  BY <1>2, <1>3, <1>4, <1>5 DEF AuthInv, AuthTypeOK
<1>10. UserRowIsHeld'
  BY <1>3, <1>5, <1>7, NobodyAssumption DEF UserRowIsHeld, Locking
<1>11. TicketsAreMade' /\ CallsMakeTheirTicket'
  BY <1>3, <1>5 DEF AuthInv, TicketsAreMade, CallsMakeTheirTicket, IsMade
<1>12. RowsNameTheirTicket'
  <2> SUFFICES ASSUME NEW q \in Tickets
               PROVE  RowsNameTheirTicket!(q)'
    BY DEF RowsNameTheirTicket
  <2>1. CASE q = s
    <3>1. Exists(s) /\ session[s].rotation \in Nat /\ \A u \in Tickets : record[u].rotation \in Nat
      BY <1>2, AuthBoundsAssumption DEF Exists, AuthInv, AuthTypeOK, Session, Record
    <3>2. \A u \in Tickets : record[u].session = s => record[u].rotation <= session[s].rotation + 1
      BY <1>2, <3>1 DEF AuthInv, RowsNameTheirTicket
    <3>3. \A u \in Tickets : record[u].session = s => record[u].rotation <= record[n].rotation
      BY <1>2, <3>2
    <3>4. session'[q].ticket = n /\ session'[q].rotation = record[n].rotation /\ Exists(q)'
      BY <1>4, <1>6, <2>1, <3>1 DEF Exists
    <3>5. \A u \in Tickets : record[u].session = s =>
            record[u].rotation <= record[n].rotation + 1 /\ record[u].rotation # record[n].rotation + 1
      <4>1. n \in Tickets
        BY <1>2
      <4> QED
        BY <3>1, <3>3, <4>1
    <3> QED
      BY <1>2, <1>3, <2>1, <3>4, <3>5
  <2>2. CASE q # s
    BY <1>3, <1>6, <2>2 DEF AuthInv, RowsNameTheirTicket, Exists
  <2> QED
    BY <2>1, <2>2
<1>13. TransactionsKnowTheirRows'
  <2> SUFFICES ASSUME NEW d \in Calls
               PROVE  (OpensOneSession(d) /\ RotatesOneSession(d) /\ RemovesUnusable(d))'
    BY DEF TransactionsKnowTheirRows
  <2>1. call'[d].phase \notin Locking
    BY <1>5, <1>7 DEF Locking
  <2>2. ASSUME call'[d].phase = "failing", NEW q \in Tickets, Exists(q)',
               session'[q].ticket = call'[d].fresh
        PROVE  q \in broken'
    <3>1. CASE d = c
      <4>1. CASE q = s
        BY <1>5, <2>2, <3>1, <4>1
      <4>2. CASE q # s
        BY <1>2, <1>5, <1>6, <2>2, <3>1, <4>2 DEF AuthInv, RowsNameTheirTicket, Exists
      <4> QED
        BY <4>1, <4>2
    <3>2. CASE d # c
      <4>1. RemovesUnusable(d) /\ call'[d] = call[d] /\ call[d].fresh # n
        BY <1>7, <3>2 DEF AuthInv, TransactionsKnowTheirRows
      <4> QED
        BY <1>3, <1>4, <1>6, <2>2, <4>1 DEF RemovesUnusable, Exists
    <3> QED
      BY <3>1, <3>2
  <2>3. ASSUME call'[d].phase = "revoked", NEW u \in call'[d].gone
        PROVE  (IsMade(u) /\ session[record[u].session].status = "revoked")'
    <3>1. d # c /\ call'[d] = call[d] /\ RemovesUnusable(d) /\ u \in Tickets
      BY <1>5, <1>7, <2>3 DEF AuthInv, AuthTypeOK, Call, TransactionsKnowTheirRows
    <3>2. IsMade(u) /\ session[record[u].session].status = "revoked"
      BY <2>3, <3>1 DEF RemovesUnusable
    <3>3. record[u].session \in Tickets
      BY <3>1, <3>2, AuthBoundsAssumption DEF AuthInv, AuthTypeOK, Record, Tickets, IsMade
    <3> QED
      BY <1>3, <1>8, <3>2, <3>3 DEF IsMade
  <2> QED
    BY <2>1, <2>2, <2>3 DEF OpensOneSession, RotatesOneSession, RemovesUnusable, Locking
<1>14. SelectionsKnowLogouts'
  <2>1. RevocationStamp' = RevocationStamp
    BY <1>8, StampStays
  <2> QED
    BY <1>3, <1>8, <2>1 DEF AuthInv, SelectionsKnowLogouts, Exists
<1>15. ClientsKnowTheirTicket'
  <2>1. n \in known' \/ s \in broken'
    BY <1>5
  <2> QED
    BY <1>3, <1>4, <1>6, <2>1 DEF AuthInv, ClientsKnowTheirTicket, Exists
<1>16. SessionsComeFromSignIns'
  BY <1>3, <1>8 DEF AuthInv, SessionsComeFromSignIns
<1>17. RefreshStaysPossible'
  <2> SUFFICES ASSUME NEW q \in Tickets, session'[q].status = "live", q \notin broken'
               PROVE  (session[q].ticket \in known /\ RefreshAccepted(session[q].ticket))'
    BY DEF RefreshStaysPossible
  <2>1. CASE q = s
    <3>1. n \in known' /\ n \in stored
      BY <1>2, <1>3, <1>5, <2>1
    <3>2. session'[q].ticket = n /\ session'[s].rotation = record[n].rotation /\ s # 0
      BY <1>2, <1>4, <1>6, <2>1, AuthBoundsAssumption, SMTT(30) DEF Tickets
    <3>3. session'[s].status = "live" /\ s = record'[n].session /\ record'[n] = record[n]
      BY <1>3, <2>1
    <3>4. session'[q].ticket \in known' /\ session'[q].ticket \in stored'
      BY <1>3, <3>1, <3>2
    <3>5. record'[session'[q].ticket].session = s
          /\ record'[session'[q].ticket].rotation = record[n].rotation
      BY <3>2, <3>3
    <3> QED
      BY <3>2, <3>3, <3>4, <3>5 DEF RefreshAccepted, IsLive, Matches
  <2>2. CASE q # s
    <3>1. \A d \in Calls : call[d].phase = "rotated" => record[call[d].fresh].session # q
      BY <1>7, <2>2 DEF Locking
    <3>2. session'[q] = session[q] /\ q \notin broken
      BY <1>3, <1>6, <2>2
    <3>3. session[q].ticket \in known /\ RefreshAccepted(session[q].ticket)
      BY <3>1, <3>2 DEF AuthInv, RefreshStaysPossible, At
    <3>4. record[session[q].ticket].session = q
      BY <3>2 DEF AuthInv, RowsNameTheirTicket, Exists
    <3> DEFINE t == session[q].ticket
    <3>5. session'[q].ticket = t /\ record' = record /\ stored' = stored /\ known \subseteq known'
      BY <1>3, <1>5, <3>2
    <3>6. t \in stored /\ IsLive(t) /\ Matches(t)
      BY <3>3, <3>4 DEF RefreshAccepted
    <3>7. session'[q].status = session[q].status /\ session'[q].rotation = session[q].rotation
      BY <3>2
    <3> QED
      BY <3>2, <3>3, <3>4, <3>5, <3>6, <3>7 DEF RefreshAccepted, IsLive, Matches
  <2> QED
    BY <2>1, <2>2
<1> QED
  BY <1>9, <1>10, <1>11, <1>12, <1>13, <1>14, <1>15, <1>16, <1>17 DEF AuthInv

-----------------------------------------------------------------------------
(* The theorems *)

LEMMA AuthStepKeeps ==
  ASSUME AuthInv, [AuthNext]_authVars
  PROVE  AuthInv'
PROOF
<1>1. CASE \E c \in Calls : VerifyPassword(c)
  BY <1>1, VerifyPasswordKeeps
<1>2. CASE \E c \in Calls : \E k \in Selections : IssueSelection(c, k) \/ ReadSelection(c, k)
  BY <1>2, IssueSelectionKeeps, ReadSelectionKeeps
<1>3. CASE \E c \in Calls : ConsumeSelection(c)
  BY <1>3, ConsumeSelectionKeeps
<1>4. CASE \E c \in Calls : \E t \in Tickets : PutRefresh(c, t)
  BY <1>4, PutRefreshKeeps
<1>5. CASE \E c \in Calls : \E t \in Tickets : Rotate(c, t)
  BY <1>5, RotateKeeps
<1>6. CASE \E c \in Calls : \E t \in Tickets : LogoutByAccess(c, t)
  BY <1>6, LogoutByAccessKeeps
<1>7. CASE \E c \in Calls : CommitSelection(c)
  BY <1>7, CommitSelectionKeeps
<1>8. CASE \E c \in Calls : \E t \in Tickets :
             ReadRefresh(c, t, "refreshing") \/ ReadRefresh(c, t, "leaving")
  BY <1>8, ReadRefreshKeeps
<1>9. CASE \E c \in Calls : CommitRotation(c)
  BY <1>9, CommitRotationKeeps
<1>10. CASE \E c \in Calls : DiscardRefresh(c)
  BY <1>10, DiscardRefreshKeeps
<1>11. CASE \E c \in Calls : LogoutByRefresh(c)
  BY <1>11, LogoutByRefreshKeeps
<1>12. CASE \E c \in Calls : DeleteRefreshes(c)
  BY <1>12, DeleteRefreshesKeeps
<1>13. CASE \E c \in Calls : Abort(c)
  BY <1>13, AbortKeeps
<1>14. CASE RedisForgets
  BY <1>14, RedisForgetsKeeps
<1>15. CASE \E s \in Tickets : ExpireSession(s)
  BY <1>15, ExpireSessionKeeps
<1>16. CASE ChangeAccount
  BY <1>16, ChangeAccountKeeps
<1>17. CASE UNCHANGED authVars
  <2>1. AuthTypeOK'
    BY <1>17 DEF authVars, AuthInv, AuthTypeOK
  <2>2. UserRowIsHeld'
    BY <1>17 DEF authVars, AuthInv, UserRowIsHeld
  <2> QED
    BY <1>17, <2>1, <2>2, QuietStep DEF authVars
<1> QED
  BY <1>1, <1>2, <1>3, <1>4, <1>5, <1>6, <1>7, <1>8, <1>9, <1>10, <1>11, <1>12, <1>13, <1>14,
     <1>15, <1>16, <1>17
  DEF AuthNext

(* The ticket that is accepted for a session is the one of its row.        *)
LEMMA OnlyTheRowsTicketIsAccepted == AuthInv => ReplacedTicketsStayUnusable
  BY AcceptedIsTheRows DEF ReplacedTicketsStayUnusable, RefreshAccepted

(* The inductive invariant of signing in: whatever requests race, and      *)
(* whichever answers of the two stores are lost.                           *)
THEOREM AuthInductive == AuthSpec => []AuthInv
  BY AuthInitially, AuthStepKeeps, PTL DEF AuthSpec

(* Rows, tickets, selections and requests keep their types.                *)
THEOREM AuthTypeCorrect == AuthSpec => []AuthTypeOK
PROOF
<1>1. AuthInv => AuthTypeOK
  BY DEF AuthInv
<1> QED
  BY <1>1, AuthInductive, PTL

(* "Log out everywhere" reaches sign-ins that are half done, and a         *)
(* selection opens at most one session (select_tenant, logout).            *)
THEOREM SignInsAreCurrent == AuthSpec => []SessionsComeFromSignIns
PROOF
<1>1. AuthInv => SessionsComeFromSignIns
  BY DEF AuthInv
<1> QED
  BY <1>1, AuthInductive, PTL

(* Neither a ticket that was replaced nor one that a rolled back refresh   *)
(* left in Redis is accepted (_match_record, ROTATE_SCRIPT).               *)
THEOREM ReplacedTicketsAreRefused == AuthSpec => []ReplacedTicketsStayUnusable
  BY AuthInductive, OnlyTheRowsTicketIsAccepted, PTL

(* A live session whose stores did not fail during a rotation can always   *)
(* be refreshed with a ticket its client knows (refresh).                  *)
THEOREM LiveSessionsCanGoOn == AuthSpec => []RefreshStaysPossible
PROOF
<1>1. AuthInv => RefreshStaysPossible
  BY DEF AuthInv
<1> QED
  BY <1>1, AuthInductive, PTL

-----------------------------------------------------------------------------
(*                             BrowserSession                              *)

Begun == 1..Len(owner)
Entering == {"sign-in", "refresh"}
Busy(f) == f.stage \in {"sent", "answered", "refreshing"}

(* The server's sessions: only one that began can end.                     *)
ServerIsSound ==
  /\ owner \in Seq(People) /\ Len(owner) <= MaxSessions
  /\ cookie \in Begun \cup {0} /\ ended \subseteq Begun /\ signedOut \subseteq ended
  /\ notice \subseteq Pages /\ signOuts \in Nat

PagesAreSound ==
  /\ page \in [Pages -> Page]
  /\ \A t \in Pages : page[t].token \in Begun \cup {0}
  /\ SignOutReachesPages

(* What arrives with the page's epoch is of a session whose sign-out the   *)
(* page has not heard of; and while nobody is shown, what is of the page's *)
(* epoch has its key too.                                                  *)
SoundOp(t, kind, o) ==
  /\ o.ticket \in Begun \cup {0} /\ o.token \in Begun \cup {0}
  /\ kind \in Entering /\ o.stage = "answered" /\ o.answer = "ok" =>
       o.ticket \in Begun /\ (o.current /\ t \notin notice => o.ticket \notin signedOut)
  /\ page[t].token = 0 /\ o.stage # "idle" /\ o.current => o.sameKey

OpsAreSound ==
  /\ op \in [Pages -> [Kinds -> Op]]
  /\ \A t \in Pages, kind \in Kinds : SoundOp(t, kind, op[t][kind])

(* A request that was not aborted is of the person its page shows.         *)
SoundFetch(f) ==
  Busy(f) =>
    /\ f.token \in Begun
    /\ ~ f.aborted =>
         /\ page[f.page].token # 0 /\ owner[f.token] = owner[page[f.page].token]
         /\ f.sameKey

FetchesAreSound ==
  /\ fetch \in [Fetches -> Fetch \cup {NoFetch, Given}]
  /\ \A r \in Fetches : SoundFetch(fetch[r])

BrowserInv == ServerIsSound /\ PagesAreSound /\ OpsAreSound /\ FetchesAreSound

-----------------------------------------------------------------------------

LEMMA NoOpType == NoOp \in Op /\ NoOp.stage = "idle" /\ NoOp.ticket = 0 /\ NoOp.token = 0
BY DEF NoOp, Op

LEMMA BusyType ==
  ASSUME NEW f \in Fetch \cup {NoFetch, Given}, Busy(f)
  PROVE  f \in Fetch
BY DEF Busy, NoFetch, Given

(* One operation takes a step, and the server with it.                     *)
LEMMA OpStepKeeps ==
  ASSUME BrowserInv, NEW t \in Pages, NEW kind \in Kinds, NEW o \in Op,
         op' = [op EXCEPT ![t] = [@ EXCEPT ![kind] = o]],
         page' = page, notice' = notice, signedOut' = signedOut,
         Begun \subseteq Begun', SoundOp(t, kind, op[t][kind])'
  PROVE  OpsAreSound'
PROOF
<1>1. op' \in [Pages -> [Kinds -> Op]]
  BY DEF BrowserInv, OpsAreSound
<1>2. ASSUME NEW u \in Pages, NEW k \in Kinds PROVE SoundOp(u, k, op[u][k])'
  <2>1. CASE u = t /\ k = kind
    <3> QED
      BY <2>1
  <2>2. CASE ~ (u = t /\ k = kind)
    <3>1. op'[u][k] = op[u][k]
      BY <2>2 DEF BrowserInv, OpsAreSound
    <3>2. SoundOp(u, k, op[u][k])
      BY DEF BrowserInv, OpsAreSound
    <3> QED
      BY <3>1, <3>2 DEF SoundOp
  <2> QED
    BY <2>1, <2>2
<1> QED
  BY <1>1, <1>2 DEF OpsAreSound

(* One request takes a step.                                               *)
LEMMA FetchStepKeeps ==
  ASSUME BrowserInv, NEW r \in Fetches, NEW f \in Fetch \cup {NoFetch, Given},
         fetch' = [fetch EXCEPT ![r] = f], page' = page, owner' = owner, SoundFetch(f)
  PROVE  FetchesAreSound'
PROOF
<1>1. fetch' \in [Fetches -> Fetch \cup {NoFetch, Given}]
  BY DEF BrowserInv, FetchesAreSound
<1>2. ASSUME NEW s \in Fetches PROVE SoundFetch(fetch[s])'
  <2>1. fetch'[s] = IF s = r THEN f ELSE fetch[s]
    BY DEF BrowserInv, FetchesAreSound
  <2>2. SoundFetch(fetch[s])
    BY DEF BrowserInv, FetchesAreSound
  <2>3. CASE s = r
    BY <2>1, <2>3 DEF SoundFetch, Begun, Busy
  <2>4. CASE s # r
    BY <2>1, <2>2, <2>4 DEF SoundFetch, Begun, Busy
  <2> QED
    BY <2>3, <2>4
<1> QED
  BY <1>1, <1>2 DEF FetchesAreSound

(* The requests stay, whatever new sessions begin.                         *)
LEMMA FetchesStay ==
  ASSUME BrowserInv, fetch' = fetch, page' = page, Begun \subseteq Begun',
         \A s \in Begun : owner'[s] = owner[s]
  PROVE  FetchesAreSound'
PROOF
<1>1. ASSUME NEW r \in Fetches PROVE SoundFetch(fetch[r])'
  <2>1. SoundFetch(fetch[r]) /\ fetch[r] \in Fetch \cup {NoFetch, Given}
    BY DEF BrowserInv, FetchesAreSound
  <2>2. CASE Busy(fetch[r])
    <3>1. fetch[r].page \in Pages
      BY <2>1, <2>2, BusyType DEF Fetch
    <3>2. page[fetch[r].page].token \in Begun \cup {0}
      BY <3>1 DEF BrowserInv, PagesAreSound
    <3> QED
      BY <2>1, <2>2, <3>1, <3>2 DEF SoundFetch
  <2>3. CASE ~ Busy(fetch[r])
    BY <2>3 DEF SoundFetch, Busy
  <2> QED
    BY <2>2, <2>3
<1> QED
  BY <1>1 DEF FetchesAreSound, BrowserInv

LEMMA OpsStay ==
  ASSUME BrowserInv, op' = op, page' = page, notice' = notice, signedOut' = signedOut,
         owner' = owner
  PROVE  OpsAreSound'
BY DEF BrowserInv, OpsAreSound, SoundOp, Begun

LEMMA PagesStay ==
  ASSUME BrowserInv, page' = page, notice' = notice, signedOut' = signedOut,
         Begun \subseteq Begun'
  PROVE  PagesAreSound'
BY DEF BrowserInv, PagesAreSound, SignOutReachesPages

LEMMA ServerStays ==
  ASSUME BrowserInv, owner' = owner, ended' = ended, cookie' = cookie,
         signedOut' = signedOut, notice' = notice, signOuts' \in Nat
  PROVE  ServerIsSound'
BY DEF BrowserInv, ServerIsSound, Begun

-----------------------------------------------------------------------------
(* What an answer does to the operations and the requests of its page      *)

(* What is left of an operation when another one has ended with the page;  *)
(* the page has then a token, or its epoch has ended, or nothing changed.  *)
LeftOver(t, o, rest) ==
  /\ rest \in Op
  /\ rest.stage = o.stage /\ rest.answer = o.answer
  /\ rest.ticket = o.ticket /\ rest.token = o.token
  /\ rest.current => o.current
  /\ \/ page'[t].token # 0 \/ ~ rest.current
     \/ page[t].token = 0 /\ rest.sameKey = o.sameKey
  /\ ~ rest.current \/ (signedOut' = signedOut /\ (t \in notice => t \in notice'))

LEMMA RemainingKeeps ==
  ASSUME BrowserInv, NEW t \in Pages, op' \in [Pages -> [Kinds -> Op]],
         \A u \in Pages \ {t} :
           /\ page'[u] = page[u] /\ op'[u] = op[u]
           /\ u \in notice => u \in notice'
           /\ u \in notice' \/ signedOut' = signedOut,
         \A k \in Kinds : op'[t][k] = NoOp \/ LeftOver(t, op[t][k], op'[t][k]),
         owner' = owner
  PROVE  OpsAreSound'
PROOF
<1>1. ASSUME NEW u \in Pages, NEW k \in Kinds PROVE SoundOp(u, k, op[u][k])'
  <2>1. SoundOp(u, k, op[u][k])
    BY DEF BrowserInv, OpsAreSound
  <2>2. CASE u # t
    <3>1. /\ page'[u] = page[u] /\ op'[u][k] = op[u][k]
          /\ u \in notice => u \in notice'
          /\ u \in notice' \/ signedOut' = signedOut
      BY <2>2
    <3> QED
      BY <2>1, <3>1 DEF SoundOp, Begun
  <2>3. CASE op'[t][k] = NoOp /\ u = t
    BY <2>3, NoOpType DEF SoundOp
  <2>4. CASE LeftOver(t, op[t][k], op'[t][k]) /\ u = t
    BY <2>1, <2>4 DEF SoundOp, LeftOver, Begun
  <2> QED
    BY <2>2, <2>3, <2>4
<1> QED
  BY <1>1 DEF OpsAreSound

(* Every operation of a page whose epoch ends is left over, or gone.       *)
LEMMA ClearedOps ==
  ASSUME BrowserInv, NEW t \in Pages, NEW kind, op' = Remaining(t, kind, TRUE, TRUE)
  PROVE  /\ op' \in [Pages -> [Kinds -> Op]] /\ \A u \in Pages \ {t} : op'[u] = op[u]
         /\ \A k \in Kinds : op'[t][k] = NoOp \/ LeftOver(t, op[t][k], op'[t][k])
PROOF
<1> DEFINE rest(k) == [op[t][k] EXCEPT !.current = FALSE, !.sameKey = FALSE]
           next(k) == IF k = kind \/ op[t][k].stage = "idle" THEN NoOp ELSE rest(k)
<1>1. op \in [Pages -> [Kinds -> Op]]
  BY DEF BrowserInv, OpsAreSound
<1>2. ASSUME NEW k \in Kinds
      PROVE  /\ [op[t][k] EXCEPT !.current = @ /\ ~ TRUE, !.sameKey = @ /\ ~ TRUE] = rest(k)
             /\ rest(k) \in Op /\ LeftOver(t, op[t][k], rest(k))
  <2>1. op[t][k] \in Op
    BY <1>1
  <2>2. /\ [op[t][k] EXCEPT !.current = @ /\ ~ TRUE, !.sameKey = @ /\ ~ TRUE] = rest(k)
        /\ rest(k) \in Op
    BY <2>1 DEF Op
  <2> QED
    BY <2>1, <2>2 DEF Op, LeftOver
<1>3. op' = [op EXCEPT ![t] = [k \in Kinds |-> next(k)]]
  BY <1>2 DEF Remaining
<1>4. ASSUME NEW k \in Kinds
      PROVE  next(k) \in Op /\ (next(k) = NoOp \/ LeftOver(t, op[t][k], next(k)))
  BY <1>2, NoOpType
<1> HIDE DEF next
<1>5. op' \in [Pages -> [Kinds -> Op]]
  BY <1>1, <1>3, <1>4
<1>6. \A k \in Kinds : op'[t][k] = next(k)
  BY <1>1, <1>3
<1>7. \A u \in Pages \ {t} : op'[u] = op[u]
  BY <1>1, <1>3
<1> QED
  BY <1>4, <1>5, <1>6, <1>7

(* A page that shows nobody any more: nothing of it is answered.           *)
FollowedCleared(t, kind, r) == Followed(t, kind, 0, TRUE, TRUE)[r]

LEMMA FollowedByNobody ==
  ASSUME BrowserInv, NEW t \in Pages, NEW kind, NEW r \in Fetches
  PROVE  LET f == FollowedCleared(t, kind, r)
         IN /\ f \in Fetch \cup {NoFetch, Given}
            /\ ~ IsOf(fetch[r], t) => f = fetch[r]
            /\ IsOf(fetch[r], t) => f = NoFetch \/ (f.aborted /\ f.token = fetch[r].token
                                                   /\ f.stage = fetch[r].stage /\ f.page = t)
PROOF
<1> DEFINE f == FollowedCleared(t, kind, r)
           kept == [fetch[r] EXCEPT !.latest = FALSE, !.aborted = TRUE, !.sameKey = FALSE]
<1>1. fetch[r] \in Fetch \cup {NoFetch, Given}
  BY DEF BrowserInv, FetchesAreSound
<1>2. CASE ~ IsOf(fetch[r], t)
  BY <1>1, <1>2 DEF Followed, FollowedCleared
<1>3. CASE IsOf(fetch[r], t)
  <2>1. fetch[r] \in Fetch
    BY <1>1, <1>3, BusyType DEF IsOf, Busy
  <2>2. [fetch[r] EXCEPT !.latest = FALSE, !.aborted = @ \/ TRUE, !.sameKey = @ /\ ~ TRUE] = kept
    BY <2>1 DEF Fetch
  <2>3. f = kept \/ f = NoFetch
    BY <1>3, <2>2 DEF Followed, FollowedCleared, Retried
  <2>4. kept \in Fetch /\ kept.aborted /\ kept.token = fetch[r].token
        /\ kept.stage = fetch[r].stage /\ kept.page = t
    BY <1>3, <2>1 DEF Fetch, IsOf
  <2> HIDE DEF f, kept
  <2> QED
    BY <1>3, <2>3, <2>4 DEF f
<1> QED
  BY <1>2, <1>3

LEMMA FollowedByNobodyKeeps ==
  ASSUME BrowserInv, NEW t \in Pages, NEW kind, fetch' \in [Fetches -> Fetch \cup {NoFetch, Given}],
         \A r \in Fetches : fetch'[r] = NoFetch \/ fetch'[r] = FollowedCleared(t, kind, r),
         owner' = owner, \A u \in Pages \ {t} : page'[u] = page[u]
  PROVE  FetchesAreSound'
PROOF
<1>1. ASSUME NEW r \in Fetches PROVE SoundFetch(fetch[r])'
  <2>1. CASE fetch'[r] = NoFetch
    BY <2>1 DEF SoundFetch, Busy, NoFetch
  <2>2. CASE fetch'[r] # NoFetch /\ IsOf(fetch[r], t)
    <3>1. fetch'[r].aborted /\ fetch'[r].token = fetch[r].token
      BY <2>2, FollowedByNobody
    <3>2. fetch[r].token \in Begun
      BY <2>2 DEF BrowserInv, FetchesAreSound, SoundFetch, IsOf, Busy
    <3> QED
      BY <3>1, <3>2 DEF SoundFetch, Begun
  <2>3. CASE fetch'[r] # NoFetch /\ ~ IsOf(fetch[r], t)
    <3>1. fetch'[r] = fetch[r] /\ SoundFetch(fetch[r])
      BY <2>3, FollowedByNobody DEF BrowserInv, FetchesAreSound
    <3>2. CASE Busy(fetch[r])
      <4>1. fetch[r] \in Fetch /\ fetch[r].page # t
        BY <2>3, <3>2, BusyType DEF IsOf, Busy, BrowserInv, FetchesAreSound
      <4>2. fetch[r].page \in Pages \ {t}
        BY <4>1 DEF Fetch
      <4>3. page'[fetch[r].page] = page[fetch[r].page]
        BY <4>2
      <4> QED
        BY <3>1, <4>3 DEF SoundFetch, Begun, Busy
    <3>3. CASE ~ Busy(fetch[r])
      BY <3>1, <3>3 DEF SoundFetch, Busy
    <3> QED
      BY <3>2, <3>3
  <2> QED
    BY <2>1, <2>2, <2>3
<1> QED
  BY <1>1 DEF FetchesAreSound

LEMMA ShownPage ==
  ASSUME BrowserInv, NEW t \in Pages, NEW kind, NEW token \in Begun \cup {0},
         Shows(t, kind, token)
  PROVE  /\ page' \in [Pages -> Page] /\ page'[t].token = token
         /\ \A u \in Pages \ {t} : page'[u] = page[u]
PROOF
<1>1. token \in Sessions \cup {0}
  BY BrowserBoundsAssumption DEF BrowserInv, ServerIsSound, Begun, Sessions
<1>2. page[t] \in Page /\ page \in [Pages -> Page]
  BY DEF BrowserInv, PagesAreSound
<1>3. [token |-> token, restoring |-> page[t].restoring /\ kind # "refresh"] \in Page
  BY <1>1, <1>2 DEF Page
<1> QED
  BY <1>2, <1>3 DEF Shows

(* clearSession(): the other pages are told of what they have to hear.     *)
LEMMA ClearedKeeps ==
  ASSUME BrowserInv, NEW t \in Pages, NEW kind, Shows(t, kind, 0),
         op' = Remaining(t, kind, TRUE, TRUE),
         fetch' \in [Fetches -> Fetch \cup {NoFetch, Given}],
         \A r \in Fetches : fetch'[r] = NoFetch \/ fetch'[r] = FollowedCleared(t, kind, r),
         owner' = owner,
         notice' \subseteq Pages,
         \/ signedOut' = signedOut /\ notice' = notice \ {t}
         \/ signedOut' = signedOut /\ notice' = notice
         \/ signedOut' \subseteq ended /\ notice' = notice \cup (Pages \ {t})
  PROVE  PagesAreSound' /\ OpsAreSound' /\ FetchesAreSound'
PROOF
<1>0. 0 \notin signedOut /\ 0 \notin signedOut'
  BY DEF BrowserInv, ServerIsSound, Begun
<1>1. /\ page' \in [Pages -> Page] /\ page'[t].token = 0
      /\ \A u \in Pages \ {t} : page'[u] = page[u]
  BY ShownPage
<1>2. ASSUME NEW u \in Pages \ {t}
      PROVE  (u \in notice' \/ signedOut' = signedOut) /\ (u \in notice => u \in notice')
  OBVIOUS
<1>3. PagesAreSound'
  <2>1. ASSUME NEW u \in Pages PROVE page'[u].token \in (Begun \cup {0})'
    BY <1>1 DEF BrowserInv, PagesAreSound, Begun
  <2>2. SignOutReachesPages'
    BY <1>0, <1>1, <1>2 DEF BrowserInv, PagesAreSound, SignOutReachesPages
  <2> QED
    BY <1>1, <2>1, <2>2 DEF PagesAreSound
<1>4. OpsAreSound'
  <2>1. /\ op' \in [Pages -> [Kinds -> Op]] /\ \A u \in Pages \ {t} : op'[u] = op[u]
        /\ \A k \in Kinds : op'[t][k] = NoOp \/ LeftOver(t, op[t][k], op'[t][k])
    BY ClearedOps
  <2> QED
    BY <1>1, <1>2, <2>1, RemainingKeeps
<1>5. FetchesAreSound'
  BY <1>1, FollowedByNobodyKeeps
<1> QED
  BY <1>3, <1>4, <1>5

(* All requests of a page that is cleared.                                 *)
LEMMA AllCleared ==
  ASSUME BrowserInv, NEW t \in Pages, NEW kind,
         fetch' = [r \in Fetches |-> FollowedCleared(t, kind, r)]
  PROVE  /\ fetch' \in [Fetches -> Fetch \cup {NoFetch, Given}]
         /\ \A r \in Fetches : fetch'[r] = FollowedCleared(t, kind, r)
PROOF
<1>1. ASSUME NEW r \in Fetches PROVE FollowedCleared(t, kind, r) \in Fetch \cup {NoFetch, Given}
  BY FollowedByNobody
<1> QED
  BY <1>1

LEMMA ClearSessionKeeps ==
  ASSUME BrowserInv, NEW t \in Pages, NEW kind, ClearSession(t, kind), owner' = owner,
         notice' \subseteq Pages,
         \/ signedOut' = signedOut /\ notice' = notice \ {t}
         \/ signedOut' = signedOut /\ notice' = notice
         \/ signedOut' \subseteq ended /\ notice' = notice \cup (Pages \ {t})
  PROVE  PagesAreSound' /\ OpsAreSound' /\ FetchesAreSound'
PROOF
<1>1. fetch' = [r \in Fetches |-> FollowedCleared(t, kind, r)]
  BY DEF ClearSession, Followed, FollowedCleared
<1>2. Shows(t, kind, 0) /\ op' = Remaining(t, kind, TRUE, TRUE)
  BY DEF ClearSession
<1>3. /\ fetch' \in [Fetches -> Fetch \cup {NoFetch, Given}]
      /\ \A r \in Fetches : fetch'[r] = FollowedCleared(t, kind, r)
  BY <1>1, AllCleared
<1> QED
  BY <1>2, <1>3, ClearedKeeps

-----------------------------------------------------------------------------

(* An operation fails: its page and the others stay as they are.           *)
LEMMA FailsKeeps ==
  ASSUME BrowserInv, NEW t \in Pages, NEW kind \in Kinds, Fails(t, kind), owner' = owner,
         signedOut' = signedOut, notice' = notice
  PROVE  PagesAreSound' /\ OpsAreSound' /\ FetchesAreSound'
PROOF
<1>1. page[t].token \in Begun \cup {0}
  BY DEF BrowserInv, PagesAreSound
<1>2. /\ page' \in [Pages -> Page] /\ page'[t].token = page[t].token
      /\ \A u \in Pages \ {t} : page'[u] = page[u]
  BY <1>1, ShownPage DEF Fails
<1>3. \A u \in Pages : page'[u].token = page[u].token
  BY <1>2
<1>4. PagesAreSound'
  BY <1>2, <1>3 DEF BrowserInv, PagesAreSound, SignOutReachesPages, Begun
<1>5. OpsAreSound'
  <2> DEFINE next(k) == IF k = kind \/ op[t][k].stage = "idle" THEN NoOp ELSE op[t][k]
  <2>1. op \in [Pages -> [Kinds -> Op]]
    BY DEF BrowserInv, OpsAreSound
  <2>2. ASSUME NEW k \in Kinds
        PROVE  [op[t][k] EXCEPT !.current = @ /\ ~ FALSE, !.sameKey = @ /\ ~ FALSE] = op[t][k]
    <3>1. op[t][k] \in Op
      BY <2>1
    <3> QED
      BY <3>1 DEF Op
  <2>3. op' = [op EXCEPT ![t] = [k \in Kinds |-> next(k)]]
    BY <2>2 DEF Remaining, Fails
  <2>4. ASSUME NEW k \in Kinds
        PROVE  next(k) \in Op /\ (next(k) = NoOp \/ LeftOver(t, op[t][k], next(k)))
    BY <1>3, <2>1, NoOpType DEF LeftOver
  <2> HIDE DEF next
  <2>5. op' \in [Pages -> [Kinds -> Op]]
    BY <2>1, <2>3, <2>4
  <2>6. \A k \in Kinds : op'[t][k] = next(k)
    BY <2>1, <2>3
  <2>7. \A u \in Pages \ {t} : op'[u] = op[u]
    BY <2>1, <2>3
  <2> QED
    BY <1>2, <2>4, <2>5, <2>6, <2>7, RemainingKeeps
<1>6. FetchesAreSound'
  <2>1. \A r \in Fetches : fetch'[r] \in {fetch[r], NoFetch}
    BY DEF Fails
  <2>2. fetch' = [r \in Fetches |-> fetch'[r]]
    BY DEF Fails
  <2>3. fetch' \in [Fetches -> Fetch \cup {NoFetch, Given}]
    BY <2>1, <2>2 DEF BrowserInv, FetchesAreSound
  <2>4. ASSUME NEW r \in Fetches PROVE SoundFetch(fetch[r])'
    <3>1. CASE fetch'[r] = NoFetch
      BY <3>1 DEF SoundFetch, Busy, NoFetch
    <3>2. CASE fetch'[r] = fetch[r]
      <4>1. SoundFetch(fetch[r])
        BY DEF BrowserInv, FetchesAreSound
      <4>2. Busy(fetch[r]) => fetch[r].page \in Pages
        BY BusyType DEF BrowserInv, FetchesAreSound, Fetch
      <4> QED
        BY <1>3, <3>2, <4>1, <4>2 DEF SoundFetch, Begun, Busy
    <3> QED
      BY <2>1, <3>1, <3>2
  <2> QED
    BY <2>3, <2>4 DEF FetchesAreSound
<1> QED
  BY <1>4, <1>5, <1>6

(* A request stays where it is, ends, or is sent again for the same person *)
(* under the same key.                                                     *)
RequestIsKept(r) ==
  \/ fetch'[r].stage \in {fetch[r].stage, "idle"}
  \/ fetch'[r].stage = "sent" /\ fetch'[r].sameKey
     /\ owner[fetch'[r].token] = owner[fetch[r].token]

(* A page is given a session: when it is of another person than was shown, *)
(* nothing that is under way is of use any more.                           *)
LEMMA SetSessionKeeps ==
  ASSUME BrowserInv, NEW t \in Pages, NEW kind \in Entering, NEW entered \in Begun,
         SetSession(t, kind, entered, kind = "sign-in"), owner' = owner,
         signedOut' = signedOut, notice' = notice, entered \in signedOut => t \in notice
  PROVE  /\ PagesAreSound' /\ OpsAreSound' /\ FetchesAreSound'
         /\ \A r \in Fetches : RequestIsKept(r)
PROOF
<1> DEFINE another == IsAnother(t, entered, kind = "sign-in")
<1>1. /\ page' \in [Pages -> Page] /\ page'[t].token = entered
      /\ \A u \in Pages \ {t} : page'[u] = page[u]
  BY ShownPage DEF SetSession
<1>2. entered # 0
  BY DEF Begun
<1>3. PagesAreSound'
  BY <1>1 DEF BrowserInv, PagesAreSound, SignOutReachesPages, Begun
<1>4. OpsAreSound'
  <2> DEFINE rest(k) == [op[t][k] EXCEPT !.current = @ /\ ~ (kind = "sign-in"),
                                         !.sameKey = @ /\ ~ another]
             next(k) == IF k = kind \/ op[t][k].stage = "idle" THEN NoOp ELSE rest(k)
  <2>1. op \in [Pages -> [Kinds -> Op]]
    BY DEF BrowserInv, OpsAreSound
  <2>2. ASSUME NEW k \in Kinds PROVE rest(k) \in Op /\ LeftOver(t, op[t][k], rest(k))
    <3>1. op[t][k] \in Op
      BY <2>1
    <3>2. another \in BOOLEAN
      BY DEF IsAnother
    <3> HIDE DEF another
    <3> QED
      BY <1>1, <1>2, <3>1, <3>2 DEF Op, LeftOver
  <2>3. op' = [op EXCEPT ![t] = [k \in Kinds |-> next(k)]]
    BY DEF Remaining, SetSession
  <2>4. ASSUME NEW k \in Kinds
        PROVE  next(k) \in Op /\ (next(k) = NoOp \/ LeftOver(t, op[t][k], next(k)))
    BY <2>2, NoOpType
  <2> HIDE DEF next
  <2>5. op' \in [Pages -> [Kinds -> Op]]
    BY <2>1, <2>3, <2>4
  <2>6. \A k \in Kinds : op'[t][k] = next(k)
    BY <2>1, <2>3
  <2>7. \A u \in Pages \ {t} : op'[u] = op[u]
    BY <2>1, <2>3
  <2> QED
    BY <1>1, <2>4, <2>5, <2>6, <2>7, RemainingKeeps
<1>5. FetchesAreSound' /\ \A r \in Fetches : RequestIsKept(r)
  <2> DEFINE kept(f) == [f EXCEPT !.latest = FALSE, !.aborted = @ \/ another,
                                  !.sameKey = @ /\ ~ another]
             next(r) == IF ~ IsOf(fetch[r], t) THEN fetch[r]
                        ELSE IF kind = "refresh" /\ fetch[r].stage = "refreshing"
                        THEN Retried(kept(fetch[r]), entered)
                        ELSE kept(fetch[r])
  <2>1. fetch' = [r \in Fetches |-> next(r)]
    BY DEF SetSession, Followed
  <2>2. ASSUME NEW r \in Fetches
        PROVE  /\ next(r) \in Fetch \cup {NoFetch, Given}
               /\ SoundFetch(fetch[r])' /\ RequestIsKept(r)
    <3>0. fetch'[r] = next(r)
      BY <2>1
    <3>1. fetch[r] \in Fetch \cup {NoFetch, Given} /\ SoundFetch(fetch[r])
      BY DEF BrowserInv, FetchesAreSound
    <3>2. CASE ~ IsOf(fetch[r], t)
      <4>1. next(r) = fetch[r]
        BY <3>2
      <4>2. Busy(fetch[r]) => fetch[r].page \in Pages \ {t}
        BY <3>1, <3>2, BusyType DEF IsOf, Busy, Fetch
      <4> HIDE DEF next
      <4> QED
        BY <1>1, <3>0, <3>1, <4>1, <4>2 DEF SoundFetch, Begun, Busy, RequestIsKept
    <3>3. CASE IsOf(fetch[r], t)
      <4> DEFINE f == fetch[r]
                 k == kept(f)
      <4>1. f \in Fetch /\ f.page = t /\ Busy(f)
        BY <3>1, <3>3, BusyType DEF IsOf, Busy
      <4>2. another \in BOOLEAN /\ (~ another => owner[page[t].token] = owner[entered])
        BY DEF IsAnother
      <4> HIDE DEF another, f
      <4>3. /\ k \in Fetch /\ k.page = t /\ k.token = f.token /\ k.stage = f.stage
            /\ ~ k.aborted => ~ f.aborted /\ ~ another
            /\ k.sameKey <=> f.sameKey /\ ~ another
        BY <4>1, <4>2 DEF Fetch
      <4>4. /\ f.token \in Begun
            /\ ~ k.aborted => owner[f.token] = owner[entered] /\ k.sameKey
        BY <3>1, <4>1, <4>2, <4>3 DEF SoundFetch, f
      <4> HIDE DEF k
      <4>5. CASE kind = "refresh" /\ f.stage = "refreshing"
        <5>1. next(r) = Retried(k, entered)
          BY <3>3, <4>5 DEF k, f, another
        <5>2. CASE k.aborted
          <6>1. next(r) = NoFetch
            BY <5>1, <5>2 DEF Retried
          <6> HIDE DEF next
          <6> QED
            BY <3>0, <6>1 DEF SoundFetch, Busy, NoFetch, RequestIsKept
        <5>3. CASE ~ k.aborted
          <6>1. next(r) = [k EXCEPT !.stage = "sent", !.token = entered, !.again = TRUE,
                                    !.latest = TRUE, !.answer = "none"]
            BY <1>2, <5>1, <5>3 DEF Retried
          <6> HIDE DEF next
          <6>2. entered \in Sessions \cup {0}
            BY BrowserBoundsAssumption DEF BrowserInv, ServerIsSound, Begun, Sessions
          <6>3. next(r) \in Fetch /\ next(r).page = t /\ next(r).token = entered
                /\ next(r).sameKey = k.sameKey /\ next(r).stage = "sent"
            BY <4>3, <6>1, <6>2 DEF Fetch
          <6> QED
            BY <1>1, <1>2, <3>0, <4>4, <5>3, <6>3 DEF SoundFetch, Begun, RequestIsKept, f
        <5> QED
          BY <5>2, <5>3
      <4>6. CASE ~ (kind = "refresh" /\ f.stage = "refreshing")
        <5>1. next(r) = k
          BY <3>3, <4>6 DEF k, f, another
        <5> HIDE DEF next
        <5> QED
          BY <1>1, <1>2, <3>0, <4>3, <4>4, <5>1 DEF SoundFetch, Begun, RequestIsKept, f
      <4> QED
        BY <4>5, <4>6
    <3> QED
      BY <3>2, <3>3
  <2> HIDE DEF next
  <2>3. fetch' \in [Fetches -> Fetch \cup {NoFetch, Given}]
    BY <2>1, <2>2
  <2> QED
    BY <2>2, <2>3 DEF FetchesAreSound
<1> QED
  BY <1>3, <1>4, <1>5

-----------------------------------------------------------------------------
(* The steps *)

LEMMA BrowserInitially == BrowserInit => BrowserInv
PROOF
<1> SUFFICES ASSUME BrowserInit PROVE BrowserInv
  OBVIOUS
<1>1. owner \in Seq(People) /\ Len(owner) <= 1 /\ Len(owner) \in Nat /\ cookie = Len(owner)
  <2>1. CASE owner = << >>
    BY <2>1 DEF BrowserInit
  <2>2. ASSUME NEW person \in People, owner = <<person>>
        PROVE  owner \in Seq(People) /\ Len(owner) = 1
    BY <2>2
  <2> QED
    BY <2>1, <2>2 DEF BrowserInit
<1>2. ServerIsSound
  BY <1>1, BrowserBoundsAssumption DEF BrowserInit, ServerIsSound, Begun
<1>3. PagesAreSound
  BY DEF BrowserInit, PagesAreSound, SignOutReachesPages, Page, Sessions
<1>4. OpsAreSound
  <2>1. [NoOp EXCEPT !.stage = "waiting"] \in Op
    BY DEF NoOp, Op
  <2>2. op \in [Pages -> [Kinds -> Op]]
    BY <2>1, NoOpType DEF BrowserInit
  <2>3. ASSUME NEW t \in Pages, NEW kind \in Kinds PROVE SoundOp(t, kind, op[t][kind])
    <3>1. op[t][kind] = NoOp \/ op[t][kind] = [NoOp EXCEPT !.stage = "waiting"]
      BY DEF BrowserInit
    <3> QED
      BY <3>1 DEF NoOp, SoundOp
  <2> QED
    BY <2>2, <2>3 DEF OpsAreSound
<1>5. FetchesAreSound
  BY DEF BrowserInit, FetchesAreSound, SoundFetch, Busy, NoFetch
<1> QED
  BY <1>2, <1>3, <1>4, <1>5 DEF BrowserInv

(* Operations on the cookie, until they are answered *)

LEMMA StartsOpKeeps ==
  ASSUME BrowserInv, NEW t \in Pages, NEW kind \in Kinds,
         NEW person \in {{}} \cup {{somebody} : somebody \in People},
         StartsOp(t, kind, person), page' = page, notice' = notice, signedOut' = signedOut,
         owner' = owner
  PROVE  OpsAreSound'
PROOF
<1> DEFINE o == [NoOp EXCEPT !.stage = "waiting", !.person = person]
<1>1. /\ o \in Op /\ o.ticket = 0 /\ o.token = 0 /\ o.stage = "waiting" /\ o.sameKey
  BY DEF NoOp, Op
<1>2. op' = [op EXCEPT ![t] = [@ EXCEPT ![kind] = o]]
  BY DEF StartsOp
<1> HIDE DEF o
<1>3. op'[t][kind] = o
  BY <1>2 DEF BrowserInv, OpsAreSound
<1>4. SoundOp(t, kind, op[t][kind])'
  BY <1>1, <1>3 DEF SoundOp
<1> QED
  BY <1>1, <1>2, <1>4, OpStepKeeps DEF Begun

LEMMA SignInKeeps ==
  ASSUME BrowserInv, NEW t \in Pages, NEW person \in People, SignIn(t, person)
  PROVE  BrowserInv'
PROOF
<1>1. OpsAreSound'
  BY StartsOpKeeps DEF SignIn, Kinds
<1> QED
  BY <1>1, ServerStays, PagesStay, FetchesStay DEF SignIn, BrowserInv, ServerIsSound, Begun

LEMMA LogoutAllKeeps ==
  ASSUME BrowserInv, NEW t \in Pages, LogoutAll(t)
  PROVE  BrowserInv'
PROOF
<1>1. OpsAreSound'
  BY StartsOpKeeps DEF LogoutAll, Kinds
<1>2. signOuts' \in Nat
  BY DEF LogoutAll, BrowserInv, ServerIsSound
<1> QED
  BY <1>1, <1>2, ServerStays, PagesStay, FetchesStay DEF LogoutAll, BrowserInv, Begun

LEMMA SendKeeps ==
  ASSUME BrowserInv, NEW t \in Pages, NEW kind \in Kinds, Send(t, kind)
  PROVE  BrowserInv'
PROOF
<1>1. ServerIsSound'
  BY ServerStays DEF Send, BrowserInv, ServerIsSound
<1>2. CASE kind = "refresh" /\ ~ op[t][kind].current
  BY <1>1, <1>2, FailsKeeps DEF Send, BrowserInv
<1>3. CASE ~ (kind = "refresh" /\ ~ op[t][kind].current)
  <2> DEFINE o == [op[t][kind] EXCEPT !.stage = "sent",
                     !.ticket = IF kind = "sign-in" THEN 0 ELSE cookie,
                     !.token = IF kind = "sign-out" THEN page[t].token ELSE 0]
  <2>1. op[t][kind] \in Op /\ SoundOp(t, kind, op[t][kind]) /\ op[t][kind].stage = "waiting"
    BY DEF BrowserInv, OpsAreSound, Send
  <2>2. /\ cookie \in Begun \cup {0} /\ page[t].token \in Begun \cup {0}
        /\ Begun \subseteq Sessions
    BY BrowserBoundsAssumption DEF BrowserInv, ServerIsSound, PagesAreSound, Begun, Sessions
  <2>3. /\ o \in Op /\ o.stage = "sent" /\ o.ticket \in {0, cookie}
        /\ o.token \in {0, page[t].token} /\ o.current = op[t][kind].current
        /\ o.sameKey = op[t][kind].sameKey
    BY <2>1, <2>2 DEF Op
  <2>4. op' = [op EXCEPT ![t] = [@ EXCEPT ![kind] = o]]
    BY <1>3, <2>1 DEF Send, BrowserInv, OpsAreSound
  <2>5. UNCHANGED <<page, fetch>>
    BY <1>3 DEF Send
  <2> HIDE DEF o
  <2>6. op'[t][kind] = o
    BY <2>4 DEF BrowserInv, OpsAreSound
  <2>7. SoundOp(t, kind, op[t][kind])'
    BY <2>1, <2>2, <2>3, <2>5, <2>6 DEF SoundOp, Begun, Send
  <2>8. OpsAreSound'
    BY <2>3, <2>4, <2>5, <2>7, OpStepKeeps DEF Send, Begun
  <2> QED
    BY <1>1, <2>5, <2>8, PagesStay, FetchesStay DEF Send, BrowserInv, Begun
<1> QED
  BY <1>2, <1>3

(* The server answers an operation.                                        *)
LEMMA RepliesKeeps ==
  ASSUME BrowserInv, NEW t \in Pages, NEW kind \in Kinds, op[t][kind].stage = "sent",
         NEW answer \in {"ok", "refused"}, NEW entered \in (Begun \cup {0})',
         Replies(t, kind, answer, entered), page' = page, notice' = notice,
         signedOut' = signedOut, Begun \subseteq Begun', Begun' \subseteq Sessions,
         kind \in Entering /\ answer = "ok" => entered # 0 /\ entered \notin signedOut
  PROVE  OpsAreSound'
PROOF
<1> DEFINE o == [op[t][kind] EXCEPT !.stage = "answered", !.answer = answer,
                   !.ticket = entered, !.token = 0, !.person = {}]
<1>1. op[t][kind] \in Op /\ SoundOp(t, kind, op[t][kind])
  BY DEF BrowserInv, OpsAreSound
<1>2. /\ o \in Op /\ o.stage = "answered" /\ o.answer = answer /\ o.ticket = entered
      /\ o.token = 0 /\ o.current = op[t][kind].current /\ o.sameKey = op[t][kind].sameKey
  BY <1>1 DEF Op
<1>3. op' = [op EXCEPT ![t] = [@ EXCEPT ![kind] = o]]
  BY <1>1 DEF Replies, BrowserInv, OpsAreSound
<1> HIDE DEF o
<1>4. op'[t][kind] = o
  BY <1>3 DEF BrowserInv, OpsAreSound
<1>5. SoundOp(t, kind, op[t][kind])'
  BY <1>1, <1>2, <1>4 DEF SoundOp
<1> QED
  BY <1>2, <1>3, <1>5, OpStepKeeps

LEMMA ServeSignInKeeps ==
  ASSUME BrowserInv, NEW t \in Pages, ServeSignIn(t)
  PROVE  BrowserInv'
PROOF
<1>1. PICK person \in op[t]["sign-in"].person : owner' = Append(owner, person)
  BY DEF ServeSignIn
<1>2. person \in People
  <2>1. op[t]["sign-in"] \in Op
    BY DEF BrowserInv, OpsAreSound, Kinds
  <2> QED
    BY <1>1, <2>1 DEF Op
<1>3. /\ owner' \in Seq(People) /\ Len(owner') = Len(owner) + 1 /\ Len(owner) \in Nat
      /\ Len(owner') <= MaxSessions
      /\ \A s \in 1..Len(owner) : owner'[s] = owner[s]
  BY <1>1, <1>2, BrowserBoundsAssumption DEF ServeSignIn, BrowserInv, ServerIsSound
<1>4. /\ Begun \subseteq Begun' /\ Begun' \subseteq Sessions /\ Len(owner') \in Begun'
      /\ Len(owner') # 0 /\ Len(owner') \notin Begun
  BY <1>3, BrowserBoundsAssumption DEF Begun, Sessions
<1>5. ServerIsSound'
  BY <1>3, <1>4 DEF ServeSignIn, BrowserInv, ServerIsSound
<1>6. PagesAreSound'
  BY <1>4, PagesStay DEF ServeSignIn
<1>7. OpsAreSound'
  <2>1. Len(owner') \notin signedOut
    BY <1>4 DEF BrowserInv, ServerIsSound
  <2>2. "sign-in" \in Kinds /\ Len(owner') \in (Begun \cup {0})'
    BY <1>4 DEF Kinds
  <2> QED
    BY <1>4, <2>1, <2>2, RepliesKeeps DEF ServeSignIn
<1>8. FetchesAreSound'
  BY <1>3, <1>4, FetchesStay DEF ServeSignIn, Begun
<1> QED
  BY <1>5, <1>6, <1>7, <1>8 DEF BrowserInv

LEMMA BegunAreSessions == BrowserInv => Begun \subseteq Sessions
BY BrowserBoundsAssumption DEF BrowserInv, ServerIsSound, Begun, Sessions

LEMMA ServeRefreshKeeps ==
  ASSUME BrowserInv, NEW t \in Pages, ServeRefresh(t)
  PROVE  BrowserInv'
PROOF
<1> DEFINE ticket == op[t]["refresh"].ticket
<1>1. ticket \in Begun \cup {0} /\ op[t]["refresh"].stage = "sent" /\ "refresh" \in Kinds
  BY DEF BrowserInv, OpsAreSound, SoundOp, Kinds, ServeRefresh
<1>2. \/ ticket # 0 /\ ticket \notin signedOut /\ Replies(t, "refresh", "ok", ticket)
      \/ Replies(t, "refresh", "refused", 0)
  BY DEF ServeRefresh, BrowserInv, ServerIsSound
<1> HIDE DEF ticket
<1>3. UNCHANGED <<cookie, owner, ended, page, notice, fetch, signOuts, signedOut>>
  BY DEF ServeRefresh
<1>4. Begun' = Begun /\ Begun \subseteq Sessions
  BY <1>3, BegunAreSessions DEF Begun
<1>5. OpsAreSound'
  <2>1. CASE ticket # 0 /\ ticket \notin signedOut /\ Replies(t, "refresh", "ok", ticket)
    BY <1>1, <1>3, <1>4, <2>1, RepliesKeeps
  <2>2. CASE Replies(t, "refresh", "refused", 0)
    BY <1>1, <1>3, <1>4, <2>2, RepliesKeeps
  <2> QED
    BY <1>2, <2>1, <2>2
<1> QED
  BY <1>3, <1>4, <1>5, ServerStays, PagesStay, FetchesStay DEF BrowserInv, ServerIsSound

LEMMA ServeSignOutKeeps ==
  ASSUME BrowserInv, NEW t \in Pages, ServeSignOut(t)
  PROVE  BrowserInv'
PROOF
<1>1. PICK entered \in {op[t]["sign-out"].token, op[t]["sign-out"].ticket} \ ended :
        /\ entered # 0 /\ ended' = ended \cup SessionsOf(owner[entered])
        /\ Replies(t, "sign-out", "ok", entered)
  BY DEF ServeSignOut
<1>2. UNCHANGED <<cookie, owner, page, notice, fetch, signOuts, signedOut>>
  BY DEF ServeSignOut
<1>3. entered \in Begun \cup {0} /\ op[t]["sign-out"].stage = "sent" /\ "sign-out" \in Kinds
  BY <1>1 DEF BrowserInv, OpsAreSound, SoundOp, Kinds, ServeSignOut
<1>4. Begun' = Begun /\ Begun \subseteq Sessions
  BY <1>2, BegunAreSessions DEF Begun
<1>5. OpsAreSound'
  BY <1>1, <1>2, <1>3, <1>4, RepliesKeeps DEF Entering
<1>6. ServerIsSound'
  <2>1. SessionsOf(owner[entered]) \subseteq Begun
    BY DEF SessionsOf, Begun, BrowserInv, ServerIsSound
  <2> QED
    BY <1>1, <1>2, <1>4, <2>1 DEF BrowserInv, ServerIsSound
<1> QED
  BY <1>2, <1>4, <1>5, <1>6, PagesStay, FetchesStay DEF BrowserInv

(* An answer arrives, or does not *)

LEMMA GetsNoAnswerKeeps ==
  ASSUME BrowserInv, NEW t \in Pages, NEW kind \in Kinds, GetsNoAnswer(t, kind)
  PROVE  BrowserInv'
BY ServerStays, FailsKeeps DEF GetsNoAnswer, BrowserInv, ServerIsSound

LEMMA EntersSessionKeeps ==
  ASSUME BrowserInv, NEW t \in Pages, NEW kind \in Kinds, EntersSession(t, kind)
  PROVE  BrowserInv'
PROOF
<1> DEFINE o == op[t][kind]
<1>1. /\ kind \in Entering /\ o.stage = "answered" /\ o.answer = "ok" /\ cookie' = o.ticket
      /\ UNCHANGED <<owner, ended, notice, signOuts, signedOut>>
  BY DEF EntersSession, Entering
<1>2. /\ o.ticket \in Begun
      /\ o.current /\ t \notin notice => o.ticket \notin signedOut
  BY <1>1 DEF BrowserInv, OpsAreSound, SoundOp
<1>3. ServerIsSound'
  BY <1>1, <1>2 DEF BrowserInv, ServerIsSound, Begun
<1>4. CASE o.current
  <2>1. SetSession(t, kind, o.ticket, kind = "sign-in")
    BY <1>4 DEF EntersSession
  <2> HIDE DEF o
  <2> QED
    BY <1>1, <1>2, <1>3, <1>4, <2>1, SetSessionKeeps DEF BrowserInv
<1>5. CASE ~ o.current
  <2>1. Fails(t, kind)
    BY <1>5 DEF EntersSession
  <2> HIDE DEF o
  <2> QED
    BY <1>1, <1>3, <2>1, FailsKeeps DEF BrowserInv
<1> QED
  BY <1>4, <1>5

LEMMA IsRefusedKeeps ==
  ASSUME BrowserInv, NEW t \in Pages, IsRefused(t)
  PROVE  BrowserInv'
PROOF
<1>1. UNCHANGED <<cookie, owner, ended, notice, signOuts, signedOut>> /\ "refresh" \in Kinds
  BY DEF IsRefused, Kinds
<1>2. ServerIsSound'
  BY <1>1, ServerStays DEF BrowserInv, ServerIsSound
<1>3. notice \subseteq Pages
  BY DEF BrowserInv, ServerIsSound
<1>4. CASE ClearSession(t, "refresh")
  BY <1>1, <1>2, <1>3, <1>4, ClearSessionKeeps DEF BrowserInv
<1>5. CASE Fails(t, "refresh")
  BY <1>1, <1>2, <1>5, FailsKeeps DEF BrowserInv
<1> QED
  BY <1>4, <1>5 DEF IsRefused

LEMMA LeavesSessionKeeps ==
  ASSUME BrowserInv, NEW t \in Pages, LeavesSession(t)
  PROVE  BrowserInv'
PROOF
<1>1. /\ ClearSession(t, "sign-out") /\ cookie' = 0
      /\ notice' = notice \cup (Pages \ {t}) /\ signedOut' \subseteq ended
      /\ UNCHANGED <<owner, ended, signOuts>>
  BY DEF LeavesSession, BrowserInv, ServerIsSound
<1>2. notice' \subseteq Pages
  BY <1>1 DEF BrowserInv, ServerIsSound
<1>3. ServerIsSound'
  BY <1>1, <1>2 DEF BrowserInv, ServerIsSound, Begun
<1> QED
  BY <1>1, <1>2, <1>3, ClearSessionKeeps DEF BrowserInv

LEMMA HearOfSignOutKeeps ==
  ASSUME BrowserInv, NEW t \in Pages, HearOfSignOut(t)
  PROVE  BrowserInv'
PROOF
<1>1. /\ ClearSession(t, "none") /\ notice' = notice \ {t}
      /\ UNCHANGED <<cookie, owner, ended, signOuts, signedOut>>
  BY DEF HearOfSignOut
<1>2. notice' \subseteq Pages
  BY <1>1 DEF BrowserInv, ServerIsSound
<1>3. ServerIsSound'
  BY <1>1, <1>2 DEF BrowserInv, ServerIsSound, Begun
<1> QED
  BY <1>1, <1>2, <1>3, ClearSessionKeeps DEF BrowserInv

(* Requests for resources *)

(* A step of a request only.                                               *)
LEMMA RequestStepKeeps ==
  ASSUME BrowserInv, FetchesAreSound',
         UNCHANGED <<cookie, owner, ended, page, op, notice, signOuts, signedOut>>
  PROVE  BrowserInv'
BY ServerStays, PagesStay, OpsStay DEF BrowserInv, ServerIsSound, Begun

LEMMA BeginFetchKeeps ==
  ASSUME BrowserInv, NEW r \in Fetches, NEW t \in Pages, BeginFetch(r, t)
  PROVE  BrowserInv'
PROOF
<1> DEFINE f == [stage |-> "sent", page |-> t, token |-> page[t].token, again |-> FALSE,
                 latest |-> TRUE, aborted |-> FALSE, sameKey |-> TRUE, answer |-> "none"]
<1>1. page[t].token \in Begun /\ page[t].token # 0 /\ Begun \subseteq Sessions
  BY BegunAreSessions DEF BeginFetch, BrowserInv, PagesAreSound
<1>2. /\ f \in Fetch /\ f.page = t /\ f.token = page[t].token /\ f.sameKey
  BY <1>1 DEF Fetch
<1>3. fetch' = [fetch EXCEPT ![r] = f] /\ page' = page /\ owner' = owner
  BY DEF BeginFetch
<1> HIDE DEF f
<1>4. SoundFetch(f)
  BY <1>1, <1>2 DEF SoundFetch
<1> QED
  BY <1>2, <1>3, <1>4, FetchStepKeeps, RequestStepKeeps DEF BeginFetch

LEMMA ServeFetchKeeps ==
  ASSUME BrowserInv, NEW r \in Fetches, ServeFetch(r)
  PROVE  BrowserInv'
PROOF
<1>1. PICK answer \in {"ok", "expired", "refused"} :
        fetch' = [fetch EXCEPT ![r].stage = "answered", ![r].answer = answer]
  BY DEF ServeFetch
<1> DEFINE f == [fetch[r] EXCEPT !.stage = "answered", !.answer = answer]
<1>2. fetch[r] \in Fetch /\ Busy(fetch[r]) /\ SoundFetch(fetch[r])
  BY BusyType DEF ServeFetch, BrowserInv, FetchesAreSound, Busy
<1>3. /\ f \in Fetch /\ f.page = fetch[r].page /\ f.token = fetch[r].token
      /\ f.aborted = fetch[r].aborted /\ f.sameKey = fetch[r].sameKey
  BY <1>2 DEF Fetch
<1>4. fetch' = [fetch EXCEPT ![r] = f] /\ page' = page /\ owner' = owner
  BY <1>1 DEF ServeFetch, BrowserInv, FetchesAreSound
<1> HIDE DEF f
<1>5. SoundFetch(f)
  BY <1>2, <1>3 DEF SoundFetch
<1> QED
  BY <1>3, <1>4, <1>5, FetchStepKeeps, RequestStepKeeps DEF ServeFetch

LEMMA EndsFetchKeeps ==
  ASSUME BrowserInv, NEW r \in Fetches, LoseFetch(r) \/ Give(r)
  PROVE  BrowserInv'
PROOF
<1>1. SoundFetch(NoFetch) /\ SoundFetch(Given)
  BY DEF SoundFetch, Busy, NoFetch, Given
<1> QED
  BY <1>1, FetchStepKeeps, RequestStepKeeps DEF LoseFetch, Give

LEMMA AwaitRefreshKeeps ==
  ASSUME BrowserInv, NEW r \in Fetches, AwaitRefresh(r)
  PROVE  BrowserInv'
PROOF
<1> DEFINE f == [fetch[r] EXCEPT !.stage = "refreshing"]
<1>1. fetch[r] \in Fetch /\ Busy(fetch[r]) /\ SoundFetch(fetch[r])
  BY BusyType DEF AwaitRefresh, Arrives, BrowserInv, FetchesAreSound, Busy
<1>2. /\ f \in Fetch /\ f.page = fetch[r].page /\ f.token = fetch[r].token
      /\ f.aborted = fetch[r].aborted /\ f.sameKey = fetch[r].sameKey
  BY <1>1 DEF Fetch
<1>3. /\ fetch' = [fetch EXCEPT ![r] = f]
      /\ UNCHANGED <<cookie, owner, ended, page, notice, signOuts, signedOut>>
  BY DEF AwaitRefresh, BrowserInv, FetchesAreSound
<1> HIDE DEF f
<1>4. SoundFetch(f)
  BY <1>1, <1>2 DEF SoundFetch
<1>5. FetchesAreSound'
  BY <1>2, <1>3, <1>4, FetchStepKeeps
<1>6. OpsAreSound'
  <2>1. fetch[r].page \in Pages /\ "refresh" \in Kinds
    BY <1>1 DEF Fetch, Kinds
  <2>2. CASE StartsOp(fetch[r].page, "refresh", {})
    BY <1>3, <2>1, <2>2, StartsOpKeeps
  <2>3. CASE UNCHANGED op
    BY <1>3, <2>3, OpsStay
  <2> QED
    BY <2>2, <2>3 DEF AwaitRefresh
<1> QED
  BY <1>3, <1>5, <1>6, ServerStays, PagesStay DEF BrowserInv, ServerIsSound, Begun

LEMMA TryAgainKeeps ==
  ASSUME BrowserInv, NEW r \in Fetches, TryAgain(r)
  PROVE  BrowserInv'
PROOF
<1> DEFINE f == fetch[r]
           token == page[f.page].token
           again == [f EXCEPT !.stage = "sent", !.token = token, !.again = TRUE,
                              !.latest = TRUE, !.answer = "none"]
<1>1. f \in Fetch /\ Busy(f) /\ SoundFetch(f) /\ ~ f.aborted
  BY BusyType DEF TryAgain, Arrives, BrowserInv, FetchesAreSound, Busy
<1>2. f.page \in Pages /\ token # 0 /\ f.sameKey
  BY <1>1 DEF SoundFetch, Fetch
<1>3. token \in Begun /\ Begun \subseteq Sessions
  BY <1>2, BegunAreSessions DEF BrowserInv, PagesAreSound
<1> HIDE DEF token, f
<1>4. /\ again \in Fetch /\ again.page = f.page /\ again.token = token /\ again.sameKey
  BY <1>1, <1>2, <1>3 DEF Fetch
<1>5. /\ fetch' = [fetch EXCEPT ![r] = again]
      /\ UNCHANGED <<cookie, owner, ended, page, op, notice, signOuts, signedOut>>
  BY <1>1, <1>2 DEF TryAgain, Retried, token, f
<1> HIDE DEF again
<1>6. SoundFetch(again)
  BY <1>2, <1>3, <1>4 DEF SoundFetch, token
<1>7. FetchesAreSound'
  BY <1>4, <1>5, <1>6, FetchStepKeeps
<1> QED
  BY <1>5, <1>7, RequestStepKeeps

LEMMA CancelFetchesKeeps ==
  ASSUME BrowserInv, NEW t \in Pages, CancelFetches(t)
  PROVE  BrowserInv'
PROOF
<1> DEFINE next(r) == IF IsOf(fetch[r], t) THEN [fetch[r] EXCEPT !.aborted = TRUE] ELSE fetch[r]
<1>1. fetch' = [r \in Fetches |-> next(r)]
  BY DEF CancelFetches
<1>2. UNCHANGED <<cookie, owner, ended, page, op, notice, signOuts, signedOut>>
  BY DEF CancelFetches
<1>3. ASSUME NEW r \in Fetches
      PROVE  next(r) \in Fetch \cup {NoFetch, Given} /\ SoundFetch(fetch[r])'
  <2>1. fetch[r] \in Fetch \cup {NoFetch, Given} /\ SoundFetch(fetch[r]) /\ fetch'[r] = next(r)
    BY <1>1 DEF BrowserInv, FetchesAreSound
  <2>2. CASE IsOf(fetch[r], t)
    <3>1. fetch[r] \in Fetch /\ Busy(fetch[r])
      BY <2>1, <2>2, BusyType DEF IsOf, Busy
    <3>2. /\ next(r) \in Fetch /\ next(r).token = fetch[r].token /\ next(r).aborted
      BY <2>2, <3>1 DEF Fetch
    <3> HIDE DEF next
    <3> QED
      BY <1>2, <2>1, <3>1, <3>2 DEF SoundFetch, Begun
  <2>3. CASE ~ IsOf(fetch[r], t)
    <3>1. next(r) = fetch[r]
      BY <2>3
    <3> HIDE DEF next
    <3> QED
      BY <1>2, <2>1, <3>1 DEF SoundFetch, Begun, Busy
  <2> QED
    BY <2>2, <2>3
<1> HIDE DEF next
<1>4. fetch' \in [Fetches -> Fetch \cup {NoFetch, Given}]
  BY <1>1, <1>3
<1>5. FetchesAreSound'
  BY <1>3, <1>4 DEF FetchesAreSound
<1> QED
  BY <1>2, <1>5, RequestStepKeeps

LEMMA LoseSessionKeeps ==
  ASSUME BrowserInv, NEW r \in Fetches, LoseSession(r)
  PROVE  BrowserInv'
PROOF
<1> DEFINE t == fetch[r].page
<1>1. t \in Pages
  BY BusyType DEF LoseSession, Arrives, BrowserInv, FetchesAreSound, Busy, Fetch
<1>2. /\ Shows(t, "none", 0) /\ op' = Remaining(t, "none", TRUE, TRUE)
      /\ fetch' = [Followed(t, "none", 0, TRUE, TRUE) EXCEPT ![r] = NoFetch]
      /\ UNCHANGED <<cookie, owner, ended, notice, signOuts, signedOut>>
  BY DEF LoseSession
<1> HIDE DEF t
<1> DEFINE next(s) == IF s = r THEN NoFetch ELSE FollowedCleared(t, "none", s)
<1>3. fetch' = [s \in Fetches |-> next(s)]
  BY <1>2 DEF Followed, FollowedCleared
<1>4. ASSUME NEW s \in Fetches
      PROVE  /\ next(s) \in Fetch \cup {NoFetch, Given}
             /\ next(s) = NoFetch \/ next(s) = FollowedCleared(t, "none", s)
  BY <1>1, FollowedByNobody
<1> HIDE DEF next
<1>5. /\ fetch' \in [Fetches -> Fetch \cup {NoFetch, Given}]
      /\ \A s \in Fetches : fetch'[s] = NoFetch \/ fetch'[s] = FollowedCleared(t, "none", s)
  BY <1>3, <1>4
<1>6. notice' \subseteq Pages
  BY <1>2 DEF BrowserInv, ServerIsSound
<1>7. PagesAreSound' /\ OpsAreSound' /\ FetchesAreSound'
  BY <1>1, <1>2, <1>5, <1>6, ClearedKeeps
<1> QED
  BY <1>2, <1>7, ServerStays DEF BrowserInv, ServerIsSound

LEMMA BrowserStepKeeps == BrowserInv /\ [BrowserNext]_browserVars => BrowserInv'
PROOF
<1> SUFFICES ASSUME BrowserInv, [BrowserNext]_browserVars PROVE BrowserInv'
  OBVIOUS
<1>1. CASE UNCHANGED browserVars
  <2>1. UNCHANGED <<cookie, owner, ended, page, op, notice, fetch, signOuts, signedOut>>
    BY <1>1 DEF browserVars
  <2> QED
    BY <2>1, ServerStays, PagesStay, OpsStay, FetchesStay
       DEF BrowserInv, ServerIsSound, Begun
<1>2. ASSUME NEW t \in Pages,
             \/ \E person \in People : SignIn(t, person)
             \/ LogoutAll(t) \/ HearOfSignOut(t) \/ CancelFetches(t)
             \/ ServeSignIn(t) \/ ServeRefresh(t) \/ ServeSignOut(t)
             \/ IsRefused(t) \/ LeavesSession(t)
             \/ \E kind \in Kinds : Send(t, kind) \/ GetsNoAnswer(t, kind) \/ EntersSession(t, kind)
      PROVE  BrowserInv'
  BY <1>2, SignInKeeps, LogoutAllKeeps, HearOfSignOutKeeps, CancelFetchesKeeps,
     ServeSignInKeeps, ServeRefreshKeeps, ServeSignOutKeeps, IsRefusedKeeps,
     LeavesSessionKeeps, SendKeeps, GetsNoAnswerKeeps, EntersSessionKeeps
<1>3. ASSUME NEW r \in Fetches,
             \/ \E t \in Pages : BeginFetch(r, t)
             \/ ServeFetch(r) \/ LoseFetch(r) \/ Give(r) \/ AwaitRefresh(r) \/ TryAgain(r)
             \/ LoseSession(r)
      PROVE  BrowserInv'
  BY <1>3, BeginFetchKeeps, ServeFetchKeeps, EndsFetchKeeps, AwaitRefreshKeeps,
     TryAgainKeeps, LoseSessionKeeps
<1> QED
  BY <1>1, <1>2, <1>3 DEF BrowserNext

(* Whatever happens in the pages, at the server and between them, tokens   *)
(* are of sessions that began, an answer that arrives in its page's epoch  *)
(* is of a session whose sign-out the page has not missed, and a request   *)
(* that was not aborted is of the person its page shows.                   *)
THEOREM BrowserInductive == BrowserSpec => []BrowserInv
PROOF
<1> QED
  BY BrowserInitially, BrowserStepKeeps, PTL DEF BrowserSpec

(* The state of the pages, their operations and their requests has its     *)
(* types.                                                                  *)
THEOREM BrowserTypeCorrect == BrowserSpec => []BrowserTypeOK
PROOF
<1>1. BrowserInv => BrowserTypeOK
  BY BegunAreSessions
     DEF BrowserInv, BrowserTypeOK, ServerIsSound, PagesAreSound, OpsAreSound, FetchesAreSound
<1> QED
  BY <1>1, BrowserInductive, PTL

-----------------------------------------------------------------------------
(* What a step may do with what a page shows and with what it asked for    *)

NobodyIsMistaken == FetchesKeepTheirPerson /\ NobodyComesBack

(* Nobody is shown where nobody was, and no request is sent again or       *)
(* brings anything.                                                        *)
LEMMA NothingIsBrought ==
  ASSUME \A t \in Pages : page'[t].token = page[t].token \/ page'[t].token = 0,
         \A r \in Fetches : RequestIsKept(r)
  PROVE  NobodyIsMistaken
PROOF
<1>1. NobodyComesBack
  BY DEF NobodyComesBack
<1>2. FetchesKeepTheirPerson
  BY DEF FetchesKeepTheirPerson, RequestIsKept
<1> QED
  BY <1>1, <1>2 DEF NobodyIsMistaken

LEMMA FailsBringsNothing ==
  ASSUME BrowserInv, NEW t \in Pages, NEW kind \in Kinds, Fails(t, kind)
  PROVE  NobodyIsMistaken
PROOF
<1>1. \A u \in Pages : page'[u].token = page[u].token
  BY ShownPage DEF Fails, BrowserInv, PagesAreSound
<1>2. \A r \in Fetches : fetch'[r] \in {fetch[r], NoFetch}
  BY DEF Fails
<1> QED
  BY <1>1, <1>2, NothingIsBrought DEF RequestIsKept, NoFetch

LEMMA ClearedBringsNothing ==
  ASSUME BrowserInv, NEW t \in Pages, NEW kind, Shows(t, kind, 0),
         \A r \in Fetches : fetch'[r] = NoFetch \/ fetch'[r] = FollowedCleared(t, kind, r)
  PROVE  NobodyIsMistaken
PROOF
<1>1. \A u \in Pages : page'[u].token = page[u].token \/ page'[u].token = 0
  BY ShownPage
<1>2. ASSUME NEW r \in Fetches PROVE RequestIsKept(r)
  <2>1. CASE fetch'[r] = NoFetch
    BY <2>1 DEF RequestIsKept, NoFetch
  <2>2. CASE fetch'[r] = FollowedCleared(t, kind, r)
    BY <2>2, FollowedByNobody DEF RequestIsKept, NoFetch
  <2> QED
    BY <2>1, <2>2
<1> QED
  BY <1>1, <1>2, NothingIsBrought

LEMMA ClearSessionBringsNothing ==
  ASSUME BrowserInv, NEW t \in Pages, NEW kind, ClearSession(t, kind)
  PROVE  NobodyIsMistaken
PROOF
<1>1. fetch' = [r \in Fetches |-> FollowedCleared(t, kind, r)]
  BY DEF ClearSession, Followed, FollowedCleared
<1>2. \A r \in Fetches : fetch'[r] = FollowedCleared(t, kind, r)
  BY <1>1, AllCleared
<1> QED
  BY <1>2, ClearedBringsNothing DEF ClearSession

(* The answer of a sign-in or a refresh that is of the page's epoch.       *)
LEMMA EnteringIsNotMistaken ==
  ASSUME BrowserInv, NEW t \in Pages, NEW kind \in Kinds, EntersSession(t, kind)
  PROVE  NobodyIsMistaken
PROOF
<1> DEFINE o == op[t][kind]
<1>1. /\ kind \in Entering /\ o.stage = "answered" /\ o.answer = "ok"
      /\ UNCHANGED <<owner, ended, notice, signOuts, signedOut>>
  BY DEF EntersSession, Entering
<1>2. SoundOp(t, kind, o) /\ o.ticket \in Begun
      /\ (o.current /\ t \notin notice => o.ticket \notin signedOut)
  BY <1>1 DEF BrowserInv, OpsAreSound, SoundOp
<1>3. CASE ~ o.current
  BY <1>3, FailsBringsNothing DEF EntersSession
<1>4. CASE o.current
  <2>1. SetSession(t, kind, o.ticket, kind = "sign-in")
    BY <1>4 DEF EntersSession
  <2> HIDE DEF o
  <2>2. \A r \in Fetches : RequestIsKept(r)
    BY <1>1, <1>2, <1>4, <2>1, SetSessionKeeps
  <2>3. FetchesKeepTheirPerson
    BY <2>2 DEF FetchesKeepTheirPerson, RequestIsKept
  <2>4. \A u \in Pages \ {t} : page'[u] = page[u]
    BY <1>2, <2>1, ShownPage DEF SetSession
  <2>5. op'[t][kind].stage = "idle"
    <3>1. op'[t][kind] = NoOp
      BY <2>1 DEF SetSession, Remaining, BrowserInv, OpsAreSound
    <3> QED
      BY <3>1, NoOpType
  <2>6. page[t].token = 0 => o.sameKey
    BY <1>1, <1>2, <1>4 DEF SoundOp
  <2>7. NobodyComesBack
    BY <1>1, <2>4, <2>5, <2>6 DEF NobodyComesBack, Entering, o
  <2> QED
    BY <2>3, <2>7 DEF NobodyIsMistaken
<1> QED
  BY <1>3, <1>4

(* The steps of a single request.                                          *)
LEMMA RequestIsNotMistaken ==
  ASSUME BrowserInv, NEW r \in Fetches, page' = page,
         \A s \in Fetches \ {r} : fetch'[s] = fetch[s],
         \/ fetch'[r].stage \in {"idle", "answered", "refreshing"}
         \/ fetch[r].stage \in {"idle", "given"} /\ fetch'[r].stage = "sent"
         \/ RequestIsKept(r)
         \/ fetch'[r].stage = "given" /\ fetch[r].sameKey
  PROVE  NobodyIsMistaken
PROOF
<1>1. NobodyComesBack
  BY DEF NobodyComesBack
<1>2. FetchesKeepTheirPerson
  BY DEF FetchesKeepTheirPerson, RequestIsKept
<1> QED
  BY <1>1, <1>2 DEF NobodyIsMistaken

LEMMA FetchIsNotMistaken ==
  ASSUME BrowserInv, NEW r \in Fetches,
         \/ \E t \in Pages : BeginFetch(r, t)
         \/ ServeFetch(r) \/ LoseFetch(r) \/ Give(r) \/ AwaitRefresh(r)
  PROVE  NobodyIsMistaken
PROOF
<1>1. fetch[r] \in Fetch \cup {NoFetch, Given} /\ fetch \in [Fetches -> Fetch \cup {NoFetch, Given}]
  BY DEF BrowserInv, FetchesAreSound
<1>2. page' = page /\ \A s \in Fetches \ {r} : fetch'[s] = fetch[s]
  BY <1>1 DEF BeginFetch, ServeFetch, LoseFetch, Give, AwaitRefresh
<1>3. ASSUME NEW t \in Pages, BeginFetch(r, t)
      PROVE  fetch[r].stage \in {"idle", "given"} /\ fetch'[r].stage = "sent"
  BY <1>1, <1>3 DEF BeginFetch
<1>4. CASE ServeFetch(r)
  <2>1. fetch[r] \in Fetch
    BY <1>1, <1>4, BusyType DEF ServeFetch, Busy
  <2>2. PICK answer \in {"ok", "expired", "refused"} :
          fetch' = [fetch EXCEPT ![r].stage = "answered", ![r].answer = answer]
    BY <1>4 DEF ServeFetch
  <2>3. fetch'[r].stage = "answered"
    BY <1>1, <2>1, <2>2 DEF Fetch
  <2> QED
    BY <1>2, <2>3, RequestIsNotMistaken
<1>5. CASE LoseFetch(r)
  <2>1. fetch'[r].stage = "idle"
    BY <1>1, <1>5 DEF LoseFetch, NoFetch
  <2> QED
    BY <1>2, <2>1, RequestIsNotMistaken
<1>6. CASE Give(r)
  <2>1. fetch'[r].stage = "given"
    BY <1>1, <1>6 DEF Give, Given
  <2>2. fetch[r].sameKey
    BY <1>6 DEF Give, Arrives, BrowserInv, FetchesAreSound, SoundFetch, Busy
  <2> QED
    BY <1>2, <2>1, <2>2, RequestIsNotMistaken
<1>7. CASE AwaitRefresh(r)
  <2>1. fetch[r] \in Fetch
    BY <1>1, <1>7, BusyType DEF AwaitRefresh, Arrives, Busy
  <2>2. fetch'[r].stage = "refreshing"
    BY <1>1, <1>7, <2>1 DEF AwaitRefresh, Fetch
  <2> QED
    BY <1>2, <2>2, RequestIsNotMistaken
<1> QED
  BY <1>2, <1>3, <1>4, <1>5, <1>6, <1>7, RequestIsNotMistaken

LEMMA TryAgainIsNotMistaken ==
  ASSUME BrowserInv, NEW r \in Fetches, TryAgain(r)
  PROVE  NobodyIsMistaken
PROOF
<1> DEFINE f == fetch[r]
           token == page[f.page].token
<1>1. f \in Fetch /\ Busy(f) /\ SoundFetch(f) /\ ~ f.aborted
  BY BusyType DEF TryAgain, Arrives, BrowserInv, FetchesAreSound, Busy
<1>2. token # 0 /\ owner[f.token] = owner[token] /\ f.sameKey
  BY <1>1 DEF SoundFetch
<1> HIDE DEF token, f
<1>3. /\ fetch' = [fetch EXCEPT ![r] = [f EXCEPT !.stage = "sent", !.token = token,
                      !.again = TRUE, !.latest = TRUE, !.answer = "none"]]
      /\ page' = page
  BY <1>1, <1>2 DEF TryAgain, Retried, token, f
<1>4. /\ fetch'[r].stage = "sent" /\ fetch'[r].token = token /\ fetch'[r].sameKey
      /\ \A s \in Fetches \ {r} : fetch'[s] = fetch[s]
  BY <1>1, <1>2, <1>3 DEF Fetch, BrowserInv, FetchesAreSound
<1>5. RequestIsKept(r)
  BY <1>2, <1>4 DEF RequestIsKept, f
<1> QED
  BY <1>3, <1>4, <1>5, RequestIsNotMistaken

LEMMA CancelBringsNothing ==
  ASSUME BrowserInv, NEW t \in Pages, CancelFetches(t)
  PROVE  NobodyIsMistaken
PROOF
<1>1. ASSUME NEW r \in Fetches PROVE fetch'[r].stage = fetch[r].stage
  <2>1. CASE IsOf(fetch[r], t)
    <3>1. fetch[r] \in Fetch
      BY <2>1, BusyType DEF IsOf, Busy, BrowserInv, FetchesAreSound
    <3> QED
      BY <2>1, <3>1 DEF CancelFetches, Fetch
  <2>2. CASE ~ IsOf(fetch[r], t)
    BY <2>2 DEF CancelFetches
  <2> QED
    BY <2>1, <2>2
<1> QED
  BY <1>1, NothingIsBrought DEF CancelFetches, RequestIsKept

LEMMA LosingIsNotMistaken ==
  ASSUME BrowserInv, NEW r \in Fetches, LoseSession(r)
  PROVE  NobodyIsMistaken
PROOF
<1> DEFINE t == fetch[r].page
<1>1. t \in Pages
  BY BusyType DEF LoseSession, Arrives, BrowserInv, FetchesAreSound, Busy, Fetch
<1>2. /\ Shows(t, "none", 0)
      /\ fetch' = [Followed(t, "none", 0, TRUE, TRUE) EXCEPT ![r] = NoFetch]
  BY DEF LoseSession
<1> HIDE DEF t
<1>3. \A s \in Fetches : fetch'[s] = NoFetch \/ fetch'[s] = FollowedCleared(t, "none", s)
  BY <1>2 DEF Followed, FollowedCleared
<1> QED
  BY <1>1, <1>2, <1>3, ClearedBringsNothing

LEMMA StepIsNotMistaken == BrowserInv /\ [BrowserNext]_browserVars => NobodyIsMistaken
PROOF
<1> SUFFICES ASSUME BrowserInv, [BrowserNext]_browserVars PROVE NobodyIsMistaken
  OBVIOUS
<1>1. ASSUME page' = page, fetch' = fetch PROVE NobodyIsMistaken
  BY <1>1, NothingIsBrought DEF RequestIsKept
<1>2. CASE UNCHANGED browserVars
  BY <1>1, <1>2 DEF browserVars
<1>3. ASSUME NEW t \in Pages,
             \/ \E person \in People : SignIn(t, person)
             \/ LogoutAll(t) \/ ServeSignIn(t) \/ ServeRefresh(t) \/ ServeSignOut(t)
      PROVE  NobodyIsMistaken
  BY <1>1, <1>3 DEF SignIn, LogoutAll, ServeSignIn, ServeRefresh, ServeSignOut
<1>4. ASSUME NEW t \in Pages,
             HearOfSignOut(t) \/ CancelFetches(t) \/ IsRefused(t) \/ LeavesSession(t)
      PROVE  NobodyIsMistaken
  <2>1. "refresh" \in Kinds
    BY DEF Kinds
  <2> QED
    BY <1>4, <2>1, ClearSessionBringsNothing, FailsBringsNothing, CancelBringsNothing
       DEF HearOfSignOut, IsRefused, LeavesSession
<1>5. ASSUME NEW t \in Pages, NEW kind \in Kinds,
             Send(t, kind) \/ GetsNoAnswer(t, kind) \/ EntersSession(t, kind)
      PROVE  NobodyIsMistaken
  BY <1>1, <1>5, FailsBringsNothing, EnteringIsNotMistaken DEF Send, GetsNoAnswer
<1>6. ASSUME NEW r \in Fetches,
             \/ \E t \in Pages : BeginFetch(r, t)
             \/ ServeFetch(r) \/ LoseFetch(r) \/ Give(r) \/ AwaitRefresh(r) \/ TryAgain(r)
             \/ LoseSession(r)
      PROVE  NobodyIsMistaken
  BY <1>6, FetchIsNotMistaken, TryAgainIsNotMistaken, LosingIsNotMistaken
<1> QED
  BY <1>2, <1>3, <1>4, <1>5, <1>6 DEF BrowserNext

(* A request is sent again, and brings something, only for the person and  *)
(* under the key it began with; a page that was signed out shows somebody  *)
(* again only by what began after that; and who shows a session that was   *)
(* signed out will hear of it.                                             *)
THEOREM PagesKeepTheirs == BrowserSpec => PagesKeepTheirSession
PROOF
<1>1. /\ BrowserInv /\ BrowserInv' /\ [BrowserNext]_browserVars
      => [FetchesKeepTheirPerson /\ NobodyComesBack /\ SignOutReachesPages']_browserVars
  BY StepIsNotMistaken DEF NobodyIsMistaken, BrowserInv, PagesAreSound
<1> QED
  BY <1>1, BrowserInductive, PTL DEF BrowserSpec, PagesKeepTheirSession

=============================================================================
