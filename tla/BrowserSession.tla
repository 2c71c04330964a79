--------------------------- MODULE BrowserSession ---------------------------
(***************************************************************************)
(* The signed-in pages (tabs) of one browser.  Each page keeps an access   *)
(* token in memory; the refresh ticket is a cookie that all of them share, *)
(* so a page may be handed the session of another person who signed in on  *)
(* another page meanwhile.  Sign-in, refresh and sign-out change the       *)
(* cookie and wait for each other where the browser has locks.  Answers    *)
(* come late, or never; a sign-out is told to the other pages.             *)
(*                                                                         *)
(* Sessions are numbered as they begin; a token is the number of its       *)
(* session.  Epochs, controllers, session keys and tokens are compared     *)
(* only with those an operation began with, so what is kept with it is     *)
(* whether they are still the same.  The server is what                    *)
(* AuthSession says of it: a session ends when its user signs out, and a   *)
(* refresh or a request may be refused at any time.                        *)
(***************************************************************************)
EXTENDS Naturals, Sequences, FiniteSets

CONSTANTS
  Pages, People, Fetches,
  HasLocks,     \* the browser locks the cookie for an operation
  MaxSessions,  \* bound: sign-ins
  MaxSignOuts,  \* bound: sign-outs
  MaxAtOnce     \* bound: requests at a time and sign-outs

ASSUME BrowserBoundsAssumption ==
  HasLocks \in BOOLEAN /\ MaxSessions \in Nat \ {0} /\ MaxSignOuts \in Nat /\ MaxAtOnce \in Nat

VARIABLES
  cookie,     \* the session of the refresh cookie, 0 if there is none
  owner,      \* server: whose each session is
  ended,      \* server: sessions that were signed out
  page,       \* the state of each page's AuthClient
  op,         \* the operations of each page on the cookie
  notice,     \* pages that will hear of a sign-out
  fetch,      \* requests for resources
  signOuts,   \* sign-outs begun (bound)
  signedOut   \* sessions whose sign-out was answered (for the property only)

browserVars ==
  <<cookie, owner, ended, page, op, notice, fetch, signOuts, signedOut>>

Kinds == {"sign-in", "refresh", "sign-out"}
Sessions == 1..MaxSessions

Page ==
  [token : Sessions \cup {0},  \* accessToken and identity
   restoring : BOOLEAN]        \* App: the first refresh has not ended

Op ==
  [stage : {"idle", "waiting", "sent", "answered"},
   person : {{}} \cup {{person} : person \in People},
   token : Sessions \cup {0}, ticket : Sessions \cup {0},
   current : BOOLEAN,          \* the epoch is the one it began in
   sameKey : BOOLEAN,          \* and so is the session key (for the property only)
   answer : {"none", "ok", "refused", "error"}]

Fetch ==
  [stage : {"sent", "answered", "refreshing"},
   page : Pages, token : Sessions \cup {0}, again : BOOLEAN,
   latest : BOOLEAN,           \* the page has not got another token since
   aborted : BOOLEAN,          \* its controller was aborted
   sameKey : BOOLEAN,          \* as in Op
   answer : {"none", "ok", "expired", "refused"}]

NoFetch == [stage |-> "idle"]
Given == [stage |-> "given"]

BrowserTypeOK ==
  /\ cookie \in Sessions \cup {0}
  /\ owner \in Seq(People) /\ ended \subseteq Sessions /\ signedOut \subseteq ended
  /\ page \in [Pages -> Page] /\ op \in [Pages -> [Kinds -> Op]]
  /\ notice \subseteq Pages /\ signOuts \in Nat
  /\ fetch \in [Fetches -> Fetch \cup {NoFetch, Given}]

NoOp ==
  [stage |-> "idle", person |-> {}, token |-> 0, ticket |-> 0, current |-> TRUE,
   sameKey |-> TRUE, answer |-> "none"]

InFlight(t, kind) == op[t][kind].stage \in {"sent", "answered"}

-----------------------------------------------------------------------------
(* What an answer does to the page: the epoch ends, the requests of the    *)
(* controller are aborted, the token is replaced.                          *)

(* The operations of page t, after kind has ended with it.                 *)
Remaining(t, kind, epochEnds, keyChanges) ==
  LET Goes(o) == [o EXCEPT !.current = @ /\ ~ epochEnds, !.sameKey = @ /\ ~ keyChanges]
  IN [op EXCEPT ![t] =
        [k \in Kinds |->
           IF k = kind \/ op[t][k].stage = "idle" THEN NoOp ELSE Goes(op[t][k])]]

(* A request that waited for the refresh goes on with what it brought.     *)
Retried(f, token) ==
  IF ~ f.aborted /\ token # 0
  THEN [f EXCEPT !.stage = "sent", !.token = token, !.again = TRUE, !.latest = TRUE,
                 !.answer = "none"]
  ELSE NoFetch

IsOf(f, t) == f.stage \in {"sent", "answered", "refreshing"} /\ f.page = t

(* The requests of page t when it has this token, and whether its          *)
(* controller was aborted and its key changed.                             *)
Followed(t, kind, token, aborts, keyChanges) ==
  [r \in Fetches |->
     LET f == fetch[r]
         kept == [f EXCEPT !.latest = FALSE, !.aborted = @ \/ aborts,
                           !.sameKey = @ /\ ~ keyChanges]
     IN IF ~ IsOf(f, t) THEN f
        ELSE IF kind = "refresh" /\ f.stage = "refreshing" THEN Retried(kept, token)
        ELSE kept]

Shows(t, kind, token) ==
  page' = [page EXCEPT ![t] = [token |-> token, restoring |-> @.restoring /\ kind # "refresh"]]

(* clearSession(), at the end of an operation or of a request.             *)
ClearSession(t, kind) ==
  /\ Shows(t, kind, 0)
  /\ op' = Remaining(t, kind, TRUE, TRUE)
  /\ fetch' = Followed(t, kind, 0, TRUE, TRUE)

(* setSession(): is it another identity?                                   *)
IsAnother(t, session, newSession) ==
  newSession \/ page[t].token = 0 \/ owner[page[t].token] # owner[session]

(* Fault for checking: only a sign-in aborts what is under way.            *)
SetSession_KeepsFetches(t, kind, session, newSession) ==
  LET another == IsAnother(t, session, newSession)
  IN /\ Shows(t, kind, session)
     /\ op' = Remaining(t, kind, newSession, another)
     /\ fetch' = Followed(t, kind, session, newSession, another)

SetSession(t, kind, session, newSession) ==
  LET another == IsAnother(t, session, newSession)
  IN /\ Shows(t, kind, session)
     /\ op' = Remaining(t, kind, newSession, another)
     /\ fetch' = Followed(t, kind, session, another, another)

(* The operation ends, and with it the requests that waited for it; the    *)
(* page stays as it is.                                                    *)
Fails(t, kind) ==
  /\ Shows(t, kind, page[t].token)
  /\ op' = Remaining(t, kind, FALSE, FALSE)
  /\ fetch' = [r \in Fetches |->
       IF IsOf(fetch[r], t) /\ kind = "refresh" /\ fetch[r].stage = "refreshing"
       THEN NoFetch ELSE fetch[r]]

-----------------------------------------------------------------------------
(* Operations on the cookie *)

StartsOp(t, kind, person) ==
  /\ op[t][kind].stage = "idle"
  /\ op' = [op EXCEPT ![t][kind] = [NoOp EXCEPT !.stage = "waiting", !.person = person]]

(* selectTenant(), after login(): the form is there when nobody is.        *)
SignIn(t, person) ==
  /\ page[t].token = 0 /\ ~ page[t].restoring
  /\ StartsOp(t, "sign-in", {person})
  /\ UNCHANGED <<cookie, owner, ended, page, notice, fetch, signOuts, signedOut>>

HasRoom ==
  signOuts + Cardinality({r \in Fetches : fetch[r].stage \notin {"idle", "given"}}) < MaxAtOnce

(* logoutAll() *)
LogoutAll(t) ==
  /\ page[t].token # 0 /\ signOuts < MaxSignOuts /\ HasRoom
  /\ StartsOp(t, "sign-out", {}) /\ signOuts' = signOuts + 1
  /\ UNCHANGED <<cookie, owner, ended, page, notice, fetch, signedOut>>

CookieIsFree == HasLocks => \A t \in Pages, kind \in Kinds : ~ InFlight(t, kind)

(* cookieLock(): with the cookie and the token there are now.              *)
Send(t, kind) ==
  /\ op[t][kind].stage = "waiting" /\ CookieIsFree
  /\ IF kind = "refresh" /\ ~ op[t][kind].current
     THEN Fails(t, kind)
     ELSE /\ op' = [op EXCEPT ![t][kind] = [@ EXCEPT
                 !.stage = "sent",
                 !.ticket = IF kind = "sign-in" THEN 0 ELSE cookie,
                 !.token = IF kind = "sign-out" THEN page[t].token ELSE 0]]
          /\ UNCHANGED <<page, fetch>>
  /\ UNCHANGED <<cookie, owner, ended, notice, signOuts, signedOut>>

Replies(t, kind, answer, session) ==
  op' = [op EXCEPT ![t][kind] = [@ EXCEPT
           !.stage = "answered", !.answer = answer, !.ticket = session, !.token = 0,
           !.person = {}]]

SessionsOf(person) == {s \in DOMAIN owner : owner[s] = person}

(* The server carries it out.                                              *)
ServeSignIn(t) ==
  /\ op[t]["sign-in"].stage = "sent" /\ Len(owner) < MaxSessions
  /\ \E person \in op[t]["sign-in"].person : owner' = Append(owner, person)
  /\ Replies(t, "sign-in", "ok", Len(owner'))
  /\ UNCHANGED <<cookie, ended, page, notice, fetch, signOuts, signedOut>>

ServeRefresh(t) ==
  LET ticket == op[t]["refresh"].ticket
  IN /\ op[t]["refresh"].stage = "sent"
     /\ \/ ticket \notin ended \cup {0} /\ Replies(t, "refresh", "ok", ticket)
        \/ Replies(t, "refresh", "refused", 0)
     /\ UNCHANGED <<cookie, owner, ended, page, notice, fetch, signOuts, signedOut>>

(* logout(): who is meant is told by the token or, when it has expired, by *)
(* the ticket.                                                             *)
ServeSignOut(t) ==
  LET o == op[t]["sign-out"]
  IN /\ o.stage = "sent"
     /\ \E session \in {o.token, o.ticket} \ ended :
          /\ session # 0
          /\ ended' = ended \cup SessionsOf(owner[session])
          /\ Replies(t, "sign-out", "ok", session)
     /\ UNCHANGED <<cookie, owner, page, notice, fetch, signOuts, signedOut>>

(* Any other failure, before or after the server did something.            *)
GetsNoAnswer(t, kind) ==
  /\ InFlight(t, kind) /\ Fails(t, kind)
  /\ UNCHANGED <<cookie, owner, ended, notice, signOuts, signedOut>>

(* The answer of a sign-in or a refresh arrives.                           *)
EntersSession(t, kind) ==
  LET o == op[t][kind]
  IN /\ kind \in {"sign-in", "refresh"} /\ o.stage = "answered" /\ o.answer = "ok"
     /\ cookie' = o.ticket
     /\ IF o.current THEN SetSession(t, kind, o.ticket, kind = "sign-in") ELSE Fails(t, kind)
     /\ UNCHANGED <<owner, ended, notice, signOuts, signedOut>>

IsRefused(t) ==
  /\ op[t]["refresh"].stage = "answered" /\ op[t]["refresh"].answer = "refused"
  /\ IF op[t]["refresh"].current THEN ClearSession(t, "refresh") ELSE Fails(t, "refresh")
  /\ UNCHANGED <<cookie, owner, ended, notice, signOuts, signedOut>>

LeavesSession(t) ==
  LET o == op[t]["sign-out"]
  IN /\ o.stage = "answered"
     /\ cookie' = 0 /\ ClearSession(t, "sign-out")
     /\ notice' = notice \cup (Pages \ {t})
     /\ signedOut' = signedOut \cup (SessionsOf(owner[o.ticket]) \cap ended)
     /\ UNCHANGED <<owner, ended, signOuts>>

HearOfSignOut(t) ==
  /\ t \in notice /\ notice' = notice \ {t}
  /\ ClearSession(t, "none")
  /\ UNCHANGED <<cookie, owner, ended, signOuts, signedOut>>

-----------------------------------------------------------------------------
(* Fetches for resources *)

(* authorizedRequest() *)
BeginFetch(r, t) ==
  /\ fetch[r].stage \in {"idle", "given"} /\ page[t].token # 0 /\ HasRoom
  /\ fetch' = [fetch EXCEPT ![r] =
       [stage |-> "sent", page |-> t, token |-> page[t].token, again |-> FALSE, latest |-> TRUE,
        aborted |-> FALSE, sameKey |-> TRUE, answer |-> "none"]]
  /\ UNCHANGED <<cookie, owner, ended, page, op, notice, signOuts, signedOut>>

ServeFetch(r) ==
  /\ fetch[r].stage = "sent"
  /\ \E answer \in {"ok", "expired", "refused"} :
       /\ answer = "ok" => fetch[r].token \notin ended
       /\ fetch' = [fetch EXCEPT ![r].stage = "answered", ![r].answer = answer]
  /\ UNCHANGED <<cookie, owner, ended, page, op, notice, signOuts, signedOut>>

(* The connection breaks, or the page has moved on.                        *)
LoseFetch(r) ==
  /\ fetch[r].stage = "sent" \/ (fetch[r].stage = "answered" /\ fetch[r].aborted)
  /\ fetch' = [fetch EXCEPT ![r] = NoFetch]
  /\ UNCHANGED <<cookie, owner, ended, page, op, notice, signOuts, signedOut>>

Arrives(r, answers) ==
  fetch[r].stage = "answered" /\ ~ fetch[r].aborted /\ fetch[r].answer \in answers

Give(r) ==
  /\ Arrives(r, {"ok"}) /\ fetch' = [fetch EXCEPT ![r] = Given]
  /\ UNCHANGED <<cookie, owner, ended, page, op, notice, signOuts, signedOut>>

(* An expired token is refreshed once, by one for all requests.            *)
AwaitRefresh(r) ==
  LET f == fetch[r]
  IN /\ Arrives(r, {"expired"}) /\ ~ f.again /\ f.latest
     /\ fetch' = [fetch EXCEPT ![r].stage = "refreshing"]
     /\ \/ StartsOp(f.page, "refresh", {})
        \/ op[f.page]["refresh"].stage # "idle" /\ UNCHANGED op
     /\ UNCHANGED <<cookie, owner, ended, page, notice, signOuts, signedOut>>

(* Another request has refreshed it meanwhile.                             *)
TryAgain(r) ==
  LET f == fetch[r]
  IN /\ Arrives(r, {"expired"}) /\ ~ f.again /\ ~ f.latest
     /\ fetch' = [fetch EXCEPT ![r] = Retried(f, page[f.page].token)]
     /\ UNCHANGED <<cookie, owner, ended, page, op, notice, signOuts, signedOut>>

(* Refused, or expired again: the page is signed out.                      *)
LoseSession(r) ==
  LET t == fetch[r].page
  IN /\ Arrives(r, {"refused"} \cup IF fetch[r].again THEN {"expired"} ELSE {})
     /\ Shows(t, "none", 0)
     /\ op' = Remaining(t, "none", TRUE, TRUE)
     /\ fetch' = [Followed(t, "none", 0, TRUE, TRUE) EXCEPT ![r] = NoFetch]
     /\ UNCHANGED <<cookie, owner, ended, notice, signOuts, signedOut>>

(* cancelRequests(): permissions have changed.                             *)
CancelFetches(t) ==
  /\ page[t].token # 0
  /\ fetch' = [r \in Fetches |->
       IF IsOf(fetch[r], t) THEN [fetch[r] EXCEPT !.aborted = TRUE] ELSE fetch[r]]
  /\ UNCHANGED <<cookie, owner, ended, page, op, notice, signOuts, signedOut>>

-----------------------------------------------------------------------------
(* Two pages opened in a browser where somebody may be signed in.          *)
BrowserInit ==
  /\ owner \in {<< >>} \cup {<<person>> : person \in People} /\ cookie = Len(owner)
  /\ ended = {} /\ notice = {} /\ signOuts = 0 /\ signedOut = {}
  /\ page = [t \in Pages |-> [token |-> 0, restoring |-> TRUE]]
  /\ op = [t \in Pages |-> [kind \in Kinds |->
             IF kind = "refresh" THEN [NoOp EXCEPT !.stage = "waiting"] ELSE NoOp]]
  /\ fetch = [r \in Fetches |-> NoFetch]

BrowserNext ==
  \/ \E t \in Pages :
       \/ \E person \in People : SignIn(t, person)
       \/ LogoutAll(t) \/ HearOfSignOut(t) \/ CancelFetches(t)
       \/ ServeSignIn(t) \/ ServeRefresh(t) \/ ServeSignOut(t)
       \/ IsRefused(t) \/ LeavesSession(t)
       \/ \E kind \in Kinds : Send(t, kind) \/ GetsNoAnswer(t, kind) \/ EntersSession(t, kind)
  \/ \E r \in Fetches :
       \/ \E t \in Pages : BeginFetch(r, t)
       \/ ServeFetch(r) \/ LoseFetch(r) \/ Give(r) \/ AwaitRefresh(r) \/ TryAgain(r)
       \/ LoseSession(r)

BrowserSpec == BrowserInit /\ [][BrowserNext]_browserVars

-----------------------------------------------------------------------------
(* Properties *)

(* A request belongs to who was shown when it began: it is sent again only *)
(* with a token of the same person, and brings something only to a page    *)
(* that has not been cleared or taken over since.                          *)
FetchesKeepTheirPerson ==
  \A r \in Fetches :
    /\ fetch[r].stage \in {"answered", "refreshing"} /\ fetch'[r].stage = "sent" =>
         owner[fetch[r].token] = owner[fetch'[r].token] /\ fetch'[r].sameKey
    /\ fetch[r].stage # "given" /\ fetch'[r].stage = "given" => fetch[r].sameKey

(* A page that is signed out shows somebody again only by what began after *)
(* that.                                                                   *)
NobodyComesBack ==
  \A t \in Pages :
    page[t].token = 0 /\ page'[t].token # 0 =>
      \E kind \in {"sign-in", "refresh"} :
        op[t][kind].stage = "answered" /\ op'[t][kind].stage = "idle" /\ op[t][kind].sameKey

(* When a sign-out has been answered, a page that shows one of the         *)
(* sessions it ended will hear of it.                                      *)
SignOutReachesPages == \A t \in Pages : page[t].token \in signedOut => t \in notice

PagesKeepTheirSession ==
  [][FetchesKeepTheirPerson /\ NobodyComesBack /\ SignOutReachesPages']_browserVars
=============================================================================
