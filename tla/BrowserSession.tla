---------------------------- MODULE BrowserSession ----------------------------
(***************************************************************************)
(* One browser with several tabs.  The tabs share the cookie jar; each     *)
(* keeps the signed-in user and the CSRF token in memory                   *)
(* (AuthContext, client.ts).  A request takes the cookies of the moment it *)
(* is sent, the server handles it later, and its answer changes the jar    *)
(* when it arrives: the answers of two tabs may arrive in either order, or *)
(* not at all.  Handlers are atomic here; Sessions interleaves them.       *)
(***************************************************************************)
EXTENDS Naturals, Sequences

CONSTANTS
  Tabs, Users,
  Uses,          \* what a signed-in page is used for
  Loss,          \* whether answers may be lost
  MaxSessions,   \* bound: logins
  MaxTokens,     \* bound: refresh tokens of one session
  None

ASSUME BrowserAssumption ==
  /\ Uses \subseteq {"get", "post", "logout", "logoutAll"} /\ Loss \in BOOLEAN
  /\ MaxSessions \in Nat /\ MaxTokens \in Nat \ {0}
  /\ None \notin Users

VARIABLES
  jar,        \* the cookies gb_access_token, gb_refresh_token, gb_csrf_token
  sessions,   \* table Session, in order of login
  tabs,       \* each tab's memory
  calls,      \* the request each tab has under way
  orders,     \* history: accepted orders, by whom and under which page
  left,       \* history: sessions whose logout was answered with success
  overlap     \* history: requests that change the session overlapped, or the
              \* answer of one was lost

vars == <<jar, sessions, tabs, calls, orders, left, overlap>>
history == <<orders, left, overlap>>

(* An answer that signs in carries a new refresh token and a new CSRF token; *)
(* both are named by the session and the number of its refresh token.        *)
Grants == (1..MaxSessions) \X (1..MaxTokens)

NoCookies == [access |-> None, refresh |-> None, csrf |-> None]
NewPage == [user |-> None, csrf |-> None, boot |-> TRUE, adopted |-> FALSE]

(* The operations that change the session. *)
SessionOps == {"restore", "login", "renew", "logout", "logoutAll"}

Ops == SessionOps \cup {"get", "post"}
Jars == [access : Users \cup {None}, refresh : Grants \cup {None},
         csrf : Grants \cup {None}]
Answers == [status : {200, 401, 403}, user : Users \cup {None},
            grant : Grants \cup {None}]
Calls == [op : Ops, user : Users \cup Grants \cup {None},
          then : {None, "get", "post", "again"}, cookies : Jars,
          header : Grants \cup {None}, answer : Answers \cup {None}]

(* None is no cookie, no answer and no request. *)
ASSUME NoneAssumption == None \notin Grants /\ None \notin Answers /\ None \notin Calls

Page(t, changed) == tabs' = [tabs EXCEPT ![t] = changed]

(* The request interceptor: the page's CSRF token, or on a replay without   *)
(* one the header the request already has.                                  *)
Out(t, op, user, header, then) ==
  [op |-> op, user |-> user, then |-> then, cookies |-> jar, answer |-> None,
   header |-> IF tabs[t].csrf # None THEN tabs[t].csrf ELSE header]

Send(t, call) ==
  /\ calls' = [calls EXCEPT ![t] = call]
  /\ overlap' = (overlap \/ (call.op \in SessionOps
       /\ \E o \in Tabs \ {t} : calls[o] # None /\ calls[o].op \in SessionOps))

Answer(t, status, user, grant) ==
  calls' = [calls EXCEPT ![t].answer =
              [status |-> status, user |-> user, grant |-> grant]]

Unserved(t, ops) == calls[t] # None /\ calls[t].op \in ops /\ calls[t].answer = None

Valid(g) ==
  g # None /\ sessions[g[1]].live /\ sessions[g[1]].token = g[2]

(* Bug variant: only the bearer of the session's current token ends it. *)
RevokedIfCurrent(g) ==
  IF Valid(g) THEN [sessions EXCEPT ![g[1]].live = FALSE] ELSE sessions

(* revokeSession of the session a refresh cookie names. *)
Revoked(g) ==
  IF g # None THEN [sessions EXCEPT ![g[1]].live = FALSE] ELSE sessions

RevokedAll(user) ==
  [i \in DOMAIN sessions |->
     [sessions[i] EXCEPT !.live = @ /\ sessions[i].user # user]]

-----------------------------------------------------------------------------
Init ==
  /\ jar = NoCookies /\ sessions = <<>>
  /\ tabs = [t \in Tabs |-> NewPage]
  /\ calls = [t \in Tabs |-> None]
  /\ orders = {} /\ left = {} /\ overlap = FALSE

(* A page is loaded, or loaded again: AuthProvider's restore. *)
Load(t) ==
  /\ calls[t] = None
  /\ Page(t, NewPage)
  /\ Send(t, [Out(t, "restore", None, None, None) EXCEPT !.header = None])
  /\ UNCHANGED <<jar, sessions, orders, left>>

(* The login pages show their form only while no one is signed in. *)
Login(t, user) ==
  /\ calls[t] = None /\ ~tabs[t].boot /\ tabs[t].user = None
  /\ Send(t, Out(t, "login", user, None, None))
  /\ UNCHANGED <<jar, sessions, tabs, orders, left>>

(* ProtectedRoute: a signed-in page reads orders, submits one, or logs out. *)
Use(t, op) ==
  /\ calls[t] = None /\ tabs[t].user # None
  /\ Send(t, Out(t, op, None, None, None))
  /\ UNCHANGED <<jar, sessions, tabs, orders, left>>

-----------------------------------------------------------------------------
(* The server. *)

(* loginDealer; a wrong password answers 401.  The single-session policy    *)
(* revokes the user's other sessions.                                       *)
ServeLogin(t) ==
  LET user == calls[t].user IN
  /\ Unserved(t, {"login"})
  /\ \/ /\ Len(sessions) < MaxSessions
        /\ sessions' = Append(RevokedAll(user), [user |-> user, token |-> 1, live |-> TRUE])
        /\ Answer(t, 200, user, <<Len(sessions) + 1, 1>>)
     \/ Answer(t, 401, None, None) /\ UNCHANGED sessions
  /\ UNCHANGED <<jar, tabs, history>>

(* refreshSession: rotation, or revocation of the session of a stale token. *)
ServeRefresh(t) ==
  LET g == calls[t].cookies.refresh IN
  /\ Unserved(t, {"restore", "renew"})
  /\ \/ /\ Valid(g) /\ g[2] < MaxTokens
        /\ sessions' = [sessions EXCEPT ![g[1]].token = @ + 1]
        /\ Answer(t, 200, sessions[g[1]].user, <<g[1], g[2] + 1>>)
     \/ /\ ~Valid(g)
        /\ sessions' = Revoked(g)
        /\ Answer(t, 401, None, None)
  /\ UNCHANGED <<jar, tabs, history>>

(* authenticate: the access cookie, before anything else. *)
Unauthenticated(t) ==
  /\ Unserved(t, {"get", "post", "logout", "logoutAll"})
  /\ calls[t].cookies.access = None
  /\ Answer(t, 401, None, None)
  /\ UNCHANGED <<jar, sessions, tabs, history>>

(* Bug variant: any CSRF token will do. *)
MatchesAny(call) == call.header # None

(* requireCsrf: the header repeats the cookie. *)
Matches(call) == call.header # None /\ call.header = call.cookies.csrf

Forbidden(t) ==
  /\ Unserved(t, {"post", "logout", "logoutAll"})
  /\ calls[t].cookies.access # None /\ ~Matches(calls[t])
  /\ Answer(t, 403, None, None)
  /\ UNCHANGED <<jar, sessions, tabs, history>>

ServeOrders(t) ==
  /\ Unserved(t, {"get"}) /\ calls[t].cookies.access # None
  /\ Answer(t, 200, calls[t].cookies.access, None)
  /\ UNCHANGED <<jar, sessions, tabs, history>>

ServePost(t) ==
  LET user == calls[t].cookies.access IN
  /\ Unserved(t, {"post"}) /\ user # None /\ Matches(calls[t])
  /\ Answer(t, 200, user, None)
  /\ orders' = orders \cup
       {[by |-> user, shown |-> tabs[t].user, adopted |-> tabs[t].adopted]}
  /\ UNCHANGED <<jar, sessions, tabs, left, overlap>>

(* logout revokes the session of the refresh cookie, logout-all the user's. *)
ServeLogout(t) ==
  LET c == calls[t].cookies IN
  /\ Unserved(t, {"logout", "logoutAll"}) /\ c.access # None /\ Matches(calls[t])
  /\ sessions' = IF calls[t].op = "logout" THEN Revoked(c.refresh)
                 ELSE RevokedAll(c.access)
  /\ Answer(t, 200, None, None)
  /\ UNCHANGED <<jar, tabs, history>>

-----------------------------------------------------------------------------
Clears(call) ==
  call.answer.status = 401 \/ (call.op \in {"logout", "logoutAll"} /\ call.answer.status = 200)

(* Bug variant: setCsrfCookie is given the access token. *)
AppliedSwapped(call) ==
  LET a == call.answer IN
  IF a.grant # None THEN [access |-> a.user, refresh |-> a.grant, csrf |-> a.user]
  ELSE IF Clears(call) THEN NoCookies ELSE jar

(* Bug variant: the refresh cookie is set at login only. *)
AppliedAtLogin(call) ==
  LET a == call.answer IN
  IF a.grant # None
  THEN [access |-> a.user, csrf |-> a.grant,
        refresh |-> IF call.op = "login" THEN a.grant ELSE jar.refresh]
  ELSE IF Clears(call) THEN NoCookies ELSE jar

(* The answer arrives: first the browser applies its cookies.  Signing in   *)
(* sets all three; logging out and every 401 (errorHandler) remove them.    *)
Applied(call) ==
  LET a == call.answer IN
  IF a.grant # None THEN [access |-> a.user, refresh |-> a.grant, csrf |-> a.grant]
  ELSE IF Clears(call) THEN NoCookies ELSE jar

Back(t, ops) == calls[t] # None /\ calls[t].op \in ops /\ calls[t].answer # None

Done(t) == calls' = [calls EXCEPT ![t] = None] /\ UNCHANGED overlap

SignedIn(t, a) == [tabs[t] EXCEPT !.user = a.user, !.csrf = a.grant, !.boot = FALSE,
                                  !.adopted = FALSE]
SignedOut(t) == [tabs[t] EXCEPT !.user = None, !.csrf = None, !.boot = FALSE,
                                !.adopted = FALSE]

(* restore sets user and token, or neither; a failed login changes nothing. *)
SignInAnswered(t) ==
  LET a == calls[t].answer IN
  /\ Back(t, {"restore", "login"})
  /\ jar' = Applied(calls[t])
  /\ Page(t, IF a.status = 200 THEN SignedIn(t, a)
             ELSE IF calls[t].op = "restore" THEN SignedOut(t) ELSE tabs[t])
  /\ Done(t)
  /\ UNCHANGED <<sessions, orders, left>>

(* logout of AuthContext: whatever the answer, the page forgets the user.   *)
(* 200 and "Authentication required." show no error.                        *)
LogoutAnswered(t) ==
  LET status == calls[t].answer.status IN
  /\ Back(t, {"logout", "logoutAll"})
  /\ jar' = Applied(calls[t])
  /\ Page(t, SignedOut(t))
  /\ left' = IF status = 200 THEN left \cup {tabs[t].csrf[1]} ELSE left
  /\ Done(t)
  /\ UNCHANGED <<sessions, orders>>

(* Any other answer is handed to its caller. *)
UseAnswered(t) ==
  /\ Back(t, {"get", "post"}) /\ calls[t].answer.status # 401
  /\ jar' = Applied(calls[t])
  /\ Done(t)
  /\ UNCHANGED <<sessions, tabs, orders, left>>

(* Response interceptor: the first 401 of a request starts refreshSession,  *)
(* the second one (_retryAuth) is the request's failure.                    *)
UseRefused(t) ==
  LET call == calls[t] IN
  /\ Back(t, {"get", "post"}) /\ call.answer.status = 401
  /\ jar' = Applied(call)
  /\ IF call.then = "again" THEN Done(t)
     ELSE Send(t, [call EXCEPT !.op = "renew", !.then = call.op, !.answer = None,
                               !.cookies = jar', !.user = call.cookies.refresh])
  /\ UNCHANGED <<sessions, tabs, orders, left>>

(* The renewal's answer: the page takes its CSRF token, not its user, and   *)
(* the request is sent again; or the page is signed out (gb:session-expired).*)
RenewAnswered(t) ==
  LET call == calls[t]
      a == call.answer IN
  /\ Back(t, {"renew"})
  /\ jar' = Applied(call)
  /\ IF a.status = 200
     THEN /\ Page(t, [tabs[t] EXCEPT !.csrf = a.grant,
                                     !.adopted = (@ \/ a.user # tabs[t].user)])
          /\ Send(t, [call EXCEPT !.op = call.then, !.then = "again", !.answer = None,
                                  !.cookies = jar', !.user = None,
                        !.header = a.grant])
     ELSE /\ Page(t, SignedOut(t))
          /\ Done(t)
  /\ UNCHANGED <<sessions, orders, left>>

(* The answer, or the request, is lost: no cookie changes, and the page     *)
(* sees an error without a status.                                          *)
Lost(t) ==
  LET call == calls[t] IN
  /\ Loss /\ call # None
  /\ Page(t, IF call.op \in {"restore", "renew", "logout", "logoutAll"}
             THEN SignedOut(t) ELSE tabs[t])
  /\ calls' = [calls EXCEPT ![t] = None]
  /\ overlap' = (overlap \/ call.op \in SessionOps)
  /\ UNCHANGED <<jar, sessions, orders, left>>

-----------------------------------------------------------------------------
(* ACCESS_TOKEN_TTL_MINUTES pass: cookie and token expire together. *)
AccessExpires ==
  /\ jar.access # None
  /\ jar' = [jar EXCEPT !.access = None]
  /\ UNCHANGED <<sessions, tabs, calls, history>>

Acts(t) ==
  \/ Load(t) \/ \E user \in Users : Login(t, user)
  \/ \E op \in Uses : Use(t, op)
  \/ Lost(t)

Handled(t) ==
  \/ ServeLogin(t) \/ ServeRefresh(t) \/ Unauthenticated(t) \/ Forbidden(t)
  \/ ServeOrders(t) \/ ServePost(t) \/ ServeLogout(t)
  \/ SignInAnswered(t) \/ LogoutAnswered(t) \/ UseAnswered(t) \/ UseRefused(t)
  \/ RenewAnswered(t)

Next == AccessExpires \/ \E t \in Tabs : Acts(t) \/ Handled(t)

Spec == Init /\ [][Next]_vars

-----------------------------------------------------------------------------
TypeOK ==
  /\ jar \in Jars
  /\ sessions \in Seq([user : Users, token : 1..MaxTokens, live : BOOLEAN])
  /\ tabs \in [Tabs -> [user : Users \cup {None}, csrf : Grants \cup {None},
                        boot : BOOLEAN, adopted : BOOLEAN]]
  /\ calls \in [Tabs -> Calls \cup {None}]
  /\ orders \subseteq [by : Users, shown : Users, adopted : BOOLEAN]
  /\ left \subseteq 1..MaxSessions /\ overlap \in BOOLEAN

(* An accepted order is placed for the user whom its page shows, although   *)
(* the jar may meanwhile belong to the user another tab signed in: unless   *)
(* the page has renewed its token with that user's session.                 *)
OrdersInShownName ==
  \A o \in orders : o.by = o.shown \/ o.adopted

(* A logout answered with success has ended the session of the page it was  *)
(* asked on, also when the jar's refresh token was stale.                   *)
LogoutEndsSession ==
  \A sid \in left : ~sessions[sid].live

(* As long as requests that change the session neither overlap nor lose     *)
(* their answer, the jar's refresh token can be used.                       *)
JarIsCurrent ==
  (/\ ~overlap /\ jar.refresh # None
   /\ \A t \in Tabs : calls[t] = None \/ calls[t].op \notin SessionOps)
    => Valid(jar.refresh)

(* docs/README.md:1042: the refresh token is there for session continuity.  *)
(* A page whose renewal is refused had no live session whose current        *)
(* refresh token was in the jar when the renewal became necessary.          *)
SessionsContinue ==
  [][\A t \in Tabs : RenewAnswered(t) /\ calls[t].answer.status # 200
                        => ~Valid(calls[t].user)]_vars
=============================================================================
