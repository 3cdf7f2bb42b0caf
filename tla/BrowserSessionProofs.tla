------------------------- MODULE BrowserSessionProofs -------------------------
(***************************************************************************)
(* Proofs about BrowserSession, for every number of tabs, users, sessions  *)
(* and tokens.  The inductive invariant says what each piece of memory     *)
(* knows of the table of sessions: the jar and the cookies a request left  *)
(* with, the page, the answer on its way; and that a tab which alone       *)
(* changes the session leaves a jar the server accepts, or has the answer  *)
(* under way that replaces it.                                             *)
(***************************************************************************)
EXTENDS BrowserSession, TLAPS

Rows == [user : Users, token : 1..MaxTokens, live : BOOLEAN]
Pages == [user : Users \cup {None}, csrf : Grants \cup {None},
          boot : BOOLEAN, adopted : BOOLEAN]

(* The grant belongs to a session of the table rows. *)
Opened(g, rows) == g \in Grants /\ g[1] \in 1..Len(rows)
Owner(g, rows) == rows[g[1]].user

(* Refresh cookie and CSRF cookie come from one answer; the access cookie   *)
(* names the owner of their session, or has expired.                        *)
JarOK(j, rows) ==
  /\ j.refresh = j.csrf
  /\ j.refresh # None => Opened(j.refresh, rows)
  /\ j.access # None => j.refresh # None /\ j.access = Owner(j.refresh, rows)

(* A page has user and token or neither, and unless it adopted the token by *)
(* a renewal, the token is of a session of its user.                        *)
PageOK(p, rows) ==
  /\ p.user = None <=> p.csrf = None
  /\ p.csrf # None =>
       /\ Opened(p.csrf, rows)
       /\ Owner(p.csrf, rows) = p.user \/ p.adopted

(* A grant signs its session's owner in; only requests that sign in carry   *)
(* one; a logout answered with success has ended the page's session.        *)
AnswerOK(call, p, rows) ==
  LET a == call.answer IN
  /\ a.grant # None => Opened(a.grant, rows) /\ a.user = Owner(a.grant, rows)
  /\ call.op \in {"restore", "login", "renew"} /\ a.status = 200 => a.grant # None
  /\ call.op \in {"get", "post", "logout", "logoutAll"} => a.grant = None
  /\ call.op \in {"logout", "logoutAll"} /\ a.status = 200 => ~rows[p.csrf[1]].live

CallOK(call, p, rows) ==
  call # None =>
    /\ JarOK(call.cookies, rows)
    /\ call.op \in {"get", "post", "renew", "logout", "logoutAll"} =>
         p.user # None /\ call.header = p.csrf
    /\ call.op = "renew" => call.then \in {"get", "post"}
    /\ call.op = "login" => call.user \in Users
    /\ call.answer # None => AnswerOK(call, p, rows)

HistoryOK ==
  /\ \A o \in orders : o.by = o.shown \/ o.adopted
  /\ \A sid \in left : sid \in 1..Len(sessions) /\ ~sessions[sid].live

Sound ==
  /\ TypeOK /\ Len(sessions) <= MaxSessions
  /\ JarOK(jar, sessions) /\ HistoryOK
  /\ \A t \in Tabs : PageOK(tabs[t], sessions) /\ CallOK(calls[t], tabs[t], sessions)

Changing(t) == calls[t] # None /\ calls[t].op \in SessionOps

(* The answer on its way to t gives the jar new cookies or empties it. *)
Replaces(t) ==
  /\ Changing(t) /\ calls[t].answer # None
  /\ calls[t].answer.grant # None \/ Clears(calls[t])

AloneOK ==
  ~overlap =>
    /\ \A t, o \in Tabs : Changing(t) /\ Changing(o) => t = o
    /\ \A t \in Tabs : Changing(t) /\ calls[t].answer # None /\ calls[t].answer.grant # None
         => Valid(calls[t].answer.grant)
    /\ (jar.refresh # None => Valid(jar.refresh)) \/ \E t \in Tabs : Replaces(t)

IInv == Sound /\ AloneOK

-----------------------------------------------------------------------------
(* What the server does to the table: it adds rows and ends sessions, and   *)
(* never gives one to another user.                                         *)
Grown(rows, new) ==
  /\ rows \in Seq(Rows) /\ new \in Seq(Rows) /\ Len(rows) <= Len(new)
  /\ \A i \in 1..Len(rows) : new[i].user = rows[i].user /\ (new[i].live => rows[i].live)

LEMMA GrownSame ==
  ASSUME NEW rows \in Seq(Rows) PROVE Grown(rows, rows)
BY DEF Grown

LEMMA GrownOpened ==
  ASSUME NEW rows, NEW new, Grown(rows, new), NEW g, Opened(g, rows)
  PROVE  Opened(g, new) /\ Owner(g, new) = Owner(g, rows) /\ Owner(g, rows) \in Users
<1>1. rows \in Seq(Rows) /\ new \in Seq(Rows) /\ g[1] \in 1..Len(rows) /\ g[1] \in 1..Len(new)
  BY DEF Grown, Opened
<1>2. rows[g[1]] \in Rows
  BY <1>1
<1> QED BY <1>1, <1>2 DEF Grown, Opened, Owner, Rows

LEMMA GrownJar ==
  ASSUME NEW rows, NEW new, Grown(rows, new), NEW j, JarOK(j, rows)
  PROVE  JarOK(j, new)
BY GrownOpened DEF JarOK

LEMMA GrownPage ==
  ASSUME NEW rows, NEW new, Grown(rows, new), NEW p, PageOK(p, rows)
  PROVE  PageOK(p, new)
BY GrownOpened DEF PageOK

LEMMA GrownCall ==
  ASSUME NEW rows, NEW new, Grown(rows, new), NEW p, PageOK(p, rows),
         NEW call, CallOK(call, p, rows)
  PROVE  CallOK(call, p, new)
<1> SUFFICES ASSUME call # None PROVE CallOK(call, p, new)
  BY DEF CallOK
<1>1. JarOK(call.cookies, new)
  BY GrownJar DEF CallOK
<1>2. ASSUME call.answer # None PROVE AnswerOK(call, p, new)
  <2>1. AnswerOK(call, p, rows)
    BY <1>2 DEF CallOK
  <2>2. call.answer.grant # None =>
          Opened(call.answer.grant, new) /\ call.answer.user = Owner(call.answer.grant, new)
    BY <2>1, GrownOpened DEF AnswerOK
  <2>4. call.op \in {"restore", "login", "renew"} /\ call.answer.status = 200
          => call.answer.grant # None
    BY <2>1 DEF AnswerOK
  <2>5. call.op \in {"get", "post", "logout", "logoutAll"} => call.answer.grant = None
    BY <2>1 DEF AnswerOK
  <2>3. ASSUME call.op \in {"logout", "logoutAll"}, call.answer.status = 200
        PROVE  ~new[p.csrf[1]].live
    <3>1. Opened(p.csrf, rows)
      BY <2>3 DEF CallOK, PageOK
    <3>2. ~rows[p.csrf[1]].live
      BY <2>1, <2>3 DEF AnswerOK
    <3> QED BY <3>1, <3>2 DEF Grown, Opened
  <2> QED BY <2>2, <2>3, <2>4, <2>5 DEF AnswerOK
<1> HIDE DEF AnswerOK
<1>3. call.op \in {"get", "post", "renew", "logout", "logoutAll"} =>
        p.user # None /\ call.header = p.csrf
  BY DEF CallOK
<1>4. /\ call.op = "renew" => call.then \in {"get", "post"}
      /\ call.op = "login" => call.user \in Users
  BY DEF CallOK
<1> QED BY <1>1, <1>2, <1>3, <1>4 DEF CallOK

(* The grant is its session's current one in the table rows. *)
Current(g, rows) == rows[g[1]].live /\ rows[g[1]].token = g[2]

(* The operations on the table. *)
LEMMA RevokedGrows ==
  ASSUME TypeOK, NEW g, g = None \/ Opened(g, sessions)
  PROVE  /\ Grown(sessions, Revoked(g)) /\ Len(Revoked(g)) = Len(sessions)
         /\ g # None => ~Revoked(g)[g[1]].live
<1> sessions \in Seq(Rows)
  BY DEF TypeOK, Rows
<1>1. CASE g = None
  BY <1>1, GrownSame DEF Revoked
<1>2. CASE g # None
  <2> DEFINE new == [sessions EXCEPT ![g[1]].live = FALSE]
  <2>1. g[1] \in 1..Len(sessions)
    BY <1>2 DEF Opened
  <2> DEFINE row == sessions[g[1]]
  <2>2. row \in Rows
    BY <2>1
  <2>3. [row EXCEPT !.live = FALSE] \in Rows /\ ~[row EXCEPT !.live = FALSE].live
        /\ [row EXCEPT !.live = FALSE].user = row.user
    <3> HIDE DEF row
    <3> QED BY <2>2 DEF Rows
  <2>4. new \in Seq(Rows) /\ Len(new) = Len(sessions)
    BY <2>1, <2>3
  <2>5. DOMAIN sessions = 1..Len(sessions)
    OBVIOUS
  <2>6. new[g[1]] = [row EXCEPT !.live = FALSE]
    BY <2>1, <2>5
  <2>7. \A i \in 1..Len(sessions) : i # g[1] => new[i] = sessions[i]
    BY <2>1, <2>5
  <2> HIDE DEF new, row
  <2>8. row = sessions[g[1]]
    BY DEF row
  <2>9. \A i \in 1..Len(sessions) :
          new[i].user = sessions[i].user /\ (new[i].live => sessions[i].live)
    BY <2>1, <2>3, <2>6, <2>7, <2>8
  <2>10. ~new[g[1]].live
    BY <2>3, <2>6
  <2>11. Revoked(g) = new
    BY <1>2 DEF Revoked, new
  <2> QED BY <2>4, <2>9, <2>10, <2>11 DEF Grown
<1> QED BY <1>1, <1>2

LEMMA RevokedAllGrows ==
  ASSUME TypeOK, NEW user
  PROVE  /\ Grown(sessions, RevokedAll(user)) /\ Len(RevokedAll(user)) = Len(sessions)
         /\ \A i \in 1..Len(sessions) :
              sessions[i].user = user => ~RevokedAll(user)[i].live
<1> DEFINE new == [i \in DOMAIN sessions |->
                     [sessions[i] EXCEPT !.live = @ /\ sessions[i].user # user]]
<1>1. sessions \in Seq(Rows) /\ DOMAIN sessions = 1..Len(sessions) /\ Len(sessions) \in Nat
  BY DEF TypeOK, Rows
<1>2. ASSUME NEW i \in 1..Len(sessions)
      PROVE  /\ new[i] \in Rows
             /\ new[i].user = sessions[i].user /\ (new[i].live => sessions[i].live)
             /\ sessions[i].user = user => ~new[i].live
  <2> DEFINE row == sessions[i]
  <2> DEFINE ended == [row EXCEPT !.live = @ /\ row.user # user]
  <2>1. row \in Rows /\ new[i] = ended
    BY <1>1
  <2>2. ended.live = (row.live /\ row.user # user) /\ ended.user = row.user /\ ended \in Rows
    <3> HIDE DEF row
    <3> QED BY <2>1 DEF Rows
  <2> HIDE DEF ended, new
  <2> QED BY <2>1, <2>2
<1>3. new \in Seq(Rows) /\ Len(new) = Len(sessions)
  <2>1. new \in [1..Len(sessions) -> Rows]
    BY <1>1, <1>2
  <2>2. new \in Seq(Rows)
    BY <1>1, <2>1
  <2> QED BY <1>1, <2>1, <2>2
<1>4. RevokedAll(user) = new
  BY DEF RevokedAll
<1> HIDE DEF new
<1> QED BY <1>1, <1>2, <1>3, <1>4 DEF Grown

-----------------------------------------------------------------------------
(* A step of tab t keeps Sound when it changes t's page and call to a page  *)
(* and a call that fit the table, and the table only grows.                 *)
LEMMA SoundStep ==
  ASSUME Sound, NEW t \in Tabs, NEW page \in Pages, NEW call \in Calls \cup {None},
         tabs' = [tabs EXCEPT ![t] = page], calls' = [calls EXCEPT ![t] = call],
         PageOK(page, sessions'), CallOK(call, page, sessions'),
         Grown(sessions, sessions'), Len(sessions') <= MaxSessions,
         jar' \in Jars, JarOK(jar', sessions'), overlap' \in BOOLEAN,
         orders' \subseteq [by : Users, shown : Users, adopted : BOOLEAN],
         HistoryOK'
  PROVE  Sound'
<1>1. left' \subseteq 1..MaxSessions
  <2>1. Len(sessions') \in Nat
    BY DEF Grown
  <2> QED BY <2>1, BrowserAssumption DEF HistoryOK
<1>2. tabs' \in [Tabs -> Pages] /\ calls' \in [Tabs -> Calls \cup {None}]
  BY DEF Sound, TypeOK, Pages
<1>3. sessions' \in Seq(Rows)
  BY DEF Grown
<1>4. TypeOK'
  BY <1>1, <1>2, <1>3 DEF TypeOK, Rows, Pages
<1>5. ASSUME NEW o \in Tabs
      PROVE  PageOK(tabs'[o], sessions') /\ CallOK(calls'[o], tabs'[o], sessions')
  <2>1. CASE o = t
    BY <2>1 DEF Sound, TypeOK
  <2>2. CASE o # t
    <3>1. tabs'[o] = tabs[o] /\ calls'[o] = calls[o]
      BY <2>2 DEF Sound, TypeOK
    <3> QED BY <3>1, GrownPage, GrownCall DEF Sound
  <2> QED BY <2>1, <2>2
<1> QED BY <1>4, <1>5 DEF Sound

(* The two ways to leave the past alone. *)
LEMMA HistoryKept ==
  ASSUME Sound, Grown(sessions, sessions'), UNCHANGED <<orders, left>>
  PROVE  /\ HistoryOK'
         /\ orders' \subseteq [by : Users, shown : Users, adopted : BOOLEAN]
<1>1. sessions \in Seq(Rows) /\ sessions' \in Seq(Rows) /\ Len(sessions) <= Len(sessions')
      /\ Len(sessions) \in Nat /\ Len(sessions') \in Nat
  BY DEF Grown
<1>2. \A i \in 1..Len(sessions) : i \in 1..Len(sessions') /\ (sessions'[i].live => sessions[i].live)
  BY <1>1 DEF Grown
<1>3. \A sid \in left' : sid \in 1..Len(sessions') /\ ~sessions'[sid].live
  BY <1>2 DEF Sound, HistoryOK
<1>4. \A o \in orders' : o.by = o.shown \/ o.adopted
  BY DEF Sound, HistoryOK
<1> QED BY <1>3, <1>4 DEF Sound, TypeOK, HistoryOK

LEMMA Unfolded ==
  ASSUME Sound, NEW t \in Tabs
  PROVE  /\ tabs[t] \in Pages /\ PageOK(tabs[t], sessions)
         /\ calls[t] # None => calls[t] \in Calls
         /\ CallOK(calls[t], tabs[t], sessions)
         /\ sessions \in Seq(Rows) /\ Len(sessions) \in Nat /\ Len(sessions) <= MaxSessions
         /\ jar \in Jars /\ JarOK(jar, sessions)
         /\ Grown(sessions, sessions) /\ TypeOK
         /\ tabs = [tabs EXCEPT ![t] = tabs[t]]
         /\ overlap \in BOOLEAN
<1>1. TypeOK /\ PageOK(tabs[t], sessions) /\ CallOK(calls[t], tabs[t], sessions)
      /\ Len(sessions) <= MaxSessions /\ JarOK(jar, sessions)
  BY DEF Sound
<1>2. sessions \in Seq(Rows) /\ tabs \in [Tabs -> Pages]
      /\ calls \in [Tabs -> Calls \cup {None}] /\ jar \in Jars /\ overlap \in BOOLEAN
  BY <1>1 DEF TypeOK, Rows, Pages
<1>3. Len(sessions) \in Nat /\ tabs[t] \in Pages /\ tabs = [tabs EXCEPT ![t] = tabs[t]]
      /\ (calls[t] # None => calls[t] \in Calls)
  BY <1>2
<1> QED BY <1>1, <1>2, <1>3, GrownSame

LEMMA CallFields ==
  ASSUME NEW call \in Calls
  PROVE  /\ call.op \in Ops /\ call.user \in Users \cup Grants \cup {None}
         /\ call.then \in {None, "get", "post", "again"} /\ call.cookies \in Jars
         /\ call.header \in Grants \cup {None} /\ call.answer \in Answers \cup {None}
         /\ call # None
BY NoneAssumption DEF Calls

(* The answers and requests that the actions make are answers and requests. *)
LEMMA AnsweredCall ==
  ASSUME NEW call \in Calls, NEW a \in Answers
  PROVE  /\ [call EXCEPT !.answer = a] \in Calls
         /\ [call EXCEPT !.answer = a].answer = a
         /\ [call EXCEPT !.answer = a].op = call.op
         /\ [call EXCEPT !.answer = a].user = call.user
         /\ [call EXCEPT !.answer = a].then = call.then
         /\ [call EXCEPT !.answer = a].cookies = call.cookies
         /\ [call EXCEPT !.answer = a].header = call.header
BY DEF Calls

LEMMA SentCall ==
  ASSUME Sound, NEW t \in Tabs, NEW op \in Ops, NEW user \in Users \cup Grants \cup {None},
         NEW header \in Grants \cup {None}, NEW then \in {None, "get", "post", "again"}
  PROVE  /\ Out(t, op, user, header, then) \in Calls
         /\ Out(t, op, user, header, then).op = op
         /\ Out(t, op, user, header, then).user = user
         /\ Out(t, op, user, header, then).cookies = jar
         /\ Out(t, op, user, header, then).answer = None
         /\ tabs[t].csrf # None => Out(t, op, user, header, then).header = tabs[t].csrf
<1>1. jar \in Jars /\ tabs[t].csrf \in Grants \cup {None}
  BY Unfolded DEF Pages
<1>2. (IF tabs[t].csrf # None THEN tabs[t].csrf ELSE header) \in Grants \cup {None}
  BY <1>1
<1> QED BY <1>1, <1>2 DEF Out, Calls

(* A signed-in page's token is of a session of the table. *)
LEMMA SignedInPage ==
  ASSUME Sound, NEW t \in Tabs, tabs[t].user # None
  PROVE  tabs[t].csrf # None /\ Opened(tabs[t].csrf, sessions)
BY Unfolded DEF PageOK

LEMMA AppliedOK ==
  ASSUME Sound, NEW t \in Tabs, calls[t] # None, calls[t].answer # None
  PROVE  /\ Applied(calls[t]) \in Jars /\ JarOK(Applied(calls[t]), sessions)
         /\ calls[t].answer.grant = None => Applied(calls[t]) \in {NoCookies, jar}
         /\ calls[t].answer.grant # None =>
              Applied(calls[t]).refresh = calls[t].answer.grant
         /\ calls[t].answer.grant = None /\ Clears(calls[t]) => Applied(calls[t]) = NoCookies
<1> DEFINE a == calls[t].answer
<1>1. calls[t] \in Calls /\ AnswerOK(calls[t], tabs[t], sessions)
  BY Unfolded DEF CallOK
<1>2. a \in Answers
  BY <1>1, CallFields
<1>3. a.user \in Users \cup {None} /\ a.grant \in Grants \cup {None}
  BY <1>2 DEF Answers
<1>4. CASE a.grant # None
  <2>1. Applied(calls[t]) = [access |-> a.user, refresh |-> a.grant, csrf |-> a.grant]
    BY <1>4 DEF Applied
  <2>2. Opened(a.grant, sessions) /\ a.user = Owner(a.grant, sessions)
    BY <1>1, <1>4 DEF AnswerOK
  <2> HIDE DEF a
  <2>3. Applied(calls[t]) \in Jars
    BY <2>1, <1>3 DEF Jars
  <2>4. JarOK(Applied(calls[t]), sessions)
    BY <2>1, <2>2, <1>4 DEF JarOK
  <2> QED BY <2>1, <2>3, <2>4, <1>4 DEF a
<1>5. CASE a.grant = None
  <2>1. NoCookies \in Jars /\ JarOK(NoCookies, sessions)
    BY DEF NoCookies, Jars, JarOK
  <2>2. Applied(calls[t]) = IF Clears(calls[t]) THEN NoCookies ELSE jar
    BY <1>5 DEF Applied
  <2> QED BY <2>1, <2>2, <1>5, Unfolded
<1> QED BY <1>4, <1>5

-----------------------------------------------------------------------------
(* Requests of the page and their answers keep AloneOK: t sends a request,  *)
(* or receives an answer, or loses one.                                     *)
LEMMA AloneWhenBack ==
  ASSUME Sound, AloneOK, NEW t \in Tabs, NEW call \in Calls \cup {None},
         calls' = [calls EXCEPT ![t] = call], UNCHANGED sessions,
         call # None => call.answer = None,
         ~overlap' => ~overlap /\ (call # None /\ call.op \in SessionOps =>
                                     \A o \in Tabs \ {t} : ~Changing(o)),
         ~overlap' => \/ jar' = jar /\ ~Changing(t)
                      \/ /\ calls[t] # None /\ calls[t].answer # None
                         /\ jar' = Applied(calls[t])
  PROVE  AloneOK'
<1> SUFFICES ASSUME ~overlap' PROVE AloneOK'
  BY DEF AloneOK
<1>1. calls'[t] = call /\ \A o \in Tabs : o # t => calls'[o] = calls[o]
  BY DEF Sound, TypeOK
<1>2. /\ \A o, u \in Tabs : Changing(o) /\ Changing(u) => o = u
      /\ \A o \in Tabs : Changing(o) /\ calls[o].answer # None /\ calls[o].answer.grant # None
           => Valid(calls[o].answer.grant)
      /\ (jar.refresh # None => Valid(jar.refresh)) \/ \E o \in Tabs : Replaces(o)
  BY DEF AloneOK
<1>3. \A o \in Tabs : o # t => (Changing(o)' <=> Changing(o)) /\ (Replaces(o)' <=> Replaces(o))
  BY <1>1 DEF Changing, Replaces, Clears
<1>4. Changing(t)' => \A o \in Tabs \ {t} : ~Changing(o)
  BY <1>1 DEF Changing
<1>5. (\A o, u \in Tabs : Changing(o) /\ Changing(u) => o = u)'
  BY <1>2, <1>3, <1>4
<1>6. \A g : Valid(g)' <=> Valid(g)
  BY DEF Valid
<1>7. (\A o \in Tabs : Changing(o) /\ calls[o].answer # None /\ calls[o].answer.grant # None
         => Valid(calls[o].answer.grant))'
  <2> SUFFICES ASSUME NEW o \in Tabs, Changing(o)', calls'[o].answer # None,
                      calls'[o].answer.grant # None
               PROVE  Valid(calls[o].answer.grant)'
    OBVIOUS
  <2>1. o # t
    BY <1>1 DEF Changing
  <2>2. calls'[o] = calls[o] /\ Changing(o)
    BY <2>1, <1>1, <1>3
  <2>3. Valid(calls[o].answer.grant)
    BY <2>2, <1>2
  <2> QED BY <2>2, <2>3 DEF Valid
<1>8. (jar.refresh # None => Valid(jar.refresh))' \/ \E o \in Tabs : Replaces(o)'
  <2>1. CASE jar' = jar /\ ~Changing(t)
    <3>1. ~Replaces(t)
      BY <2>1 DEF Replaces
    <3>2. (jar.refresh # None => Valid(jar.refresh)) => (jar.refresh # None => Valid(jar.refresh))'
      BY <2>1 DEF Valid
    <3> QED BY <3>1, <3>2, <1>2, <1>3
  <2>2. CASE calls[t] # None /\ calls[t].answer # None /\ jar' = Applied(calls[t])
    <3>1. CASE calls[t].answer.grant # None
      <4>1. jar'.refresh = calls[t].answer.grant
        BY <2>2, <3>1, AppliedOK
      <4>2. Changing(t)
        <5>1. calls[t].op \notin {"get", "post", "logout", "logoutAll"}
          BY <2>2, <3>1, Unfolded DEF CallOK, AnswerOK
        <5>2. calls[t].op \in Ops
          BY <2>2, Unfolded, CallFields
        <5> QED BY <2>2, <5>1, <5>2 DEF Changing, Ops
      <4>3. Valid(calls[t].answer.grant)
        BY <1>2, <2>2, <3>1, <4>2
      <4> QED BY <4>1, <4>3 DEF Valid
    <3>2. CASE calls[t].answer.grant = None /\ ~Clears(calls[t])
      <4>1. ~Replaces(t) /\ jar' = jar
        BY <3>2, <2>2 DEF Replaces, Applied
      <4>2. (jar.refresh # None => Valid(jar.refresh)) => (jar.refresh # None => Valid(jar.refresh))'
        BY <4>1 DEF Valid
      <4> QED BY <4>1, <4>2, <1>2, <1>3
    <3>3. CASE calls[t].answer.grant = None /\ Clears(calls[t])
      BY <3>3, <2>2, AppliedOK DEF NoCookies
    <3> QED BY <3>1, <3>2, <3>3
  <2> QED BY <2>1, <2>2
<1> QED BY <1>5, <1>7, <1>8 DEF AloneOK

(* The server's answers keep it: a request that changes the table has the   *)
(* session to itself and is answered with a current grant, or with an       *)
(* answer that empties the jar.                                             *)
LEMMA AloneWhenServed ==
  ASSUME Sound, AloneOK, NEW t \in Tabs, NEW a \in Answers,
         calls[t] # None, calls[t].answer = None,
         calls' = [calls EXCEPT ![t].answer = a], UNCHANGED <<jar, overlap>>,
         \/ UNCHANGED sessions /\ a.grant = None
         \/ /\ calls[t].op \in SessionOps
            /\ \/ a.grant # None /\ Current(a.grant, sessions')
               \/ a.grant = None /\ (a.status = 401 \/
                    (calls[t].op \in {"logout", "logoutAll"} /\ a.status = 200))
  PROVE  AloneOK'
<1> SUFFICES ASSUME ~overlap PROVE AloneOK'
  BY DEF AloneOK
<1>1. /\ calls'[t] = [calls[t] EXCEPT !.answer = a]
      /\ \A o \in Tabs : o # t => calls'[o] = calls[o]
  <2>1. calls \in [Tabs -> Calls \cup {None}]
    BY DEF Sound, TypeOK
  <2> QED BY <2>1
<1>2. calls'[t] # None /\ calls'[t].op = calls[t].op /\ calls'[t].answer = a /\ a # None
  <2>1. calls[t] \in Calls /\ a # None
    BY Unfolded, NoneAssumption
  <2>2. [calls[t] EXCEPT !.answer = a] \in Calls
        /\ [calls[t] EXCEPT !.answer = a].answer = a
        /\ [calls[t] EXCEPT !.answer = a].op = calls[t].op
    BY <2>1, AnsweredCall
  <2>3. [calls[t] EXCEPT !.answer = a] # None
    BY <2>2, NoneAssumption
  <2> QED BY <2>1, <2>2, <2>3, <1>1
<1>3. /\ \A o, u \in Tabs : Changing(o) /\ Changing(u) => o = u
      /\ \A o \in Tabs : Changing(o) /\ calls[o].answer # None /\ calls[o].answer.grant # None
           => Valid(calls[o].answer.grant)
      /\ (jar.refresh # None => Valid(jar.refresh)) \/ \E o \in Tabs : Replaces(o)
  BY DEF AloneOK
<1>4. \A o \in Tabs : o # t => (Changing(o)' <=> Changing(o)) /\ (Replaces(o)' <=> Replaces(o))
  BY <1>1 DEF Changing, Replaces, Clears
<1>5. (Changing(t)' <=> Changing(t)) /\ ~Replaces(t)
  BY <1>2 DEF Changing, Replaces
<1>6. (\A o, u \in Tabs : Changing(o) /\ Changing(u) => o = u)'
  BY <1>3, <1>4, <1>5
<1>7. CASE UNCHANGED sessions /\ a.grant = None
  <2>1. (\A o \in Tabs : Changing(o) /\ calls[o].answer # None /\ calls[o].answer.grant # None
           => Valid(calls[o].answer.grant))'
    <3> SUFFICES ASSUME NEW o \in Tabs, Changing(o)', calls'[o].answer # None,
                        calls'[o].answer.grant # None
                 PROVE  Valid(calls[o].answer.grant)'
      OBVIOUS
    <3>1. o # t
      BY <1>2, <1>7
    <3>2. calls'[o] = calls[o] /\ Changing(o)
      BY <3>1, <1>1, <1>4
    <3>3. Valid(calls[o].answer.grant)
      BY <3>2, <1>3
    <3> QED BY <3>2, <3>3, <1>7 DEF Valid
  <2>2. (jar.refresh # None => Valid(jar.refresh)) => (jar.refresh # None => Valid(jar.refresh))'
    BY <1>7 DEF Valid
  <2> QED BY <2>1, <2>2, <1>3, <1>4, <1>5, <1>6 DEF AloneOK
<1>8. CASE /\ calls[t].op \in SessionOps
           /\ \/ a.grant # None /\ Current(a.grant, sessions')
              \/ a.grant = None /\ (a.status = 401 \/
                   (calls[t].op \in {"logout", "logoutAll"} /\ a.status = 200))
  <2>1. Changing(t) /\ \A o \in Tabs : Changing(o)' => o = t
    BY <1>8, <1>3, <1>4 DEF Changing
  <2>2. (\A o \in Tabs : Changing(o) /\ calls[o].answer # None /\ calls[o].answer.grant # None
           => Valid(calls[o].answer.grant))'
    <3> SUFFICES ASSUME NEW o \in Tabs, Changing(o)', calls'[o].answer.grant # None
                 PROVE  Valid(calls[o].answer.grant)'
      OBVIOUS
    <3>1. o = t
      BY <2>1
    <3>2. calls'[o].answer.grant = a.grant
      BY <3>1, <1>2
    <3>3. Current(calls'[o].answer.grant, sessions')
      BY <3>2, <1>8
    <3> QED BY <3>3 DEF Valid, Current
  <2>3. Replaces(t)'
    BY <1>2, <1>8 DEF Replaces, Changing, Clears
  <2> QED BY <2>2, <2>3, <1>6 DEF AloneOK
<1> QED BY <1>7, <1>8

-----------------------------------------------------------------------------
(* The server answers t's request: Sound is kept when the answer fits.      *)
LEMMA SoundWhenServed ==
  ASSUME Sound, NEW t \in Tabs, NEW a \in Answers, calls[t] # None,
         calls' = [calls EXCEPT ![t].answer = a], UNCHANGED <<jar, tabs, overlap>>,
         AnswerOK([calls[t] EXCEPT !.answer = a], tabs[t], sessions'),
         Grown(sessions, sessions'), Len(sessions') <= MaxSessions,
         orders' \subseteq [by : Users, shown : Users, adopted : BOOLEAN], HistoryOK'
  PROVE  Sound'
<1> DEFINE call == [calls[t] EXCEPT !.answer = a]
<1>1. calls[t] \in Calls
  BY Unfolded
<1>2. /\ call \in Calls /\ call.op = calls[t].op /\ call.user = calls[t].user
      /\ call.then = calls[t].then /\ call.cookies = calls[t].cookies
      /\ call.header = calls[t].header
  BY <1>1, AnsweredCall
<1>3. AnswerOK(call, tabs[t], sessions')
  OBVIOUS
<1>4. calls' = [calls EXCEPT ![t] = call]
  OBVIOUS
<1> HIDE DEF call
<1>5. CallOK(call, tabs[t], sessions')
  <2>1. CallOK(calls[t], tabs[t], sessions)
    BY Unfolded
  <2>2. JarOK(call.cookies, sessions')
    BY <2>1, <1>2, GrownJar DEF CallOK
  <2> QED BY <2>1, <2>2, <1>2, <1>3 DEF CallOK
<1>6. PageOK(tabs[t], sessions')
  BY Unfolded, GrownPage
<1>7. jar' \in Jars /\ JarOK(jar', sessions')
  BY Unfolded, GrownJar
<1>8. tabs' = [tabs EXCEPT ![t] = tabs[t]] /\ tabs[t] \in Pages /\ overlap' \in BOOLEAN
  BY Unfolded
<1> QED BY SoundStep, <1>2, <1>4, <1>5, <1>6, <1>7, <1>8

LEMMA ServedAnswer ==
  ASSUME NEW status \in {200, 401, 403}, NEW user \in Users \cup {None},
         NEW grant \in Grants \cup {None}
  PROVE  [status |-> status, user |-> user, grant |-> grant] \in Answers
BY DEF Answers

(* An answer without a grant, to a request that is no logout it allows,     *)
(* while the table is unchanged or a session has ended.                     *)
LEMMA PlainAnswer ==
  ASSUME Sound, NEW t \in Tabs, NEW a \in Answers, calls[t] # None, a.grant = None,
         NEW rows,
         calls[t].op \in {"restore", "login", "renew", "logout", "logoutAll"} => a.status # 200
  PROVE  AnswerOK([calls[t] EXCEPT !.answer = a], tabs[t], rows)
<1>1. calls[t] \in Calls
  BY Unfolded
<1>2. [calls[t] EXCEPT !.answer = a].answer = a /\ [calls[t] EXCEPT !.answer = a].op = calls[t].op
  BY <1>1, AnsweredCall
<1> QED BY <1>2 DEF AnswerOK

LEMMA PlainStep ==
  ASSUME Sound, AloneOK, NEW t \in Tabs, calls[t] # None, calls[t].answer = None,
         NEW a \in Answers, a.grant = None,
         calls[t].op \in {"restore", "login", "renew", "logout", "logoutAll"} => a.status # 200,
         calls' = [calls EXCEPT ![t].answer = a],
         UNCHANGED <<jar, sessions, tabs, orders, left, overlap>>
  PROVE  IInv'
<1>1. AnswerOK([calls[t] EXCEPT !.answer = a], tabs[t], sessions')
  BY PlainAnswer
<1>2. Grown(sessions, sessions') /\ Len(sessions') <= MaxSessions
  BY Unfolded
<1>3. HistoryOK' /\ orders' \subseteq [by : Users, shown : Users, adopted : BOOLEAN]
  BY <1>2, HistoryKept
<1>4. Sound'
  BY <1>1, <1>2, <1>3, SoundWhenServed
<1>5. AloneOK'
  BY AloneWhenServed
<1> QED BY <1>4, <1>5 DEF IInv

LEMMA UnauthenticatedStep ==
  ASSUME IInv, NEW t \in Tabs, Unauthenticated(t) PROVE IInv'
<1> DEFINE a == [status |-> 401, user |-> None, grant |-> None]
<1>1. /\ calls[t] # None /\ calls[t].answer = None
      /\ Sound /\ AloneOK /\ UNCHANGED <<jar, sessions, tabs, orders, left, overlap>>
      /\ calls' = [calls EXCEPT ![t].answer = a]
  BY DEF Unauthenticated, Unserved, IInv, Answer, history
<1>2. a \in Answers /\ a.grant = None /\ a.status # 200
  BY ServedAnswer
<1> HIDE DEF a
<1> QED BY <1>1, <1>2, PlainStep

LEMMA ForbiddenStep ==
  ASSUME IInv, NEW t \in Tabs, Forbidden(t) PROVE IInv'
<1> DEFINE a == [status |-> 403, user |-> None, grant |-> None]
<1>1. /\ calls[t] # None /\ calls[t].answer = None
      /\ Sound /\ AloneOK /\ UNCHANGED <<jar, sessions, tabs, orders, left, overlap>>
      /\ calls' = [calls EXCEPT ![t].answer = a]
  BY DEF Forbidden, Unserved, IInv, Answer, history
<1>2. a \in Answers /\ a.grant = None /\ a.status # 200
  BY ServedAnswer
<1> HIDE DEF a
<1> QED BY <1>1, <1>2, PlainStep

LEMMA ServeLoginStep ==
  ASSUME IInv, NEW t \in Tabs, ServeLogin(t) PROVE IInv'
<1>1. CASE Answer(t, 401, None, None) /\ UNCHANGED sessions
  <2> DEFINE a == [status |-> 401, user |-> None, grant |-> None]
  <2>1. /\ calls[t] # None /\ calls[t].answer = None
        /\ Sound /\ AloneOK /\ UNCHANGED <<jar, sessions, tabs, orders, left, overlap>>
        /\ calls' = [calls EXCEPT ![t].answer = a]
    BY <1>1 DEF ServeLogin, Unserved, IInv, Answer, history
  <2>2. a \in Answers /\ a.grant = None /\ a.status # 200
    BY ServedAnswer
  <2> HIDE DEF a
  <2> QED BY <2>1, <2>2, PlainStep
<1>2. CASE ~(Answer(t, 401, None, None) /\ UNCHANGED sessions)
  <2> DEFINE user == calls[t].user
             row == [user |-> user, token |-> 1, live |-> TRUE]
             g == <<Len(sessions) + 1, 1>>
             a == [status |-> 200, user |-> user, grant |-> g]
  <2>1. /\ calls[t] # None /\ calls[t].op = "login" /\ calls[t].answer = None
        /\ Sound /\ AloneOK /\ Len(sessions) < MaxSessions
        /\ sessions' = Append(RevokedAll(user), row)
        /\ calls' = [calls EXCEPT ![t].answer = a]
        /\ UNCHANGED <<jar, tabs, orders, left, overlap>>
    BY <1>2 DEF ServeLogin, Unserved, IInv, Answer, history
  <2>2. user \in Users /\ user # None
    BY <2>1, Unfolded, BrowserAssumption DEF CallOK
  <2>3. Len(sessions) \in Nat /\ TypeOK /\ sessions \in Seq(Rows)
    BY <2>1, Unfolded
  <2>4. g \in Grants /\ g[1] = Len(sessions) + 1 /\ g[2] = 1 /\ g # None
    BY <2>1, <2>3, BrowserAssumption, NoneAssumption DEF Grants
  <2>5. row \in Rows
    BY <2>2, BrowserAssumption DEF Rows
  <2>6. a \in Answers /\ a.grant = g /\ a.user = user /\ a.status = 200
    BY <2>2, <2>4, ServedAnswer
  <2>7. row.user = user /\ row.live = TRUE /\ row.token = 1
    OBVIOUS
  <2> HIDE DEF a, g, row, user
  <2>8. Grown(sessions, RevokedAll(user)) /\ Len(RevokedAll(user)) = Len(sessions)
        /\ RevokedAll(user) \in Seq(Rows)
    BY <2>3, RevokedAllGrows DEF Grown
  <2>9. /\ sessions' \in Seq(Rows) /\ Len(sessions') = Len(sessions) + 1
        /\ sessions'[Len(sessions) + 1] = row
        /\ \A i \in 1..Len(sessions) : sessions'[i] = RevokedAll(user)[i]
    BY <2>1, <2>3, <2>5, <2>8
  <2>10. Grown(sessions, sessions') /\ Len(sessions') <= MaxSessions
    BY <2>1, <2>3, <2>8, <2>9, BrowserAssumption DEF Grown
  <2>11. Opened(g, sessions') /\ Owner(g, sessions') = user
    BY <2>3, <2>4, <2>7, <2>9 DEF Opened, Owner
  <2>12. AnswerOK([calls[t] EXCEPT !.answer = a], tabs[t], sessions')
    <3>1. calls[t] \in Calls
      BY <2>1, Unfolded
    <3>2. /\ [calls[t] EXCEPT !.answer = a].answer = a
          /\ [calls[t] EXCEPT !.answer = a].op = "login"
      BY <2>1, <2>6, <3>1, AnsweredCall
    <3> QED BY <2>4, <2>6, <2>11, <3>2 DEF AnswerOK
  <2>13. HistoryOK' /\ orders' \subseteq [by : Users, shown : Users, adopted : BOOLEAN]
    BY <2>1, <2>10, HistoryKept
  <2>14. Sound'
    BY <2>1, <2>6, <2>10, <2>12, <2>13, SoundWhenServed
  <2>15. a.grant # None /\ Current(a.grant, sessions')
    BY <2>4, <2>6, <2>7, <2>9 DEF Current
  <2>16. AloneOK'
    BY <2>1, <2>6, <2>15, AloneWhenServed DEF SessionOps
  <2> QED BY <2>14, <2>16 DEF IInv
<1> QED BY <1>1, <1>2

LEMMA ServeRefreshStep ==
  ASSUME IInv, NEW t \in Tabs, ServeRefresh(t) PROVE IInv'
<1> DEFINE g == calls[t].cookies.refresh
<1>1. /\ calls[t] # None /\ calls[t].op \in {"restore", "renew"} /\ calls[t].answer = None
      /\ Sound /\ AloneOK /\ UNCHANGED <<jar, tabs, orders, left, overlap>>
  BY DEF ServeRefresh, Unserved, IInv, history
<1>2. calls[t] \in Calls /\ TypeOK /\ sessions \in Seq(Rows) /\ Len(sessions) \in Nat
      /\ Len(sessions) <= MaxSessions
  BY <1>1, Unfolded
<1>3. g = None \/ Opened(g, sessions)
  BY <1>1, Unfolded DEF CallOK, JarOK
<1>4. calls[t].op \in SessionOps
  BY <1>1 DEF SessionOps
<1>5. CASE /\ Valid(g) /\ g[2] < MaxTokens
           /\ sessions' = [sessions EXCEPT ![g[1]].token = @ + 1]
           /\ Answer(t, 200, sessions[g[1]].user, <<g[1], g[2] + 1>>)
  <2> DEFINE row == sessions[g[1]]
             h == <<g[1], g[2] + 1>>
             a == [status |-> 200, user |-> row.user, grant |-> h]
  <2>1. Opened(g, sessions) /\ row.live /\ row.token = g[2]
    BY <1>3, <1>5 DEF Valid
  <2>2. g \in Grants /\ g[1] \in 1..Len(sessions) /\ g[1] \in 1..MaxSessions /\ g[2] \in 1..MaxTokens
    BY <2>1 DEF Opened, Grants
  <2>3. h \in Grants /\ h[1] = g[1] /\ h[2] = g[2] + 1 /\ h # None
    BY <2>2, <1>5, BrowserAssumption, NoneAssumption DEF Grants
  <2>4. row \in Rows
    BY <1>2, <2>2
  <2>5. row.user \in Users
    BY <2>4 DEF Rows
  <2>6. a \in Answers /\ a.grant = h /\ a.user = row.user /\ a.status = 200
    BY <2>3, <2>5, ServedAnswer
  <2>7. calls' = [calls EXCEPT ![t].answer = a]
    BY <1>5 DEF Answer
  <2>8. sessions' = [sessions EXCEPT ![g[1]] = [row EXCEPT !.token = row.token + 1]]
    BY <1>5
  <2>9. row = sessions[g[1]]
    OBVIOUS
  <2> HIDE DEF row, h, a, g
  <2>10. row.token + 1 \in 1..MaxTokens
    BY <2>1, <2>2, <1>5, BrowserAssumption
  <2>11. /\ [row EXCEPT !.token = row.token + 1] \in Rows
         /\ [row EXCEPT !.token = row.token + 1].user = row.user
         /\ [row EXCEPT !.token = row.token + 1].live = row.live
         /\ [row EXCEPT !.token = row.token + 1].token = row.token + 1
    BY <2>4, <2>10 DEF Rows
  <2>12. /\ sessions' \in Seq(Rows) /\ Len(sessions') = Len(sessions)
         /\ sessions'[g[1]] = [row EXCEPT !.token = row.token + 1]
         /\ \A i \in 1..Len(sessions) : i # g[1] => sessions'[i] = sessions[i]
    BY <2>8, <2>2, <2>11, <1>2
  <2>13. Grown(sessions, sessions') /\ Len(sessions') <= MaxSessions
    <3>1. \A i \in 1..Len(sessions) : sessions'[i].user = sessions[i].user
                                      /\ (sessions'[i].live => sessions[i].live)
      BY <2>9, <2>11, <2>12
    <3> QED BY <1>2, <2>12, <3>1 DEF Grown
  <2>14. Opened(h, sessions') /\ Owner(h, sessions') = row.user
    BY <2>2, <2>3, <2>11, <2>12 DEF Opened, Owner
  <2>15. AnswerOK([calls[t] EXCEPT !.answer = a], tabs[t], sessions')
    <3>1. /\ [calls[t] EXCEPT !.answer = a].answer = a
          /\ [calls[t] EXCEPT !.answer = a].op \in {"restore", "renew"}
      BY <1>1, <1>2, <2>6, AnsweredCall
    <3> QED BY <2>3, <2>6, <2>14, <3>1 DEF AnswerOK
  <2>16. HistoryOK' /\ orders' \subseteq [by : Users, shown : Users, adopted : BOOLEAN]
    BY <1>1, <2>13, HistoryKept
  <2>17. Sound'
    BY <1>1, <2>6, <2>7, <2>13, <2>15, <2>16, SoundWhenServed
  <2>18. a.grant # None /\ Current(a.grant, sessions')
    <3>1. sessions'[h[1]].live /\ sessions'[h[1]].token = h[2]
      BY <2>1, <2>3, <2>11, <2>12
    <3> QED BY <2>3, <2>6, <3>1 DEF Current
  <2>19. AloneOK'
    BY <1>1, <1>4, <2>6, <2>7, <2>18, AloneWhenServed
  <2> QED BY <2>17, <2>19 DEF IInv
<1>6. CASE sessions' = Revoked(g) /\ Answer(t, 401, None, None)
  <2> DEFINE a == [status |-> 401, user |-> None, grant |-> None]
  <2>1. a \in Answers /\ a.grant = None /\ a.status = 401
    BY ServedAnswer
  <2>2. calls' = [calls EXCEPT ![t].answer = a]
    BY <1>6 DEF Answer
  <2> HIDE DEF a
  <2>3. AnswerOK([calls[t] EXCEPT !.answer = a], tabs[t], sessions')
    BY <1>1, <2>1, PlainAnswer
  <2>4. Grown(sessions, sessions') /\ Len(sessions') <= MaxSessions
    BY <1>2, <1>3, <1>6, RevokedGrows
  <2>5. HistoryOK' /\ orders' \subseteq [by : Users, shown : Users, adopted : BOOLEAN]
    BY <1>1, <2>4, HistoryKept
  <2>6. Sound'
    BY <1>1, <2>1, <2>2, <2>3, <2>4, <2>5, SoundWhenServed
  <2>7. AloneOK'
    BY <1>1, <1>4, <2>1, <2>2, AloneWhenServed
  <2> QED BY <2>6, <2>7 DEF IInv
<1> QED BY <1>5, <1>6 DEF ServeRefresh

LEMMA ServeOrdersStep ==
  ASSUME IInv, NEW t \in Tabs, ServeOrders(t) PROVE IInv'
<1> DEFINE a == [status |-> 200, user |-> calls[t].cookies.access, grant |-> None]
<1>1. /\ calls[t] # None /\ calls[t].op = "get" /\ calls[t].answer = None
      /\ Sound /\ AloneOK /\ UNCHANGED <<jar, sessions, tabs, orders, left, overlap>>
      /\ calls' = [calls EXCEPT ![t].answer = a]
  BY DEF ServeOrders, Unserved, IInv, Answer, history
<1>2. calls[t].cookies.access \in Users \cup {None}
  BY <1>1, Unfolded, CallFields DEF Jars
<1>3. a \in Answers /\ a.grant = None
  BY <1>2, ServedAnswer
<1> HIDE DEF a
<1> QED BY <1>1, <1>3, PlainStep

(* requireCsrf and the access cookie: the request's cookies are of the      *)
(* session of the page's token.                                             *)
LEMMA CookiesFit ==
  ASSUME Sound, NEW t \in Tabs, calls[t] # None, calls[t].op \in {"post", "logout", "logoutAll"},
         calls[t].cookies.access # None, Matches(calls[t])
  PROVE  /\ tabs[t].user # None /\ tabs[t].csrf # None
         /\ calls[t].cookies.refresh = tabs[t].csrf
         /\ Opened(tabs[t].csrf, sessions)
         /\ calls[t].cookies.access = Owner(tabs[t].csrf, sessions)
BY SignedInPage, Unfolded DEF CallOK, JarOK, Matches

LEMMA ServePostStep ==
  ASSUME IInv, NEW t \in Tabs, ServePost(t) PROVE IInv'
<1> DEFINE a == [status |-> 200, user |-> calls[t].cookies.access, grant |-> None]
           order == [by |-> calls[t].cookies.access, shown |-> tabs[t].user,
                     adopted |-> tabs[t].adopted]
<1>1. /\ calls[t] # None /\ calls[t].op = "post" /\ calls[t].answer = None
      /\ calls[t].cookies.access # None /\ Matches(calls[t])
      /\ Sound /\ AloneOK /\ UNCHANGED <<jar, sessions, tabs, left, overlap>>
      /\ calls' = [calls EXCEPT ![t].answer = a]
      /\ orders' = orders \cup {order}
  BY DEF ServePost, Unserved, IInv, Answer
<1>2. calls[t].cookies.access \in Users
  BY <1>1, Unfolded, CallFields DEF Jars
<1>3. a \in Answers /\ a.grant = None
  BY <1>2, ServedAnswer
<1>4. order \in [by : Users, shown : Users, adopted : BOOLEAN]
  <2>1. tabs[t].user \in Users /\ tabs[t].adopted \in BOOLEAN
    BY <1>1, CookiesFit, Unfolded DEF Pages
  <2> QED BY <2>1, <1>2
<1>5. order.by = order.shown \/ order.adopted
  BY <1>1, CookiesFit, Unfolded DEF PageOK
<1> HIDE DEF a, order
<1>6. AnswerOK([calls[t] EXCEPT !.answer = a], tabs[t], sessions')
  BY <1>1, <1>3, PlainAnswer
<1>7. Grown(sessions, sessions') /\ Len(sessions') <= MaxSessions
  BY <1>1, Unfolded
<1>8. HistoryOK' /\ orders' \subseteq [by : Users, shown : Users, adopted : BOOLEAN]
  BY <1>1, <1>4, <1>5 DEF Sound, TypeOK, HistoryOK
<1>9. Sound'
  BY <1>1, <1>3, <1>6, <1>7, <1>8, SoundWhenServed
<1>10. AloneOK'
  BY <1>1, <1>3, AloneWhenServed
<1> QED BY <1>9, <1>10 DEF IInv

LEMMA ServeLogoutStep ==
  ASSUME IInv, NEW t \in Tabs, ServeLogout(t) PROVE IInv'
<1> DEFINE a == [status |-> 200, user |-> None, grant |-> None]
           c == calls[t].cookies
<1>1. /\ calls[t] # None /\ calls[t].op \in {"logout", "logoutAll"} /\ calls[t].answer = None
      /\ c.access # None /\ Matches(calls[t])
      /\ Sound /\ AloneOK /\ UNCHANGED <<jar, tabs, orders, left, overlap>>
      /\ calls' = [calls EXCEPT ![t].answer = a]
      /\ sessions' = IF calls[t].op = "logout" THEN Revoked(c.refresh) ELSE RevokedAll(c.access)
  BY DEF ServeLogout, Unserved, IInv, Answer, history
<1>2. a \in Answers /\ a.grant = None /\ a.status = 200
  BY ServedAnswer
<1>3. /\ c.refresh = tabs[t].csrf /\ tabs[t].csrf # None
      /\ Opened(tabs[t].csrf, sessions) /\ c.access = Owner(tabs[t].csrf, sessions)
  BY <1>1, CookiesFit
<1>4. TypeOK /\ Len(sessions) <= MaxSessions
  BY <1>1, Unfolded
<1>5. Grown(sessions, sessions') /\ Len(sessions') <= MaxSessions
      /\ ~sessions'[tabs[t].csrf[1]].live
  <2>1. CASE calls[t].op = "logout"
    BY <2>1, <1>1, <1>3, <1>4, RevokedGrows
  <2>2. CASE calls[t].op # "logout"
    BY <2>2, <1>1, <1>3, <1>4, RevokedAllGrows DEF Opened, Owner
  <2> QED BY <2>1, <2>2
<1> HIDE DEF a, c
<1>6. AnswerOK([calls[t] EXCEPT !.answer = a], tabs[t], sessions')
  <2>1. calls[t] \in Calls
    BY <1>1, Unfolded
  <2>2. /\ [calls[t] EXCEPT !.answer = a].answer = a
        /\ [calls[t] EXCEPT !.answer = a].op = calls[t].op
    BY <2>1, <1>2, AnsweredCall
  <2> QED BY <2>2, <1>1, <1>2, <1>5 DEF AnswerOK
<1>7. HistoryOK' /\ orders' \subseteq [by : Users, shown : Users, adopted : BOOLEAN]
  BY <1>1, <1>5, HistoryKept
<1>8. Sound'
  BY <1>1, <1>2, <1>5, <1>6, <1>7, SoundWhenServed
<1>9. AloneOK'
  BY <1>1, <1>2, AloneWhenServed DEF SessionOps
<1> QED BY <1>8, <1>9 DEF IInv

-----------------------------------------------------------------------------
(* A step of the page: the table stays.  Its new page and call fit it, the  *)
(* jar is as before or as the answer leaves it.                             *)
LEMMA ClientStep ==
  ASSUME Sound, AloneOK, NEW t \in Tabs, NEW page \in Pages, NEW call \in Calls \cup {None},
         tabs' = [tabs EXCEPT ![t] = page], calls' = [calls EXCEPT ![t] = call],
         UNCHANGED <<sessions, orders>>,
         \A sid \in left' \ left : sid \in 1..Len(sessions) /\ ~sessions[sid].live,
         PageOK(page, sessions), CallOK(call, page, sessions),
         overlap' \in BOOLEAN, call # None => call.answer = None,
         ~overlap' => ~overlap /\ (call # None /\ call.op \in SessionOps =>
                                     \A o \in Tabs \ {t} : ~Changing(o)),
         \/ jar' = jar /\ (~overlap' => ~Changing(t))
         \/ calls[t] # None /\ calls[t].answer # None /\ jar' = Applied(calls[t])
  PROVE  IInv'
<1>1. jar' \in Jars /\ JarOK(jar', sessions')
  BY Unfolded, AppliedOK
<1>2. Grown(sessions, sessions') /\ Len(sessions') <= MaxSessions
  BY Unfolded
<1>3. HistoryOK' /\ orders' \subseteq [by : Users, shown : Users, adopted : BOOLEAN]
  BY DEF Sound, TypeOK, HistoryOK
<1>4. Sound'
  BY <1>1, <1>2, <1>3, SoundStep
<1>5. AloneOK'
  BY AloneWhenBack
<1> QED BY <1>4, <1>5 DEF IInv

LEMMA LoadedPage ==
  NewPage \in Pages /\ \A rows : PageOK(NewPage, rows)
BY DEF NewPage, Pages, PageOK

LEMMA SignedOutPage ==
  ASSUME Sound, NEW t \in Tabs
  PROVE  SignedOut(t) \in Pages /\ \A rows : PageOK(SignedOut(t), rows)
<1>1. tabs[t] \in Pages
  BY Unfolded
<1>2. SignedOut(t) \in Pages /\ SignedOut(t).user = None /\ SignedOut(t).csrf = None
  BY <1>1 DEF SignedOut, Pages
<1> QED BY <1>2 DEF PageOK

(* No call under way fits every page. *)
LEMMA NoCall == \A p, rows : CallOK(None, p, rows)
BY DEF CallOK

(* What Send says of overlap, in the words of ClientStep. *)
LEMMA SendAlone ==
  ASSUME Sound, NEW t \in Tabs, NEW call \in Calls, Send(t, call)
  PROVE  /\ calls' = [calls EXCEPT ![t] = call] /\ overlap' \in BOOLEAN
         /\ ~overlap' => ~overlap /\ (call # None /\ call.op \in SessionOps =>
                                        \A o \in Tabs \ {t} : ~Changing(o))
BY Unfolded DEF Send, Changing

LEMMA LoadStep ==
  ASSUME IInv, NEW t \in Tabs, Load(t) PROVE IInv'
<1> DEFINE sent == Out(t, "restore", None, None, None)
           call == [sent EXCEPT !.header = None]
<1>1. /\ Sound /\ AloneOK /\ calls[t] = None /\ tabs' = [tabs EXCEPT ![t] = NewPage]
      /\ Send(t, call) /\ UNCHANGED <<jar, sessions, orders, left>>
  BY DEF Load, IInv, Page
<1>2. sent \in Calls /\ sent.op = "restore" /\ sent.cookies = jar /\ sent.answer = None
  BY <1>1, SentCall DEF Ops, SessionOps
<1> HIDE DEF sent
<1>3. /\ call \in Calls /\ call.op = "restore" /\ call.cookies = jar /\ call.answer = None
  BY <1>2 DEF Calls
<1> HIDE DEF call
<1>4. CallOK(call, NewPage, sessions)
  BY <1>1, <1>3, Unfolded DEF CallOK
<1>5. ~Changing(t)
  BY <1>1 DEF Changing
<1> QED BY <1>1, <1>3, <1>4, <1>5, ClientStep, SendAlone, LoadedPage

LEMMA LoginStep ==
  ASSUME IInv, NEW t \in Tabs, NEW user \in Users, Login(t, user) PROVE IInv'
<1> DEFINE call == Out(t, "login", user, None, None)
<1>1. /\ Sound /\ AloneOK /\ calls[t] = None
      /\ Send(t, call) /\ UNCHANGED <<jar, sessions, tabs, orders, left>>
  BY DEF Login, IInv
<1>2. /\ call \in Calls /\ call.op = "login" /\ call.user = user
      /\ call.cookies = jar /\ call.answer = None
  BY <1>1, SentCall DEF Ops, SessionOps
<1> HIDE DEF call
<1>3. CallOK(call, tabs[t], sessions)
  BY <1>1, <1>2, Unfolded DEF CallOK
<1>4. ~Changing(t)
  BY <1>1 DEF Changing
<1>5. /\ tabs[t] \in Pages /\ PageOK(tabs[t], sessions)
      /\ tabs' = [tabs EXCEPT ![t] = tabs[t]]
  BY <1>1, Unfolded
<1> QED BY <1>1, <1>2, <1>3, <1>4, <1>5, ClientStep, SendAlone

LEMMA UseStep ==
  ASSUME IInv, NEW t \in Tabs, NEW op \in Uses, Use(t, op) PROVE IInv'
<1> DEFINE call == Out(t, op, None, None, None)
<1>1. /\ Sound /\ AloneOK /\ calls[t] = None /\ tabs[t].user # None
      /\ Send(t, call) /\ UNCHANGED <<jar, sessions, tabs, orders, left>>
  BY DEF Use, IInv
<1>2. op \in Ops /\ op \in {"get", "post", "logout", "logoutAll"}
  BY BrowserAssumption DEF Ops, SessionOps
<1>3. tabs[t].csrf # None
  BY <1>1, SignedInPage
<1>4. /\ call \in Calls /\ call.op = op /\ call.header = tabs[t].csrf
      /\ call.cookies = jar /\ call.answer = None
  BY <1>1, <1>2, <1>3, SentCall
<1> HIDE DEF call
<1>5. CallOK(call, tabs[t], sessions)
  BY <1>1, <1>2, <1>4, Unfolded DEF CallOK
<1>6. ~Changing(t)
  BY <1>1 DEF Changing
<1>7. /\ tabs[t] \in Pages /\ PageOK(tabs[t], sessions)
      /\ tabs' = [tabs EXCEPT ![t] = tabs[t]]
  BY <1>1, Unfolded
<1> QED BY <1>1, <1>4, <1>5, <1>6, <1>7, ClientStep, SendAlone

LEMMA LostStep ==
  ASSUME IInv, NEW t \in Tabs, Lost(t) PROVE IInv'
<1> DEFINE page == IF calls[t].op \in {"restore", "renew", "logout", "logoutAll"}
                   THEN SignedOut(t) ELSE tabs[t]
<1>1. /\ Sound /\ AloneOK /\ calls[t] # None
      /\ tabs' = [tabs EXCEPT ![t] = page] /\ calls' = [calls EXCEPT ![t] = None]
      /\ overlap' = (overlap \/ calls[t].op \in SessionOps)
      /\ UNCHANGED <<jar, sessions, orders, left>>
  BY DEF Lost, IInv, Page
<1>2. page \in Pages /\ PageOK(page, sessions)
  BY <1>1, SignedOutPage, Unfolded
<1> HIDE DEF page
<1>3. overlap' \in BOOLEAN /\ (~overlap' => ~overlap /\ ~Changing(t))
  BY <1>1, Unfolded DEF Changing
<1> QED BY <1>1, <1>2, <1>3, ClientStep, NoCall

LEMMA UseAnsweredStep ==
  ASSUME IInv, NEW t \in Tabs, UseAnswered(t) PROVE IInv'
<1>1. /\ Sound /\ AloneOK /\ calls[t] # None /\ calls[t].answer # None
      /\ jar' = Applied(calls[t]) /\ calls' = [calls EXCEPT ![t] = None]
      /\ UNCHANGED <<sessions, tabs, orders, left, overlap>>
  BY DEF UseAnswered, IInv, Back, Done
<1>2. /\ tabs[t] \in Pages /\ PageOK(tabs[t], sessions)
      /\ tabs' = [tabs EXCEPT ![t] = tabs[t]] /\ overlap' \in BOOLEAN
  BY <1>1, Unfolded
<1> QED BY <1>1, <1>2, ClientStep, NoCall

LEMMA LogoutAnsweredStep ==
  ASSUME IInv, NEW t \in Tabs, LogoutAnswered(t) PROVE IInv'
<1>1. /\ Sound /\ AloneOK /\ calls[t] # None /\ calls[t].answer # None
      /\ calls[t].op \in {"logout", "logoutAll"}
      /\ jar' = Applied(calls[t]) /\ calls' = [calls EXCEPT ![t] = None]
      /\ tabs' = [tabs EXCEPT ![t] = SignedOut(t)]
      /\ left' = IF calls[t].answer.status = 200 THEN left \cup {tabs[t].csrf[1]} ELSE left
      /\ UNCHANGED <<sessions, orders, overlap>>
  BY DEF LogoutAnswered, IInv, Back, Done, Page
<1>2. overlap' \in BOOLEAN
  BY <1>1, Unfolded
<1>3. \A sid \in left' \ left : sid \in 1..Len(sessions) /\ ~sessions[sid].live
  <2>1. Opened(tabs[t].csrf, sessions) /\ AnswerOK(calls[t], tabs[t], sessions)
    BY <1>1, SignedInPage, Unfolded DEF CallOK
  <2> QED BY <1>1, <2>1 DEF Opened, AnswerOK
<1> QED BY <1>1, <1>2, <1>3, ClientStep, NoCall, SignedOutPage

LEMMA SignInAnsweredStep ==
  ASSUME IInv, NEW t \in Tabs, SignInAnswered(t) PROVE IInv'
<1> DEFINE a == calls[t].answer
           page == IF a.status = 200 THEN SignedIn(t, a)
                   ELSE IF calls[t].op = "restore" THEN SignedOut(t) ELSE tabs[t]
<1>1. /\ Sound /\ AloneOK /\ calls[t] # None /\ calls[t].answer # None
      /\ calls[t].op \in {"restore", "login"}
      /\ jar' = Applied(calls[t]) /\ calls' = [calls EXCEPT ![t] = None]
      /\ tabs' = [tabs EXCEPT ![t] = page]
      /\ UNCHANGED <<sessions, orders, left, overlap>>
  BY DEF SignInAnswered, IInv, Back, Done, Page
<1>2. overlap' \in BOOLEAN /\ tabs[t] \in Pages
  BY <1>1, Unfolded
<1>3. page \in Pages /\ PageOK(page, sessions)
  <2>1. CASE a.status = 200
    <3>1. a.grant # None /\ Opened(a.grant, sessions) /\ a.user = Owner(a.grant, sessions)
      BY <1>1, <2>1, Unfolded DEF CallOK, AnswerOK
    <3>2. a.user \in Users /\ a.grant \in Grants
      BY <1>1, <3>1, Unfolded, GrownOpened DEF Opened
    <3> HIDE DEF a
    <3>3. SignedIn(t, a) \in Pages /\ SignedIn(t, a).user = a.user /\ SignedIn(t, a).csrf = a.grant
      BY <1>2, <3>2 DEF SignedIn, Pages
    <3>4. PageOK(SignedIn(t, a), sessions)
      BY <3>1, <3>2, <3>3, BrowserAssumption DEF PageOK
    <3> QED BY <2>1, <3>3, <3>4
  <2>2. CASE a.status # 200
    BY <2>2, <1>1, SignedOutPage, Unfolded
  <2> QED BY <2>1, <2>2
<1> HIDE DEF page
<1> QED BY <1>1, <1>2, <1>3, ClientStep, NoCall

LEMMA UseRefusedStep ==
  ASSUME IInv, NEW t \in Tabs, UseRefused(t) PROVE IInv'
<1> DEFINE old == calls[t]
           call == [old EXCEPT !.op = "renew", !.then = old.op, !.answer = None,
                               !.cookies = jar', !.user = old.cookies.refresh]
<1>1. /\ Sound /\ AloneOK /\ old # None /\ old.answer # None /\ old.op \in {"get", "post"}
      /\ jar' = Applied(old) /\ UNCHANGED <<sessions, tabs, orders, left>>
      /\ (Done(t) \/ Send(t, call))
  BY DEF UseRefused, IInv, Back
<1>2. /\ tabs[t] \in Pages /\ PageOK(tabs[t], sessions)
      /\ tabs' = [tabs EXCEPT ![t] = tabs[t]] /\ overlap \in BOOLEAN
      /\ old \in Calls /\ CallOK(old, tabs[t], sessions)
  BY <1>1, Unfolded
<1>3. CASE Done(t)
  BY <1>1, <1>2, <1>3, ClientStep, NoCall DEF Done
<1>4. CASE Send(t, call)
  <2>1. old.cookies \in Jars /\ jar' \in Jars /\ JarOK(jar', sessions)
    BY <1>1, <1>2, CallFields, AppliedOK
  <2>2. old.cookies.refresh \in Users \cup Grants \cup {None}
    BY <2>1 DEF Jars
  <2> HIDE DEF old
  <2>3. /\ call \in Calls /\ call.op = "renew" /\ call.then = old.op /\ call.answer = None
        /\ call.cookies = jar' /\ call.header = old.header
    BY <1>1, <1>2, <2>1, <2>2 DEF Calls, Ops, SessionOps
  <2>4. tabs[t].user # None /\ old.header = tabs[t].csrf
    BY <1>1, <1>2 DEF CallOK
  <2> HIDE DEF call
  <2>5. CallOK(call, tabs[t], sessions)
    BY <1>1, <2>1, <2>3, <2>4 DEF CallOK
  <2> USE DEF old
  <2>6. /\ calls' = [calls EXCEPT ![t] = call] /\ overlap' \in BOOLEAN
        /\ ~overlap' => ~overlap /\ (call # None /\ call.op \in SessionOps =>
                                       \A o \in Tabs \ {t} : ~Changing(o))
    BY <1>1, <1>4, <2>3, SendAlone
  <2> QED BY <1>1, <1>2, <2>3, <2>5, <2>6, ClientStep
<1> QED BY <1>1, <1>3, <1>4

LEMMA RenewAnsweredStep ==
  ASSUME IInv, NEW t \in Tabs, RenewAnswered(t) PROVE IInv'
<1> DEFINE old == calls[t]
           a == old.answer
           page == [tabs[t] EXCEPT !.csrf = a.grant,
                                   !.adopted = (@ \/ a.user # tabs[t].user)]
           call == [old EXCEPT !.op = old.then, !.then = "again", !.answer = None,
                               !.cookies = jar', !.user = None, !.header = a.grant]
<1>1. /\ Sound /\ AloneOK /\ old # None /\ old.answer # None /\ old.op = "renew"
      /\ jar' = Applied(old) /\ UNCHANGED <<sessions, orders, left>>
  BY DEF RenewAnswered, IInv, Back
<1>2. /\ tabs[t] \in Pages /\ PageOK(tabs[t], sessions) /\ overlap \in BOOLEAN
      /\ old \in Calls /\ CallOK(old, tabs[t], sessions)
  BY <1>1, Unfolded
<1>3. CASE a.status # 200
  <2>1. tabs' = [tabs EXCEPT ![t] = SignedOut(t)] /\ Done(t)
    BY <1>3 DEF RenewAnswered, Page
  <2> QED BY <1>1, <1>2, <2>1, ClientStep, NoCall, SignedOutPage DEF Done
<1>4. CASE a.status = 200
  <2>1. tabs' = [tabs EXCEPT ![t] = page] /\ Send(t, call)
    BY <1>4 DEF RenewAnswered, Page
  <2>2. /\ a.grant # None /\ Opened(a.grant, sessions) /\ a.user = Owner(a.grant, sessions)
        /\ tabs[t].user # None /\ old.then \in {"get", "post"}
    BY <1>1, <1>2, <1>4 DEF CallOK, AnswerOK
  <2>3. a.grant \in Grants /\ jar' \in Jars /\ JarOK(jar', sessions)
    BY <1>1, <2>2, AppliedOK DEF Opened
  <2>4. /\ page \in Pages /\ page.user = tabs[t].user /\ page.csrf = a.grant
        /\ page.adopted \/ a.user = tabs[t].user
    <3> HIDE DEF a
    <3> QED BY <1>2, <2>3 DEF Pages
  <2>5. PageOK(page, sessions)
    <3> HIDE DEF page, a
    <3> QED BY <2>2, <2>4 DEF PageOK
  <2>6. /\ call \in Calls /\ call.op \in {"get", "post"} /\ call.answer = None
        /\ call.cookies = jar' /\ call.header = a.grant
    <3> HIDE DEF a, old
    <3> QED BY <1>2, <2>2, <2>3 DEF Calls, Ops, SessionOps
  <2> HIDE DEF call, page
  <2>7. CallOK(call, page, sessions)
    <3> HIDE DEF a
    <3> QED BY <2>2, <2>3, <2>4, <2>6 DEF CallOK
  <2>8. /\ calls' = [calls EXCEPT ![t] = call] /\ overlap' \in BOOLEAN
        /\ ~overlap' => ~overlap /\ (call # None /\ call.op \in SessionOps =>
                                       \A o \in Tabs \ {t} : ~Changing(o))
    BY <1>1, <2>1, <2>6, SendAlone
  <2> QED BY <1>1, <2>1, <2>4, <2>5, <2>6, <2>7, <2>8, ClientStep
<1> QED BY <1>3, <1>4

LEMMA AccessExpiresStep ==
  ASSUME IInv, AccessExpires PROVE IInv'
<1>1. /\ Sound /\ AloneOK /\ jar \in Jars /\ jar' = [jar EXCEPT !.access = None]
      /\ UNCHANGED <<sessions, tabs, calls, orders, left, overlap>>
  BY DEF AccessExpires, IInv, history, Sound, TypeOK
<1>2. jar' \in Jars /\ jar'.access = None /\ jar'.refresh = jar.refresh /\ jar'.csrf = jar.csrf
  BY <1>1 DEF Jars
<1>3. JarOK(jar', sessions')
  BY <1>1, <1>2 DEF JarOK, Sound
<1>4. TypeOK'
  BY <1>1, <1>2 DEF Sound, TypeOK
<1>5. HistoryOK' /\ Len(sessions') <= MaxSessions
  BY <1>1 DEF Sound, HistoryOK
<1>6. \A t \in Tabs : PageOK(tabs'[t], sessions') /\ CallOK(calls'[t], tabs'[t], sessions')
  BY <1>1 DEF Sound
<1>7. Sound'
  BY <1>3, <1>4, <1>5, <1>6 DEF Sound
<1>8. AloneOK'
  <2>1. \A t \in Tabs : (Changing(t)' <=> Changing(t)) /\ (Replaces(t)' <=> Replaces(t))
    BY <1>1 DEF Changing, Replaces, Clears
  <2>2. (\A t \in Tabs : Changing(t) /\ calls[t].answer # None /\ calls[t].answer.grant # None
           => Valid(calls[t].answer.grant)) =>
        (\A t \in Tabs : Changing(t) /\ calls[t].answer # None /\ calls[t].answer.grant # None
           => Valid(calls[t].answer.grant))'
    BY <1>1, <2>1 DEF Valid
  <2>3. (jar.refresh # None => Valid(jar.refresh)) => (jar.refresh # None => Valid(jar.refresh))'
    BY <1>1, <1>2 DEF Valid
  <2> QED BY <1>1, <2>1, <2>2, <2>3 DEF AloneOK
<1> QED BY <1>7, <1>8 DEF IInv

LEMMA InitIInv == Init => IInv
<1> SUFFICES ASSUME Init PROVE IInv
  OBVIOUS
<1>1. sessions = <<>> /\ Len(sessions) = 0 /\ orders = {} /\ left = {} /\ overlap = FALSE
      /\ jar = NoCookies
  BY DEF Init
<1>2. tabs \in [Tabs -> Pages] /\ \A t \in Tabs : PageOK(tabs[t], sessions)
  BY LoadedPage DEF Init
<1>3. calls \in [Tabs -> Calls \cup {None}] /\ \A t \in Tabs : calls[t] = None
  BY DEF Init
<1>4. jar \in Jars /\ JarOK(jar, sessions) /\ jar.refresh = None
  BY <1>1 DEF NoCookies, Jars, JarOK
<1>5. TypeOK /\ HistoryOK
  <2>1. sessions \in Seq([user : Users, token : 1..MaxTokens, live : BOOLEAN])
    BY <1>1
  <2>2. /\ orders \subseteq [by : Users, shown : Users, adopted : BOOLEAN]
        /\ left \subseteq 1..MaxSessions /\ overlap \in BOOLEAN /\ HistoryOK
    BY <1>1 DEF HistoryOK
  <2> QED BY <1>2, <1>3, <1>4, <2>1, <2>2 DEF TypeOK, Pages
<1>6. Sound
  BY <1>1, <1>2, <1>3, <1>4, <1>5, NoCall, BrowserAssumption DEF Sound
<1>7. AloneOK
  BY <1>3, <1>4 DEF AloneOK, Changing
<1> QED BY <1>6, <1>7 DEF IInv

LEMMA NextIInv == IInv /\ [Next]_vars => IInv'
<1> SUFFICES ASSUME IInv, [Next]_vars PROVE IInv'
  OBVIOUS
<1>1. CASE UNCHANGED vars
  BY <1>1 DEF IInv, Sound, TypeOK, HistoryOK, AloneOK, Changing, Replaces, Clears, Valid, vars
<1>2. CASE AccessExpires
  BY <1>2, AccessExpiresStep
<1>3. ASSUME NEW t \in Tabs, Acts(t) PROVE IInv'
  BY <1>3, LoadStep, LoginStep, UseStep, LostStep DEF Acts
<1>4. ASSUME NEW t \in Tabs, Handled(t) PROVE IInv'
  BY <1>4, ServeLoginStep, ServeRefreshStep, UnauthenticatedStep, ForbiddenStep,
     ServeOrdersStep, ServePostStep, ServeLogoutStep, SignInAnsweredStep,
     LogoutAnsweredStep, UseAnsweredStep, UseRefusedStep, RenewAnsweredStep DEF Handled
<1> QED BY <1>1, <1>2, <1>3, <1>4 DEF Next

-----------------------------------------------------------------------------
(* The inductive invariant holds of every behaviour. *)
THEOREM Invariance == Spec => []IInv
BY InitIInv, NextIInv, PTL DEF Spec

(* Every variable keeps its type; in particular a page shows a user and     *)
(* sends a token that some answer named (AuthContext, client.ts).           *)
THEOREM TypeCorrect == Spec => []TypeOK
<1>1. IInv => TypeOK
  BY DEF IInv, Sound
<1> QED BY <1>1, Invariance, PTL

(* requireCsrf is what binds an order to the page it was placed on: with    *)
(* one cookie jar for all tabs, an accepted order is placed for the user    *)
(* its page shows, or the page has adopted another user's token by a        *)
(* renewal.                                                                 *)
THEOREM OrdersNamed == Spec => []OrdersInShownName
<1>1. IInv => OrdersInShownName
  BY DEF IInv, Sound, HistoryOK, OrdersInShownName
<1> QED BY <1>1, Invariance, PTL

(* logout and logout-all: an answer of success means that the session of    *)
(* the page that asked has ended, whatever the other tabs did to the jar.   *)
THEOREM LogoutEnds == Spec => []LogoutEndsSession
<1>1. IInv => LogoutEndsSession
  BY DEF IInv, Sound, HistoryOK, LogoutEndsSession
<1> QED BY <1>1, Invariance, PTL

(* refreshSession's rotation: while requests that change the session do not *)
(* overlap and lose no answer, the refresh token the browser keeps is the   *)
(* one the server will accept.                                              *)
THEOREM JarCurrent == Spec => []JarIsCurrent
<1>1. ASSUME IInv PROVE JarIsCurrent
  <2> SUFFICES ASSUME ~overlap, jar.refresh # None,
                      \A t \in Tabs : calls[t] = None \/ calls[t].op \notin SessionOps
               PROVE  Valid(jar.refresh)
    BY DEF JarIsCurrent
  <2>1. \A t \in Tabs : ~Replaces(t)
    BY DEF Replaces, Changing
  <2> QED BY <1>1, <2>1 DEF IInv, AloneOK
<1> QED BY <1>1, Invariance, PTL
=============================================================================
