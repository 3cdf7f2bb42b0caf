------------------------------- MODULE Sessions -------------------------------
(***************************************************************************)
(* AuthService and the tables User and Session: login with the lock-out    *)
(* counter, the single-session policy, rotation of the refresh token,      *)
(* logout of one or of all sessions, and the back office's update of a     *)
(* dealer's account (HeadOfficeService.updateDealer).  None but the last   *)
(* runs in a transaction: every statement is a step of its own, so the     *)
(* requests interleave between what they read and what they write.         *)
(***************************************************************************)
EXTENDS Naturals, FiniteSets

CONSTANTS
  Users,         \* accounts
  Ids,           \* session ids the database generates
  Requests,      \* HTTP requests under way at one time; reused when ended
  Ops,           \* the operations requested of the service
  AllowMany,     \* env.ALLOW_MULTIPLE_ACTIVE_SESSIONS
  MaxFailures,   \* env.MAX_LOGIN_FAILURES
  Faults,        \* whether statements may fail
  MaxPasswords,  \* bound: passwords an account goes through
  MaxTokens,     \* bound: refresh tokens of one session
  MaxGuesses,    \* bound: failed logins counted
  None

ASSUME SessionsAssumption ==
  /\ AllowMany \in BOOLEAN /\ Faults \in BOOLEAN
  /\ Ops \subseteq {"login", "refresh", "logout", "logoutAll", "update"}
  /\ MaxFailures \in Nat \ {0, 1} /\ MaxGuesses \in Nat
  /\ MaxPasswords \in Nat \ {0} /\ MaxTokens \in Nat \ {0}
  /\ None \notin Users /\ None \notin Ids

(* A process serves finitely many requests at a time. *)
ASSUME RequestsAssumption == IsFiniteSet(Requests)

VARIABLES
  accounts,   \* table User (and its Dealer)
  sessions,   \* table Session; None for an id not issued
  pc,         \* where each request's handler stands
  req,        \* its parsed request
  seen,       \* the failure count it has read
  known,      \* history: the sessions there were when it revoked, or began to update
  revived,    \* history: sessions rotated after they had ended
  loggedOut,  \* history: sessions that a logout, of one or of all, has revoked
  purged      \* history, per account: the sessions there were when the last
              \* committed update that must end them began

vars == <<accounts, sessions, pc, req, seen, known, revived, loggedOut, purged>>
history == <<revived, loggedOut, purged>>

Passwords == 1..MaxPasswords
Accounts == [active : BOOLEAN, password : Passwords, failures : Nat,
             locked : BOOLEAN, wasLocked : BOOLEAN]
(* History: wasLocked, whether a lock was set since the last login; the     *)
(* password of the session's login, and the sessions there were when that   *)
(* login revoked the others.                                                *)
Rows == [user : Users, token : 1..MaxTokens, revoked : BOOLEAN,
         expired : BOOLEAN, password : Passwords, before : SUBSET Ids]

Bodies ==
  [op : {"login"}, user : Users, password : Passwords \cup {0}]
    \cup [op : {"refresh", "logout"}, id : Ids, token : 1..MaxTokens]
    \cup [op : {"logoutAll"}, user : Users]
    \cup [op : {"update"}, user : Users, active : BOOLEAN, change : BOOLEAN]

ASSUME NoneAssumption == None \notin Rows /\ None \notin Bodies

Steps == {"find", "fail", "revokeAll", "create", "touch", "read", "rotate",
          "revoke", "commit"}

Issued == {s \in Ids : sessions[s] # None}
OfUser(u) == {s \in Issued : sessions[s].user = u}
IsLive(s) == ~sessions[s].revoked /\ ~sessions[s].expired
Live == {s \in Issued : IsLive(s)}

Goto(r, to) == pc' = [pc EXCEPT ![r] = to]

(* The row lock of updateDealerUser, held until the commit. *)
RowLocked(u) ==
  \E a \in Requests : pc[a] \in {"revokeAll", "commit"}
                        /\ req[a].op = "update" /\ req[a].user = u

(* The handler ends; its identity may be used again. *)
End(r) ==
  /\ pc' = [pc EXCEPT ![r] = "idle"]
  /\ req' = [req EXCEPT ![r] = None]
  /\ seen' = [seen EXCEPT ![r] = 0]
  /\ known' = [known EXCEPT ![r] = {}]

(* Bug variant: the revocation covers only the sessions not yet expired and *)
(* leaves the newest one, which the caller is using, alone.                 *)
RevokeAllButOne(u) ==
  \E keep \in OfUser(u) \cup {None} :
    sessions' = [s \in Ids |-> IF s \in OfUser(u) \ {keep}
                               THEN [sessions[s] EXCEPT !.revoked = TRUE]
                               ELSE sessions[s]]

(* revokeAllUserSessions. *)
RevokeAllOf(u) ==
  sessions' = [s \in Ids |-> IF s \in OfUser(u)
                             THEN [sessions[s] EXCEPT !.revoked = TRUE]
                             ELSE sessions[s]]

-----------------------------------------------------------------------------
Init ==
  /\ accounts = [u \in Users |-> [active |-> TRUE, password |-> 1, failures |-> 0,
                                  locked |-> FALSE, wasLocked |-> FALSE]]
  /\ sessions = [s \in Ids |-> None]
  /\ pc = [r \in Requests |-> "idle"]
  /\ req = [r \in Requests |-> None]
  /\ seen = [r \in Requests |-> 0]
  /\ known = [r \in Requests |-> {}]
  /\ revived = {} /\ loggedOut = {}
  /\ purged = [u \in Users |-> {}]

(* A request whose body and cookie parse.  A refresh token that was ever    *)
(* issued may be presented; password 0 is a wrong one.  logout and          *)
(* logoutAllSessions first look their session or user up, which is there:   *)
(* no row of either table is ever deleted.                                  *)
Arrive(r, body) ==
  /\ pc[r] = "idle" /\ body.op \in Ops
  /\ body.op = "login" => body.password <= accounts[body.user].password
                            /\ (body.password = 0 => MaxGuesses > 0)
  /\ body.op \in {"refresh", "logout"} =>
       body.id \in Issued /\ body.token <= sessions[body.id].token
  /\ body.op = "update" /\ body.change =>
       accounts[body.user].password < MaxPasswords
  /\ req' = [req EXCEPT ![r] = body]
  /\ Goto(r, CASE body.op = "refresh" -> "read"
               [] body.op = "logout" -> "revoke"
               [] body.op = "logoutAll" -> "revokeAll"
               [] OTHER -> "find")
  /\ UNCHANGED <<accounts, sessions, seen, known, history>>

(* ensureAccountIsAvailable. *)
Available(row) == row.active /\ ~row.locked

(* findDealerUserByDealerCode or findHeadOfficeUserByUsername, the check of *)
(* the lock, and bcrypt.compare, which reads nothing but the row found.     *)
LoginFinds(r) ==
  LET u == req[r].user
      row == accounts[u] IN
  /\ pc[r] = "find" /\ req[r].op = "login"
  /\ \/ ~Available(row) /\ End(r)
     \/ /\ Available(row) /\ row.password = req[r].password
        /\ Goto(r, IF AllowMany THEN "create" ELSE "revokeAll")
        /\ UNCHANGED <<req, seen, known>>
     \/ /\ Available(row) /\ row.password # req[r].password
        /\ seen' = [seen EXCEPT ![r] = row.failures]
        /\ Goto(r, "fail")
        /\ UNCHANGED <<req, known>>
  /\ UNCHANGED <<accounts, sessions, history>>

(* Bug variant: the limit is compared with the failures before this one. *)
MustLockLate(failures) == failures >= MaxFailures

(* shouldLock: decided with the count that was read before bcrypt ran. *)
MustLock(failures) == failures + 1 >= MaxFailures

(* recordFailedLoginAttempt: the database increments, and sets lockedUntil. *)
Failed(row, lock) ==
  [row EXCEPT !.failures = @ + 1, !.locked = @ \/ lock, !.wasLocked = @ \/ lock]

(* recordFailedLogin. *)
LoginFails(r) ==
  LET u == req[r].user IN
  /\ pc[r] = "fail"
  /\ ~RowLocked(u) /\ accounts[u].failures < MaxGuesses
  /\ accounts' = [accounts EXCEPT ![u] = Failed(@, MustLock(seen[r]))]
  /\ End(r)
  /\ UNCHANGED <<sessions, history>>

(* issueSession, first statement, without ALLOW_MULTIPLE_ACTIVE_SESSIONS. *)
LoginRevokes(r) ==
  /\ pc[r] = "revokeAll" /\ req[r].op = "login"
  /\ RevokeAllOf(req[r].user)
  /\ known' = [known EXCEPT ![r] = Issued]
  /\ Goto(r, "create")
  /\ UNCHANGED <<accounts, req, seen, history>>

(* createSession: the row. *)
NewSession(u, password, before) ==
  [user |-> u, token |-> 1, revoked |-> FALSE, expired |-> FALSE,
   password |-> password, before |-> before]

(* issueSession, second statement. *)
LoginCreates(r) ==
  /\ pc[r] = "create"
  /\ \E s \in Ids \ Issued :
       sessions' = [sessions EXCEPT ![s] =
                      NewSession(req[r].user, req[r].password, known[r])]
  /\ Goto(r, "touch")
  /\ UNCHANGED <<accounts, req, seen, known, history>>

(* updateLastLogin clears the failures and the lock, also a lock that was   *)
(* set after this login had read the row.                                   *)
Cleared(row) == [row EXCEPT !.failures = 0, !.locked = FALSE, !.wasLocked = FALSE]

(* issueSession, last statement; then the audit row. *)
LoginEnds(r) ==
  LET u == req[r].user IN
  /\ pc[r] = "touch"
  /\ ~RowLocked(u)
  /\ accounts' = [accounts EXCEPT ![u] = Cleared(@)]
  /\ End(r)
  /\ UNCHANGED <<sessions, history>>

(* Bug variant: a session that was revoked is renewed like any other. *)
AcceptsRevoked(body) ==
  LET row == sessions[body.id] IN
  /\ ~row.expired
  /\ row.token = body.token
  /\ accounts[row.user].active

(* The checks of refreshSession on the session it has read. *)
Accepts(body) ==
  LET row == sessions[body.id] IN
  /\ ~row.revoked /\ ~row.expired
  /\ row.token = body.token
  /\ accounts[row.user].active

(* refreshSession: findSessionById.  A session refused is to be revoked. *)
RefreshReads(r) ==
  /\ pc[r] = "read" /\ req[r].op = "refresh"
  /\ \/ Accepts(req[r]) /\ Goto(r, "rotate") /\ UNCHANGED <<req, seen, known>>
     \/ /\ ~Accepts(req[r]) /\ ~sessions[req[r].id].revoked
        /\ Goto(r, "revoke")
        /\ UNCHANGED <<req, seen, known>>
     \/ ~Accepts(req[r]) /\ sessions[req[r].id].revoked /\ End(r)
  /\ UNCHANGED <<accounts, sessions, history>>

(* rotateSession: a new token and a new term, and revokedAt = null whatever *)
(* it was.                                                                  *)
Rotated(row) == [row EXCEPT !.token = @ + 1, !.revoked = FALSE, !.expired = FALSE]

(* refreshSession, second statement; then the audit row. *)
RefreshRotates(r) ==
  LET s == req[r].id IN
  /\ pc[r] = "rotate"
  /\ sessions[s].token < MaxTokens
  /\ sessions' = [sessions EXCEPT ![s] = Rotated(@)]
  /\ revived' = IF IsLive(s) THEN revived ELSE revived \cup {s}
  /\ End(r)
  /\ UNCHANGED <<accounts, loggedOut, purged>>

(* revokeSession, for a refresh that was refused or for a logout. *)
Revokes(r) ==
  LET s == req[r].id IN
  /\ pc[r] = "revoke"
  /\ sessions' = [sessions EXCEPT ![s].revoked = TRUE]
  /\ loggedOut' = IF req[r].op = "logout" THEN loggedOut \cup {s} ELSE loggedOut
  /\ End(r)
  /\ UNCHANGED <<accounts, revived, purged>>

(* logoutAllSessions: revokeAllUserSessions. *)
LogoutAllRevokes(r) ==
  /\ pc[r] = "revokeAll" /\ req[r].op = "logoutAll"
  /\ RevokeAllOf(req[r].user)
  /\ loggedOut' = loggedOut \cup OfUser(req[r].user)
  /\ End(r)
  /\ UNCHANGED <<accounts, revived, purged>>

(* Bug variant: only switching the account off ends its sessions. *)
EndsSessionsIfOff(body) == ~body.active

(* !input.active || input.password *)
EndsSessions(body) == ~body.active \/ body.change

(* updateDealer up to the UPDATE of the user, which locks the row. *)
UpdateWrites(r) ==
  /\ pc[r] = "find" /\ req[r].op = "update"
  /\ ~RowLocked(req[r].user)
  /\ known' = [known EXCEPT ![r] = Issued]
  /\ Goto(r, IF EndsSessions(req[r]) THEN "revokeAll" ELSE "commit")
  /\ UNCHANGED <<accounts, sessions, req, seen, history>>

(* Its revokeAllUserSessions runs on another connection, before the commit. *)
UpdateRevokes(r) ==
  /\ pc[r] = "revokeAll" /\ req[r].op = "update"
  /\ RevokeAllOf(req[r].user)
  /\ Goto(r, "commit")
  /\ UNCHANGED <<accounts, req, seen, known, history>>

NewPassword(body, old) == IF body.change THEN old + 1 ELSE old

UpdateCommits(r) ==
  LET u == req[r].user
      body == req[r] IN
  /\ pc[r] = "commit"
  /\ body.change => accounts[u].password < MaxPasswords
  /\ accounts' = [accounts EXCEPT ![u].active = body.active,
       ![u].password = NewPassword(body, @)]
  /\ purged' = IF ~body.active \/ body.change
               THEN [purged EXCEPT ![u] = known[r]] ELSE purged
  /\ End(r)
  /\ UNCHANGED <<sessions, revived, loggedOut>>

(* A statement rejects, or the process dies: nothing more is written.  An   *)
(* open transaction rolls back, but what ran beside it stays.               *)
Fails(r) ==
  /\ Faults /\ pc[r] # "idle"
  /\ req[r].op # "logout"
  /\ End(r)
  /\ UNCHANGED <<accounts, sessions, history>>

(* logout catches every error: its caller is told of success, the cookies   *)
(* are cleared, and the session is as it was.                               *)
LogoutSwallows(r) ==
  /\ Faults /\ pc[r] = "revoke" /\ req[r].op = "logout"
  /\ End(r)
  /\ UNCHANGED <<accounts, sessions, history>>

(* expiresAt and lockedUntil pass. *)
SessionExpires(s) ==
  /\ s \in Live
  /\ sessions' = [sessions EXCEPT ![s].expired = TRUE]
  /\ UNCHANGED <<accounts, pc, req, seen, known, history>>

LockExpires(u) ==
  /\ accounts[u].locked
  /\ accounts' = [accounts EXCEPT ![u].locked = FALSE]
  /\ UNCHANGED <<sessions, pc, req, seen, known, history>>

Step(r) ==
  \/ LoginFinds(r) \/ LoginFails(r) \/ LoginRevokes(r) \/ LoginCreates(r)
  \/ LoginEnds(r) \/ RefreshReads(r) \/ RefreshRotates(r)
  \/ Revokes(r) \/ LogoutAllRevokes(r) \/ UpdateWrites(r)
  \/ UpdateRevokes(r) \/ UpdateCommits(r) \/ Fails(r) \/ LogoutSwallows(r)

Next ==
  \/ \E r \in Requests : Step(r) \/ \E body \in Bodies : Arrive(r, body)
  \/ \E s \in Ids : SessionExpires(s)
  \/ \E u \in Users : LockExpires(u)

Spec == Init /\ [][Next]_vars

-----------------------------------------------------------------------------
TypeOK ==
  /\ accounts \in [Users -> Accounts]
  /\ sessions \in [Ids -> Rows \cup {None}]
  /\ pc \in [Requests -> Steps \cup {"idle"}]
  /\ req \in [Requests -> Bodies \cup {None}]
  /\ seen \in [Requests -> Nat]
  /\ known \in [Requests -> SUBSET Ids]
  /\ revived \subseteq Issued /\ loggedOut \subseteq Issued
  /\ purged \in [Users -> SUBSET Ids]

(* The single-session policy as far as the code keeps it: of two live       *)
(* sessions of a user one was opened after the other's login had already    *)
(* revoked, or was brought back by a rotation under way at the time.        *)
SingleSession ==
  ~AllowMany => \A s, t \in Live :
    (s # t /\ sessions[s].user = sessions[t].user)
      => s \notin sessions[t].before \/ s \in revived

(* A session that works for an account switched off, or with a password     *)
(* since replaced, is the work of a login or a rotation that overlapped the *)
(* update: every session there was when the update began was ended by it.   *)
StaleSessionsOverlap ==
  \A s \in Live : LET u == sessions[s].user IN
    (~accounts[u].active \/ sessions[s].password # accounts[u].password)
      => s \notin purged[u] \/ s \in revived

(* Guesses are bounded although the limit is compared with a count read     *)
(* before bcrypt ran: until the lock is set, at most the limit and one more *)
(* for each other request under way can fail.                               *)
GuessesAreBounded ==
  \A u \in Users : ~accounts[u].wasLocked
    => accounts[u].failures <= MaxFailures + Cardinality(Requests) - 2

(* The sessions that a rotation is under way for. *)
Rotating == {s \in Ids : \E r \in Requests : pc[r] = "rotate" /\ req[r].id = s}

(* An ended session that no rotation is under way for stays ended.          *)
EndedStaysEnded ==
  [][\A s \in Issued \ (Live \cup Rotating) : s \in (Issued \ (Live \cup Rotating))']_vars

(* README.md:114, docs/README.md:811: logout of one or of all revokes.  What *)
(* either has revoked is live again only through a rotation under way at    *)
(* the time.                                                                *)
LoggedOutStaysOut == loggedOut \cap Live \subseteq revived

Registry == INSTANCE SessionRegistry WITH
  owner <- [s \in Ids |-> IF s \in Issued THEN sessions[s].user ELSE None],
  ended <- Issued \ Live, renewing <- Rotating
ImplementsRegistry == Registry!Spec
=============================================================================
