---------------------------- MODULE SessionsProofs ----------------------------
(***************************************************************************)
(* Proofs about Sessions for every number of accounts, sessions, requests  *)
(* and tokens: the single-session policy and the updates of accounts as    *)
(* far as the code keeps them, and that Sessions implements                *)
(* SessionRegistry.                                                        *)
(***************************************************************************)
EXTENDS Sessions, FiniteSetTheorems, TLAPS

(* A session that was to be ended: it lives only if a rotation revived it.  *)
Spent(s) == s \in Issued /\ (s \in Live => s \in revived)

(* The steps of the handler of each operation. *)
StepsOf(op) ==
  CASE op = "login" -> {"find", "fail", "revokeAll", "create", "touch"}
    [] op = "refresh" -> {"read", "rotate", "revoke"}
    [] op = "logout" -> {"revoke"}
    [] op = "logoutAll" -> {"revokeAll"}
    [] op = "update" -> {"find", "revokeAll", "commit"}

(* What a handler has read and what it is about to do. *)
RequestOK(r) ==
  /\ pc[r] # "idle" =>
       /\ req[r] \in Bodies /\ pc[r] \in StepsOf(req[r].op)
       /\ req[r].op \in {"refresh", "logout"} => req[r].id \in Issued
       /\ req[r].op = "login" /\ pc[r] \in {"revokeAll", "create", "touch"}
            => req[r].password \in Passwords
       /\ pc[r] = "create" /\ ~AllowMany =>
            \A s \in known[r] : sessions[s].user = req[r].user => Spent(s)
       /\ pc[r] = "commit" /\ EndsSessions(req[r]) =>
            \A s \in known[r] : sessions[s].user = req[r].user => Spent(s)
  /\ known[r] \subseteq Issued

RequestsOK ==
  /\ pc \in [Requests -> Steps \cup {"idle"}]
  /\ req \in [Requests -> Bodies \cup {None}]
  /\ seen \in [Requests -> Nat]
  /\ known \in [Requests -> SUBSET Ids]
  /\ \A r \in Requests : RequestOK(r)

(* The tables and their history. *)
TablesOK ==
  /\ accounts \in [Users -> Accounts]
  /\ sessions \in [Ids -> Rows \cup {None}]
  /\ revived \subseteq Issued /\ loggedOut \subseteq Issued
  /\ \A t \in Issued : sessions[t].before \subseteq Issued
  /\ purged \in [Users -> SUBSET Ids]
  /\ \A u \in Users : purged[u] \subseteq Issued

(* The sessions that a login or an update has ended are spent. *)
SpentOK ==
  /\ ~AllowMany => \A t \in Issued : \A s \in sessions[t].before :
       sessions[s].user = sessions[t].user => Spent(s)
  /\ \A u \in Users : \A s \in purged[u] : sessions[s].user = u => Spent(s)

IInv == RequestsOK /\ TablesOK /\ SpentOK

(* What every step leaves of a session. *)
Kept ==
  \A s \in Issued :
    /\ s \in Issued'
    /\ sessions'[s].user = sessions[s].user /\ sessions'[s].before = sessions[s].before
    /\ Spent(s) => Spent(s)'

-----------------------------------------------------------------------------
(* Rows are no None, so the sessions issued are those with a row. *)
LEMMA IssuedRows ==
  ASSUME TablesOK
  PROVE  \A s \in Ids : s \in Issued <=> sessions[s] \in Rows
  BY NoneAssumption DEF TablesOK, Issued

LEMMA InitIInv == Init => IInv
<1> SUFFICES ASSUME Init PROVE IInv
  OBVIOUS
<1> USE DEF Init
<1>1. Issued = {}
  BY DEF Issued
<1>2. RequestsOK
  BY DEF RequestsOK, RequestOK
<1>3. accounts \in [Users -> Accounts]
  BY SessionsAssumption DEF Accounts, Passwords
<1>4. TablesOK
  BY <1>1, <1>3 DEF TablesOK
<1>5. SpentOK
  BY <1>1 DEF SpentOK
<1> QED
  BY <1>2, <1>4, <1>5 DEF IInv

(* A step that keeps the tables keeps what holds of the requests that do    *)
(* not take it.                                                             *)
LEMMA OthersKept ==
  ASSUME IInv, Kept, NEW q \in Requests,
         pc'[q] = pc[q], req'[q] = req[q], known'[q] = known[q]
  PROVE  RequestOK(q)'
<1>1. RequestOK(q)
  BY DEF IInv, RequestsOK
<1>2. known'[q] \subseteq Issued'
  BY <1>1 DEF RequestOK, Kept
<1>3. ASSUME \A s \in known[q] : sessions[s].user = req[q].user => Spent(s)
      PROVE  \A s \in known'[q] : sessions'[s].user = req'[q].user => Spent(s)'
  BY <1>1, <1>3 DEF RequestOK, Kept
<1>4. req[q].op \in {"refresh", "logout"} /\ pc[q] # "idle" => req'[q].id \in Issued'
  BY <1>1 DEF RequestOK, Kept
<1> QED
  BY <1>1, <1>2, <1>3, <1>4 DEF RequestOK, EndsSessions

(* So is what holds of the sessions that were ended. *)
LEMMA HistoryKept ==
  ASSUME IInv, Kept PROVE
    /\ ~AllowMany => \A t \in Issued : \A s \in sessions'[t].before :
         sessions'[s].user = sessions'[t].user => Spent(s)'
    /\ \A u \in Users : \A s \in purged[u] : sessions'[s].user = u => Spent(s)'
    /\ \A t \in Issued : sessions'[t].before \subseteq Issued'
    /\ \A u \in Users : purged[u] \subseteq Issued'
<1> USE DEF IInv, TablesOK, SpentOK, Kept
<1>1. \A t \in Issued : sessions[t].before \subseteq Issued
  OBVIOUS
<1>2. \A u \in Users : purged[u] \subseteq Issued
  OBVIOUS
<1> QED
  BY <1>1, <1>2

-----------------------------------------------------------------------------
(* What each change of table Session does to the sessions issued and live.  *)
LEMMA Untouched ==
  ASSUME UNCHANGED <<sessions, revived>>
  PROVE  Kept /\ Issued' = Issued /\ Live' = Live
  BY DEF Kept, Spent, Issued, Live, IsLive

LEMMA AllRevoked ==
  ASSUME IInv, NEW u, RevokeAllOf(u), UNCHANGED revived
  PROVE  /\ sessions' \in [Ids -> Rows \cup {None}] /\ Kept
         /\ Issued' = Issued /\ Live' = Live \ OfUser(u)
         /\ \A s \in Issued : sessions'[s].user = sessions[s].user
                               /\ sessions'[s].before = sessions[s].before
<1> DEFINE Row(s) == [sessions[s] EXCEPT !.revoked = TRUE]
<1>0. TablesOK /\ sessions \in [Ids -> Rows \cup {None}] /\ OfUser(u) \subseteq Issued
      /\ Issued \subseteq Ids
  BY DEF IInv, TablesOK, OfUser, Issued
<1>1. \A s \in Issued : sessions[s] \in Rows
  BY <1>0, IssuedRows
<1>2. ASSUME NEW s \in Issued
      PROVE  /\ Row(s) \in Rows /\ Row(s).revoked /\ Row(s).user = sessions[s].user
             /\ Row(s).before = sessions[s].before
  BY <1>1 DEF Rows
<1>3. \A s \in Ids : sessions'[s] = IF s \in OfUser(u) THEN Row(s) ELSE sessions[s]
  BY DEF RevokeAllOf
<1>4. sessions' \in [Ids -> Rows \cup {None}]
  <2>1. \A s \in Ids : (IF s \in OfUser(u) THEN Row(s) ELSE sessions[s]) \in Rows \cup {None}
    BY <1>0, <1>2
  <2> QED
    BY <2>1 DEF RevokeAllOf
<1> HIDE DEF Row
<1>5. Issued' = Issued
  BY <1>0, <1>1, <1>2, <1>3, NoneAssumption DEF Issued
<1>6. Live' = Live \ OfUser(u)
  BY <1>0, <1>2, <1>3, <1>5 DEF Live, IsLive
<1>7. \A s \in Issued : sessions'[s].user = sessions[s].user
                       /\ sessions'[s].before = sessions[s].before
  BY <1>0, <1>2, <1>3
<1>8. Kept
  BY <1>5, <1>6, <1>7 DEF Kept, Spent
<1> QED
  BY <1>4, <1>5, <1>6, <1>7, <1>8

LEMMA OneChanged ==
  ASSUME IInv, NEW s \in Issued, NEW row \in Rows,
         row.user = sessions[s].user, row.before = sessions[s].before,
         sessions' = [sessions EXCEPT ![s] = row],
         revived \subseteq revived',
         ~row.revoked /\ ~row.expired => s \in Live \/ s \in revived'
  PROVE  /\ sessions' \in [Ids -> Rows \cup {None}] /\ Kept /\ Issued' = Issued
         /\ Live' = IF row.revoked \/ row.expired THEN Live \ {s} ELSE Live \cup {s}
         /\ \A t \in Issued : sessions'[t].user = sessions[t].user
                               /\ sessions'[t].before = sessions[t].before
<1>0. TablesOK /\ sessions \in [Ids -> Rows \cup {None}] /\ Issued \subseteq Ids /\ s \in Ids
  BY DEF IInv, TablesOK, Issued
<1>1. sessions'[s] = row /\ \A t \in Ids : t # s => sessions'[t] = sessions[t]
  BY <1>0
<1>2. sessions' \in [Ids -> Rows \cup {None}]
  BY <1>0
<1>3. Issued' = Issued
  BY <1>0, <1>1, NoneAssumption DEF Issued
<1>4. Live' = IF row.revoked \/ row.expired THEN Live \ {s} ELSE Live \cup {s}
  <2>1. row.revoked \in BOOLEAN /\ row.expired \in BOOLEAN
    BY DEF Rows
  <2> QED
    BY <1>0, <1>1, <1>3, <2>1 DEF Live, IsLive
<1>5. \A t \in Issued : sessions'[t].user = sessions[t].user
                       /\ sessions'[t].before = sessions[t].before
  BY <1>0, <1>1
<1>6. Kept
  BY <1>3, <1>4, <1>5 DEF Kept, Spent
<1> QED
  BY <1>2, <1>3, <1>4, <1>5, <1>6

LEMMA OneCreated ==
  ASSUME IInv, NEW s \in Ids \ Issued, NEW row \in Rows, ~row.revoked, ~row.expired,
         sessions' = [sessions EXCEPT ![s] = row], UNCHANGED revived
  PROVE  /\ sessions' \in [Ids -> Rows \cup {None}] /\ Kept
         /\ Issued' = Issued \cup {s} /\ Live' = Live \cup {s}
         /\ sessions'[s] = row /\ \A t \in Ids : t # s => sessions'[t] = sessions[t]
<1>0. TablesOK /\ sessions \in [Ids -> Rows \cup {None}] /\ Issued \subseteq Ids
  BY DEF IInv, TablesOK, Issued
<1>1. sessions'[s] = row /\ \A t \in Ids : t # s => sessions'[t] = sessions[t]
  BY <1>0
<1>2. sessions' \in [Ids -> Rows \cup {None}]
  BY <1>0
<1>3. Issued' = Issued \cup {s}
  BY <1>0, <1>1, NoneAssumption DEF Issued
<1>4. Live' = Live \cup {s}
  BY <1>0, <1>1, <1>3 DEF Live, IsLive
<1>5. Kept
  BY <1>0, <1>1, <1>3, <1>4 DEF Kept, Spent
<1> QED
  BY <1>1, <1>2, <1>3, <1>4, <1>5

-----------------------------------------------------------------------------
(* What a step does to the request that takes it. *)
OnlyRequest(r) ==
  \A q \in Requests : q # r =>
    pc'[q] = pc[q] /\ req'[q] = req[q] /\ known'[q] = known[q]

RequestsTyped ==
  /\ pc \in [Requests -> Steps \cup {"idle"}]
  /\ req \in [Requests -> Bodies \cup {None}]
  /\ seen \in [Requests -> Nat]
  /\ known \in [Requests -> SUBSET Ids]

LEMMA Ends ==
  ASSUME IInv, NEW r \in Requests, End(r)
  PROVE  RequestsTyped' /\ OnlyRequest(r) /\ pc'[r] = "idle" /\ RequestOK(r)'
<1> USE DEF IInv, RequestsOK, End
<1>1. RequestsTyped' /\ OnlyRequest(r)
  BY DEF RequestsTyped, OnlyRequest
<1>2. pc'[r] = "idle" /\ known'[r] = {}
  OBVIOUS
<1> QED
  BY <1>1, <1>2 DEF RequestOK

LEMMA Moves ==
  ASSUME IInv, NEW r \in Requests, NEW to \in Steps, Goto(r, to), UNCHANGED <<req, seen, known>>
  PROVE  RequestsTyped' /\ OnlyRequest(r) /\ pc'[r] = to
  BY DEF IInv, RequestsOK, Goto, RequestsTyped, OnlyRequest

LEMMA RotatingKept ==
  ASSUME NEW r \in Requests, OnlyRequest(r), pc[r] # "rotate", pc'[r] # "rotate"
  PROVE  Rotating' = Rotating
  BY DEF OnlyRequest, Rotating

(* A step that creates no session and commits no update keeps the invariant *)
(* if it keeps the sessions and leaves its own request well.                *)
LEMMA Concludes ==
  ASSUME IInv, Kept, NEW r \in Requests,
         RequestsTyped', OnlyRequest(r), RequestOK(r)',
         accounts' \in [Users -> Accounts], sessions' \in [Ids -> Rows \cup {None}],
         Issued' = Issued, revived' \subseteq Issued, loggedOut' \subseteq Issued,
         UNCHANGED purged
  PROVE  IInv'
<1>1. RequestsOK'
  BY OthersKept DEF RequestsTyped, RequestsOK, OnlyRequest
<1>2. TablesOK'
  BY HistoryKept DEF IInv, TablesOK
<1>3. SpentOK'
  BY HistoryKept DEF SpentOK
<1> QED
  BY <1>1, <1>2, <1>3 DEF IInv

(* A step that ends sessions, or none, is a step of the registry. *)
LEMMA Ending ==
  ASSUME TablesOK, Issued' = Issued, \A s \in Issued : sessions'[s].user = sessions[s].user,
         Live' \subseteq Live, Rotating' = Rotating
  PROVE  Registry!Next
<1> DEFINE S == Live \ Live'
<1>1. S \in SUBSET Ids /\ S \subseteq Issued
  BY DEF Live, Issued
<1>2. S \subseteq Registry!Opened
  BY <1>1, IssuedRows, SessionsAssumption DEF Registry!Opened, Rows, Issued
<1>3. Issued' \ Live' = (Issued \ Live) \cup S
  BY <1>1
<1>4. [s \in Ids |-> IF s \in Issued' THEN sessions'[s].user ELSE None]
        = [s \in Ids |-> IF s \in Issued THEN sessions[s].user ELSE None]
  OBVIOUS
<1> HIDE DEF S
<1>5. Registry!End(S)
  BY <1>2, <1>3, <1>4 DEF Registry!End
<1> QED
  BY <1>1, <1>5 DEF Registry!Next

Implements == Registry!Next \/ UNCHANGED Registry!vars

(* A step that leaves the sessions alone and neither begins nor ends a      *)
(* rotation.                                                                *)
LEMMA Quiet ==
  ASSUME IInv, NEW r \in Requests, UNCHANGED <<sessions, revived, loggedOut, purged>>,
         RequestsTyped', OnlyRequest(r), RequestOK(r)', pc[r] # "rotate", pc'[r] # "rotate",
         accounts' \in [Users -> Accounts]
  PROVE  IInv' /\ Implements
<1>1. Kept /\ Issued' = Issued /\ Live' = Live
  BY Untouched
<1>2. IInv'
  BY <1>1, Concludes DEF IInv, TablesOK
<1>3. Rotating' = Rotating
  BY RotatingKept
<1> QED
  BY <1>1, <1>2, <1>3, Ending DEF IInv, Implements

-----------------------------------------------------------------------------
(* The step at which a handler stands tells its operation. *)
LEMMA StepTells ==
  ASSUME IInv, NEW r \in Requests, pc[r] # "idle"
  PROVE  /\ req[r] \in Bodies /\ known[r] \subseteq Issued
         /\ pc[r] \in {"fail", "create", "touch"} => req[r].op = "login"
         /\ pc[r] \in {"read", "rotate"} => req[r].op = "refresh"
         /\ pc[r] = "revoke" => req[r].op \in {"refresh", "logout"}
         /\ pc[r] = "commit" => req[r].op = "update"
         /\ req[r].op \in {"refresh", "logout"} => req[r].id \in Issued
         /\ req[r].op \in {"login", "logoutAll", "update"} => req[r].user \in Users
<1>1. req[r] \in Bodies /\ pc[r] \in StepsOf(req[r].op) /\ known[r] \subseteq Issued
      /\ (req[r].op \in {"refresh", "logout"} => req[r].id \in Issued)
  BY DEF IInv, RequestsOK, RequestOK
<1>2. /\ req[r].op \in {"login", "refresh", "logout", "logoutAll", "update"}
      /\ req[r].op \in {"login", "logoutAll", "update"} => req[r].user \in Users
  BY <1>1 DEF Bodies
<1> QED
  BY <1>1, <1>2 DEF StepsOf

LEMMA ArriveStep ==
  ASSUME IInv, NEW r \in Requests, NEW body \in Bodies, Arrive(r, body)
  PROVE  IInv' /\ Implements
<1> DEFINE to == CASE body.op = "refresh" -> "read" [] body.op = "logout" -> "revoke"
                   [] body.op = "logoutAll" -> "revokeAll" [] OTHER -> "find"
<1>1. to \in Steps /\ to \in StepsOf(body.op) /\ to \notin {"rotate", "create", "commit"}
      /\ (body.op = "login" => to = "find")
  BY DEF Steps, StepsOf, Bodies
<1>2. pc[r] = "idle" /\ Goto(r, to) /\ req' = [req EXCEPT ![r] = body]
      /\ UNCHANGED <<accounts, sessions, seen, known, history>>
  BY DEF Arrive
<1> HIDE DEF to
<1>3. RequestsTyped' /\ OnlyRequest(r) /\ pc'[r] = to /\ req'[r] = body /\ known'[r] = known[r]
  BY <1>1, <1>2 DEF IInv, RequestsOK, Goto, RequestsTyped, OnlyRequest
<1>4. RequestOK(r)'
  <2>1. body.op \in {"refresh", "logout"} => body.id \in Issued'
    BY <1>2 DEF Arrive, Issued
  <2>2. known[r] \subseteq Issued'
    BY <1>2 DEF IInv, RequestsOK, RequestOK, Issued
  <2> QED
    BY <1>1, <1>3, <2>1, <2>2 DEF RequestOK
<1> QED
  BY <1>1, <1>2, <1>3, <1>4, Quiet DEF history, IInv, TablesOK

LEMMA LoginFindsStep ==
  ASSUME IInv, NEW r \in Requests, LoginFinds(r) PROVE IInv' /\ Implements
<1> DEFINE u == req[r].user
<1>1. pc[r] = "find" /\ req[r].op = "login" /\ req[r] \in Bodies /\ known[r] \subseteq Issued
      /\ UNCHANGED <<accounts, sessions, history>>
  BY DEF LoginFinds, IInv, RequestsOK, RequestOK
<1>2. u \in Users /\ accounts[u] \in Accounts
  BY <1>1 DEF Bodies, IInv, TablesOK
<1>3. CASE End(r)
  BY <1>1, <1>3, Ends, Quiet DEF history, IInv, TablesOK
<1>4. CASE /\ accounts[u].password = req[r].password
           /\ Goto(r, IF AllowMany THEN "create" ELSE "revokeAll")
           /\ UNCHANGED <<req, seen, known>>
  <2>1. PICK to \in {"create", "revokeAll"} : Goto(r, to) /\ (to = "create" => AllowMany)
    BY <1>4
  <2>2. RequestsTyped' /\ OnlyRequest(r) /\ pc'[r] = to
    BY <1>4, <2>1, Moves DEF Steps
  <2>3. req[r].password \in Passwords
    BY <1>2, <1>4 DEF Accounts
  <2>4. RequestOK(r)'
    BY <1>1, <1>4, <2>1, <2>2, <2>3 DEF RequestOK, StepsOf, Issued
  <2> QED
    BY <1>1, <2>1, <2>2, <2>4, Quiet DEF history, IInv, TablesOK
<1>5. CASE seen' = [seen EXCEPT ![r] = accounts[u].failures] /\ Goto(r, "fail")
           /\ UNCHANGED <<req, known>>
  <2>1. RequestsTyped' /\ OnlyRequest(r) /\ pc'[r] = "fail"
    BY <1>2, <1>5 DEF IInv, RequestsOK, Goto, RequestsTyped, OnlyRequest, Steps, Accounts
  <2>2. RequestOK(r)'
    BY <1>1, <1>5, <2>1 DEF RequestOK, StepsOf, Issued
  <2> QED
    BY <1>1, <2>1, <2>2, Quiet DEF history, IInv, TablesOK
<1> QED
  BY <1>3, <1>4, <1>5 DEF LoginFinds

(* The rows that failures, logins and updates leave are rows. *)
LEMMA AccountRows ==
  ASSUME NEW row \in Accounts
  PROVE  /\ \A lock \in BOOLEAN : Failed(row, lock) \in Accounts
         /\ Cleared(row) \in Accounts
<1>1. row.failures + 1 \in Nat /\ row.locked \in BOOLEAN /\ row.wasLocked \in BOOLEAN
  BY DEF Accounts
<1>2. ASSUME NEW lock \in BOOLEAN PROVE Failed(row, lock) \in Accounts
  <2>1. (row.locked \/ lock) \in BOOLEAN /\ (row.wasLocked \/ lock) \in BOOLEAN
    OBVIOUS
  <2> QED
    BY <1>1, <2>1 DEF Failed, Accounts
<1> QED
  BY <1>2 DEF Cleared, Accounts

LEMMA LoginFailsStep ==
  ASSUME IInv, NEW r \in Requests, LoginFails(r) PROVE IInv' /\ Implements
<1>1. pc[r] = "fail" /\ End(r) /\ UNCHANGED <<sessions, history>>
  BY DEF LoginFails
<1>2. req[r].user \in Users
  BY <1>1 DEF IInv, RequestsOK, RequestOK, StepsOf, Bodies
<1>3. MustLock(seen[r]) \in BOOLEAN
  BY DEF MustLock
<1>4. accounts' \in [Users -> Accounts]
  BY <1>2, <1>3, AccountRows DEF LoginFails, IInv, TablesOK
<1> QED
  BY <1>1, <1>4, Ends, Quiet DEF history

LEMMA LoginEndsStep ==
  ASSUME IInv, NEW r \in Requests, LoginEnds(r) PROVE IInv' /\ Implements
<1>1. pc[r] = "touch" /\ End(r) /\ UNCHANGED <<sessions, history>>
  BY DEF LoginEnds
<1>2. req[r].user \in Users
  BY <1>1 DEF IInv, RequestsOK, RequestOK, StepsOf, Bodies
<1>3. accounts' \in [Users -> Accounts]
  BY <1>2, AccountRows DEF LoginEnds, IInv, TablesOK
<1> QED
  BY <1>1, <1>3, Ends, Quiet DEF history

LEMMA LoginRevokesStep ==
  ASSUME IInv, NEW r \in Requests, LoginRevokes(r) PROVE IInv' /\ Implements
<1> DEFINE u == req[r].user
<1>1. /\ pc[r] = "revokeAll" /\ req[r].op = "login" /\ RevokeAllOf(u)
      /\ known' = [known EXCEPT ![r] = Issued] /\ Goto(r, "create")
      /\ UNCHANGED <<accounts, req, seen, history>>
      /\ req[r] \in Bodies /\ req[r].password \in Passwords
  BY DEF LoginRevokes, IInv, RequestsOK, RequestOK
<1>2. /\ sessions' \in [Ids -> Rows \cup {None}] /\ Kept
      /\ Issued' = Issued /\ Live' = Live \ OfUser(u)
      /\ \A s \in Issued : sessions'[s].user = sessions[s].user
  BY <1>1, AllRevoked DEF history
<1>3. RequestsTyped' /\ OnlyRequest(r) /\ pc'[r] = "create" /\ known'[r] = Issued
  BY <1>1 DEF IInv, RequestsOK, Goto, RequestsTyped, OnlyRequest, Steps, Issued
<1>4. RequestOK(r)'
  <2>1. \A s \in Issued' : sessions'[s].user = u => Spent(s)'
    BY <1>2 DEF Spent, OfUser
  <2> QED
    BY <1>1, <1>2, <1>3, <2>1 DEF RequestOK, StepsOf
<1>5. IInv'
  BY <1>1, <1>2, <1>3, <1>4, Concludes DEF IInv, TablesOK, history
<1>6. Rotating' = Rotating
  BY <1>1, <1>3, RotatingKept
<1> QED
  BY <1>2, <1>5, <1>6, Ending DEF IInv, Implements

LEMMA LoginCreatesStep ==
  ASSUME IInv, NEW r \in Requests, LoginCreates(r) PROVE IInv' /\ Implements
<1> DEFINE u == req[r].user
           row == NewSession(u, req[r].password, known[r])
<1>1. /\ pc[r] = "create" /\ Goto(r, "touch")
      /\ UNCHANGED <<accounts, req, seen, known, history>>
      /\ req[r] \in Bodies /\ req[r].op = "login" /\ req[r].password \in Passwords
      /\ known[r] \subseteq Issued
  <2>1. pc[r] = "create"
    BY DEF LoginCreates
  <2> QED
    BY <2>1, StepTells DEF LoginCreates, IInv, RequestsOK, RequestOK
<1>2. PICK s \in Ids \ Issued : sessions' = [sessions EXCEPT ![s] = row]
  BY DEF LoginCreates
<1>3. u \in Users /\ Issued \subseteq Ids
  BY <1>1 DEF Bodies, Issued
<1>4. row \in Rows /\ ~row.revoked /\ ~row.expired /\ row.user = u /\ row.before = known[r]
  BY <1>1, <1>3, SessionsAssumption DEF NewSession, Rows
<1> HIDE DEF row
<1>5. /\ sessions' \in [Ids -> Rows \cup {None}] /\ Kept
      /\ Issued' = Issued \cup {s} /\ Live' = Live \cup {s}
      /\ sessions'[s] = row /\ \A t \in Ids : t # s => sessions'[t] = sessions[t]
  BY <1>1, <1>2, <1>4, OneCreated DEF history
<1>6. RequestsTyped' /\ OnlyRequest(r) /\ pc'[r] = "touch"
  BY <1>1, Moves DEF Steps
<1>7. RequestsOK'
  <2>1. RequestOK(r)'
    BY <1>1, <1>5, <1>6 DEF RequestOK, StepsOf
  <2> QED
    BY <1>5, <1>6, <2>1, OthersKept DEF RequestsTyped, RequestsOK, OnlyRequest
<1>8. TablesOK'
  <2>1. \A t \in Issued' : sessions'[t].before \subseteq Issued'
    BY <1>1, <1>4, <1>5, HistoryKept
  <2> QED
    BY <1>1, <1>5, <2>1, HistoryKept DEF IInv, TablesOK, history
<1>9. SpentOK'
  <2>1. ~AllowMany => \A t \in known[r] : sessions'[t].user = u => Spent(t)'
    <3> SUFFICES ASSUME ~AllowMany, NEW t \in known[r], sessions'[t].user = u PROVE Spent(t)'
      OBVIOUS
    <3>1. t \in Issued /\ sessions[t].user = u
      BY <1>1, <1>2, <1>3, <1>5
    <3>2. Spent(t)
      BY <1>1, <3>1 DEF IInv, RequestsOK, RequestOK
    <3> QED
      BY <1>5, <3>1, <3>2 DEF Kept
  <2>2. ~AllowMany => \A t \in Issued' : \A v \in sessions'[t].before :
          sessions'[v].user = sessions'[t].user => Spent(v)'
    BY <1>4, <1>5, <2>1, HistoryKept
  <2> QED
    BY <1>1, <1>5, <2>2, HistoryKept DEF SpentOK, history
<1>10. PICK v \in Users : v = u
  BY <1>3
<1>11. Registry!Open(s, v)
  <2>1. s \notin Live
    BY <1>2 DEF Live
  <2>2. Issued' \ Live' = Issued \ Live
    BY <1>2, <1>5, <2>1
  <2>3. Rotating' = Rotating
    BY <1>1, <1>6, RotatingKept
  <2>4. [t \in Ids |-> IF t \in Issued' THEN sessions'[t].user ELSE None]
          = [[t \in Ids |-> IF t \in Issued THEN sessions[t].user ELSE None] EXCEPT ![s] = v]
    BY <1>2, <1>4, <1>5, <1>10
  <2> QED
    BY <1>2, <2>2, <2>3, <2>4 DEF Registry!Open
<1>12. Registry!Next
  BY <1>2, <1>11 DEF Registry!Next
<1> QED
  BY <1>7, <1>8, <1>9, <1>12 DEF IInv, Implements

LEMMA RefreshReadsStep ==
  ASSUME IInv, NEW r \in Requests, RefreshReads(r) PROVE IInv' /\ Implements
<1> DEFINE s == req[r].id
<1>1. /\ pc[r] = "read" /\ req[r].op = "refresh" /\ UNCHANGED <<accounts, sessions, history>>
      /\ req[r] \in Bodies /\ s \in Issued /\ known[r] \subseteq Issued
  <2>1. pc[r] = "read" /\ req[r].op = "refresh" /\ UNCHANGED <<accounts, sessions, history>>
    BY DEF RefreshReads
  <2> QED
    BY <2>1, StepTells
<1>2. CASE End(r)
  BY <1>1, <1>2, Ends, Quiet DEF history, IInv, TablesOK
<1>3. CASE Goto(r, "revoke") /\ UNCHANGED <<req, seen, known>>
  <2>1. RequestsTyped' /\ OnlyRequest(r) /\ pc'[r] = "revoke"
    BY <1>3, Moves DEF Steps
  <2>2. RequestOK(r)'
    BY <1>1, <1>3, <2>1 DEF RequestOK, StepsOf, Issued
  <2> QED
    BY <1>1, <2>1, <2>2, Quiet DEF history, IInv, TablesOK
<1>4. CASE Accepts(req[r]) /\ Goto(r, "rotate") /\ UNCHANGED <<req, seen, known>>
  <2>1. RequestsTyped' /\ OnlyRequest(r) /\ pc'[r] = "rotate"
    BY <1>4, Moves DEF Steps
  <2>2. RequestOK(r)'
    BY <1>1, <1>4, <2>1 DEF RequestOK, StepsOf, Issued
  <2>3. Kept /\ Issued' = Issued /\ Live' = Live
    BY <1>1, Untouched DEF history
  <2>4. IInv'
    BY <1>1, <2>1, <2>2, <2>3, Concludes DEF IInv, TablesOK, history
  <2>5. s \in Live /\ s \in Ids
    BY <1>1, <1>4 DEF Live, IsLive, Accepts, Issued
  <2>6. Rotating' = Rotating \cup {s}
    BY <1>1, <1>4, <2>1, <2>5 DEF OnlyRequest, Rotating
  <2>7. PICK i \in Ids : i = s
    BY <2>5
  <2>8. i \in Registry!Opened
    BY <1>1, <2>5, <2>7, IssuedRows, SessionsAssumption
       DEF Registry!Opened, Rows, Issued, IInv
  <2>9. [t \in Ids |-> IF t \in Issued' THEN sessions'[t].user ELSE None]
          = [t \in Ids |-> IF t \in Issued THEN sessions[t].user ELSE None]
    BY <1>1, <2>3
  <2>10. i \in Registry!Opened \ (Issued \ Live) /\ Rotating' = Rotating \cup {i}
         /\ Issued' \ Live' = Issued \ Live
    BY <2>3, <2>5, <2>6, <2>7, <2>8
  <2>11. Registry!Begin(i)
    BY <2>9, <2>10 DEF Registry!Begin
  <2>12. Registry!Next
    BY <2>11 DEF Registry!Next
  <2> QED
    BY <2>4, <2>12 DEF Implements
<1> QED
  BY <1>2, <1>3, <1>4 DEF RefreshReads

LEMMA RefreshRotatesStep ==
  ASSUME IInv, NEW r \in Requests, RefreshRotates(r) PROVE IInv' /\ Implements
<1>1. /\ pc[r] = "rotate" /\ End(r) /\ UNCHANGED <<accounts, loggedOut, purged>>
      /\ req[r].id \in Issued
  <2>1. pc[r] = "rotate" /\ End(r) /\ UNCHANGED <<accounts, loggedOut, purged>>
    BY DEF RefreshRotates
  <2> QED
    BY <2>1, StepTells
<1>2. PICK s \in Issued : s = req[r].id
  BY <1>1
<1> DEFINE row == Rotated(sessions[s])
<1>3. /\ sessions' = [sessions EXCEPT ![s] = row]
      /\ revived' = IF IsLive(s) THEN revived ELSE revived \cup {s}
      /\ sessions[s].token < MaxTokens
  BY <1>2 DEF RefreshRotates
<1>4. /\ row \in Rows /\ ~row.revoked /\ ~row.expired
      /\ row.user = sessions[s].user /\ row.before = sessions[s].before
  <2>1. sessions[s] \in Rows
    BY IssuedRows DEF IInv, Issued
  <2>2. sessions[s].token + 1 \in 1..MaxTokens
    BY <1>3, <2>1, SessionsAssumption DEF Rows
  <2> QED
    BY <2>1, <2>2 DEF Rotated, Rows
<1> HIDE DEF row
<1>5. s \in Live \/ s \in revived'
  BY <1>3 DEF Live
<1>6. /\ sessions' \in [Ids -> Rows \cup {None}] /\ Kept /\ Issued' = Issued
      /\ Live' = Live \cup {s}
      /\ \A t \in Issued : sessions'[t].user = sessions[t].user
  BY <1>3, <1>4, <1>5, OneChanged
<1>7. RequestsTyped' /\ OnlyRequest(r) /\ pc'[r] = "idle" /\ RequestOK(r)'
  BY <1>1, Ends
<1>8. IInv'
  BY <1>1, <1>3, <1>6, <1>7, Concludes DEF IInv, TablesOK
<1>9. s \in Rotating /\ Rotating' \in {Rotating, Rotating \ {s}} /\ s \in Ids
  <2>1. \A t \in Ids : t # s => (t \in Rotating' <=> t \in Rotating)
    BY <1>1, <1>2, <1>7 DEF Rotating, OnlyRequest
  <2>2. s \in Rotating /\ s \in Ids
    BY <1>1, <1>2 DEF Rotating, Issued
  <2>3. Rotating \subseteq Ids /\ Rotating' \subseteq Ids
    BY DEF Rotating
  <2> QED
    BY <2>1, <2>2, <2>3
<1>10. Issued' \ Live' = (Issued \ Live) \ {s}
  BY <1>6
<1>11. [t \in Ids |-> IF t \in Issued' THEN sessions'[t].user ELSE None]
         = [t \in Ids |-> IF t \in Issued THEN sessions[t].user ELSE None]
  BY <1>6
<1>12. Registry!Renew(s)
  BY <1>9, <1>10, <1>11 DEF Registry!Renew
<1>13. Registry!Next
  BY <1>9, <1>12 DEF Registry!Next
<1> QED
  BY <1>8, <1>13 DEF Implements

LEMMA RevokesStep ==
  ASSUME IInv, NEW r \in Requests, Revokes(r) PROVE IInv' /\ Implements
<1>1. /\ pc[r] = "revoke" /\ End(r) /\ UNCHANGED <<accounts, revived, purged>>
      /\ req[r].id \in Issued
  <2>1. pc[r] = "revoke" /\ End(r) /\ UNCHANGED <<accounts, revived, purged>>
    BY DEF Revokes
  <2> QED
    BY <2>1, StepTells
<1>2. PICK s \in Issued : s = req[r].id
  BY <1>1
<1> DEFINE row == [sessions[s] EXCEPT !.revoked = TRUE]
<1>3. sessions' = [sessions EXCEPT ![s] = row] /\ loggedOut' \in {loggedOut, loggedOut \cup {s}}
  BY <1>2 DEF Revokes
<1>4. /\ row \in Rows /\ row.revoked
      /\ row.user = sessions[s].user /\ row.before = sessions[s].before
  <2>1. sessions[s] \in Rows
    BY IssuedRows DEF IInv, Issued
  <2> QED
    BY <2>1 DEF Rows
<1> HIDE DEF row
<1>5. /\ sessions' \in [Ids -> Rows \cup {None}] /\ Kept /\ Issued' = Issued
      /\ Live' = Live \ {s}
      /\ \A t \in Issued : sessions'[t].user = sessions[t].user
  BY <1>1, <1>3, <1>4, OneChanged
<1>6. RequestsTyped' /\ OnlyRequest(r) /\ pc'[r] = "idle" /\ RequestOK(r)'
  BY <1>1, Ends
<1>7. IInv'
  BY <1>1, <1>3, <1>5, <1>6, Concludes DEF IInv, TablesOK
<1>8. Rotating' = Rotating
  BY <1>1, <1>6, RotatingKept
<1> QED
  BY <1>5, <1>7, <1>8, Ending DEF IInv, Implements

LEMMA LogoutAllRevokesStep ==
  ASSUME IInv, NEW r \in Requests, LogoutAllRevokes(r) PROVE IInv' /\ Implements
<1> DEFINE u == req[r].user
<1>1. /\ pc[r] = "revokeAll" /\ RevokeAllOf(u) /\ End(r)
      /\ loggedOut' = loggedOut \cup OfUser(u) /\ UNCHANGED <<accounts, revived, purged>>
  BY DEF LogoutAllRevokes
<1>2. /\ sessions' \in [Ids -> Rows \cup {None}] /\ Kept
      /\ Issued' = Issued /\ Live' = Live \ OfUser(u)
      /\ \A s \in Issued : sessions'[s].user = sessions[s].user
  BY <1>1, AllRevoked
<1>3. RequestsTyped' /\ OnlyRequest(r) /\ pc'[r] = "idle" /\ RequestOK(r)'
  BY <1>1, Ends
<1>4. IInv'
  BY <1>1, <1>2, <1>3, Concludes DEF IInv, TablesOK, OfUser
<1>5. Rotating' = Rotating
  BY <1>1, <1>3, RotatingKept
<1> QED
  BY <1>2, <1>4, <1>5, Ending DEF IInv, Implements

LEMMA UpdateWritesStep ==
  ASSUME IInv, NEW r \in Requests, UpdateWrites(r) PROVE IInv' /\ Implements
<1>1. /\ pc[r] = "find" /\ req[r].op = "update" /\ req[r] \in Bodies
      /\ known' = [known EXCEPT ![r] = Issued]
      /\ Goto(r, IF EndsSessions(req[r]) THEN "revokeAll" ELSE "commit")
      /\ UNCHANGED <<accounts, sessions, req, seen, history>>
  BY DEF UpdateWrites, IInv, RequestsOK, RequestOK
<1>2. PICK to \in {"revokeAll", "commit"} :
        Goto(r, to) /\ (to = "commit" => ~EndsSessions(req[r]))
  BY <1>1
<1>3. RequestsTyped' /\ OnlyRequest(r) /\ pc'[r] = to /\ known'[r] = Issued
  BY <1>1, <1>2 DEF IInv, RequestsOK, Goto, RequestsTyped, OnlyRequest, Steps, Issued
<1>4. RequestOK(r)'
  BY <1>1, <1>2, <1>3 DEF RequestOK, StepsOf, Issued, EndsSessions
<1> QED
  BY <1>1, <1>2, <1>3, <1>4, Quiet DEF history, IInv, TablesOK

LEMMA UpdateRevokesStep ==
  ASSUME IInv, NEW r \in Requests, UpdateRevokes(r) PROVE IInv' /\ Implements
<1> DEFINE u == req[r].user
<1>1. /\ pc[r] = "revokeAll" /\ req[r].op = "update" /\ RevokeAllOf(u)
      /\ Goto(r, "commit") /\ UNCHANGED <<accounts, req, seen, known, history>>
      /\ req[r] \in Bodies /\ known[r] \subseteq Issued
  BY DEF UpdateRevokes, IInv, RequestsOK, RequestOK
<1>2. /\ sessions' \in [Ids -> Rows \cup {None}] /\ Kept
      /\ Issued' = Issued /\ Live' = Live \ OfUser(u)
      /\ \A s \in Issued : sessions'[s].user = sessions[s].user
  BY <1>1, AllRevoked DEF history
<1>3. RequestsTyped' /\ OnlyRequest(r) /\ pc'[r] = "commit"
  BY <1>1, Moves DEF Steps
<1>4. RequestOK(r)'
  <2>1. \A s \in known[r] : sessions'[s].user = u => Spent(s)'
    BY <1>1, <1>2 DEF Spent, OfUser
  <2> QED
    BY <1>1, <1>2, <1>3, <2>1 DEF RequestOK, StepsOf
<1>5. IInv'
  BY <1>1, <1>2, <1>3, <1>4, Concludes DEF IInv, TablesOK, history
<1>6. Rotating' = Rotating
  BY <1>1, <1>3, RotatingKept
<1> QED
  BY <1>2, <1>5, <1>6, Ending DEF IInv, Implements

LEMMA UpdateCommitsStep ==
  ASSUME IInv, NEW r \in Requests, UpdateCommits(r) PROVE IInv' /\ Implements
<1>1. /\ pc[r] = "commit" /\ End(r) /\ UNCHANGED <<sessions, revived, loggedOut>>
      /\ req[r] \in Bodies /\ req[r].op = "update" /\ known[r] \subseteq Issued
      /\ req[r].user \in Users
  <2>1. pc[r] = "commit" /\ End(r) /\ UNCHANGED <<sessions, revived, loggedOut>>
    BY DEF UpdateCommits
  <2> QED
    BY <2>1, StepTells
<1>2. PICK u \in Users : u = req[r].user
  BY <1>1
<1>3. accounts' \in [Users -> Accounts]
  <2> DEFINE next == NewPassword(req[r], accounts[u].password)
             row == [accounts[u] EXCEPT !.active = req[r].active, !.password = next]
  <2>1. accounts[u] \in Accounts /\ req[r].active \in BOOLEAN
    BY <1>1 DEF IInv, TablesOK, Bodies
  <2>2. next \in Passwords
    BY <1>2, <2>1, SessionsAssumption DEF NewPassword, UpdateCommits, Passwords, Accounts
  <2>3. accounts' = [accounts EXCEPT ![u] = row]
    BY <1>2 DEF UpdateCommits, IInv, TablesOK
  <2> HIDE DEF next
  <2>4. row \in Accounts
    BY <2>1, <2>2 DEF Accounts
  <2> HIDE DEF row
  <2> QED
    BY <2>3, <2>4 DEF IInv, TablesOK
<1>4. Kept /\ Issued' = Issued /\ Live' = Live
  BY <1>1, Untouched
<1>5. RequestsTyped' /\ OnlyRequest(r) /\ pc'[r] = "idle" /\ RequestOK(r)'
  BY <1>1, Ends
<1>6. RequestsOK'
  BY <1>4, <1>5, OthersKept DEF RequestsTyped, RequestsOK, OnlyRequest
<1>7. purged' = IF EndsSessions(req[r]) THEN [purged EXCEPT ![u] = known[r]] ELSE purged
  BY <1>2 DEF UpdateCommits, EndsSessions
<1>8. TablesOK'
  <2>1. purged' \in [Users -> SUBSET Ids] /\ \A v \in Users : purged'[v] \subseteq Issued
    BY <1>1, <1>7 DEF IInv, TablesOK, Issued
  <2> QED
    BY <1>1, <1>3, <1>4, <2>1, HistoryKept DEF IInv, TablesOK
<1>9. SpentOK'
  <2>1. EndsSessions(req[r]) => \A s \in known[r] : sessions'[s].user = u => Spent(s)'
    <3> SUFFICES ASSUME EndsSessions(req[r]), NEW s \in known[r], sessions'[s].user = u
                 PROVE  Spent(s)'
      OBVIOUS
    <3>1. s \in Issued /\ Spent(s)
      BY <1>1, <1>2 DEF IInv, RequestsOK, RequestOK
    <3> QED
      BY <1>4, <3>1 DEF Kept
  <2>2. \A v \in Users : \A s \in purged'[v] : sessions'[s].user = v => Spent(s)'
    <3>1. CASE ~EndsSessions(req[r])
      BY <1>7, <3>1, HistoryKept, <1>4
    <3>2. CASE EndsSessions(req[r])
      BY <1>7, <2>1, <3>2, HistoryKept, <1>4 DEF IInv, TablesOK
    <3> QED
      BY <3>1, <3>2
  <2> QED
    BY <1>1, <1>4, <2>2, HistoryKept DEF SpentOK
<1>10. Rotating' = Rotating
  BY <1>1, <1>5, RotatingKept
<1> QED
  BY <1>1, <1>4, <1>6, <1>8, <1>9, <1>10, Ending DEF IInv, Implements

LEMMA FailsStep ==
  ASSUME IInv, NEW r \in Requests, Fails(r) PROVE IInv' /\ Implements
<1>1. pc[r] # "idle" /\ End(r) /\ UNCHANGED <<accounts, sessions, history>>
  BY DEF Fails
<1>2. RequestsTyped' /\ OnlyRequest(r) /\ pc'[r] = "idle" /\ RequestOK(r)'
  BY <1>1, Ends
<1>3. CASE pc[r] # "rotate"
  BY <1>1, <1>2, <1>3, Quiet DEF history, IInv, TablesOK
<1>4. CASE pc[r] = "rotate"
  <2>1. Kept /\ Issued' = Issued /\ Live' = Live
    BY <1>1, Untouched DEF history
  <2>2. IInv'
    BY <1>1, <1>2, <2>1, Concludes DEF IInv, TablesOK, history
  <2>3. PICK s \in Ids : s = req[r].id
    BY <1>1, <1>4, StepTells DEF Issued
  <2>4. \A t \in Ids : t # s => (t \in Rotating' <=> t \in Rotating)
    BY <1>2, <1>4, <2>3 DEF Rotating, OnlyRequest
  <2>5. Rotating' = Rotating \/ Rotating' = Rotating \ {s}
    BY <1>4, <2>3, <2>4 DEF Rotating
  <2>6. [t \in Ids |-> IF t \in Issued' THEN sessions'[t].user ELSE None]
          = [t \in Ids |-> IF t \in Issued THEN sessions[t].user ELSE None]
    BY <1>1, <2>1
  <2>7. CASE Rotating' = Rotating
    BY <2>1, <2>2, <2>6, <2>7 DEF Implements, Registry!vars
  <2>8. CASE Rotating' = Rotating \ {s}
    <3>1. Registry!GiveUp(s)
      BY <2>1, <2>6, <2>8 DEF Registry!GiveUp
    <3>2. Registry!Next
      BY <3>1 DEF Registry!Next
    <3> QED
      BY <2>2, <3>2 DEF Implements
  <2> QED
    BY <2>5, <2>7, <2>8
<1> QED
  BY <1>3, <1>4

LEMMA LogoutSwallowsStep ==
  ASSUME IInv, NEW r \in Requests, LogoutSwallows(r) PROVE IInv' /\ Implements
<1>1. /\ pc[r] = "revoke" /\ End(r) /\ req[r].id \in Issued
      /\ UNCHANGED <<accounts, sessions, revived, loggedOut, purged>>
  <2>1. pc[r] = "revoke" /\ End(r)
        /\ UNCHANGED <<accounts, sessions, revived, loggedOut, purged>>
    BY DEF LogoutSwallows, history
  <2> QED
    BY <2>1, StepTells
<1>2. RequestsTyped' /\ OnlyRequest(r) /\ pc'[r] = "idle" /\ RequestOK(r)'
  BY <1>1, Ends
<1>3. Kept /\ Issued' = Issued /\ Live' = Live
  BY <1>1, Untouched
<1>4. IInv'
  BY <1>1, <1>2, <1>3, Concludes DEF IInv, TablesOK
<1>5. Rotating' = Rotating
  BY <1>1, <1>2, RotatingKept
<1> QED
  BY <1>1, <1>3, <1>4, <1>5, Ending DEF IInv, Implements

LEMMA ExpiryStep ==
  ASSUME IInv, (\E s \in Ids : SessionExpires(s)) \/ (\E u \in Users : LockExpires(u))
  PROVE  IInv' /\ Implements
<1>1. UNCHANGED <<pc, req, seen, known, revived, loggedOut, purged>>
  BY DEF SessionExpires, LockExpires, history
<1>2. /\ accounts' \in [Users -> Accounts]
      /\ sessions' \in [Ids -> Rows \cup {None}] /\ Kept /\ Issued' = Issued
      /\ Live' \subseteq Live
      /\ \A t \in Issued : sessions'[t].user = sessions[t].user
  <2>1. CASE \E s \in Ids : SessionExpires(s)
    <3>1. PICK s \in Ids : SessionExpires(s)
      BY <2>1
    <3> DEFINE row == [sessions[s] EXCEPT !.expired = TRUE]
    <3>2. s \in Live /\ s \in Issued /\ sessions' = [sessions EXCEPT ![s] = row]
          /\ UNCHANGED accounts
      BY <3>1 DEF SessionExpires, Live
    <3>3. /\ row \in Rows /\ row.expired
          /\ row.user = sessions[s].user /\ row.before = sessions[s].before
      <4>1. sessions[s] \in Rows
        BY <3>2, IssuedRows DEF IInv, Issued
      <4> QED
        BY <4>1 DEF Rows
    <3> HIDE DEF row
    <3> QED
      BY <1>1, <3>2, <3>3, OneChanged DEF IInv, TablesOK
  <2>2. CASE \E u \in Users : LockExpires(u)
    <3>1. PICK u \in Users : LockExpires(u)
      BY <2>2
    <3>2. [accounts[u] EXCEPT !.locked = FALSE] \in Accounts
      BY DEF IInv, TablesOK, Accounts
    <3>3. accounts' \in [Users -> Accounts] /\ UNCHANGED sessions
      BY <3>1, <3>2 DEF LockExpires, IInv, TablesOK
    <3> QED
      BY <1>1, <3>3, Untouched DEF IInv, TablesOK
  <2> QED
    BY <2>1, <2>2
<1>3. IInv'
  <2>1. RequestsOK'
    <3>1. \A q \in Requests : RequestOK(q)'
      BY <1>1, <1>2, OthersKept
    <3> QED
      BY <1>1, <3>1 DEF RequestsOK, IInv
  <2>2. TablesOK'
    BY <1>1, <1>2, HistoryKept DEF IInv, TablesOK
  <2>3. SpentOK'
    BY <1>1, <1>2, HistoryKept DEF SpentOK
  <2> QED
    BY <2>1, <2>2, <2>3 DEF IInv
<1>4. Rotating' = Rotating
  BY <1>1 DEF Rotating
<1> QED
  BY <1>2, <1>3, <1>4, Ending DEF IInv, Implements

-----------------------------------------------------------------------------
(* IInv is inductive, and every step is one of the registry or leaves it.   *)
LEMMA Inductive == IInv /\ [Next]_vars => IInv' /\ Implements
<1> SUFFICES ASSUME IInv, [Next]_vars PROVE IInv' /\ Implements
  OBVIOUS
<1>1. ASSUME NEW r \in Requests, Step(r) PROVE IInv' /\ Implements
  BY <1>1, LoginFindsStep, LoginFailsStep, LoginRevokesStep, LoginCreatesStep, LoginEndsStep,
     RefreshReadsStep, RefreshRotatesStep, RevokesStep, LogoutAllRevokesStep,
     UpdateWritesStep, UpdateRevokesStep, UpdateCommitsStep, FailsStep, LogoutSwallowsStep
     DEF Step
<1>2. ASSUME NEW r \in Requests, NEW body \in Bodies, Arrive(r, body)
      PROVE  IInv' /\ Implements
  BY <1>2, ArriveStep
<1>3. ASSUME (\E s \in Ids : SessionExpires(s)) \/ (\E u \in Users : LockExpires(u))
      PROVE  IInv' /\ Implements
  BY <1>3, ExpiryStep
<1>4. CASE UNCHANGED vars
  <2>1. UNCHANGED <<accounts, sessions, pc, req, seen, known, revived, loggedOut, purged>>
    BY <1>4 DEF vars
  <2>2. IInv'
    BY <2>1 DEF IInv, RequestsOK, RequestOK, TablesOK, SpentOK, Spent, Issued, Live, IsLive
  <2>3. Issued' = Issued /\ Live' = Live /\ Rotating' = Rotating
    BY <2>1 DEF Issued, Live, IsLive, Rotating
  <2> QED
    BY <2>1, <2>2, <2>3 DEF Implements, Registry!vars
<1> QED
  BY <1>1, <1>2, <1>3, <1>4 DEF Next

(* The inductive invariant holds of every behaviour of the sessions. *)
THEOREM Invariance == Spec => []IInv
  BY InitIInv, Inductive, PTL DEF Spec

(* The tables, the handlers and the history are of the stated types. *)
THEOREM TypeCorrect == Spec => []TypeOK
<1>1. IInv => TypeOK
  BY DEF IInv, RequestsOK, TablesOK, TypeOK
<1> QED
  BY <1>1, Invariance, PTL

(* issueSession, auth.service.ts: with the single-session policy, a session *)
(* lives beside a later one only if its login had not yet revoked what the  *)
(* other created, or a rotation revived it.                                 *)
THEOREM OneSession == Spec => []SingleSession
<1>1. IInv => SingleSession
  BY DEF IInv, SpentOK, Spent, SingleSession, Live
<1> QED
  BY <1>1, Invariance, PTL

(* updateDealer, head-office.service.ts: every session there was when an    *)
(* update began that switched the account off or changed its password is    *)
(* ended, unless a rotation revived it.                                     *)
THEOREM StaleSessions == Spec => []StaleSessionsOverlap
<1>1. IInv => StaleSessionsOverlap
  <2> SUFFICES ASSUME IInv, NEW s \in Live, s \in purged[sessions[s].user]
               PROVE  s \in revived
    BY DEF StaleSessionsOverlap
  <2>1. sessions[s].user \in Users
    BY IssuedRows DEF IInv, Live, Issued, Rows
  <2> QED
    BY <2>1 DEF IInv, SpentOK, Spent
<1> QED
  BY <1>1, Invariance, PTL

(* The handlers' statements, in any order, are steps of the registry of     *)
(* sessions.                                                                *)
THEOREM SessionsImplementRegistry == Spec => ImplementsRegistry
<1>1. Init => Registry!Init
  BY DEF Init, Registry!Init, Issued, Live, Rotating
<1>2. IInv /\ [Next]_vars => [Registry!Next]_Registry!vars
  BY Inductive DEF Implements
<1> QED
  BY <1>1, <1>2, Invariance, PTL DEF Spec, ImplementsRegistry, Registry!Spec

(* findSessionById and rotateSession: a session that is ended and for which *)
(* no rotation is under way is never live again.                            *)
THEOREM EndedSessionsStayEnded == Spec => EndedStaysEnded
<1> DEFINE Dead == Issued \ (Live \cup Rotating)
<1>1. Registry!Next => (Issued \ Live) \ Rotating \subseteq ((Issued \ Live) \ Rotating)'
  BY DEF Registry!Next, Registry!Open, Registry!Begin, Registry!Renew, Registry!GiveUp, Registry!End
<1>2. UNCHANGED Registry!vars => (Issued \ Live) \ Rotating \subseteq ((Issued \ Live) \ Rotating)'
  BY DEF Registry!vars
<1>3. IInv /\ [Next]_vars => Dead \subseteq Dead'
  BY <1>1, <1>2, Inductive DEF Implements
<1>4. IInv /\ [Next]_vars
        => [\A s \in Dead : s \in Dead']_vars
  BY <1>3
<1> QED
  BY <1>4, Invariance, PTL DEF Spec, EndedStaysEnded

(* Every step keeps what was logged out, but for what a rotation revives,   *)
(* and what it logs out itself is not live after it.                        *)
LEMMA LoggedOutKept == IInv /\ LoggedOutStaysOut /\ [Next]_vars => LoggedOutStaysOut'
<1> SUFFICES ASSUME IInv, LoggedOutStaysOut, [Next]_vars PROVE LoggedOutStaysOut'
  OBVIOUS
<1>0. loggedOut \subseteq Issued
  BY DEF IInv, TablesOK
<1>1. CASE UNCHANGED <<sessions, history>>
  BY <1>1 DEF history, LoggedOutStaysOut, Live, Issued, IsLive
<1>2. ASSUME NEW u, RevokeAllOf(u), UNCHANGED <<revived, loggedOut>> PROVE LoggedOutStaysOut'
  <2>1. Live' = Live \ OfUser(u)
    BY <1>2, AllRevoked
  <2> QED
    BY <1>2, <2>1 DEF LoggedOutStaysOut
<1>3. ASSUME NEW r \in Requests, LogoutAllRevokes(r) PROVE LoggedOutStaysOut'
  <2>1. /\ RevokeAllOf(req[r].user) /\ UNCHANGED revived
        /\ loggedOut' = loggedOut \cup OfUser(req[r].user)
    BY <1>3 DEF LogoutAllRevokes
  <2>2. Live' = Live \ OfUser(req[r].user)
    BY <2>1, AllRevoked
  <2> QED
    BY <2>1, <2>2 DEF LoggedOutStaysOut
<1>4. ASSUME NEW r \in Requests, LoginCreates(r) PROVE LoggedOutStaysOut'
  <2>1. PICK s \in Ids \ Issued :
          sessions' = [sessions EXCEPT ![s] = NewSession(req[r].user, req[r].password, known[r])]
    BY <1>4 DEF LoginCreates
  <2>2. UNCHANGED <<revived, loggedOut>>
    BY <1>4 DEF LoginCreates, history
  <2>3. \A t \in Issued : t \in Live' => t \in Live
    BY <2>1 DEF Issued, Live, IsLive
  <2> QED
    BY <1>0, <2>2, <2>3 DEF LoggedOutStaysOut
<1>5. ASSUME NEW r \in Requests, RefreshRotates(r) PROVE LoggedOutStaysOut'
  <2>1. /\ sessions' = [sessions EXCEPT ![req[r].id] = Rotated(@)] /\ UNCHANGED loggedOut
        /\ revived' = IF IsLive(req[r].id) THEN revived ELSE revived \cup {req[r].id}
    BY <1>5 DEF RefreshRotates
  <2>2. \A t \in Issued : t # req[r].id => (t \in Live' => t \in Live)
    BY <2>1 DEF Issued, Live, IsLive
  <2>3. \A t \in Issued : t = req[r].id => t \in Live \/ t \in revived'
    BY <2>1 DEF Live
  <2> QED
    BY <1>0, <2>1, <2>2, <2>3 DEF LoggedOutStaysOut
<1>6. ASSUME NEW r \in Requests, Revokes(r) PROVE LoggedOutStaysOut'
  <2>1. pc[r] = "revoke" /\ UNCHANGED revived
        /\ loggedOut' \in {loggedOut, loggedOut \cup {req[r].id}}
        /\ sessions' = [sessions EXCEPT ![req[r].id].revoked = TRUE]
    BY <1>6 DEF Revokes
  <2>2. PICK s \in Issued : s = req[r].id
    BY <2>1, StepTells
  <2> DEFINE row == [sessions[s] EXCEPT !.revoked = TRUE]
  <2>3. row \in Rows /\ row.revoked /\ row.user = sessions[s].user
        /\ row.before = sessions[s].before
    <3>1. sessions[s] \in Rows
      BY IssuedRows DEF IInv, Issued
    <3> QED
      BY <3>1 DEF Rows
  <2>4. sessions' = [sessions EXCEPT ![s] = row]
    BY <2>1, <2>2
  <2> HIDE DEF row
  <2>5. Live' = Live \ {s}
    BY <2>1, <2>3, <2>4, OneChanged
  <2> QED
    BY <2>1, <2>2, <2>5 DEF LoggedOutStaysOut
<1>7. ASSUME NEW s \in Ids, SessionExpires(s) PROVE LoggedOutStaysOut'
  <2>1. sessions' = [sessions EXCEPT ![s].expired = TRUE] /\ UNCHANGED <<revived, loggedOut>>
        /\ s \in Live
    BY <1>7 DEF SessionExpires, history
  <2>2. \A t \in Issued : t \in Live' => t \in Live
    BY <2>1 DEF Issued, Live, IsLive
  <2> QED
    BY <1>0, <2>1, <2>2 DEF LoggedOutStaysOut
<1>8. ASSUME NEW r \in Requests, Step(r) PROVE LoggedOutStaysOut'
  <2>1. CASE LoginFinds(r) \/ LoginFails(r) \/ LoginEnds(r) \/ RefreshReads(r)
             \/ UpdateWrites(r) \/ Fails(r) \/ LogoutSwallows(r)
    BY <1>1, <2>1 DEF LoginFinds, LoginFails, LoginEnds, RefreshReads, UpdateWrites, Fails,
                      LogoutSwallows
  <2>2. CASE LoginRevokes(r) \/ UpdateRevokes(r)
    BY <1>2, <2>2 DEF LoginRevokes, UpdateRevokes, history
  <2>3. CASE UpdateCommits(r)
    BY <2>3 DEF UpdateCommits, LoggedOutStaysOut, Live, Issued, IsLive
  <2> QED
    BY <1>3, <1>4, <1>5, <1>6, <1>8, <2>1, <2>2, <2>3 DEF Step
<1> QED
  BY <1>1, <1>7, <1>8 DEF Next, Arrive, LockExpires, vars, history

(* logout and logoutAllSessions: a session that a logout has revoked is     *)
(* live again only when a rotation that had read it before revives it.      *)
THEOREM LoggedOutSessionsStayOut == Spec => []LoggedOutStaysOut
<1>1. Init => LoggedOutStaysOut
  BY DEF Init, LoggedOutStaysOut
<1> QED
  BY <1>1, InitIInv, Inductive, LoggedOutKept, PTL DEF Spec

-----------------------------------------------------------------------------
(* The failed logins of an account that will be counted but do not lock it: *)
(* they had read a count below the limit.                                   *)
Unaware(u) ==
  {q \in Requests : pc[q] = "fail" /\ req[q].user = u /\ ~MustLock(seen[q])}

(* Those that were counted and those that still will be, until a lock is    *)
(* set: the last to begin had read a count below the limit less one.        *)
GuessBound(u) ==
  ~accounts[u].wasLocked
    => accounts[u].failures + Cardinality(Unaware(u)) <= MaxFailures + Cardinality(Requests) - 2
CountInv == \A u \in Users : GuessBound(u)

LEMMA UnawareFinite ==
  ASSUME NEW u
  PROVE  /\ IsFiniteSet(Unaware(u)) /\ Cardinality(Unaware(u)) \in Nat
         /\ Cardinality(Requests) \in Nat /\ Cardinality(Unaware(u)) <= Cardinality(Requests)
         /\ \A r \in Requests \ Unaware(u) : Cardinality(Unaware(u)) < Cardinality(Requests)
<1>1. IsFiniteSet(Unaware(u)) /\ Cardinality(Unaware(u)) <= Cardinality(Requests)
      /\ (Cardinality(Requests) = Cardinality(Unaware(u)) => Requests = Unaware(u))
  BY FS_Subset, RequestsAssumption DEF Unaware
<1>2. Cardinality(Unaware(u)) \in Nat /\ Cardinality(Requests) \in Nat
  BY <1>1, FS_CardinalityType, RequestsAssumption
<1> QED
  BY <1>1, <1>2

(* Fewer to come, and no more counted. *)
LEMMA FewerToCome ==
  ASSUME IInv, CountInv, NEW u \in Users, Unaware(u)' \subseteq Unaware(u),
         accounts'[u].failures = accounts[u].failures, accounts'[u].wasLocked = accounts[u].wasLocked
  PROVE  GuessBound(u)'
<1>1. accounts[u].failures \in Nat
  BY DEF IInv, TablesOK, Accounts
<1>2. Cardinality(Unaware(u)) \in Nat /\ Cardinality(Requests) \in Nat /\ IsFiniteSet(Unaware(u))
  BY UnawareFinite
<1>3. Cardinality(Unaware(u)') <= Cardinality(Unaware(u)) /\ Cardinality(Unaware(u)') \in Nat
  BY <1>2, FS_Subset, FS_CardinalityType
<1> QED
  BY <1>1, <1>2, <1>3, SessionsAssumption DEF CountInv, GuessBound

(* A request may change, the others do not. *)
OthersWait(r) ==
  \A q \in Requests \ {r} : pc'[q] = pc[q] /\ req'[q] = req[q] /\ seen'[q] = seen[q]

LEMMA OthersUnaware ==
  ASSUME NEW r \in Requests, OthersWait(r), NEW u
  PROVE  /\ Unaware(u)' \subseteq Unaware(u) \cup {r}
         /\ pc'[r] # "fail" => Unaware(u)' \subseteq Unaware(u) \ {r}
  BY DEF OthersWait, Unaware, MustLock

LEMMA StepsAlone ==
  ASSUME IInv, NEW r \in Requests, Step(r) \/ \E body \in Bodies : Arrive(r, body)
  PROVE  OthersWait(r)
<1> USE DEF IInv, RequestsOK, OthersWait, End, Goto
<1>1. CASE LoginFinds(r) \/ LoginFails(r) \/ LoginRevokes(r) \/ LoginCreates(r) \/ LoginEnds(r)
  BY <1>1 DEF LoginFinds, LoginFails, LoginRevokes, LoginCreates, LoginEnds
<1>2. CASE RefreshReads(r) \/ RefreshRotates(r) \/ Revokes(r) \/ LogoutAllRevokes(r)
  BY <1>2 DEF RefreshReads, RefreshRotates, Revokes, LogoutAllRevokes
<1>3. CASE UpdateWrites(r) \/ UpdateRevokes(r) \/ UpdateCommits(r)
  BY <1>3 DEF UpdateWrites, UpdateRevokes, UpdateCommits
<1>4. CASE Fails(r) \/ LogoutSwallows(r)
  BY <1>4 DEF Fails, LogoutSwallows
<1>5. CASE \E body \in Bodies : Arrive(r, body)
  BY <1>5 DEF Arrive
<1> QED
  BY <1>1, <1>2, <1>3, <1>4, <1>5 DEF Step

CountsKept ==
  \A u \in Users : accounts'[u].failures = accounts[u].failures
                    /\ accounts'[u].wasLocked = accounts[u].wasLocked

(* Every step of a request that neither begins nor ends a failed login, nor *)
(* a successful one.                                                        *)
LEMMA CountsUntouched ==
  ASSUME IInv, NEW r \in Requests, Step(r) \/ \E body \in Bodies : Arrive(r, body)
  PROVE  \/ CountsKept /\ pc'[r] # "fail"
         \/ LoginFinds(r) \/ LoginFails(r) \/ LoginEnds(r)
<1> USE DEF IInv, RequestsOK, CountsKept, End, Goto
<1>2. CASE LoginRevokes(r) \/ LoginCreates(r)
  BY <1>2 DEF LoginRevokes, LoginCreates
<1>3. CASE RefreshReads(r) \/ RefreshRotates(r) \/ Revokes(r) \/ LogoutAllRevokes(r)
  BY <1>3 DEF RefreshReads, RefreshRotates, Revokes, LogoutAllRevokes
<1>4. CASE UpdateWrites(r) \/ UpdateRevokes(r)
  BY <1>4 DEF UpdateWrites, UpdateRevokes
<1>5. CASE UpdateCommits(r)
  <2>1. req[r].user \in Users
    BY <1>5, StepTells DEF UpdateCommits
  <2> QED
    BY <1>5, <2>1 DEF UpdateCommits, TablesOK, Accounts
<1>6. CASE Fails(r) \/ LogoutSwallows(r)
  BY <1>6 DEF Fails, LogoutSwallows
<1>7. CASE \E body \in Bodies : Arrive(r, body)
  BY <1>7 DEF Arrive
<1> QED
  BY <1>2, <1>3, <1>4, <1>5, <1>6, <1>7 DEF Step

(* A login that finds a wrong password joins those that will be counted     *)
(* only while there is room for one more.                                   *)
LEMMA GuessBegins ==
  ASSUME IInv, CountInv, NEW r \in Requests, LoginFinds(r), NEW u \in Users
  PROVE  GuessBound(u)'
<1>1. UNCHANGED accounts /\ OthersWait(r)
  BY StepsAlone DEF LoginFinds, Step
<1>2. CASE Unaware(u)' \subseteq Unaware(u)
  BY <1>1, <1>2, FewerToCome
<1>3. CASE ~(Unaware(u)' \subseteq Unaware(u))
  <2>1. r \in Unaware(u)'
    BY <1>1, <1>3, OthersUnaware
  <2>2. pc'[r] = "fail" /\ req'[r].user = u /\ ~MustLock(seen'[r])
    BY <2>1 DEF Unaware, MustLock
  <2>3. seen'[r] = accounts[req[r].user].failures /\ req'[r] = req[r]
    BY <2>2 DEF LoginFinds, End, IInv, RequestsOK, Goto
  <2>4. accounts[u].failures + 1 < MaxFailures /\ accounts[u].failures \in Nat
    BY <2>2, <2>3, SessionsAssumption DEF MustLock, IInv, TablesOK, Accounts
  <2>5. IsFiniteSet(Unaware(u)') /\ Cardinality(Unaware(u)') <= Cardinality(Requests)
    BY RequestsAssumption, FS_Subset DEF Unaware
  <2>6. Cardinality(Unaware(u)') \in Nat /\ Cardinality(Requests) \in Nat
    BY <2>5, RequestsAssumption, FS_CardinalityType
  <2> QED
    BY <1>1, <2>4, <2>5, <2>6, SessionsAssumption DEF GuessBound
<1> QED
  BY <1>2, <1>3

(* A failed login that does not lock moves from those to come to those      *)
(* counted.                                                                 *)
LEMMA GuessCounts ==
  ASSUME IInv, CountInv, NEW r \in Requests, LoginFails(r), NEW u \in Users
  PROVE  GuessBound(u)'
<1>1. /\ pc[r] = "fail" /\ req[r].user \in Users /\ OthersWait(r) /\ pc'[r] = "idle"
      /\ accounts' = [accounts EXCEPT ![req[r].user] = Failed(@, MustLock(seen[r]))]
  BY StepTells, StepsAlone DEF LoginFails, Step, End, IInv, RequestsOK
<1>2. Unaware(u)' \subseteq Unaware(u) \ {r}
  BY <1>1, OthersUnaware
<1>3. CASE u # req[r].user
  <2>1. accounts'[u] = accounts[u]
    BY <1>1, <1>3 DEF IInv, TablesOK
  <2> QED
    BY <1>2, <2>1, FewerToCome
<1>4. CASE u = req[r].user
  <2>1. /\ accounts[u].failures \in Nat /\ accounts'[u].failures = accounts[u].failures + 1
        /\ accounts'[u].wasLocked = (accounts[u].wasLocked \/ MustLock(seen[r]))
    BY <1>1, <1>4 DEF IInv, TablesOK, Accounts, Failed
  <2>2. CASE accounts[u].wasLocked \/ MustLock(seen[r])
    BY <2>1, <2>2 DEF GuessBound
  <2>3. CASE ~accounts[u].wasLocked /\ ~MustLock(seen[r])
    <3>1. r \in Unaware(u)
      BY <1>1, <1>4, <2>3 DEF Unaware
    <3>2. /\ IsFiniteSet(Unaware(u)) /\ Cardinality(Unaware(u)) \in Nat
          /\ Cardinality(Requests) \in Nat
      BY UnawareFinite
    <3>3. IsFiniteSet(Unaware(u) \ {r}) /\ Cardinality(Unaware(u) \ {r}) = Cardinality(Unaware(u)) - 1
      BY <3>1, <3>2, FS_RemoveElement
    <3>4. /\ Cardinality(Unaware(u)') <= Cardinality(Unaware(u)) - 1
          /\ Cardinality(Unaware(u)') \in Nat
      BY <1>2, <3>3, FS_Subset, FS_CardinalityType
    <3> QED
      BY <2>1, <2>3, <3>2, <3>4, SessionsAssumption DEF CountInv, GuessBound
  <2> QED
    BY <2>2, <2>3
<1> QED
  BY <1>3, <1>4

(* A login that succeeds clears the count; it was none of those to come.    *)
LEMMA GuessesCleared ==
  ASSUME IInv, CountInv, NEW r \in Requests, LoginEnds(r), NEW u \in Users
  PROVE  GuessBound(u)'
<1>1. /\ pc[r] = "touch" /\ req[r].user \in Users /\ OthersWait(r) /\ pc'[r] = "idle"
      /\ accounts' = [accounts EXCEPT ![req[r].user] = Cleared(@)]
  BY StepTells, StepsAlone DEF LoginEnds, Step, End, IInv, RequestsOK
<1>2. Unaware(u)' \subseteq Unaware(u)
  BY <1>1, OthersUnaware
<1>3. CASE u # req[r].user
  <2>1. accounts'[u] = accounts[u]
    BY <1>1, <1>3 DEF IInv, TablesOK
  <2> QED
    BY <1>2, <2>1, FewerToCome
<1>4. CASE u = req[r].user
  <2>1. accounts'[u].failures = 0
    BY <1>1, <1>4 DEF IInv, TablesOK, Accounts, Cleared
  <2>2. /\ IsFiniteSet(Unaware(u)) /\ Cardinality(Unaware(u)) \in Nat
        /\ Cardinality(Requests) \in Nat /\ Cardinality(Unaware(u)) < Cardinality(Requests)
    BY <1>1, UnawareFinite DEF Unaware
  <2>3. /\ Cardinality(Unaware(u)') <= Cardinality(Unaware(u)) /\ Cardinality(Unaware(u)') \in Nat
    BY <1>2, <2>2, FS_Subset, FS_CardinalityType
  <2> QED
    BY <2>1, <2>2, <2>3, SessionsAssumption DEF GuessBound
<1> QED
  BY <1>3, <1>4

LEMMA CountKept == IInv /\ CountInv /\ [Next]_vars => CountInv'
<1> SUFFICES ASSUME IInv, CountInv, [Next]_vars, NEW u \in Users PROVE GuessBound(u)'
  BY DEF CountInv
<1>1. ASSUME NEW r \in Requests, Step(r) \/ \E body \in Bodies : Arrive(r, body)
      PROVE  GuessBound(u)'
  <2>1. OthersWait(r)
    BY <1>1, StepsAlone
  <2>2. CASE LoginFinds(r) \/ LoginFails(r) \/ LoginEnds(r)
    BY <2>2, GuessBegins, GuessCounts, GuessesCleared
  <2>3. CASE CountsKept /\ pc'[r] # "fail"
    <3>1. Unaware(u)' \subseteq Unaware(u)
      BY <2>1, <2>3, OthersUnaware
    <3> QED
      BY <2>3, <3>1, FewerToCome DEF CountsKept
  <2> QED
    BY <1>1, <2>2, <2>3, CountsUntouched
<1>2. CASE \E s \in Ids : SessionExpires(s)
  <2>1. UNCHANGED <<accounts, pc, req, seen>>
    BY <1>2 DEF SessionExpires
  <2>2. Unaware(u)' = Unaware(u)
    BY <2>1 DEF Unaware, MustLock
  <2> QED
    BY <2>1, <2>2, FewerToCome
<1>3. CASE \E v \in Users : LockExpires(v)
  <2>1. UNCHANGED <<pc, req, seen>>
    BY <1>3 DEF LockExpires
  <2>2. Unaware(u)' = Unaware(u)
    BY <2>1 DEF Unaware, MustLock
  <2>3. accounts'[u].failures = accounts[u].failures /\ accounts'[u].wasLocked = accounts[u].wasLocked
    BY <1>3 DEF LockExpires, IInv, TablesOK, Accounts
  <2> QED
    BY <2>2, <2>3, FewerToCome
<1>4. CASE UNCHANGED vars
  <2>1. UNCHANGED <<accounts, pc, req, seen>>
    BY <1>4 DEF vars
  <2>2. Unaware(u)' = Unaware(u)
    BY <2>1 DEF Unaware, MustLock
  <2> QED
    BY <2>1, <2>2, FewerToCome
<1> QED
  BY <1>1, <1>2, <1>3, <1>4 DEF Next

(* recordFailedLogin and shouldLock, auth.service.ts: however many guesses  *)
(* read the count before the others are counted, what is counted before the *)
(* lock is set exceeds the limit by no more than the requests under way.    *)
THEOREM GuessesBounded == Spec => []GuessesAreBounded
<1>1. Init => CountInv
  <2> SUFFICES ASSUME Init, NEW u \in Users PROVE GuessBound(u)
    BY DEF CountInv
  <2>1. accounts[u].failures = 0 /\ Unaware(u) = {}
    BY DEF Init, Unaware
  <2>2. Cardinality(Unaware(u)) = 0 /\ Cardinality(Requests) \in Nat
    BY <2>1, FS_EmptySet, FS_CardinalityType, RequestsAssumption
  <2> QED
    BY <2>1, <2>2, SessionsAssumption DEF GuessBound
<1>2. IInv /\ CountInv => GuessesAreBounded
  <2> SUFFICES ASSUME IInv, CountInv, NEW u \in Users, ~accounts[u].wasLocked
               PROVE  accounts[u].failures <= MaxFailures + Cardinality(Requests) - 2
    BY DEF GuessesAreBounded
  <2>1. Cardinality(Unaware(u)) \in Nat /\ Cardinality(Requests) \in Nat
    BY UnawareFinite
  <2> QED
    BY <2>1, SessionsAssumption DEF CountInv, GuessBound, IInv, TablesOK, Accounts
<1> QED
  BY <1>1, <1>2, InitIInv, Inductive, CountKept, PTL DEF Spec
=============================================================================
