---------------------------- MODULE MasterRecords ----------------------------
(***************************************************************************)
(* Creating and updating dealers, with their users, and SKUs               *)
(* (head-office.service.ts).  Dealers are written in a READ COMMITTED      *)
(* transaction whose audit insert and session revocation use another       *)
(* connection of the pool (the sessions themselves are in Sessions); SKUs  *)
(* are written without a transaction.  Codes are looked up ignoring case   *)
(* and are unique with it.                                                 *)
(***************************************************************************)
EXTENDS Naturals, FiniteSets

CONSTANTS
  Requests,     \* slots for requests under way
  Inputs,       \* what they may ask for
  Ids,          \* of dealers, and of SKUs
  Names,        \* codes but for their case
  Reserved,     \* names of Head Office users
  PoolSize,     \* connections of the pool
  MaxRequests,  \* bound
  None

Kinds == {"dealer", "sku"}

Codes == Names \X {"upper", "lower"}

ASSUME MasterAssumption ==
  /\ IsFiniteSet(Requests) /\ Reserved \subseteq Names
  /\ Inputs \subseteq [kind : Kinds, id : Ids, code : Codes, active : BOOLEAN, password : BOOLEAN]
  /\ PoolSize \in Nat \ {0} /\ MaxRequests \in Nat

VARIABLES
  rows,    \* dealers and SKUs, as committed
  users,   \* the user of each dealer
  audits,
  req,     \* each request: its input and how far it is
  clock,   \* history: writes of a dealer or SKU
  begun    \* requests begun

vars == <<rows, users, audits, req, clock, begun>>

SameIgnoringCase(c, d) == c[1] = d[1]

Idle == [at |-> "idle", kind |-> "sku", id |-> None, code |-> None, active |-> TRUE,
         new |-> FALSE, password |-> FALSE, looked |-> 0]

Existing(kind) == {id \in Ids : rows[kind][id] # None}

-----------------------------------------------------------------------------
(* An open transaction has done its first write or is about to. *)
InTransaction(r) == req[r].kind = "dealer" /\ req[r].at # "idle"
Connected == {r \in Requests : InTransaction(r)}
PoolHasFree == Cardinality(Connected) < PoolSize

(* Those with uncommitted writes. *)
DealerWriters == {r \in Connected : req[r].at \in {"user", "revoke", "audit", "commit"}}
UserWriters == {r \in DealerWriters : req[r].at # "user"}

(* A statement waits for the row, or for the index entry, of another's write. *)
Waits(r, writers) ==
  \E o \in writers \ {r} : req[o].id = req[r].id \/ req[o].code = req[r].code

Goto(r, at) == req' = [req EXCEPT ![r].at = at]
Ends(r) == req' = [req EXCEPT ![r] = Idle]

Init ==
  /\ rows = [kind \in Kinds |-> [id \in Ids |-> None]]
  /\ users = [id \in Ids |-> None]
  /\ audits = {} /\ clock = 0 /\ begun = 0
  /\ req = [r \in Requests |-> Idle]

Asked(input) ==
  [at |-> "look", kind |-> input.kind, id |-> input.id, code |-> input.code, active |-> input.active,
   new |-> input.id \notin Existing(input.kind), password |-> input.password, looked |-> 0]

(* A request arrives; an update finds its row, and a dealer's request has a *)
(* connection for its transaction.  A new row's id is its own.              *)
Begin(r) ==
  /\ req[r].at = "idle" /\ begun < MaxRequests /\ PoolHasFree
  /\ \E input \in Inputs :
       /\ \A o \in Requests : req[o].new => <<req[o].kind, req[o].id>> # <<input.kind, input.id>>
       /\ req' = [req EXCEPT ![r] = Asked(input)]
  /\ begun' = begun + 1
  /\ UNCHANGED <<rows, users, audits, clock>>

(* Bug variant: the look-up is as strict as the index. *)
MatchesExactly(kind, code) == {id \in Existing(kind) : rows[kind][id].code = code}

(* findDealerByCode, findSkuByCode: one of these. *)
Matches(kind, code) ==
  {id \in Existing(kind) : SameIgnoringCase(rows[kind][id].code, code)}

LookUp(r) ==
  LET found == Matches(req[r].kind, req[r].code) IN
  /\ req[r].at = "look" /\ (InTransaction(r) \/ PoolHasFree)
  /\ \/ /\ found = {} \/ req[r].id \in found
        /\ req' = [req EXCEPT ![r].at = "write", ![r].looked = clock]
     \/ found \ {req[r].id} # {} /\ Ends(r)
  /\ UNCHANGED <<rows, users, audits, clock, begun>>

(* The row as written, with the history of its code: when it was written,   *)
(* when the look-up for it was, and when the code it replaced was written.  *)
(* A code of which only the case changes keeps its history.                 *)
Row(r) ==
  LET old == rows[req[r].kind][req[r].id] IN
  IF old # None /\ SameIgnoringCase(old.code, req[r].code)
  THEN [old EXCEPT !.code = req[r].code, !.active = req[r].active]
  ELSE [code |-> req[r].code, active |-> req[r].active, looked |-> req[r].looked,
        at |-> clock + 1, before |-> IF old = None THEN 0 ELSE old.at]

(* P2002 *)
Taken(r) == \E id \in Existing(req[r].kind) \ {req[r].id} :
              rows[req[r].kind][id].code = req[r].code

WriteDealer(r) ==
  /\ req[r].at = "write" /\ req[r].kind = "dealer"
  /\ ~Waits(r, DealerWriters)
  /\ IF Taken(r) THEN Ends(r) ELSE Goto(r, "user")
  /\ UNCHANGED <<rows, users, audits, clock, begun>>

WriteSku(r) ==
  /\ req[r].at = "write" /\ req[r].kind = "sku" /\ PoolHasFree
  /\ IF Taken(r)
     THEN Ends(r) /\ UNCHANGED <<rows, clock>>
     ELSE /\ rows' = [rows EXCEPT !["sku"][req[r].id] = Row(r)]
          /\ clock' = clock + 1 /\ Goto(r, "audit")
  /\ UNCHANGED <<users, audits, begun>>

(* User names are unique among dealers' and Head Office's users. *)
NameTaken(r) ==
  \/ \E id \in Ids \ {req[r].id} : users[id] # None /\ users[id].username = req[r].code
  \/ req[r].code[1] \in Reserved /\ req[r].code[2] = "lower"

(* updateDealer: sessions end when the account is switched off or gets a    *)
(* new password.                                                            *)
Revokes(r) == ~req[r].new /\ (~req[r].active \/ req[r].password)

WriteUser(r) ==
  /\ req[r].at = "user" /\ ~Waits(r, UserWriters)
  /\ IF NameTaken(r) THEN Ends(r) ELSE Goto(r, IF Revokes(r) THEN "revoke" ELSE "audit")
  /\ UNCHANGED <<rows, users, audits, clock, begun>>

(* On another connection, not undone by a rollback. *)
Revoke(r) ==
  /\ req[r].at = "revoke" /\ PoolHasFree
  /\ Goto(r, "audit")
  /\ UNCHANGED <<rows, users, audits, clock, begun>>

AuditRow(kind, id, code) == [kind |-> kind, id |-> id, code |-> code]

(* Also on another connection; for an SKU, after its write. *)
Audit(r) ==
  /\ req[r].at = "audit" /\ PoolHasFree
  /\ audits' = audits \cup {AuditRow(req[r].kind, req[r].id, req[r].code)}
  /\ IF req[r].kind = "dealer" THEN Goto(r, "commit") ELSE Ends(r)
  /\ UNCHANGED <<rows, users, clock, begun>>

(* Bug variant: the user keeps the name it was created with. *)
UserRowOfOld(r) ==
  [username |-> IF req[r].new THEN req[r].code ELSE users[req[r].id].username,
   active |-> req[r].active]

UserRow(r) == [username |-> req[r].code, active |-> req[r].active]

Commit(r) ==
  /\ req[r].at = "commit"
  /\ rows' = [rows EXCEPT !["dealer"][req[r].id] = Row(r)]
  /\ users' = [users EXCEPT ![req[r].id] = UserRow(r)]
  /\ clock' = clock + 1 /\ Ends(r)
  /\ UNCHANGED <<audits, begun>>

RollsBack(r) == req[r].at # "idle" /\ Ends(r)

(* A statement fails. *)
Fail(r) == RollsBack(r) /\ UNCHANGED <<rows, users, audits, clock, begun>>

(* Bug variant: only a transaction that still writes expires. *)
ExpiresWhileWriting(r) == InTransaction(r) /\ req[r].at \in {"look", "write", "user"}

(* An interactive transaction expires, and so does the wait for a           *)
(* connection.                                                              *)
Expires(r) == InTransaction(r) \/ (req[r].at # "idle" /\ ~PoolHasFree)

TimeOut(r) == Expires(r) /\ Ends(r) /\ UNCHANGED <<rows, users, audits, clock, begun>>

Statement(r) ==
  \/ LookUp(r) \/ WriteDealer(r) \/ WriteSku(r) \/ WriteUser(r)
  \/ Revoke(r) \/ Audit(r) \/ Commit(r)

Next == \E r \in Requests : Begin(r) \/ Statement(r) \/ Fail(r) \/ TimeOut(r)

Spec == Init /\ [][Next]_vars
FairSpec == Spec /\ \A r \in Requests : WF_vars(Statement(r)) /\ WF_vars(TimeOut(r))

-----------------------------------------------------------------------------
Rows == [code : Codes, active : BOOLEAN, looked : Nat, at : Nat, before : Nat]
Users == [username : Codes, active : BOOLEAN]

(* null is no row. *)
ASSUME NoneAssumption == None \notin Rows \cup Users

TypeOK ==
  /\ rows \in [Kinds -> [Ids -> Rows \cup {None}]]
  /\ users \in [Ids -> Users \cup {None}]
  /\ audits \subseteq [kind : Kinds, id : Ids, code : Codes]
  /\ req \in [Requests ->
       [at : {"idle", "look", "write", "user", "revoke", "audit", "commit"},
        kind : Kinds, id : Ids \cup {None}, code : Codes \cup {None}, active : BOOLEAN,
        new : BOOLEAN, password : BOOLEAN, looked : Nat]]
  /\ clock \in 0..MaxRequests /\ begun \in 0..MaxRequests
  /\ Cardinality(Connected) <= PoolSize
  /\ \A r, o \in DealerWriters : r # o => req[r].id # req[o].id /\ req[r].code # req[o].code

(* A dealer can sign in with the code and the state its record shows: the   *)
(* two rows never part, whatever updates of one dealer overlap or fail.     *)
UserMirrorsDealer ==
  \A id \in Ids :
    LET dealer == rows["dealer"][id] IN
    /\ (dealer = None) = (users[id] = None)
    /\ dealer # None => users[id] = [username |-> dealer.code, active |-> dealer.active]

(* Codes are unique.  Those that differ only in case were written by        *)
(* requests that overlapped: the later one had looked before the earlier    *)
(* one was there, or found the code in its own row and brought it back      *)
(* after another request had renamed that row.                              *)
ClashesOverlapped ==
  \A kind \in Kinds : \A i, j \in Existing(kind) :
    i # j =>
      /\ rows[kind][i].code # rows[kind][j].code
      /\ SameIgnoringCase(rows[kind][i].code, rows[kind][j].code) /\ rows[kind][i].at < rows[kind][j].at
           => \/ rows[kind][j].looked < rows[kind][i].at
              \/ rows[kind][j].looked < rows[kind][j].before

(* Every dealer in force has its audit row, although that is written by     *)
(* another connection.                                                      *)
DealersAreAudited ==
  \A id \in Existing("dealer") : AuditRow("dealer", id, rows["dealer"][id].code) \in audits

(* What stands in the tables after createDealer and updateDealer: types, a  *)
(* user for each dealer and an audit row for each dealer.                   *)
RecordsInv == TypeOK /\ UserMirrorsDealer /\ DealersAreAudited

(* Transactions that hold all connections and each wait for one more do not *)
(* wait for ever.                                                           *)
EveryRequestEnds == \A r \in Requests : req[r].at # "idle" ~> req[r].at = "idle"
=============================================================================
