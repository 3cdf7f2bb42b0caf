----------------------------- MODULE OrderIntake -----------------------------
(***************************************************************************)
(* POST /api/v1/orders: DealerPortalService.createOrder, the repository    *)
(* calls it makes and the PostgreSQL transaction they run in.  Each HTTP   *)
(* request is a process whose program counter stands between two database  *)
(* statements, so the requests of one Node process interleave at every     *)
(* await.  Head Office edits the SKUs and the dealers meanwhile, the clock *)
(* passes midnight, statements fail, the timeout guard answers before the  *)
(* handler does, and the process crashes.                                  *)
(*                                                                         *)
(* The transaction is SERIALIZABLE: its snapshot is taken by its first     *)
(* statement, the look-up of the idempotency key, hence BEFORE the         *)
(* advisory lock is awaited.  The count that numbers the order may         *)
(* therefore be stale although it is made under the lock; what keeps the   *)
(* numbers right is the unique index on orderNumber.                       *)
(***************************************************************************)
EXTENDS Naturals, FiniteSets

CONSTANTS
  Dealers,      \* dealer accounts
  Keys,         \* values of the idempotency-key header
  Skus,         \* catalogue items
  Requests,     \* identities of the HTTP requests, each used once
  MaxDay,       \* bound: days the clock passes through
  MaxRate,      \* bound: rates are 1..MaxRate
  MaxCatalogs,  \* bound: distinct catalogue states Head Office produces
  None          \* null

ASSUME BoundsAssumption ==
  MaxDay \in Nat \ {0} /\ MaxRate \in Nat \ {0} /\ MaxCatalogs \in Nat

ASSUME NoneAssumption == None \notin Requests

VARIABLES
  catalog,      \* table Sku: which SKUs are active, and every rate
  offered,      \* history: every state the catalogue has been in
  activeDealers,\* table Dealer: the accounts with active = true
  today,        \* the date new Date() yields
  orders,       \* table Order with its OrderItem lines
  audits,       \* table AuditLog: the ORDER_CREATED rows
  lock,         \* holder of pg_advisory_xact_lock(97412026)
  pc,           \* where each request's handler stands
  req,          \* the parsed request: dealer, key, ordered SKUs
  prices,       \* skuMap: the rates read before the transaction
  snapshot,     \* the orders the request's transaction sees
  draft,        \* date prefix and number chosen for the new order
  result,       \* the order the transaction returned
  answer        \* the HTTP answer sent

tables == <<catalog, offered, activeDealers, today>>
vars == <<catalog, offered, activeDealers, today, orders, audits, lock,
          pc, req, prices, snapshot, draft, result, answer>>

Days == 1..MaxDay
Rates == 1..MaxRate
Baskets == SUBSET Skus \ {{}}
PriceLists == UNION {[S -> Rates] : S \in Baskets}
Catalogs == [active : SUBSET Skus, rate : [Skus -> Rates]]
OrderRows == [dealer : Dealers, key : Keys, day : Days,
              number : Nat \ {0}, prices : PriceLists]
RequestBodies == [dealer : Dealers, key : Keys, skus : Baskets]
Drafts == [day : Days, number : Nat \ {0}]

InTransaction == {"lock", "count", "insert"}
Running == {"dealer", "lookup", "skus", "begin", "recover", "audit"}
             \cup InTransaction
Ended == {"done", "failed", "lost"}

(* Every answer that is not a 2xx with an order. *)
Refusals == {"refused", "error", "timeout"}
Answers == {None} \cup [kind : Refusals] \cup [kind : {"ok"}, order : OrderRows]

OfDay(book, day) == {o \in book : o.day = day}

(* Bug variant: the number counts every order, not those of the day. *)
NumberAfterAll(book, day) == Cardinality(book) + 1

(* countOrdersCreatedOn(prefix) + 1. *)
NextNumber(book, day) == Cardinality(OfDay(book, day)) + 1

(* Bug variant: the look-up forgets whose key it is. *)
MatchingAnyDealer(book, body) == {o \in book : o.key = body.key}

(* findOrderByIdempotencyKey(dealer, key) run against book. *)
Matching(book, body) == {o \in book : o.dealer = body.dealer /\ o.key = body.key}

(* Headers already sent by the timeout guard win over a later answer. *)
Reply(r, a) ==
  answer' = [answer EXCEPT ![r] = IF answer[r] = None THEN a ELSE @]

Goto(r, to) == pc' = [pc EXCEPT ![r] = to]

(* Bug variant: a session-level lock, which the end of the transaction keeps. *)
EndTransactionKeepingLock(r) ==
  /\ snapshot' = [snapshot EXCEPT ![r] = {}]
  /\ draft' = [draft EXCEPT ![r] = None]
  /\ UNCHANGED lock

(* End of the transaction of r: the lock, the snapshot and the draft go. *)
EndTransaction(r) ==
  /\ lock' = IF lock = r THEN None ELSE lock
  /\ snapshot' = [snapshot EXCEPT ![r] = {}]
  /\ draft' = [draft EXCEPT ![r] = None]

-----------------------------------------------------------------------------
Init ==
  /\ catalog = [active |-> Skus, rate |-> [s \in Skus |-> 1]]
  /\ offered = {catalog}
  /\ activeDealers = Dealers
  /\ today = 1
  /\ orders = {} /\ audits = {} /\ lock = None
  /\ pc = [r \in Requests |-> "idle"]
  /\ req = [r \in Requests |-> None]
  /\ prices = [r \in Requests |-> None]
  /\ snapshot = [r \in Requests |-> {}]
  /\ draft = [r \in Requests |-> None]
  /\ result = [r \in Requests |-> None]
  /\ answer = [r \in Requests |-> None]

(* The request reaches the handler with a body that parses. *)
Arrive(r, body) ==
  /\ pc[r] = "idle"
  /\ req' = [req EXCEPT ![r] = body]
  /\ Goto(r, "dealer")
  /\ UNCHANGED <<tables, orders, audits, lock, prices, snapshot, draft,
                 result, answer>>

(* findDealerById; an inactive dealer gets 403. *)
CheckDealer(r) ==
  /\ pc[r] = "dealer"
  /\ \/ /\ req[r].dealer \in activeDealers
        /\ Goto(r, "lookup")
        /\ UNCHANGED answer
     \/ /\ req[r].dealer \notin activeDealers
        /\ Goto(r, "failed")
        /\ Reply(r, [kind |-> "refused"])
  /\ UNCHANGED <<tables, orders, audits, lock, req, prices, snapshot, draft,
                 result>>

(* A replay that the first look-up finds is answered with the old order. *)
LookUp(r) ==
  /\ pc[r] = "lookup"
  /\ \/ \E o \in Matching(orders, req[r]) :
          /\ Goto(r, "done")
          /\ Reply(r, [kind |-> "ok", order |-> o])
     \/ /\ Matching(orders, req[r]) = {}
        /\ Goto(r, "skus")
        /\ UNCHANGED answer
  /\ UNCHANGED <<tables, orders, audits, lock, req, prices, snapshot, draft,
                 result>>

(* listActiveSkusByIds: one statement; every SKU must still be active. *)
CheckSkus(r) ==
  /\ pc[r] = "skus"
  /\ \/ /\ req[r].skus \subseteq catalog.active
        /\ prices' = [prices EXCEPT ![r] =
                        [s \in req[r].skus |-> catalog.rate[s]]]
        /\ Goto(r, "begin")
        /\ UNCHANGED answer
     \/ /\ ~(req[r].skus \subseteq catalog.active)
        /\ Goto(r, "failed")
        /\ Reply(r, [kind |-> "refused"])
        /\ UNCHANGED prices
  /\ UNCHANGED <<tables, orders, audits, lock, req, snapshot, draft, result>>

(* BEGIN and the look-up inside the transaction, which fixes the snapshot. *)
Begin(r) ==
  /\ pc[r] = "begin"
  /\ \/ \E o \in Matching(orders, req[r]) :
          /\ result' = [result EXCEPT ![r] = o]
          /\ Goto(r, "audit")
          /\ UNCHANGED snapshot
     \/ /\ Matching(orders, req[r]) = {}
        /\ snapshot' = [snapshot EXCEPT ![r] = orders]
        /\ Goto(r, "lock")
        /\ UNCHANGED result
  /\ UNCHANGED <<tables, orders, audits, lock, req, prices, draft, answer>>

(* SELECT pg_advisory_xact_lock(97412026). *)
AcquireLock(r) ==
  /\ pc[r] = "lock"
  /\ lock = None
  /\ lock' = r
  /\ Goto(r, "count")
  /\ UNCHANGED <<tables, orders, audits, req, prices, snapshot, draft, result,
                 answer>>

(* The date prefix, and countOrdersCreatedOn(prefix) on the SNAPSHOT. *)
CountOrders(r) ==
  /\ pc[r] = "count"
  /\ draft' = [draft EXCEPT ![r] =
       [day |-> today, number |-> NextNumber(snapshot[r], today)]]
  /\ Goto(r, "insert")
  /\ UNCHANGED <<tables, orders, audits, lock, req, prices, snapshot, result,
                 answer>>

(* Bug variant: the lines are priced again at insertion. *)
NewOrderRepriced(r) ==
  [dealer |-> req[r].dealer, key |-> req[r].key, day |-> draft[r].day,
   number |-> draft[r].number,
   prices |-> [s \in req[r].skus |-> catalog.rate[s]]]

(* The row: the lines carry the rates read before the transaction. *)
NewOrder(r) ==
  [dealer |-> req[r].dealer, key |-> req[r].key, day |-> draft[r].day,
   number |-> draft[r].number, prices |-> prices[r]]

(* Bug variant: the index on idempotencyKey is missing. *)
BreaksNumberIndex(row) ==
  \E o \in orders : o.day = row.day /\ o.number = row.number

(* The unique indexes on orderNumber and on idempotencyKey. *)
BreaksUniqueIndex(row) ==
  \E o \in orders : \/ o.key = row.key
                    \/ o.day = row.day /\ o.number = row.number

(* INSERT of the order with its lines, and COMMIT. *)
InsertOrder(r) ==
  /\ pc[r] = "insert"
  /\ ~BreaksUniqueIndex(NewOrder(r))
  /\ orders' = orders \cup {NewOrder(r)}
  /\ result' = [result EXCEPT ![r] = NewOrder(r)]
  /\ EndTransaction(r)
  /\ Goto(r, "audit")
  /\ UNCHANGED <<tables, audits, req, prices, answer>>

(* The same INSERT refused by an index: P2002, ROLLBACK. *)
InsertConflicts(r) ==
  /\ pc[r] = "insert"
  /\ BreaksUniqueIndex(NewOrder(r))
  /\ EndTransaction(r)
  /\ Goto(r, "recover")
  /\ UNCHANGED <<tables, orders, audits, req, prices, result, answer>>

(* After P2002: answer with the order of the same dealer and key, or 409. *)
Recover(r) ==
  /\ pc[r] = "recover"
  /\ \/ \E o \in Matching(orders, req[r]) :
          /\ Goto(r, "done")
          /\ Reply(r, [kind |-> "ok", order |-> o])
     \/ /\ Matching(orders, req[r]) = {}
        /\ Goto(r, "failed")
        /\ Reply(r, [kind |-> "error"])
  /\ UNCHANGED <<tables, orders, audits, lock, req, prices, snapshot, draft,
                 result>>

(* Bug variant: no audit row once the time-out has answered. *)
WriteAuditUnlessAnswered(r) ==
  /\ pc[r] = "audit"
  /\ audits' = IF answer[r] = None
                 THEN audits \cup {[by |-> r, order |-> result[r]]} ELSE audits
  /\ Goto(r, "done")
  /\ Reply(r, [kind |-> "ok", order |-> result[r]])
  /\ UNCHANGED <<tables, orders, lock, req, prices, snapshot, draft, result>>

(* createAuditLog(ORDER_CREATED) on its own connection, then the 201. *)
WriteAudit(r) ==
  /\ pc[r] = "audit"
  /\ audits' = audits \cup {[by |-> r, order |-> result[r]]}
  /\ Goto(r, "done")
  /\ Reply(r, [kind |-> "ok", order |-> result[r]])
  /\ UNCHANGED <<tables, orders, lock, req, prices, snapshot, draft, result>>

(* The awaited statement fails: P2034 (serialization), P2028 (transaction  *)
(* timeout), a lost connection.  An open transaction rolls back.           *)
StatementFails(r) ==
  /\ pc[r] \in Running
  /\ EndTransaction(r)
  /\ Goto(r, "failed")
  /\ Reply(r, [kind |-> "error"])
  /\ UNCHANGED <<tables, orders, audits, req, prices, result>>

(* requestTimeoutGuard answers 503; the handler runs on. *)
TimeOut(r) ==
  /\ pc[r] \in Running
  /\ answer[r] = None
  /\ Reply(r, [kind |-> "timeout"])
  /\ UNCHANGED <<tables, orders, audits, lock, pc, req, prices, snapshot,
                 draft, result>>

(* The process dies; PostgreSQL rolls its open transactions back. *)
Crash ==
  /\ \E r \in Requests : pc[r] \in Running
  /\ pc' = [r \in Requests |-> IF pc[r] \in Running THEN "lost" ELSE pc[r]]
  /\ lock' = None
  /\ snapshot' = [r \in Requests |-> {}]
  /\ draft' = [r \in Requests |-> None]
  /\ UNCHANGED <<tables, orders, audits, req, prices, result, answer>>

(* HeadOfficeService.updateSku: availability and rate in one UPDATE. *)
EditSku(s, active, rate) ==
  /\ LET edited == [active |-> IF active THEN catalog.active \cup {s}
                                         ELSE catalog.active \ {s},
                    rate |-> [catalog.rate EXCEPT ![s] = rate]]
     IN  /\ edited # catalog
         /\ Cardinality(offered \cup {edited}) <= MaxCatalogs
         /\ catalog' = edited
         /\ offered' = offered \cup {edited}
  /\ UNCHANGED <<activeDealers, today, orders, audits, lock, pc, req, prices,
                 snapshot, draft, result, answer>>

(* HeadOfficeService.updateDealer switching the account on or off. *)
SwitchDealer(d) ==
  /\ activeDealers' = IF d \in activeDealers THEN activeDealers \ {d}
                                             ELSE activeDealers \cup {d}
  /\ UNCHANGED <<catalog, offered, today, orders, audits, lock, pc, req,
                 prices, snapshot, draft, result, answer>>

(* Midnight UTC. *)
NextDay ==
  /\ today < MaxDay
  /\ today' = today + 1
  /\ UNCHANGED <<catalog, offered, activeDealers, orders, audits, lock, pc,
                 req, prices, snapshot, draft, result, answer>>

Handle(r) ==
  \/ CheckDealer(r) \/ LookUp(r) \/ CheckSkus(r) \/ Begin(r)
  \/ AcquireLock(r) \/ CountOrders(r) \/ InsertOrder(r)
  \/ InsertConflicts(r) \/ Recover(r) \/ WriteAudit(r)

Next ==
  \/ \E r \in Requests : \/ \E body \in RequestBodies : Arrive(r, body)
                         \/ Handle(r)
                         \/ StatementFails(r)
                         \/ TimeOut(r)
  \/ \E s \in Skus, active \in BOOLEAN, rate \in Rates : EditSku(s, active, rate)
  \/ \E d \in Dealers : SwitchDealer(d)
  \/ NextDay
  \/ Crash

Spec == Init /\ [][Next]_vars

(* The event loop runs every handler whose statement has returned, and     *)
(* PostgreSQL grants an advisory lock to its waiters in the order they     *)
(* came, so a waiter is not passed over forever.                           *)
Fairness == \A r \in Requests : WF_vars(Handle(r)) /\ SF_vars(AcquireLock(r))

FairSpec == Spec /\ Fairness

-----------------------------------------------------------------------------
TypeOK ==
  /\ catalog \in Catalogs
  /\ offered \subseteq Catalogs
  /\ activeDealers \subseteq Dealers
  /\ today \in Days
  /\ orders \subseteq OrderRows
  /\ audits \subseteq [by : Requests, order : OrderRows]
  /\ lock \in Requests \cup {None}
  /\ pc \in [Requests -> {"idle"} \cup Running \cup Ended]
  /\ req \in [Requests -> RequestBodies \cup {None}]
  /\ prices \in [Requests -> PriceLists \cup {None}]
  /\ snapshot \in [Requests -> SUBSET OrderRows]
  /\ draft \in [Requests -> Drafts \cup {None}]
  /\ result \in [Requests -> OrderRows \cup {None}]
  /\ answer \in [Requests -> Answers]

(* At most one order exists per idempotency key, whatever the number of    *)
(* concurrent, repeated or crashed requests that carry it: three look-ups  *)
(* that may all miss a concurrent insert, and one unique index.            *)
OneOrderPerKey == \A o1, o2 \in orders : o1.key = o2.key => o1 = o2

(* The orders of a day are numbered 1, 2, ..., n: no number twice and none *)
(* skipped, although createOrder counts on a snapshot that may be stale    *)
(* and although requests fail between the count and the insert.            *)
NumbersAreDense ==
  \A d \in Days : {o.number : o \in OfDay(orders, d)}
                    = 1..Cardinality(OfDay(orders, d))

IsOrderOf(o, body) ==
  o \in orders /\ o.dealer = body.dealer /\ o.key = body.key

(* A successful answer shows a committed order of the caller's own dealer  *)
(* and key, so that all successful answers to one dealer's key, first      *)
(* submission, replay or recovery after a conflict, show the same order.   *)
AnswersAgree ==
  \A r1 \in Requests : answer[r1] # None /\ answer[r1].kind = "ok" =>
    /\ IsOrderOf(answer[r1].order, req[r1])
    /\ \A r2 \in Requests :
         /\ answer[r2] # None /\ answer[r2].kind = "ok"
         /\ req[r1].dealer = req[r2].dealer /\ req[r1].key = req[r2].key
         => answer[r1].order = answer[r2].order

(* Every line of an order carries the rate of one single state the         *)
(* catalogue really was in, with every SKU of the order active in it,      *)
(* whatever Head Office edits between the reading and the insert.          *)
SoldFromOneCatalog ==
  \A o \in orders : \E c \in offered :
    /\ DOMAIN o.prices \subseteq c.active
    /\ \A s \in DOMAIN o.prices : o.prices[s] = c.rate[s]

(* The audit log names committed orders of the acting request's dealer     *)
(* only; and an order it does not name is one whose request has not yet    *)
(* reached the log, or failed or died there.                               *)
AuditTrail ==
  /\ \A a \in audits : IsOrderOf(a.order, req[a.by])
  /\ \A o \in orders :
       \/ \E a \in audits : a.order = o
       \/ \E r \in Requests : result[r] = o /\ pc[r] \in {"audit", "failed", "lost"}

(* The inductive invariant behind the four properties above: what a        *)
(* handler's locals hold at each point, that a snapshot is an earlier and  *)
(* itself densely numbered state of the table, and that the number drafted *)
(* is the next one OF THE SNAPSHOT, which the unique index then tests      *)
(* against the table of the day.                                           *)
Dense(book) ==
  /\ IsFiniteSet(book)
  /\ \A d \in Days : {o.number : o \in OfDay(book, d)}
                       = 1..Cardinality(OfDay(book, d))

LocalsOK ==
  \A r \in Requests :
    /\ pc[r] # "idle" => req[r] \in RequestBodies
    /\ pc[r] \in {"begin"} \cup InTransaction => prices[r] \in PriceLists
    /\ pc[r] = "insert" =>
         /\ draft[r] \in Drafts
         /\ draft[r].number = NextNumber(snapshot[r], draft[r].day)
    /\ pc[r] = "audit" => result[r] \in Matching(orders, req[r])
    /\ answer[r] # None /\ answer[r].kind = "ok" =>
         /\ answer[r].order \in Matching(orders, req[r])
         /\ pc[r] # "idle"

SnapshotsOK ==
  \A r \in Requests : snapshot[r] \subseteq orders /\ Dense(snapshot[r])

IntakeInv == /\ TypeOK /\ LocalsOK /\ SnapshotsOK
             /\ Dense(orders) /\ OneOrderPerKey

(* Intake implements the ledger: the inserts, and nothing else, are its    *)
(* Place steps, each one with the number that is next at that moment.      *)
Ledger == INSTANCE OrderLedger WITH ledger <- orders
ImplementsLedger == Ledger!Spec

(* Every accepted request comes to an end: no handler waits for the        *)
(* advisory lock forever, whichever way its holders leave.                 *)
EveryRequestEnds ==
  \A r \in Requests : pc[r] = "dealer" ~> pc[r] \in Ended
==============================================================================
