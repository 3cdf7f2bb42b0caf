-------------------------- MODULE OrderIntakeProofs --------------------------
(***************************************************************************)
(* Proofs about OrderIntake for every set of requests, dealers, keys, SKUs *)
(* and every number of days: type correctness, one order per idempotency   *)
(* key, dense numbering from stale counts, agreement of the answers, and   *)
(* that intake implements OrderLedger.                                     *)
(***************************************************************************)
EXTENDS OrderIntake, FiniteSetTheorems, TLAPS

(* The empty table, which is also the snapshot of a request outside a      *)
(* transaction, is densely numbered.                                       *)
LEMMA EmptyIsDense == Dense({})
<1>1. IsFiniteSet({}) /\ Cardinality({}) = 0
  BY FS_EmptySet
<1>2. \A d \in Days : OfDay({}, d) = {}
  BY DEF OfDay
<1> QED
  BY <1>1, <1>2 DEF Dense

(* The heart of the numbering: a row drafted from a densely numbered       *)
(* snapshot and accepted by the unique index is next in the table itself,  *)
(* however stale the snapshot, and leaves the table densely numbered.      *)
LEMMA AcceptedRowIsNext ==
  ASSUME NEW book, NEW snap, Dense(book), Dense(snap), snap \subseteq book,
         NEW row, row.day \in Days,
         row.number = NextNumber(snap, row.day),
         \A o \in book : ~(o.day = row.day /\ o.number = row.number)
  PROVE  /\ Dense(book \cup {row})
         /\ row.number = NextNumber(book, row.day)
<1> DEFINE B == OfDay(book, row.day)
           S == OfDay(snap, row.day)
           n == Cardinality(B)
<1>1. IsFiniteSet(B) /\ IsFiniteSet(S) /\ S \subseteq B
  BY FS_Subset DEF Dense, OfDay
<1>2. n \in Nat /\ Cardinality(S) \in Nat /\ Cardinality(S) <= n
  BY <1>1, FS_CardinalityType, FS_Subset
<1>3. {o.number : o \in B} = 1..n
  BY DEF Dense
<1>4. row.number = Cardinality(S) + 1
  BY DEF NextNumber
<1>5. row.number \notin 1..n
  <2> SUFFICES ASSUME row.number \in 1..n PROVE FALSE
    OBVIOUS
  <2>1. PICK o \in B : o.number = row.number
    BY <1>3
  <2> QED
    BY <2>1 DEF OfDay
<1>6. row.number = n + 1
  BY <1>2, <1>4, <1>5
<1>7. row \notin B
  BY DEF OfDay
<1>8. OfDay(book \cup {row}, row.day) = B \cup {row}
  BY DEF OfDay
<1>9. Cardinality(B \cup {row}) = n + 1
  BY <1>1, <1>7, FS_AddElement
<1>10. {o.number : o \in B \cup {row}} = 1..(n + 1)
  <2>1. {o.number : o \in B \cup {row}} = {o.number : o \in B} \cup {row.number}
    OBVIOUS
  <2> HIDE DEF B, n
  <2>2. 1..(n + 1) = (1..n) \cup {n + 1}
    BY <1>2
  <2> QED
    BY <2>1, <2>2, <1>3, <1>6
<1>11. ASSUME NEW d \in Days, d # row.day
       PROVE  OfDay(book \cup {row}, d) = OfDay(book, d)
  BY <1>11 DEF OfDay
<1>12. IsFiniteSet(book \cup {row})
  BY FS_AddElement DEF Dense
<1>13. Dense(book \cup {row})
  <2> SUFFICES ASSUME NEW d \in Days
               PROVE  {o.number : o \in OfDay(book \cup {row}, d)}
                        = 1..Cardinality(OfDay(book \cup {row}, d))
    BY <1>12 DEF Dense
  <2>1. CASE d = row.day
    BY <2>1, <1>8, <1>9, <1>10
  <2>2. CASE d # row.day
    BY <2>2, <1>11 DEF Dense
  <2> QED
    BY <2>1, <2>2
<1> QED
  BY <1>6, <1>13 DEF NextNumber

-----------------------------------------------------------------------------
LEMMA PricedBasket ==
  ASSUME NEW S \in Baskets, NEW c \in Catalogs
  PROVE  [s \in S |-> c.rate[s]] \in PriceLists
<1>1. S \subseteq Skus
  BY DEF Baskets
<1>2. [s \in S |-> c.rate[s]] \in [S -> Rates]
  BY <1>1 DEF Catalogs
<1> QED
  BY <1>2 DEF PriceLists

LEMMA InitInv == Init => IntakeInv
<1> SUFFICES ASSUME Init PROVE IntakeInv
  OBVIOUS
<1>1. 1 \in Days /\ 1 \in Rates
  BY BoundsAssumption DEF Days, Rates
<1>2. catalog \in Catalogs
  BY <1>1 DEF Init, Catalogs
<1>3. TypeOK
  BY <1>1, <1>2 DEF Init, TypeOK, Answers
<1>4. LocalsOK
  BY DEF Init, LocalsOK, InTransaction
<1>5. SnapshotsOK
  BY EmptyIsDense DEF Init, SnapshotsOK
<1> QED
  BY <1>3, <1>4, <1>5, EmptyIsDense DEF Init, IntakeInv, OneOrderPerKey

(* The row a handler inserts is well-formed. *)
LEMMA NewOrderType ==
  ASSUME IntakeInv, NEW r \in Requests, pc[r] = "insert"
  PROVE  NewOrder(r) \in OrderRows
<1>1. /\ req[r] \in RequestBodies
      /\ prices[r] \in PriceLists
      /\ draft[r] \in Drafts
  BY DEF IntakeInv, LocalsOK, InTransaction
<1> QED
  BY <1>1 DEF NewOrder, OrderRows, RequestBodies, Drafts

(* Types, one step of each action. *)
LEMMA NextTypeOK == IntakeInv /\ [Next]_vars => TypeOK'
<1> SUFFICES ASSUME IntakeInv, [Next]_vars PROVE TypeOK'
  OBVIOUS
<1> USE DEF TypeOK, Running, InTransaction, Ended, Goto
<1>0. TypeOK /\ LocalsOK /\ SnapshotsOK
  BY DEF IntakeInv
<1>1. ASSUME NEW r \in Requests, NEW body \in RequestBodies, Arrive(r, body)
      PROVE  TypeOK'
  BY <1>0, <1>1 DEF Arrive, tables
<1>2. ASSUME NEW r \in Requests, CheckDealer(r) PROVE TypeOK'
  BY <1>0, <1>2 DEF CheckDealer, Reply, tables, Answers, Refusals
<1>3. ASSUME NEW r \in Requests, LookUp(r) PROVE TypeOK'
  BY <1>0, <1>3 DEF LookUp, Reply, tables, Answers, Matching
<1>4. ASSUME NEW r \in Requests, CheckSkus(r) PROVE TypeOK'
  <2>1. req[r].skus \in Baskets
    BY <1>0, <1>4 DEF CheckSkus, LocalsOK, RequestBodies
  <2>2. [s \in req[r].skus |-> catalog.rate[s]] \in PriceLists
    BY <1>0, <2>1, PricedBasket
  <2> QED
    BY <1>0, <1>4, <2>2 DEF CheckSkus, Reply, tables, Answers, Refusals
<1>5. ASSUME NEW r \in Requests, Begin(r) PROVE TypeOK'
  BY <1>0, <1>5 DEF Begin, tables, Matching
<1>6. ASSUME NEW r \in Requests, AcquireLock(r) PROVE TypeOK'
  BY <1>0, <1>6 DEF AcquireLock, tables
<1>7. ASSUME NEW r \in Requests, CountOrders(r) PROVE TypeOK'
  <2>1. IsFiniteSet(OfDay(snapshot[r], today))
    BY <1>0, FS_Subset DEF SnapshotsOK, Dense, OfDay
  <2>2. NextNumber(snapshot[r], today) \in Nat \ {0}
    BY <2>1, FS_CardinalityType DEF NextNumber
  <2> QED
    BY <1>0, <1>7, <2>2 DEF CountOrders, tables, Drafts
<1>8. ASSUME NEW r \in Requests, InsertOrder(r) PROVE TypeOK'
  <2>1. NewOrder(r) \in OrderRows
    BY <1>8, NewOrderType DEF InsertOrder
  <2> QED
    BY <1>0, <1>8, <2>1 DEF InsertOrder, EndTransaction, tables
<1>9. ASSUME NEW r \in Requests, InsertConflicts(r) PROVE TypeOK'
  BY <1>0, <1>9 DEF InsertConflicts, EndTransaction, tables
<1>10. ASSUME NEW r \in Requests, Recover(r) PROVE TypeOK'
  BY <1>0, <1>10 DEF Recover, Reply, tables, Answers, Refusals, Matching
<1>11. ASSUME NEW r \in Requests, WriteAudit(r) PROVE TypeOK'
  <2>1. result[r] \in OrderRows
    BY <1>0, <1>11 DEF WriteAudit, LocalsOK, Matching
  <2> QED
    BY <1>0, <1>11, <2>1 DEF WriteAudit, Reply, tables, Answers
<1>12. ASSUME NEW r \in Requests, StatementFails(r) PROVE TypeOK'
  BY <1>0, <1>12 DEF StatementFails, EndTransaction, Reply, tables, Answers,
                    Refusals
<1>13. ASSUME NEW r \in Requests, TimeOut(r) PROVE TypeOK'
  BY <1>0, <1>13 DEF TimeOut, Reply, tables, Answers, Refusals
<1>14. ASSUME NEW s \in Skus, NEW active \in BOOLEAN, NEW rate \in Rates,
              EditSku(s, active, rate)
       PROVE  TypeOK'
  <2>1. catalog' \in Catalogs
    BY <1>0, <1>14 DEF EditSku, Catalogs
  <2>2. offered' = offered \cup {catalog'}
    BY <1>14 DEF EditSku
  <2> QED
    BY <1>0, <1>14, <2>1, <2>2 DEF EditSku
<1>15. ASSUME NEW d \in Dealers, SwitchDealer(d) PROVE TypeOK'
  BY <1>0, <1>15 DEF SwitchDealer
<1>16. ASSUME NextDay PROVE TypeOK'
  BY <1>0, <1>16, BoundsAssumption DEF NextDay, Days
<1>17. ASSUME Crash PROVE TypeOK'
  BY <1>0, <1>17 DEF Crash, tables
<1>18. ASSUME UNCHANGED vars PROVE TypeOK'
  BY <1>0, <1>18 DEF vars
<1> QED
  BY <1>1, <1>2, <1>3, <1>4, <1>5, <1>6, <1>7, <1>8, <1>9, <1>10, <1>11,
     <1>12, <1>13, <1>14, <1>15, <1>16, <1>17, <1>18 DEF Next, Handle

-----------------------------------------------------------------------------
(* What happens to the table in one step: nothing, or one insert.          *)
LEMMA TableStep ==
  ASSUME [Next]_vars
  PROVE  \/ UNCHANGED orders
         \/ \E r \in Requests : InsertOrder(r)
BY DEF Next, Handle, Arrive, CheckDealer, LookUp, CheckSkus, Begin,
       AcquireLock, CountOrders, InsertConflicts, Recover, WriteAudit,
       StatementFails, TimeOut, Crash, EditSku, SwitchDealer, NextDay, vars

(* Rows are never removed. *)
LEMMA RowsStay ==
  ASSUME [Next]_vars
  PROVE  orders \subseteq orders'
BY TableStep DEF InsertOrder

(* The insert keeps the numbering dense and takes the next number.         *)
LEMMA InsertTakesNextNumber ==
  ASSUME IntakeInv, NEW r \in Requests, InsertOrder(r)
  PROVE  /\ Dense(orders')
         /\ OneOrderPerKey'
         /\ NewOrder(r).number = NextNumber(orders, NewOrder(r).day)
<1> DEFINE row == NewOrder(r)
<1>1. pc[r] = "insert" /\ ~BreaksUniqueIndex(row) /\ orders' = orders \cup {row}
  BY DEF InsertOrder
<1>2. \A o \in orders : o.key # row.key /\ ~(o.day = row.day /\ o.number = row.number)
  BY <1>1 DEF BreaksUniqueIndex
<1>3. /\ row.day = draft[r].day
      /\ row.number = draft[r].number
  BY DEF NewOrder
<1>4. /\ row.day \in Days
      /\ row.number = NextNumber(snapshot[r], row.day)
  BY <1>1, <1>3 DEF IntakeInv, LocalsOK, Drafts
<1>5. /\ Dense(orders) /\ Dense(snapshot[r])
      /\ snapshot[r] \subseteq orders
  BY DEF IntakeInv, SnapshotsOK
<1> HIDE DEF row
<1>6. Dense(orders \cup {row}) /\ row.number = NextNumber(orders, row.day)
  BY <1>2, <1>4, <1>5, AcceptedRowIsNext
<1>7. OneOrderPerKey'
  BY <1>1, <1>2 DEF IntakeInv, OneOrderPerKey
<1> QED
  BY <1>1, <1>6, <1>7 DEF row

LEMMA NextTableOK ==
  IntakeInv /\ [Next]_vars => Dense(orders') /\ OneOrderPerKey'
<1> SUFFICES ASSUME IntakeInv, [Next]_vars
             PROVE  Dense(orders') /\ OneOrderPerKey'
  OBVIOUS
<1>1. CASE UNCHANGED orders
  BY <1>1 DEF IntakeInv, OneOrderPerKey
<1>2. ASSUME NEW r \in Requests, InsertOrder(r)
      PROVE  Dense(orders') /\ OneOrderPerKey'
  BY <1>2, InsertTakesNextNumber
<1> QED
  BY <1>1, <1>2, TableStep

LEMMA NextSnapshotsOK == IntakeInv /\ [Next]_vars => SnapshotsOK'
<1> SUFFICES ASSUME IntakeInv, [Next]_vars,
                    NEW q \in Requests
             PROVE  snapshot'[q] \subseteq orders' /\ Dense(snapshot'[q])
  BY DEF SnapshotsOK
<1>1. snapshot \in [Requests -> SUBSET OrderRows]
  BY DEF IntakeInv, TypeOK
<1>2. \/ snapshot'[q] = snapshot[q]
      \/ snapshot'[q] = {}
      \/ snapshot'[q] = orders
  BY <1>1 DEF Next, Handle, Arrive, CheckDealer, LookUp, CheckSkus, Begin,
       AcquireLock, CountOrders, InsertOrder, InsertConflicts, Recover,
       WriteAudit, StatementFails, TimeOut, Crash, EditSku, SwitchDealer,
       NextDay, EndTransaction, vars
<1> QED
  BY <1>2, RowsStay, EmptyIsDense DEF IntakeInv, SnapshotsOK

(* A match found once is found for ever. *)
LEMMA MatchesStay ==
  ASSUME [Next]_vars, NEW body, NEW o \in Matching(orders, body)
  PROVE  o \in Matching(orders', body)
BY RowsStay DEF Matching

(* The locals, one step of each action.  The step belongs to a request r;  *)
(* the locals of every other request q are untouched.                      *)
LEMMA NextLocalsOK == IntakeInv /\ [Next]_vars => LocalsOK'
<1> SUFFICES ASSUME IntakeInv, [Next]_vars PROVE LocalsOK'
  OBVIOUS
<1> USE DEF LocalsOK, Goto, InTransaction
<1>0. TypeOK /\ LocalsOK
  BY DEF IntakeInv
<1>m. \A body, o : o \in Matching(orders, body) => o \in Matching(orders', body)
  BY MatchesStay
<1>1. ASSUME NEW r \in Requests, NEW body \in RequestBodies, Arrive(r, body)
      PROVE  LocalsOK'
  BY <1>0, <1>m, <1>1 DEF Arrive, TypeOK
<1>2. ASSUME NEW r \in Requests, CheckDealer(r) PROVE LocalsOK'
  BY <1>0, <1>m, <1>2 DEF CheckDealer, TypeOK, Reply
<1>3. ASSUME NEW r \in Requests, LookUp(r) PROVE LocalsOK'
  BY <1>0, <1>m, <1>3 DEF LookUp, TypeOK, Reply
<1>4. ASSUME NEW r \in Requests, CheckSkus(r) PROVE LocalsOK'
  <2>1. req[r].skus \in Baskets
    BY <1>0, <1>4 DEF CheckSkus, RequestBodies
  <2>2. [s \in req[r].skus |-> catalog.rate[s]] \in PriceLists
    BY <1>0, <2>1, PricedBasket DEF TypeOK
  <2> QED
    BY <1>0, <1>m, <1>4, <2>2 DEF CheckSkus, TypeOK, Reply
<1>5. ASSUME NEW r \in Requests, Begin(r) PROVE LocalsOK'
  BY <1>0, <1>m, <1>5 DEF Begin, TypeOK
<1>6. ASSUME NEW r \in Requests, AcquireLock(r) PROVE LocalsOK'
  BY <1>0, <1>m, <1>6 DEF AcquireLock, TypeOK
<1>7. ASSUME NEW r \in Requests, CountOrders(r) PROVE LocalsOK'
  <2>2. draft'[r] \in Drafts
    <3>1. draft'[r] = [day |-> today, number |-> NextNumber(snapshot[r], today)]
      BY <1>0, <1>7 DEF CountOrders, TypeOK
    <3>2. IsFiniteSet(OfDay(snapshot[r], today))
      BY FS_Subset DEF IntakeInv, SnapshotsOK, Dense, OfDay
    <3>3. NextNumber(snapshot[r], today) \in Nat \ {0}
      BY <3>2, FS_CardinalityType DEF NextNumber
    <3> QED
      BY <1>0, <3>1, <3>3 DEF TypeOK, Drafts
  <2>3. draft'[r].number = NextNumber(snapshot'[r], draft'[r].day)
    BY <1>0, <1>7 DEF CountOrders, TypeOK
  <2> QED
    BY <1>0, <1>m, <1>7, <2>2, <2>3 DEF CountOrders, TypeOK
<1>8. ASSUME NEW r \in Requests, InsertOrder(r) PROVE LocalsOK'
  <2>1. NewOrder(r) \in Matching(orders', req[r])
    BY <1>8 DEF InsertOrder, Matching, NewOrder
  <2> QED
    BY <1>0, <1>m, <1>8, <2>1 DEF InsertOrder, TypeOK, EndTransaction
<1>9. ASSUME NEW r \in Requests, InsertConflicts(r) PROVE LocalsOK'
  BY <1>0, <1>m, <1>9 DEF InsertConflicts, TypeOK, EndTransaction
<1>10. ASSUME NEW r \in Requests, Recover(r) PROVE LocalsOK'
  BY <1>0, <1>m, <1>10 DEF Recover, TypeOK, Reply
<1>11. ASSUME NEW r \in Requests, WriteAudit(r) PROVE LocalsOK'
  BY <1>0, <1>m, <1>11 DEF WriteAudit, TypeOK, Reply
<1>12. ASSUME NEW r \in Requests, StatementFails(r) PROVE LocalsOK'
  BY <1>0, <1>m, <1>12 DEF StatementFails, TypeOK, Reply, EndTransaction, Running
<1>13. ASSUME NEW r \in Requests, TimeOut(r) PROVE LocalsOK'
  BY <1>0, <1>m, <1>13 DEF TimeOut, TypeOK, Reply, Running
<1>14. ASSUME Crash PROVE LocalsOK'
  BY <1>0, <1>m, <1>14 DEF Crash, TypeOK, Running
<1>15. ASSUME UNCHANGED <<orders, pc, req, prices, snapshot, draft, result, answer>>
       PROVE  LocalsOK'
  BY <1>0, <1>m, <1>15
<1> QED
  BY <1>1, <1>2, <1>3, <1>4, <1>5, <1>6, <1>7, <1>8, <1>9, <1>10, <1>11,
     <1>12, <1>13, <1>14, <1>15
  DEF Next, Handle, EditSku, SwitchDealer, NextDay, vars

-----------------------------------------------------------------------------
LEMMA NextInv == IntakeInv /\ [Next]_vars => IntakeInv'
BY NextTypeOK, NextLocalsOK, NextSnapshotsOK, NextTableOK DEF IntakeInv

(* The inductive invariant holds for ever. *)
THEOREM IntakeInvariant == Spec => []IntakeInv
<1>1. Init => IntakeInv
  BY InitInv
<1>2. IntakeInv /\ [Next]_vars => IntakeInv'
  BY NextInv
<1> QED
  BY <1>1, <1>2, PTL DEF Spec

(* Every variable keeps its type. *)
THEOREM TypeCorrectness == Spec => []TypeOK
<1>1. IntakeInv => TypeOK
  BY DEF IntakeInv
<1> QED
  BY <1>1, IntakeInvariant, PTL

(* createOrder creates at most one order per idempotency key, however many *)
(* requests carry it and however they interleave, fail and crash.          *)
THEOREM KeysAreIdempotent == Spec => []OneOrderPerKey
<1>1. IntakeInv => OneOrderPerKey
  BY DEF IntakeInv
<1> QED
  BY <1>1, IntakeInvariant, PTL

(* countOrdersCreatedOn on a stale snapshot, together with the unique      *)
(* index on orderNumber, numbers the orders of each day 1..n.              *)
THEOREM DenseNumbering == Spec => []NumbersAreDense
<1>1. IntakeInv => NumbersAreDense
  BY DEF IntakeInv, Dense, NumbersAreDense
<1> QED
  BY <1>1, IntakeInvariant, PTL

(* All successful answers to one dealer's key show the same, committed     *)
(* order.                                                                  *)
THEOREM AgreeingAnswers == Spec => []AnswersAgree
<1>1. IntakeInv => AnswersAgree
  <2> SUFFICES ASSUME IntakeInv,
                      NEW r1 \in Requests, NEW r2 \in Requests,
                      answer[r1] # None, answer[r1].kind = "ok"
               PROVE  /\ IsOrderOf(answer[r1].order, req[r1])
                      /\ /\ answer[r2] # None /\ answer[r2].kind = "ok"
                         /\ req[r1].dealer = req[r2].dealer
                         /\ req[r1].key = req[r2].key
                         => answer[r1].order = answer[r2].order
    BY DEF AnswersAgree
  <2>1. answer[r1].order \in Matching(orders, req[r1])
    BY DEF IntakeInv, LocalsOK
  <2>2. answer[r2] # None /\ answer[r2].kind = "ok"
          => answer[r2].order \in Matching(orders, req[r2])
    BY DEF IntakeInv, LocalsOK
  <2> QED
    BY <2>1, <2>2 DEF IntakeInv, OneOrderPerKey, Matching, IsOrderOf
<1> QED
  BY <1>1, IntakeInvariant, PTL

-----------------------------------------------------------------------------
(* A price list that some state of the catalogue offered.                  *)
FromOneCatalog(p) ==
  \E c \in offered : /\ DOMAIN p \subseteq c.active
                     /\ \A s \in DOMAIN p : p[s] = c.rate[s]

(* The rates a request holds from its SKU check to its insert.             *)
PricesOffered ==
  /\ catalog \in offered
  /\ \A r \in Requests : pc[r] \in {"begin"} \cup InTransaction =>
                         FromOneCatalog(prices[r])
  /\ \A o \in orders : FromOneCatalog(o.prices)

LEMMA NextPricesOffered == IntakeInv /\ PricesOffered /\ [Next]_vars => PricesOffered'
<1> SUFFICES ASSUME IntakeInv, PricesOffered, [Next]_vars PROVE PricesOffered'
  OBVIOUS
<1>0. TypeOK /\ offered \subseteq offered'
  BY DEF IntakeInv, Next, Handle, Arrive, CheckDealer, LookUp, CheckSkus, Begin,
       AcquireLock, CountOrders, InsertOrder, InsertConflicts, Recover,
       WriteAudit, StatementFails, TimeOut, Crash, EditSku, SwitchDealer,
       NextDay, tables, vars
<1>1. \A p : FromOneCatalog(p) => FromOneCatalog(p)'
  BY <1>0 DEF FromOneCatalog
<1>2. catalog' \in offered'
  BY <1>0 DEF PricesOffered, Next, Handle, Arrive, CheckDealer, LookUp,
       CheckSkus, Begin, AcquireLock, CountOrders, InsertOrder,
       InsertConflicts, Recover, WriteAudit, StatementFails, TimeOut, Crash,
       EditSku, SwitchDealer, NextDay, tables, vars
<1>3. ASSUME NEW q \in Requests, pc'[q] \in {"begin"} \cup InTransaction
      PROVE  FromOneCatalog(prices[q])'
  <2>1. CASE prices'[q] = prices[q] /\ pc[q] \in {"begin"} \cup InTransaction
    <3>1. FromOneCatalog(prices[q])
      BY <2>1 DEF PricesOffered
    <3> QED
      BY <1>0, <2>1, <3>1 DEF FromOneCatalog
  <2>2. ASSUME CheckSkus(q) PROVE FromOneCatalog(prices[q])'
    <3>1. /\ req[q].skus \subseteq catalog.active
          /\ prices'[q] = [s \in req[q].skus |-> catalog.rate[s]]
      BY <1>0, <1>3, <2>2 DEF CheckSkus, Goto, InTransaction, TypeOK
    <3>2. catalog \in offered'
      BY <1>0 DEF PricesOffered
    <3> QED
      BY <3>1, <3>2 DEF FromOneCatalog
  <2>3. prices' = prices \/ \E r \in Requests : CheckSkus(r)
    BY DEF Next, Handle, Arrive, CheckDealer, LookUp, Begin, AcquireLock,
       CountOrders, InsertOrder, InsertConflicts, Recover, WriteAudit,
       StatementFails, TimeOut, Crash, EditSku, SwitchDealer, NextDay, vars
  <2>4. CASE ~CheckSkus(q)
    <3>1. ASSUME NEW r \in Requests, CheckSkus(r)
          PROVE  prices'[q] = prices[q] /\ pc'[q] = pc[q]
      BY <1>0, <2>4, <3>1 DEF CheckSkus, Goto, TypeOK
    <3>2. CASE \A r \in Requests : ~CheckSkus(r)
      <4>1. prices'[q] = prices[q]
        BY <2>3, <3>2
      <4>2. pc[q] \in {"begin"} \cup InTransaction
        <5> USE <1>0, <1>3 DEF Goto, InTransaction, TypeOK
        <5>1. ASSUME NEW r \in Requests, Begin(r) \/ AcquireLock(r) \/ CountOrders(r)
              PROVE  pc[q] \in {"begin"} \cup InTransaction
          BY <5>1 DEF Begin, AcquireLock, CountOrders
        <5>2. ASSUME NEW r \in Requests,
                     \E to \in {"dealer", "lookup", "skus", "recover", "audit"}
                              \cup Ended : Goto(r, to)
              PROVE  pc[q] \in {"begin"} \cup InTransaction
          BY <5>2 DEF Ended
        <5>3. ASSUME NEW r \in Requests, Handle(r)
              PROVE  pc[q] \in {"begin"} \cup InTransaction
          <6>1. CASE CheckDealer(r) \/ LookUp(r) \/ InsertOrder(r)
                       \/ InsertConflicts(r) \/ Recover(r) \/ WriteAudit(r)
            BY <5>2, <6>1, Zenon DEF CheckDealer, LookUp, InsertOrder,
               InsertConflicts, Recover, WriteAudit, Ended
          <6> QED
            BY <3>2, <5>1, <5>3, <6>1 DEF Handle
        <5>4. ASSUME NEW r \in Requests, NEW body \in RequestBodies,
                     Arrive(r, body)
              PROVE  pc[q] \in {"begin"} \cup InTransaction
          BY <5>4 DEF Arrive
        <5>5. ASSUME Crash PROVE pc[q] \in {"begin"} \cup InTransaction
          BY <5>5 DEF Crash, Running
        <5>6. ASSUME UNCHANGED pc PROVE pc[q] \in {"begin"} \cup InTransaction
          BY <5>6
        <5>7. ASSUME NEW r \in Requests, StatementFails(r) \/ TimeOut(r)
              PROVE  pc[q] \in {"begin"} \cup InTransaction
          BY <5>7 DEF StatementFails, TimeOut
        <5> QED
          BY <5>3, <5>4, <5>5, <5>6, <5>7
          DEF Next, EditSku, SwitchDealer, NextDay, vars
      <4> QED
        BY <2>1, <4>1, <4>2
    <3> QED
      BY <1>3, <2>1, <3>1, <3>2
  <2> QED
    BY <2>2, <2>4
<1>4. ASSUME NEW o \in orders' PROVE FromOneCatalog(o.prices)'
  <2>1. CASE o \in orders
    BY <1>1, <2>1 DEF PricesOffered
  <2>2. CASE o \notin orders
    <3>1. PICK r \in Requests : InsertOrder(r) /\ o = NewOrder(r)
      BY <1>4, <2>2, TableStep DEF InsertOrder
    <3>2. o.prices = prices[r] /\ FromOneCatalog(prices[r])
      BY <3>1 DEF InsertOrder, NewOrder, PricesOffered, InTransaction
    <3> QED
      BY <1>0, <3>2 DEF FromOneCatalog
  <2> QED
    BY <2>1, <2>2
<1> QED
  BY <1>2, <1>3, <1>4 DEF PricesOffered

(* The rates of an order are those of one state of the catalogue, although *)
(* createOrder reads them before its transaction.                          *)
THEOREM ConsistentPrices == Spec => []SoldFromOneCatalog
<1>1. Init => PricesOffered
  BY DEF Init, PricesOffered, InTransaction
<1>2. PricesOffered => SoldFromOneCatalog
  BY DEF PricesOffered, SoldFromOneCatalog, FromOneCatalog
<1> QED
  BY <1>1, <1>2, NextPricesOffered, IntakeInvariant, PTL DEF Spec

-----------------------------------------------------------------------------
(* AuditTrail with what its preservation needs: a request that wrote an    *)
(* audit row has arrived, so that its body does not change any more.       *)
LoggedOrOwned(o) ==
  \/ \E a \in audits : a.order = o
  \/ \E r \in Requests : result[r] = o /\ pc[r] \in {"audit", "failed", "lost"}

TrailInv ==
  /\ \A a \in audits : /\ a.by \in Requests /\ pc[a.by] # "idle"
                       /\ IsOrderOf(a.order, req[a.by])
  /\ \A o \in orders : LoggedOrOwned(o)

LEMMA NextTrailInv == IntakeInv /\ TrailInv /\ [Next]_vars => TrailInv'
<1> SUFFICES ASSUME IntakeInv, TrailInv, [Next]_vars PROVE TrailInv'
  OBVIOUS
<1>0. TypeOK /\ LocalsOK
  BY DEF IntakeInv
<1>1. \A r \in Requests : pc[r] # "idle" => pc'[r] # "idle" /\ req'[r] = req[r]
  BY <1>0 DEF Next, Handle, Arrive, CheckDealer, LookUp, CheckSkus, Begin,
       AcquireLock, CountOrders, InsertOrder, InsertConflicts, Recover,
       WriteAudit, StatementFails, TimeOut, Crash, EditSku, SwitchDealer,
       NextDay, Goto, Running, TypeOK, vars
<1>2. ASSUME NEW a \in audits'
      PROVE  /\ a.by \in Requests /\ pc'[a.by] # "idle"
             /\ IsOrderOf(a.order, req[a.by])'
  <2>1. CASE a \in audits
    BY <1>1, <2>1, RowsStay DEF TrailInv, IsOrderOf
  <2>2. CASE a \notin audits
    <3>1. PICK r \in Requests : WriteAudit(r) /\ a = [by |-> r, order |-> result[r]]
      BY <1>2, <2>2 DEF Next, Handle, Arrive, CheckDealer, LookUp, CheckSkus,
         Begin, AcquireLock, CountOrders, InsertOrder, InsertConflicts,
         Recover, WriteAudit, StatementFails, TimeOut, Crash, EditSku,
         SwitchDealer, NextDay, vars
    <3>2. pc[r] = "audit" /\ result[r] \in Matching(orders, req[r])
      BY <1>0, <3>1 DEF WriteAudit, LocalsOK
    <3> QED
      BY <1>1, <3>1, <3>2, RowsStay DEF IsOrderOf, Matching
  <2> QED
    BY <2>1, <2>2
<1>3. ASSUME NEW o \in orders' PROVE LoggedOrOwned(o)'
  <2>a. audits \subseteq audits'
    BY DEF Next, Handle, Arrive, CheckDealer, LookUp, CheckSkus, Begin,
       AcquireLock, CountOrders, InsertOrder, InsertConflicts, Recover,
       WriteAudit, StatementFails, TimeOut, Crash, EditSku, SwitchDealer,
       NextDay, vars
  <2>1. CASE o \notin orders
    <3>1. PICK r \in Requests : InsertOrder(r) /\ o = NewOrder(r)
      BY <1>3, <2>1, TableStep DEF InsertOrder
    <3>2. result'[r] = o /\ pc'[r] = "audit"
      BY <1>0, <3>1 DEF InsertOrder, Goto, TypeOK
    <3> QED
      BY <3>2 DEF LoggedOrOwned
  <2>2. CASE \E a \in audits : a.order = o
    BY <2>a, <2>2 DEF LoggedOrOwned
  <2>3. ASSUME NEW r \in Requests, result[r] = o, pc[r] \in {"audit", "failed", "lost"}
        PROVE  LoggedOrOwned(o)'
    <3>1. CASE WriteAudit(r)
      <4>1. [by |-> r, order |-> o] \in audits'
        BY <2>3, <3>1 DEF WriteAudit
      <4> QED
        BY <4>1 DEF LoggedOrOwned
    <3>2. CASE ~WriteAudit(r)
      <4>1. /\ result'[r] = result[r]
            /\ pc'[r] \in {"audit", "failed", "lost"}
        BY <1>0, <2>3, <3>2 DEF Next, Handle, Arrive, CheckDealer, LookUp,
           CheckSkus, Begin, AcquireLock, CountOrders, InsertOrder,
           InsertConflicts, Recover, WriteAudit, StatementFails, TimeOut,
           Crash, EditSku, SwitchDealer, NextDay, Goto, Running, TypeOK, vars
      <4> QED
        BY <2>3, <4>1 DEF LoggedOrOwned
    <3> QED
      BY <3>1, <3>2
  <2> QED
    BY <2>1, <2>2, <2>3 DEF TrailInv, LoggedOrOwned
<1> QED
  BY <1>2, <1>3 DEF TrailInv

(* The audit log of createOrder names committed orders of the acting       *)
(* request only, and misses an order only if its request has not come to   *)
(* the log yet, or failed or died before it.                               *)
THEOREM CompleteAuditTrail == Spec => []AuditTrail
<1>1. Init => TrailInv
  BY DEF Init, TrailInv
<1>2. TrailInv => AuditTrail
  BY DEF TrailInv, AuditTrail, LoggedOrOwned
<1> QED
  BY <1>1, <1>2, NextTrailInv, IntakeInvariant, PTL DEF Spec

-----------------------------------------------------------------------------
(* The instance of OrderLedger brings its own copy of FiniteSets. *)
LEMMA SameCardinality ==
  ASSUME NEW S PROVE Ledger!Cardinality(S) = Cardinality(S)
BY DEF Cardinality, Ledger!Cardinality

(* An insert is a Place step of the ledger. *)
LEMMA InsertIsPlace ==
  ASSUME IntakeInv, NEW r \in Requests, InsertOrder(r)
  PROVE  Ledger!Next
<1> DEFINE row == NewOrder(r)
<1>1. row \in OrderRows
  BY NewOrderType DEF InsertOrder
<1>2. \A o \in orders : o.key # row.key
  BY DEF InsertOrder, BreaksUniqueIndex
<1>3. row.number = Ledger!NextNumber(orders, row.day)
  BY InsertTakesNextNumber, SameCardinality
  DEF NextNumber, OfDay, Ledger!NextNumber, Ledger!OfDay
<1>4. row = [dealer |-> row.dealer, key |-> row.key, day |-> row.day,
             number |-> row.number, prices |-> row.prices]
  BY DEF NewOrder
<1>5. orders' = orders \cup {row}
  BY DEF InsertOrder
<1> HIDE DEF row
<1>6. Ledger!Place(row.dealer, row.key, row.day, row.prices)
  BY <1>2, <1>3, <1>4, <1>5 DEF Ledger!Place
<1> QED
  BY <1>1, <1>6 DEF Ledger!Next, OrderRows

(* Concurrent, failing, crashing intake implements the sequential ledger.  *)
THEOREM IntakeImplementsLedger == Spec => ImplementsLedger
<1>1. Init => Ledger!Init
  BY DEF Init, Ledger!Init
<1>2. IntakeInv /\ [Next]_vars => [Ledger!Next]_orders
  BY TableStep, InsertIsPlace
<1> QED
  BY <1>1, <1>2, IntakeInvariant, PTL DEF Spec, ImplementsLedger, Ledger!Spec
==============================================================================
