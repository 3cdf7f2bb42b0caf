---------------------------- MODULE OrderAmounts ----------------------------
(***************************************************************************)
(* The amounts of an order from the price list to the CSV: rates stored    *)
(* with two decimals, the gross amount, the discount Head Office enters,   *)
(* the preview it is shown, the net amount recorded, and the net amounts of *)
(* the CSV's rows.  Money is in cents; a rate as entered is in thousandths  *)
(* of the currency and a discount as entered in thousandths of a percent.   *)
(***************************************************************************)
EXTENDS Naturals, FiniteSets, Functions

CONSTANTS
  Items, Users,
  Rates,        \* rates entered, thousandths
  Quantities,   \* quantities of one item of a cart
  Discounts,    \* discounts entered, thousandths of a percent
  RoundedDown,  \* those of them whose double, times 100, is just below a half
  Null

ASSUME AmountsAssumption ==
  /\ Rates \subseteq Nat \ {0} /\ Quantities \subseteq Nat \ {0}
  /\ Discounts \subseteq Nat /\ RoundedDown \subseteq Discounts
  /\ \A t \in RoundedDown : t % 10 = 5
  /\ Null \notin Nat /\ IsFiniteSet(Items)

VARIABLES
  rate,         \* Sku.rate in cents, Null before the item exists
  lines,        \* Order.orderItems: quantity and rate of each SKU ordered
  orderStatus,  \* Order.status
  discount,     \* Order.discountPct in hundredths of a percent
  net,          \* Order.netAmount in cents
  sending,      \* the approval each user has under way: the discount, and the
                \* net amount its screen showed
  told,         \* users told that their approval succeeded
  approval,     \* history: the approval that was recorded
  rows          \* the net amounts in the CSV

amountVars == <<rate, lines, orderStatus, discount, net, sending, told, approval, rows>>

(* Math.round of n / d, and what numeric(12,2) and numeric(5,2) do. *)
Round(n, d) == (2 * n + d) \div (2 * d)

(* The whole amount, one hundred percent, in hundredths of a percent. *)
Whole == 10000

(* rate Decimal(12,2). *)
StoredRate(thousandths) == Round(thousandths, 10)

(* discountPct Decimal(5,2). *)
StoredDiscount(t) == Round(t, 10)

(* Bug variant: the third decimal is cut off. *)
BasisPointsCut(t) == t \div 10

(* Math.round(discountPct * 100). *)
BasisPoints(t) == IF t \in RoundedDown THEN t \div 10 ELSE Round(t, 10)

LineTotal(s) == lines[s].qty * lines[s].rate
LineTotals == [s \in DOMAIN lines |-> LineTotal(s)]
Gross == SumFunction(LineTotals)

NetOf(amount, basisPoints) == Round(amount * (Whole - basisPoints), Whole)

(* calculateNetPreview, of a draft that is a number. *)
NetPreview(t) ==
  NetOf(Gross, IF t \in RoundedDown THEN t \div 10 ELSE Round(t, 10))

-----------------------------------------------------------------------------
AmountsInit ==
  /\ rate = [s \in Items |-> Null]
  /\ lines = [s \in {} |-> Null] /\ orderStatus = "none"
  /\ discount = Null /\ net = Null
  /\ sending = [u \in Users |-> Null] /\ told = {} /\ approval = Null /\ rows = Null

(* upsertSkuSchema: a positive number; later orders use it. *)
SaveRate(s, thousandths) ==
  /\ thousandths > 0
  /\ rate' = [rate EXCEPT ![s] = StoredRate(thousandths)]
  /\ UNCHANGED <<lines, orderStatus, discount, net, sending, told, approval, rows>>

Line(quantity, at) == [qty |-> quantity, rate |-> at]

(* createOrder: one line for each SKU of the cart. *)
Submit(cart) ==
  /\ orderStatus = "none" /\ cart # {}
  /\ \A s \in cart : rate[s] # Null
  /\ orderStatus' = "pending"
  /\ \E qty \in [cart -> Quantities] :
       lines' = [s \in cart |-> Line(qty[s], rate[s])]
  /\ UNCHANGED <<rate, discount, net, sending, told, approval, rows>>

(* approveOrderSchema. *)
Acceptable(t) == t \in 0..10 * Whole

Approval(t, shown) == [discount |-> t, preview |-> shown]

(* Approve order, with the draft on the screen; an empty draft sends 0 and  *)
(* has no preview.                                                          *)
Press(u) ==
  /\ orderStatus # "none" /\ sending[u] = Null /\ u \notin told
  /\ \/ \E t \in Discounts :
          /\ Acceptable(t)
          /\ sending' = [sending EXCEPT ![u] = Approval(t, NetPreview(t))]
     \/ sending' = [sending EXCEPT ![u] = Approval(0, Null)]
  /\ UNCHANGED <<rate, lines, orderStatus, discount, net, told, approval, rows>>

(* approveOrder: records the amounts once; another approval is told of      *)
(* success all the same.                                                    *)
Approve(u) ==
  /\ sending[u] # Null /\ sending' = [sending EXCEPT ![u] = Null]
  /\ told' = told \cup {u}
  /\ IF orderStatus = "pending"
     THEN /\ orderStatus' = "approved"
          /\ discount' = StoredDiscount(sending[u].discount)
          /\ net' = NetOf(Gross, BasisPoints(sending[u].discount))
          /\ approval' = sending[u]
     ELSE UNCHANGED <<orderStatus, discount, net, approval>>
  /\ UNCHANGED <<rate, lines, rows>>

(* Bug variant: the fraction of a cent is cut off. *)
RowNetCut(s) == (LineTotal(s) * (Whole - discount)) \div Whole

(* NET_AMOUNT of a row. *)
RowNet(s) == NetOf(LineTotal(s), discount)

(* buildDeterministicCsv. *)
Export ==
  /\ orderStatus = "approved" /\ rows = Null
  /\ rows' = [s \in DOMAIN lines |-> RowNet(s)]
  /\ UNCHANGED <<rate, lines, orderStatus, discount, net, sending, told, approval>>

AmountsNext ==
  \/ \E s \in Items, thousandths \in Rates : SaveRate(s, thousandths)
  \/ \E cart \in SUBSET Items : Submit(cart)
  \/ \E u \in Users : Press(u) \/ Approve(u)
  \/ Export

AmountsSpec == AmountsInit /\ [][AmountsNext]_amountVars

-----------------------------------------------------------------------------
AmountsTypeOK ==
  /\ rate \in [Items -> Nat \cup {Null}]
  /\ DOMAIN lines \subseteq Items
  /\ orderStatus \in {"none", "pending", "approved"}
  /\ discount \in 0..Whole \cup {Null}
  /\ net \in 0..Gross \cup {Null}
  /\ \A u \in Users : sending[u] # Null =>
       Acceptable(sending[u].discount) /\ sending[u].preview \in 0..Gross \cup {Null}
  /\ told \subseteq Users /\ (rows # Null => DOMAIN rows = DOMAIN lines)

(* The net amount recorded is the one the screen had shown to whoever       *)
(* approved, though screen and server compute it on their own.              *)
PreviewHolds ==
  approval # Null => approval.preview \in {net, Null}

(* Every amount is in its range, and what was approved is what was shown.   *)
AmountsInv == AmountsTypeOK /\ PreviewHolds

(* The net amounts of the CSV's rows add up to the order's within half a    *)
(* cent for each row and for the order, exactly when there is one row,      *)
(* unless the discount was recorded rounded to another side than used.      *)
CsvAddsUp ==
  (rows # Null /\ approval.discount \notin RoundedDown) =>
    LET sum == SumFunction(rows)
        off == IF sum > net THEN sum - net ELSE net - sum IN
    IF Cardinality(DOMAIN rows) = 1 THEN off = 0
    ELSE 2 * off <= Cardinality(DOMAIN rows) + 1
=============================================================================
