--------------------------- MODULE OrderSubmission ---------------------------
(***************************************************************************)
(* The dealer's ordering page (DealerCatalogPage.tsx): quantity drafts,    *)
(* the cart, and the submission that empties the cart before it is sent    *)
(* and puts it back when it fails.  The server places or refuses what it   *)
(* gets (OrderIntake); its answer may be lost, and it may place an order   *)
(* after the page has given up waiting.                                    *)
(***************************************************************************)
EXTENDS Integers, Sequences, FiniteSets, Functions

CONSTANTS
  Skus,
  MaxQty,    \* the quantity createOrderSchema accepts
  MaxDraft,  \* bound: quantities typed, and the steps of the chips
  MaxCart,   \* bound: quantities in the cart
  MaxWanted,      \* bound: pieces of an SKU put into carts in all
  MaxSubmissions, \* bound
  Loss       \* whether answers may be lost

SubmissionAssumption ==
  /\ MaxQty \in Nat \ {0} /\ MaxDraft \in Nat /\ MaxCart \in Nat
  /\ MaxWanted \in Nat /\ MaxSubmissions \in Nat /\ Loss \in BOOLEAN

VARIABLES
  cart,       \* quantity of each SKU, 0 when it has no entry
  drafts,     \* qtyDrafts
  cartOpen,
  mine,       \* the submission this page waits for, 0 for none
  sent,       \* all submissions; the index stands for the idempotency key
  flying,     \* those the server may still handle
  placed,     \* those it made an order of
  awaited,    \* those whose answer is awaited, by this page or one left
  confirmed,  \* those answered with success
  wanted,     \* history: what the dealer has put into carts, less removals
  disturbed,  \* history: the cart was edited while a submission was pending,
              \* or the page was left
  lost        \* history: failed for the page, but not refused by the server

vars == <<cart, drafts, cartOpen, mine, sent, flying, placed, awaited, confirmed,
          wanted, disturbed, lost>>
network == <<sent, flying, placed, awaited, confirmed>>

Empty == [s \in Skus |-> 0]
Entries(c) == {s \in Skus : c[s] > 0}

-----------------------------------------------------------------------------
Init ==
  /\ cart = Empty /\ drafts = Empty /\ cartOpen = FALSE /\ mine = 0
  /\ sent = <<>> /\ flying = {} /\ placed = {} /\ awaited = {} /\ confirmed = {}
  /\ wanted = Empty /\ disturbed = FALSE /\ lost = {}

(* QuantityStepper: digits are typed, and one less is offered above zero. *)
Stepper(qty) == 0..MaxDraft \cup {qty + 1} \cup (IF qty > 0 THEN {qty - 1} ELSE {})

(* updateQtyDraft, stepQtyDraft. *)
EditDraft(s) ==
  /\ \E q \in Stepper(drafts[s]) :
       q <= MaxDraft /\ drafts' = [drafts EXCEPT ![s] = q]
  /\ UNCHANGED <<cart, cartOpen, mine, network, wanted, disturbed, lost>>

(* Every change of the cart by the dealer. *)
PutInCart(s, qty) ==
  /\ qty <= MaxCart
  /\ cart' = [cart EXCEPT ![s] = qty]
  /\ wanted' = [wanted EXCEPT ![s] = @ + qty - cart[s]]
  /\ wanted'[s] <= MaxWanted
  /\ disturbed' = (disturbed \/ mine # 0)
  /\ UNCHANGED <<mine, network, lost>>

(* handleAddToCart: the draft is added to the entry and cleared. *)
AddToCart(s) ==
  /\ drafts[s] > 0
  /\ PutInCart(s, cart[s] + drafts[s])
  /\ drafts' = [drafts EXCEPT ![s] = 0]
  /\ cartOpen' = TRUE

(* updateCartQty, stepCartQty: on an entry of the open cart; at zero it is  *)
(* deleted.                                                                 *)
EditCart(s) ==
  /\ cartOpen /\ s \in Entries(cart)
  /\ \E q \in Stepper(cart[s]) : PutInCart(s, q)
  /\ UNCHANGED <<drafts, cartOpen>>

ToggleCart ==
  /\ cartOpen' = ~cartOpen
  /\ UNCHANGED <<cart, drafts, mine, network, wanted, disturbed, lost>>

(* createOrderSchema. *)
Acceptable(c) == Entries(c) # {} /\ \A s \in Skus : c[s] <= MaxQty

(* Bug variant: the cart stays while its submission is pending. *)
CartAfterSubmit == cart

(* onMutate. *)
CartDuringSubmit == Empty

(* handleSubmitOrder and onMutate.  The button is in the open cart; it is   *)
(* disabled while the page waits, and no other page's waiting disables it.  *)
Submit ==
  /\ cartOpen /\ mine = 0 /\ Acceptable(cart)
  /\ Len(sent) < MaxSubmissions
  /\ sent' = Append(sent, cart)
  /\ mine' = Len(sent)'
  /\ flying' = flying \cup {mine'} /\ awaited' = awaited \cup {mine'}
  /\ cart' = CartDuringSubmit /\ cartOpen' = FALSE
  /\ UNCHANGED <<drafts, placed, confirmed, wanted, disturbed, lost>>

(* The server handles a submission, or it never gets there. *)
Handle(k) ==
  /\ k \in flying /\ flying' = flying \ {k}
  /\ placed' \in {placed, placed \cup {k}}
  /\ UNCHANGED <<cart, drafts, cartOpen, mine, sent, awaited, confirmed, wanted,
                 disturbed, lost>>

Settle(k) ==
  /\ awaited' = awaited \ {k}
  /\ mine' = IF mine = k THEN 0 ELSE mine

(* onSuccess: the cart is left as it is. *)
Succeed(k) ==
  /\ k \in awaited \cap placed
  /\ Settle(k)
  /\ confirmed' = confirmed \cup {k}
  /\ UNCHANGED <<cart, drafts, cartOpen, sent, flying, placed, wanted, disturbed, lost>>

(* Bug variant: what the dealer added since is doubled by what was sent. *)
RestoredTwice(k) == [s \in Skus |-> cart[s] + 2 * sent[k][s]]

(* onError: setCart(previousCart). *)
Restored(k) == sent[k]

(* A refusal or, if the answer is lost, a time-out.  A page that was left   *)
(* has no cart to restore.                                                  *)
Fail(k) ==
  /\ k \in awaited
  /\ Loss \/ k \notin flying \cup placed
  /\ Settle(k)
  /\ cart' = IF mine = k THEN Restored(k) ELSE cart
  /\ lost' = IF k \in flying \cup placed THEN lost \cup {k} ELSE lost
  /\ UNCHANGED <<drafts, cartOpen, sent, flying, placed, confirmed, wanted, disturbed>>

(* Another route is opened, or the page is loaded again: its state is gone, *)
(* the request is not.                                                      *)
Leave ==
  /\ cart' = Empty /\ drafts' = Empty /\ cartOpen' = FALSE /\ mine' = 0
  /\ disturbed' = TRUE
  /\ UNCHANGED <<network, wanted, lost>>

CatalogCard(s) == EditDraft(s) \/ AddToCart(s)

Drawer == Submit \/ \E s \in Skus : EditCart(s)

Next ==
  \/ \E s \in Skus : CatalogCard(s)
  \/ Drawer \/ ToggleCart \/ Leave
  \/ \E k \in DOMAIN sent : Handle(k) \/ Succeed(k) \/ Fail(k)

Spec == Init /\ [][Next]_vars

-----------------------------------------------------------------------------
Carts == [Skus -> Nat]
Keys == 1..Len(sent)

TypeOK ==
  /\ cart \in Carts /\ drafts \in Carts /\ wanted \in [Skus -> Int]
  /\ cartOpen \in BOOLEAN /\ disturbed \in BOOLEAN
  /\ sent \in Seq([Skus -> 0..MaxQty])
  /\ mine \in {0} \cup Keys /\ awaited \subseteq Keys /\ flying \subseteq Keys
  /\ confirmed \subseteq placed /\ placed \subseteq Keys /\ lost \subseteq Keys

(* How many of SKU s were sent with these submissions. *)
Quantities(s) == [k \in DOMAIN sent |-> sent[k][s]]
Pieces(s, submissions) == SumFunctionOnSet(Quantities(s), submissions)

(* No piece is on its way or confirmed that the dealer did not put into the *)
(* cart, and while the cart is left alone during submissions no piece is    *)
(* forgotten either: whatever is refused, lost and submitted again.         *)
Conservation ==
  \A s \in Skus :
    LET accounted == cart[s] + Pieces(s, awaited \cup confirmed) IN
    /\ accounted <= wanted[s]
    /\ ~disturbed => accounted = wanted[s]

(* The server has orders for more than the dealer put into the cart, and    *)
(* has not removed or still keeps there, only by the submissions that the   *)
(* page took for failed while they were not refused (each has a key of its  *)
(* own, so the server cannot tell a repetition).                            *)
ExcessFollowsLoss ==
  \A s \in Skus : cart[s] + Pieces(s, placed \ lost) <= wanted[s]

(* The button is disabled only as long as an answer can still come.         *)
WaitsForAnswer == mine # 0 => mine \in awaited
=============================================================================
