-------------------------------- MODULE Screens --------------------------------
(***************************************************************************)
(* The pages with forms of their own, as router.tsx offers them: a dealer  *)
(* is on the ordering page (OrderSubmission), Head Office on the order     *)
(* queue (ReviewQueue) or on one of the master data pages (MasterDialog).  *)
(* One page is shown at a time, and the pages share no state; what the     *)
(* user does on one leaves the others in their first state.                *)
(***************************************************************************)
EXTENDS MasterDialog

CONSTANTS
  Skus, MaxQty, MaxDraft, MaxCart, MaxWanted, MaxSubmissions, Loss,  \* OrderSubmission
  MaxOrders, Tabs, PageSize, Attempts, MaxJobs                       \* ReviewQueue

VARIABLES
  route,
  cart, drafts, cartOpen, mine, sent, flying, placed, awaited, confirmed,
  wanted, disturbed, lost,
  status, remarkOf, tab, page, data, fetch, approve, rejecting,
  remarks, reject, jobs, busy, decided, moved, kept

Catalog == INSTANCE OrderSubmission
Queue == INSTANCE ReviewQueue WITH dialog <- rejecting

ASSUME ScreensAssumption == Catalog!SubmissionAssumption /\ Queue!QueueAssumption

catalogVars == <<cart, drafts, cartOpen, mine, sent, flying, placed, awaited, confirmed,
                 wanted, disturbed, lost>>
queueVars == <<status, remarkOf, tab, page, data, fetch, approve, rejecting,
               remarks, reject, jobs, busy, decided, moved, kept>>
allVars == <<route, vars, catalogVars, queueVars>>

Routes == {"/dealer/catalog", "/head-office/orders", "/head-office/masters"}

-----------------------------------------------------------------------------
ScreensInit ==
  /\ route \in Routes
  /\ Init /\ Catalog!Init /\ Queue!Init
  /\ route # "/head-office/masters" => Existing(stored) = {}

OnCatalog ==
  /\ route = "/dealer/catalog" /\ Catalog!Next
  /\ UNCHANGED <<route, vars, queueVars>>

OnOrders ==
  /\ route = "/head-office/orders" /\ Queue!Next
  /\ UNCHANGED <<route, vars, catalogVars>>

OnMasters ==
  /\ route = "/head-office/masters" /\ Next
  /\ UNCHANGED <<route, catalogVars, queueVars>>

ScreensNext == OnCatalog \/ OnOrders \/ OnMasters

ScreensSpec == ScreensInit /\ [][ScreensNext]_allVars

-----------------------------------------------------------------------------
(* Every variable of the pages has its type. *)
ScreensTypeOK == route \in Routes /\ TypeOK /\ Catalog!TypeOK /\ Queue!TypeOK

(* What a page shows as under way is: the submit button waits for an answer *)
(* that can come, the dialog of a rejection stays open until its answer, a  *)
(* busy download button belongs to a wait, and an open dialog saves into    *)
(* the record it was opened for.                                            *)
PagesInv ==
  /\ ScreensTypeOK
  /\ Catalog!WaitsForAnswer
  /\ Queue!DialogAwaitsItsAnswer /\ Queue!BusyIsWaiting
  /\ DialogKeepsItsRecord

(* The ordering page: handleSubmitOrder's onMutate, onError and onSuccess.  *)
(* What goes into the cart is neither multiplied nor, left alone, lost.     *)
Conservation == Catalog!Conservation

(* The ordering page and the server together: more than the cart ever held  *)
(* is ordered only after an answer was lost.                                *)
ExcessFollowsLoss == Catalog!ExcessFollowsLoss

(* The order queue: remarks reach another order only after Cancel kept them.*)
RemarksFollowCancel == Queue!RemarksFollowCancel

(* The order queue at rest does not offer what it has decided.              *)
OwnDecisionsShow == Queue!OwnDecisionsShow
=============================================================================
