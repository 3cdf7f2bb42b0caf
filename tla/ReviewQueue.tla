----------------------------- MODULE ReviewQueue -----------------------------
(***************************************************************************)
(* Head Office's order queue (HeadOfficeOrdersPage.tsx): tabs and pages of *)
(* a list that is counted and read by two queries, approvals, rejections   *)
(* with remarks, and downloads that wait for the CSV.  Dealers place       *)
(* orders and other users decide them meanwhile.  The server's part is     *)
(* ExportPipeline; of it only its answers are left here.                   *)
(***************************************************************************)
EXTENDS Naturals, Sequences, SequencesExt, FiniteSets

CONSTANTS
  MaxOrders,  \* bound
  Tabs,       \* the tabs that are opened
  PageSize,
  Attempts,   \* of waitForExport
  MaxJobs,    \* bound: downloads prepared at the same time
  None

QueueAssumption ==
  /\ Tabs \subseteq {"pending", "approved", "rejected"} /\ "pending" \in Tabs
  /\ MaxOrders \in Nat /\ PageSize \in Nat \ {0} /\ Attempts \in Nat \ {0}
  /\ MaxJobs \in Nat /\ None \notin Nat

VARIABLES
  status,     \* of each order, at the server
  remarkOf,   \* history: whose remarks a rejected order got
  tab, page,  \* what the screen asks for
  data,       \* the answer it shows, of this or an earlier page
  fetch,      \* the request for the list
  approve,    \* the approval under way
  dialog,     \* rejectingOrder
  remarks,    \* the order whose dialog rejectRemarks were typed in
  reject,     \* the rejection under way
  jobs,       \* downloads being prepared: order and polls left
  busy,       \* downloadingOrderId
  decided,    \* history: orders this screen was told it has decided
  moved,      \* history: a decision was under way during a first request for a page
  kept        \* history: a dialog with remarks was cancelled

vars == <<status, remarkOf, tab, page, data, fetch, approve, dialog,
          remarks, reject, jobs, busy, decided, moved, kept>>
server == <<status, remarkOf>>
list == <<tab, page, data, fetch>>
decision == <<approve, dialog, remarks, reject>>
downloads == <<jobs, busy>>
history == <<decided, moved, kept>>

Orders == 1..MaxOrders
Statuses == {"pending", "approved", "rejected"}
NoCall == [at |-> "none", order |-> None, remarks |-> None]
Call(o, r) == [at |-> "sent", order |-> o, remarks |-> r]

(* listHeadOfficeOrders: newest first, skip and take.  A page is the set of *)
(* its orders: those with so many newer ones that p - 1 pages precede them. *)
Matching(t) == {o \in Orders : status[o] = t}
Newer(S, o) == {n \in S : n > o}

PageOf(S, p) ==
  {o \in S : Cardinality(Newer(S, o)) \in ((p - 1) * PageSize)..(p * PageSize - 1)}

(* buildPaginationMeta. *)
TotalPages(total) == (total + PageSize - 1) \div PageSize

Rows(t) == {o \in data.items : data.tab = t}

-----------------------------------------------------------------------------
NoFetch == [at |-> "idle", tab |-> "pending", page |-> 1, items |-> {}, total |-> 0,
            read |-> FALSE, counted |-> FALSE, first |-> FALSE]
Asked(t, p, first) ==
  [NoFetch EXCEPT !.at = "sent", !.tab = t, !.page = p, !.first = first]

FirstFetch == fetch.at = "sent" /\ fetch.first

Init ==
  /\ status = [o \in Orders |-> "unplaced"] /\ remarkOf = [o \in Orders |-> None]
  /\ tab = "pending" /\ page = 1
  /\ data = [tab |-> "pending", page |-> 1, items |-> {}, total |-> 0]
  /\ fetch = Asked("pending", 1, TRUE)
  /\ approve = NoCall /\ dialog = None /\ remarks = None /\ reject = NoCall
  /\ jobs = <<>> /\ busy = None
  /\ decided = {} /\ moved = FALSE /\ kept = FALSE

(* Dealers and other users. *)
Place(o) ==
  /\ status[o] = "unplaced" /\ \A other \in 1..(o - 1) : status[other] # "unplaced"
  /\ status' = [status EXCEPT ![o] = "pending"]
  /\ UNCHANGED <<remarkOf, list, decision, downloads, history>>

OtherDecides(o) ==
  /\ status[o] = "pending"
  /\ \E t \in {"approved", "rejected"} : status' = [status EXCEPT ![o] = t]
  /\ UNCHANGED <<remarkOf, list, decision, downloads, history>>

Opens(t, p) ==
  /\ tab' = t /\ page' = p /\ fetch' = Asked(t, p, TRUE)
  /\ moved' = (moved \/ approve # NoCall \/ reject # NoCall)
  /\ UNCHANGED <<server, data, decision, downloads, decided, kept>>

(* A tab; an effect sets the page to 1. *)
SelectTab(t) == dialog = None /\ t # tab /\ Opens(t, 1)

(* PaginationBar, below a list that is not empty; its numbers are those of  *)
(* the answer shown.                                                        *)
Turn ==
  /\ dialog = None /\ data.items # {}
  /\ \E p \in {data.page - 1, data.page + 1} :
       /\ p \in 1..TotalPages(data.total) /\ p # page
       /\ Opens(tab, p)

(* Promise.all: the page and the count are read one after the other. *)
ServeItems ==
  /\ fetch.at = "sent" /\ ~fetch.read
  /\ fetch' = [fetch EXCEPT !.read = TRUE, !.items = PageOf(Matching(fetch.tab), fetch.page)]
  /\ UNCHANGED <<server, tab, page, data, decision, downloads, history>>

ServeCount ==
  /\ fetch.at = "sent" /\ ~fetch.counted
  /\ fetch' = [fetch EXCEPT !.counted = TRUE, !.total = Cardinality(Matching(fetch.tab))]
  /\ UNCHANGED <<server, tab, page, data, decision, downloads, history>>

Receive ==
  /\ fetch.at = "sent" /\ fetch.read /\ fetch.counted
  /\ data' = [tab |-> fetch.tab, page |-> fetch.page, items |-> fetch.items, total |-> fetch.total]
  /\ fetch' = NoFetch
  /\ UNCHANGED <<server, tab, page, decision, downloads, history>>

(* Opened again after the cached answer went stale, or reloaded. *)
Reload ==
  /\ fetch.at = "idle" /\ fetch' = Asked(tab, page, FALSE)
  /\ UNCHANGED <<server, tab, page, data, decision, downloads, history>>

(* Bug variant: the list is left as it is. *)
NotRefetched == fetch

(* invalidateQueries: the request under way is given up for a new one; the  *)
(* first one for a page, which has nothing to show yet, is not.             *)
Refetched ==
  IF FirstFetch THEN fetch ELSE Asked(tab, page, FALSE)

-----------------------------------------------------------------------------
(* Approve: the buttons of all rows wait for the approval under way. *)
Approve(o) ==
  /\ dialog = None /\ approve = NoCall /\ o \in Rows("pending")
  /\ approve' = Call(o, None) /\ moved' = (moved \/ FirstFetch)
  /\ UNCHANGED <<server, list, dialog, remarks, reject, downloads, decided, kept>>

(* approveOrder: also an order that is approved already; an answer may be   *)
(* lost.                                                                    *)
ServeApprove ==
  /\ approve.at = "sent"
  /\ \/ /\ status[approve.order] \in {"pending", "approved"}
        /\ status' = [status EXCEPT ![approve.order] = "approved"]
        /\ \E at \in {"done", "failed"} : approve' = [approve EXCEPT !.at = at]
     \/ approve' = [approve EXCEPT !.at = "failed"] /\ UNCHANGED status
  /\ UNCHANGED <<remarkOf, list, dialog, remarks, reject, downloads, history>>

Job(o, left, download) == [order |-> o, left |-> left, download |-> download]
HasRoom == Len(jobs) < MaxJobs

(* onSuccess: the CSV is ready already, or waited for. *)
Approved ==
  /\ approve.at = "done" /\ approve' = NoCall
  /\ fetch' = Refetched
  /\ decided' = decided \cup {approve.order}
  /\ \/ UNCHANGED jobs
     \/ HasRoom /\ jobs' = Append(jobs, Job(approve.order, Attempts, FALSE))
  /\ UNCHANGED <<server, tab, page, data, dialog, remarks, reject, busy, moved, kept>>

ApproveFails ==
  /\ approve.at = "failed" /\ approve' = NoCall
  /\ UNCHANGED <<server, list, dialog, remarks, reject, downloads, history>>

-----------------------------------------------------------------------------
(* Reject: the dialog of this order. *)
OpenReject(o) ==
  /\ dialog = None /\ approve = NoCall /\ o \in Rows("pending")
  /\ dialog' = o
  /\ UNCHANGED <<server, list, approve, remarks, reject, downloads, history>>

TypeRemarks ==
  /\ dialog # None /\ remarks' = dialog
  /\ UNCHANGED <<server, list, approve, dialog, reject, downloads, history>>

Cancels == reject = NoCall

(* Cancel, or a click beside the dialog: what was typed stays. *)
CancelReject ==
  /\ dialog # None /\ Cancels /\ dialog' = None
  /\ kept' = (kept \/ remarks # None)
  /\ UNCHANGED <<server, list, approve, remarks, reject, downloads, decided, moved>>

ConfirmReject ==
  /\ dialog # None /\ reject = NoCall
  /\ reject' = Call(dialog, remarks) /\ moved' = (moved \/ FirstFetch)
  /\ UNCHANGED <<server, list, approve, dialog, remarks, downloads, decided, kept>>

(* rejectOrder. *)
ServeReject ==
  /\ reject.at = "sent"
  /\ \/ /\ status[reject.order] \in {"pending", "rejected"}
        /\ status' = [status EXCEPT ![reject.order] = "rejected"]
        /\ remarkOf' = IF status[reject.order] = "rejected" THEN remarkOf
                       ELSE [remarkOf EXCEPT ![reject.order] = reject.remarks]
        /\ \E at \in {"done", "failed"} : reject' = [reject EXCEPT !.at = at]
     \/ reject' = [reject EXCEPT !.at = "failed"] /\ UNCHANGED <<status, remarkOf>>
  /\ UNCHANGED <<list, approve, dialog, remarks, downloads, history>>

(* Bug variant: the remarks stay. *)
RemarksAsTyped == remarks

RemarksAfterReject == None

Rejected ==
  /\ reject.at = "done" /\ reject' = NoCall
  /\ dialog' = None /\ remarks' = RemarksAfterReject
  /\ fetch' = Refetched
  /\ decided' = decided \cup {reject.order}
  /\ UNCHANGED <<server, tab, page, data, approve, downloads, moved, kept>>

RejectFails ==
  /\ reject.at = "failed" /\ reject' = NoCall
  /\ UNCHANGED <<server, list, approve, dialog, remarks, downloads, history>>

-----------------------------------------------------------------------------
(* downloadExport: one request, then waitForExport. *)
Download(o) ==
  /\ dialog = None /\ HasRoom /\ o \in Rows("approved") /\ busy # o
  /\ busy' = o /\ jobs' = Append(jobs, Job(o, Attempts + 1, TRUE))
  /\ UNCHANGED <<server, list, decision, history>>

(* Bug variant: only a download that succeeded makes its button usable.     *)
BusyUnlessReady(j, ready) == IF ready /\ busy = jobs[j].order THEN None ELSE busy

(* finally: the button is this download's, unless another took its place. *)
BusyAfter(j, ready) == IF busy = jobs[j].order THEN None ELSE busy

(* A poll: another attempt, or the end: the link, no attempts left, or an   *)
(* error.  Whether the CSV is ready is ExportPipeline's to say.             *)
Poll(j) ==
  LET job == jobs[j] IN
  /\ \/ /\ job.left > 1
        /\ jobs' = [jobs EXCEPT ![j].left = @ - 1] /\ UNCHANGED busy
     \/ /\ jobs' = RemoveAt(jobs, j)
        /\ \E ready \in BOOLEAN : busy' = IF job.download THEN BusyAfter(j, ready) ELSE busy
  /\ UNCHANGED <<server, list, decision, history>>

Answered ==
  \/ ServeItems \/ ServeCount \/ Receive
  \/ ServeApprove \/ Approved \/ ApproveFails \/ ServeReject \/ Rejected \/ RejectFails

Next ==
  \/ \E o \in Orders : Place(o) \/ OtherDecides(o) \/ Approve(o)
                        \/ OpenReject(o) \/ Download(o)
  \/ \E t \in Tabs : SelectTab(t)
  \/ Turn \/ Reload \/ TypeRemarks \/ CancelReject \/ ConfirmReject \/ Answered
  \/ \E j \in DOMAIN jobs : Poll(j)

Spec == Init /\ [][Next]_vars

-----------------------------------------------------------------------------
Lists == [tab : Tabs, page : Nat \ {0}, items : SUBSET Orders, total : 0..MaxOrders]
Fetches == [at : {"idle", "sent"}, tab : Tabs, page : Nat \ {0}, items : SUBSET Orders,
            total : 0..MaxOrders, read : BOOLEAN, counted : BOOLEAN, first : BOOLEAN]
Calls == [at : {"none", "sent", "done", "failed"}, order : Orders \cup {None},
          remarks : Orders \cup {None}]

TypeOK ==
  /\ status \in [Orders -> Statuses \cup {"unplaced"}]
  /\ remarkOf \in [Orders -> Orders \cup {None}]
  /\ tab \in Tabs /\ page \in 1..(TotalPages(MaxOrders) + 1)
  /\ data \in Lists /\ Cardinality(data.items) <= PageSize
  /\ fetch \in Fetches /\ Cardinality(fetch.items) <= PageSize
  /\ approve \in Calls /\ reject \in Calls
  /\ dialog \in Orders \cup {None} /\ remarks \in Orders \cup {None}
  /\ jobs \in Seq([order : Orders, left : 1..(Attempts + 1), download : BOOLEAN])
  /\ busy \in Orders \cup {None}
  /\ decided \subseteq Orders /\ moved \in BOOLEAN /\ kept \in BOOLEAN

(* While a rejection is under way its own dialog is the one that is open,   *)
(* so the answer closes no other and erases no other's remarks.             *)
DialogAwaitsItsAnswer == reject # NoCall => dialog = reject.order

(* An order is rejected with remarks typed for another only if that one's   *)
(* dialog was cancelled with them.                                          *)
RemarksFollowCancel ==
  \A o \in Orders : remarkOf[o] \notin {None, o} => kept

(* What this screen was told it has decided it no longer offers as pending, *)
(* once its list is at rest; but a page first asked for before the decision *)
(* was answered may.                                                        *)
OwnDecisionsShow ==
  fetch.at = "idle" /\ ~moved => decided \cap Rows("pending") = {}

(* A download's button is disabled only while that download waits for its  *)
(* CSV; the wait ends, for its attempts are counted.                        *)
BusyIsWaiting ==
  busy # None => \E j \in DOMAIN jobs : jobs[j].download /\ jobs[j].order = busy
=============================================================================
