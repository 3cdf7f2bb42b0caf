---------------------------- MODULE ExportPipeline ----------------------------
(***************************************************************************)
(* HeadOfficeService on existing orders: approval, rejection, the export   *)
(* status request, the download, and the ERP export that InMemoryTaskQueue *)
(* runs in the background of the same Node process.  Each Head Office HTTP *)
(* request and the queue's current task are processes that interleave at   *)
(* every await.  Statements fail, the process crashes (its queue is only   *)
(* in memory; the database keeps what was committed), and dealers and SKUs *)
(* are renamed between two generations of a file.                          *)
(***************************************************************************)
EXTENDS Naturals, Sequences

CONSTANTS
  Orders,       \* orders that intake has committed
  Callers,      \* concurrent Head Office requests
  MaxVersions,  \* bound: states of the dealer and SKU names a CSV shows
  MaxFaults,    \* bound: failing statements
  MaxCrashes,   \* bound: crashes, restarts and shutdowns of the process
  None          \* null

ASSUME BoundsAssumption ==
  MaxVersions \in Nat \ {0} /\ MaxFaults \in Nat /\ MaxCrashes \in Nat

ASSUME NoneAssumption == None \notin Orders /\ None \notin Nat

VARIABLES
  status,     \* Order.status
  export,     \* ExportHistory row of each order, state "NONE" when absent
  audits,     \* AuditLog rows
  downloads,  \* the files handed out for each order
  master,     \* version of the names and codes printed into a CSV
  pc,         \* where each request's handler stands
  call,       \* its order, the status it read, the file it read
  queue,      \* orders whose task waits in the promise chain, oldest first
  job,        \* the running task: its order, where it stands, its CSV
  faults, crashes,  \* how many there have been
  cut         \* history: orders whose task was lost after its claim

database == <<status, export, audits, downloads>>
calls == <<pc, call>>
work == <<queue, job>>
trouble == <<faults, crashes, cut>>
vars == <<status, export, audits, downloads, master, pc, call, queue, job,
          faults, crashes, cut>>

OrderStatuses == {"PENDING", "APPROVED", "REJECTED"}
ExportStates == {"PENDING", "PROCESSING", "COMPLETED", "FAILED"}
Versions == 1..MaxVersions
Files == Versions \cup {None}
ExportRows == [state : ExportStates \cup {"NONE"}, file : Files]
AuditActions == {"ORDER_APPROVED", "ORDER_REJECTED", "EXPORT_GENERATED",
                 "EXPORT_DOWNLOADED"}
CallPoints == {"idle", "approve", "logApproval", "reject", "logRejection",
               "upsert", "reset", "enqueue", "deliver"}
JobPoints == {"idle", "claim", "reread", "build", "store", "log", "fail"}

NoCall == [order |-> None, seen |-> None, file |-> None]
NoJob == [order |-> None, at |-> "idle", csv |-> None]

Goto(c, to) == pc' = [pc EXCEPT ![c] = to]

StartCall(c, o, seen, file, to) ==
  /\ pc[c] = "idle"
  /\ call' = [call EXCEPT ![c] = [order |-> o, seen |-> seen, file |-> file]]
  /\ Goto(c, to)

EndCall(c) == Goto(c, "idle") /\ call' = [call EXCEPT ![c] = NoCall]

Log(action, o, by) ==
  audits' = audits \cup {[action |-> action, order |-> o, by |-> by]}

SetState(o, state) == export' = [export EXCEPT ![o].state = state]

(* Bug variant: the UPDATE of the upsert starts the export anew. *)
UpsertAnew(o) == export' = [export EXCEPT ![o].state = "PENDING"]

(* upsertExportRecord: create a PENDING row, or leave the one there is. *)
Upsert(o) ==
  export' = [export EXCEPT ![o].state = IF @ = "NONE" THEN "PENDING" ELSE @]

(* inFlight.keys(): the waiting tasks and the running one. *)
InFlight == {queue[i] : i \in 1..Len(queue)} \cup ({job.order} \ {None})

-----------------------------------------------------------------------------
Init ==
  /\ status = [o \in Orders |-> "PENDING"]
  /\ export = [o \in Orders |-> [state |-> "NONE", file |-> None]]
  /\ audits = {}
  /\ downloads = [o \in Orders |-> {}]
  /\ master = 1
  /\ pc = [c \in Callers |-> "idle"]
  /\ call = [c \in Callers |-> NoCall]
  /\ queue = <<>> /\ job = NoJob
  /\ faults = 0 /\ crashes = 0 /\ cut = {}

(* approveOrder, transaction opened: its snapshot is the order as read.    *)
(* A rejected order is refused with 400 and nothing changes.               *)
ApproveRead(c, o) ==
  /\ status[o] # "REJECTED"
  /\ StartCall(c, o, status[o], None, "approve")
  /\ UNCHANGED <<database, master, work, trouble>>

(* Bug variant: every committed approval is logged, repeated ones included. *)
ApproveCommitLogged(c) ==
  LET o == call[c].order IN
  /\ pc[c] = "approve"
  /\ call[c].seen = status[o]
  /\ status' = [status EXCEPT ![o] = "APPROVED"]
  /\ Goto(c, "logApproval")
  /\ Upsert(o)
  /\ UNCHANGED <<audits, downloads, master, call, work, trouble>>

(* The transaction commits: the pending order and its export row together; *)
(* or, approved before, only an upsert and no audit row.                   *)
ApproveCommit(c) ==
  LET o == call[c].order IN
  /\ pc[c] = "approve"
  /\ \/ /\ call[c].seen = "PENDING" /\ status[o] = "PENDING"
        /\ status' = [status EXCEPT ![o] = "APPROVED"]
        /\ Goto(c, "logApproval")
     \/ /\ call[c].seen = "APPROVED"
        /\ Goto(c, "enqueue")
        /\ UNCHANGED status
  /\ Upsert(o)
  /\ UNCHANGED <<audits, downloads, master, call, work, trouble>>

(* SERIALIZABLE: the row changed after the snapshot, P2034, answer 409.    *)
WriteConflict(c) ==
  /\ pc[c] \in {"approve", "reject"}
  /\ call[c].seen = "PENDING" /\ status[call[c].order] # "PENDING"
  /\ EndCall(c)
  /\ UNCHANGED <<database, master, work, trouble>>

LogApproval(c) ==
  /\ pc[c] = "logApproval"
  /\ Log("ORDER_APPROVED", call[c].order, c)
  /\ Goto(c, "enqueue")
  /\ UNCHANGED <<status, export, downloads, master, call, work, trouble>>

(* rejectOrder: an approved order is refused with 409.                     *)
RejectRead(c, o) ==
  /\ status[o] # "APPROVED"
  /\ StartCall(c, o, status[o], None, "reject")
  /\ UNCHANGED <<database, master, work, trouble>>

(* A pending order is rejected; one rejected before is returned as it is.  *)
RejectCommit(c) ==
  /\ pc[c] = "reject"
  /\ status[call[c].order] = call[c].seen
  /\ status' = [status EXCEPT ![call[c].order] = "REJECTED"]
  /\ Goto(c, "logRejection")
  /\ UNCHANGED <<export, audits, downloads, master, call, work, trouble>>

(* The audit row is written in either case. *)
LogRejection(c) ==
  /\ pc[c] = "logRejection"
  /\ Log("ORDER_REJECTED", call[c].order, c)
  /\ EndCall(c)
  /\ UNCHANGED <<status, export, downloads, master, work, trouble>>

(* enqueueExport and the answer: a key in flight gets no second task.      *)
Enqueue(c) ==
  /\ pc[c] = "enqueue"
  /\ queue' = IF call[c].order \in InFlight THEN queue
                                            ELSE Append(queue, call[c].order)
  /\ EndCall(c)
  /\ UNCHANGED <<database, master, job, trouble>>

(* getOrderExport: 400 unless the order is approved.                       *)
PollRead(c, o) ==
  /\ status[o] = "APPROVED"
  /\ StartCall(c, o, None, None, "upsert")
  /\ UNCHANGED <<database, master, work, trouble>>

(* The row it upserts decides what it does in the next statements.         *)
PollUpsert(c) ==
  LET o == call[c].order
      state == export'[o].state
  IN
  /\ pc[c] = "upsert"
  /\ Upsert(o)
  /\ \/ state = "FAILED" /\ Goto(c, "reset") /\ UNCHANGED call
     \/ state = "PENDING" /\ Goto(c, "enqueue") /\ UNCHANGED call
     \/ state \in {"PROCESSING", "COMPLETED"} /\ EndCall(c)
  /\ UNCHANGED <<status, audits, downloads, master, work, trouble>>

(* The retry of a FAILED export, on the status read one await ago.         *)
PollReset(c) ==
  /\ pc[c] = "reset"
  /\ SetState(call[c].order, "PENDING")
  /\ Goto(c, "enqueue")
  /\ UNCHANGED <<status, audits, downloads, master, call, work, trouble>>

(* getDownloadableExport: whatever the state, if there is a file.  The     *)
(* stored sha256 is written with the file, so the check on it passes.      *)
DownloadRead(c, o) ==
  /\ export[o].file # None
  /\ StartCall(c, o, None, export[o].file, "deliver")
  /\ UNCHANGED <<database, master, work, trouble>>

(* markExportDownloaded, the audit row, and the file it read is sent.      *)
Deliver(c) ==
  LET o == call[c].order IN
  /\ pc[c] = "deliver"
  /\ downloads' = [downloads EXCEPT ![o] = @ \cup {call[c].file}]
  /\ Log("EXPORT_DOWNLOADED", o, None)
  /\ EndCall(c)
  /\ UNCHANGED <<status, export, master, work, trouble>>

-----------------------------------------------------------------------------
(* The next task of the chain starts: generateExport. *)
StartJob ==
  /\ job.at = "idle" /\ queue # <<>>
  /\ job' = [order |-> Head(queue), at |-> "claim", csv |-> None]
  /\ queue' = Tail(queue)
  /\ UNCHANGED <<database, master, calls, trouble>>

JobGoto(to) == job' = [job EXCEPT !.at = to]

(* Bug variant: a claim that gives up when the UPDATE changed no row.      *)
ClaimOrLeave ==
  /\ job.at = "claim"
  /\ IF export[job.order].state \in {"PENDING", "FAILED"}
       THEN SetState(job.order, "PROCESSING") /\ JobGoto("reread")
       ELSE job' = NoJob /\ UNCHANGED export
  /\ UNCHANGED <<status, audits, downloads, master, calls, queue, trouble>>

(* claimExportForProcessing, the conditional UPDATE ...                    *)
Claim ==
  /\ job.at = "claim"
  /\ export' = [export EXCEPT ![job.order].state =
                  IF @ \in {"PENDING", "FAILED"} THEN "PROCESSING" ELSE @]
  /\ JobGoto("reread")
  /\ UNCHANGED <<status, audits, downloads, master, calls, queue, trouble>>

(* Bug variant: a row that has a file is returned whatever its state.      *)
RereadFileFirst ==
  /\ job.at = "reread"
  /\ IF export[job.order].state = "PROCESSING" /\ export[job.order].file = None
       THEN JobGoto("build") /\ cut' = cut \ {job.order}
       ELSE job' = NoJob /\ UNCHANGED cut
  /\ UNCHANGED <<database, master, calls, queue, faults, crashes>>

(* ... and the row read after it, which alone tells whether to go on: a    *)
(* row left PROCESSING by an earlier task passes as claimed, and one reset *)
(* to PENDING since the UPDATE ends the task.                              *)
Reread ==
  /\ job.at = "reread"
  /\ IF export[job.order].state = "PROCESSING"
       THEN JobGoto("build") /\ cut' = cut \ {job.order}
       ELSE job' = NoJob /\ UNCHANGED cut
  /\ UNCHANGED <<database, master, calls, queue, faults, crashes>>

(* findOrderById and buildDeterministicCsv, which throws unless approved.  *)
Build ==
  /\ job.at = "build"
  /\ job' = IF status[job.order] = "APPROVED"
              THEN [job EXCEPT !.at = "store", !.csv = master]
              ELSE [job EXCEPT !.at = "fail"]
  /\ UNCHANGED <<database, master, calls, queue, trouble>>

Store ==
  /\ job.at = "store"
  /\ export' = [export EXCEPT ![job.order] =
                  [state |-> "COMPLETED", file |-> job.csv]]
  /\ JobGoto("log")
  /\ UNCHANGED <<status, audits, downloads, master, calls, queue, trouble>>

LogGenerated ==
  /\ job.at = "log"
  /\ Log("EXPORT_GENERATED", job.order, None)
  /\ job' = NoJob
  /\ UNCHANGED <<status, export, downloads, master, calls, queue, trouble>>

(* Bug variant: the catch block discards the file as well. *)
MarkFailedDiscarding ==
  /\ job.at = "fail"
  /\ export' = [export EXCEPT ![job.order] = [state |-> "FAILED", file |-> None]]
  /\ job' = NoJob
  /\ UNCHANGED <<status, audits, downloads, master, calls, queue, trouble>>

(* The catch block: FAILED, whichever statement of the try threw, the      *)
(* audit row of a completed export included.                               *)
MarkFailed ==
  /\ job.at = "fail"
  /\ SetState(job.order, "FAILED")
  /\ job' = NoJob
  /\ UNCHANGED <<status, audits, downloads, master, calls, queue, trouble>>

-----------------------------------------------------------------------------
(* A statement of a request fails; its transaction rolls back, the request *)
(* is answered with an error and goes no further.                          *)
CallFails(c) ==
  /\ pc[c] # "idle" /\ faults < MaxFaults
  /\ EndCall(c)
  /\ faults' = faults + 1
  /\ UNCHANGED <<database, master, work, crashes, cut>>

(* A statement of the task fails: inside the try the catch block follows,  *)
(* outside it the queue swallows the rejection and the task is over.       *)
JobFails ==
  /\ job.at # "idle" /\ faults < MaxFaults
  /\ IF job.at \in {"build", "store", "log"}
       THEN JobGoto("fail") /\ UNCHANGED cut
       ELSE job' = NoJob /\ cut' = cut \cup {job.order}
  /\ faults' = faults + 1
  /\ UNCHANGED <<database, master, calls, queue, crashes>>

(* The process ends and starts again; nothing refills the queue. *)
Crash ==
  /\ crashes < MaxCrashes
  /\ pc' = [c \in Callers |-> "idle"]
  /\ call' = [c \in Callers |-> NoCall]
  /\ queue' = <<>> /\ job' = NoJob
  /\ cut' = cut \cup ({job.order} \ {None})
  /\ crashes' = crashes + 1
  /\ UNCHANGED <<database, master, faults>>

(* updateDealer or updateSku renames what a CSV prints. *)
Rename ==
  /\ master < MaxVersions
  /\ master' = master + 1
  /\ UNCHANGED <<database, calls, work, trouble>>

CallStep(c) ==
  \/ ApproveCommit(c) \/ WriteConflict(c) \/ LogApproval(c)
  \/ RejectCommit(c) \/ LogRejection(c) \/ Enqueue(c)
  \/ PollUpsert(c) \/ PollReset(c) \/ Deliver(c)

JobStep ==
  StartJob \/ Claim \/ Reread \/ Build \/ Store \/ LogGenerated \/ MarkFailed

Next ==
  \/ \E c \in Callers :
       \/ \E o \in Orders : \/ ApproveRead(c, o) \/ RejectRead(c, o)
                           \/ PollRead(c, o) \/ DownloadRead(c, o)
       \/ CallStep(c)
       \/ CallFails(c)
  \/ JobStep
  \/ JobFails
  \/ Crash
  \/ Rename

Spec == Init /\ [][Next]_vars

(* The event loop resumes every handler and the task whose statement has   *)
(* returned.                                                               *)
Fairness == WF_vars(JobStep) /\ \A c \in Callers : WF_vars(CallStep(c))

FairSpec == Spec /\ Fairness

(* Head Office, besides, goes on asking for the export of every approved   *)
(* order (the only retry the screens offer) ...                            *)
PollingSpec ==
  FairSpec /\ \A o \in Orders : SF_vars(\E c \in Callers : PollRead(c, o))

(* ... or posts the approval of an approved order again, once a statement   *)
(* has failed or the process has crashed.                                   *)
Reapprove(c, o) == status[o] = "APPROVED" /\ ApproveRead(c, o)
ReapprovingSpec ==
  FairSpec /\ \A o \in Orders :
    SF_vars(faults + crashes > 0 /\ \E c \in Callers : Reapprove(c, o))

-----------------------------------------------------------------------------
TypeOK ==
  /\ status \in [Orders -> OrderStatuses]
  /\ export \in [Orders -> ExportRows]
  /\ audits \subseteq [action : AuditActions, order : Orders,
                       by : Callers \cup {None}]
  /\ downloads \in [Orders -> SUBSET Versions]
  /\ master \in Versions
  /\ pc \in [Callers -> CallPoints]
  /\ call \in [Callers -> [order : Orders \cup {None},
                           seen : OrderStatuses \cup {None}, file : Files]]
  /\ queue \in Seq(Orders)
  /\ job \in [order : Orders \cup {None}, at : JobPoints, csv : Files]
  /\ faults \in 0..MaxFaults /\ crashes \in 0..MaxCrashes
  /\ cut \subseteq Orders

(* An order has an export row exactly when it is approved, in every state  *)
(* another request can read: approval and rejection race, and neither      *)
(* leaves an approved order without a row or a rejected one with a file.   *)
ExportIffApproved ==
  \A o \in Orders : /\ export[o].state # "NONE" <=> status[o] = "APPROVED"
                    /\ export[o].state = "NONE" => export[o].file = None
                    /\ export[o].state = "COMPLETED" => export[o].file # None

(* A decision is never taken back or replaced: of two Head Office users    *)
(* who decide the same order, one wins and the other is refused.           *)
DecisionIsFinal ==
  [][\A o \in Orders : status[o] # "PENDING" => status'[o] = status[o]]_vars

ApprovalRows(o) ==
  {a \in audits : a.action = "ORDER_APPROVED" /\ a.order = o}

(* The approval of an order is logged once, by the user who approved it,   *)
(* however often and by however many users it is posted; while no          *)
(* statement has failed and nothing crashed, an approved order that is not *)
(* logged has its request on the way to the log.                           *)
ApprovalLoggedOnce ==
  \A o \in Orders :
    /\ ApprovalRows(o) # {} => status[o] = "APPROVED"
    /\ \A a, b \in ApprovalRows(o) : a = b
    /\ status[o] = "APPROVED" /\ faults = 0 /\ crashes = 0 =>
         \/ ApprovalRows(o) # {}
         \/ \E c \in Callers : pc[c] = "logApproval" /\ call[c].order = o

(* No order has two tasks in flight, waiting or running.                   *)
OneTaskPerOrder ==
  /\ \A i, j \in 1..Len(queue) : queue[i] = queue[j] => i = j
  /\ \A i \in 1..Len(queue) : queue[i] # job.order

(* An export that stands PROCESSING is being worked on, between the claim  *)
(* and the file, or its task was cut short by a crash or by a failure      *)
(* outside the try block: no path through the task, the resets of          *)
(* concurrent polls included, forgets it.                                  *)
ProcessingIsOwned ==
  \A o \in Orders : export[o].state = "PROCESSING" =>
    \/ job.order = o /\ job.at \notin {"claim", "log"}
    \/ o \in cut

(* The inductive invariant behind the properties above: what a request or  *)
(* the task that has passed a check may rely on at each later point.       *)
CallsOK ==
  \A c \in Callers : LET o == call[c].order IN
    /\ pc[c] # "idle" => o \in Orders
    /\ pc[c] = "approve" => /\ call[c].seen \in {"PENDING", "APPROVED"}
                            /\ call[c].seen = "APPROVED" => status[o] = "APPROVED"
    /\ pc[c] = "reject" => /\ call[c].seen \in {"PENDING", "REJECTED"}
                           /\ call[c].seen = "REJECTED" => status[o] = "REJECTED"
    /\ pc[c] \in {"logApproval", "enqueue", "upsert", "reset"} =>
         status[o] = "APPROVED"
    /\ pc[c] = "deliver" => call[c].file \in Versions

WorkOK ==
  /\ \A i \in 1..Len(queue) : status[queue[i]] = "APPROVED"
  /\ job.at = "idle" <=> job.order = None
  /\ job.at # "idle" => status[job.order] = "APPROVED"
  /\ job.at = "store" => job.csv \in Versions

LogOK ==
  /\ \A o \in Orders : ApprovalRows(o) # {} => status[o] = "APPROVED"
  /\ \A o \in Orders : \A a, b \in ApprovalRows(o) : a = b
  /\ \A c \in Callers : pc[c] = "logApproval" =>
       /\ ApprovalRows(call[c].order) = {}
       /\ \A d \in Callers : pc[d] = "logApproval" /\ d # c =>
            call[d].order # call[c].order

PipelineInv == /\ TypeOK /\ CallsOK /\ WorkOK /\ LogOK
               /\ ExportIffApproved /\ OneTaskPerOrder /\ ProcessingIsOwned

(* The pipeline implements the lifecycle of its orders. *)
StageOf(o) ==
  CASE status[o] = "PENDING" -> "pending"
    [] status[o] = "REJECTED" -> "rejected"
    [] status[o] = "APPROVED" /\ export[o].file = None -> "approved"
    [] status[o] = "APPROVED" /\ export[o].file # None -> "published"
stage == [o \in Orders |-> StageOf(o)]
Lifecycle == INSTANCE OrderLifecycle
ImplementsLifecycle == Lifecycle!Spec

(* Every approved order gets its ERP file. *)
ApprovedGetsFile ==
  \A o \in Orders : status[o] = "APPROVED" ~> export[o].file # None

(* What README.md:142 says of exports, "idempotent per order": all          *)
(* downloads of an order's file deliver the same file, although the dealer  *)
(* was renamed and exports are asked for again, until a statement fails:    *)
(* the catch block also covers the audit insert after COMPLETED.            *)
DownloadsAgree ==
  faults = 0 => \A o \in Orders : \A f, g \in downloads[o] : f = g
===============================================================================
