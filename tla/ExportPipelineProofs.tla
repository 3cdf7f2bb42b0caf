------------------------- MODULE ExportPipelineProofs -------------------------
(***************************************************************************)
(* Proofs about ExportPipeline for every set of orders and of concurrent   *)
(* requests and every number of failures, crashes and renames; and about   *)
(* the process that its queue lives in, ServerLifecycle, for every set of  *)
(* connections.                                                            *)
(***************************************************************************)
EXTENDS ExportPipeline, ServerLifecycle, TLAPS

LEMMA InitInv == Init => PipelineInv
<1> SUFFICES ASSUME Init PROVE PipelineInv
  OBVIOUS
<1>1. 1 \in Versions /\ 0 \in 0..MaxFaults /\ 0 \in 0..MaxCrashes
  BY BoundsAssumption DEF Versions
<1>2. TypeOK
  BY <1>1 DEF Init, TypeOK, ExportRows, OrderStatuses, Files, CallPoints,
              JobPoints, NoCall, NoJob
<1>3. CallsOK /\ WorkOK /\ LogOK
  BY NoneAssumption DEF Init, CallsOK, WorkOK, LogOK, NoCall, NoJob, ApprovalRows
<1>4. ExportIffApproved /\ OneTaskPerOrder /\ ProcessingIsOwned
  BY DEF Init, ExportIffApproved, OneTaskPerOrder, ProcessingIsOwned
<1> QED
  BY <1>2, <1>3, <1>4 DEF PipelineInv

(* Writing the state of one export row.                                    *)
LEMMA StateUpdate ==
  ASSUME NEW rows \in [Orders -> ExportRows], NEW o \in Orders,
         NEW new \in ExportStates \cup {"NONE"}
  PROVE  LET next == [rows EXCEPT ![o].state = new] IN
         /\ next \in [Orders -> ExportRows]
         /\ next[o] = [state |-> new, file |-> rows[o].file]
         /\ \A p \in Orders : p # o => next[p] = rows[p]
         /\ \A p \in Orders : next[p].file = rows[p].file
<1>1. [rows[o] EXCEPT !.state = new] = [state |-> new, file |-> rows[o].file]
  BY DEF ExportRows
<1>2. [state |-> new, file |-> rows[o].file] \in ExportRows
  BY DEF ExportRows
<1> QED
  BY <1>1, <1>2

(* The three ways the code writes the state of a row. *)
Rewritten(o, new) ==
  /\ export' \in [Orders -> ExportRows]
  /\ export'[o] = [state |-> new, file |-> export[o].file]
  /\ \A p \in Orders : p # o => export'[p] = export[p]

LEMMA SetStateEffect ==
  ASSUME TypeOK, NEW o \in Orders, NEW new \in ExportStates, SetState(o, new)
  PROVE  Rewritten(o, new)
BY StateUpdate DEF TypeOK, SetState, ExportRows, Rewritten

LEMMA UpsertEffect ==
  ASSUME TypeOK, NEW o \in Orders, Upsert(o)
  PROVE  Rewritten(o, IF export[o].state = "NONE" THEN "PENDING"
                                                 ELSE export[o].state)
<1> DEFINE new == IF export[o].state = "NONE" THEN "PENDING" ELSE export[o].state
<1>1. new \in ExportStates \cup {"NONE"} /\ export \in [Orders -> ExportRows]
  BY DEF TypeOK, ExportRows, ExportStates
<1>2. export' = [export EXCEPT ![o].state = new]
  BY DEF Upsert
<1> HIDE DEF new
<1>3. Rewritten(o, new)
  BY <1>1, <1>2, StateUpdate DEF Rewritten
<1> QED
  BY <1>3 DEF new

LEMMA ClaimEffect ==
  ASSUME TypeOK, job.order \in Orders, Claim
  PROVE  Rewritten(job.order,
           IF export[job.order].state \in {"PENDING", "FAILED"}
             THEN "PROCESSING" ELSE export[job.order].state)
<1> DEFINE o == job.order
           new == IF export[o].state \in {"PENDING", "FAILED"}
                    THEN "PROCESSING" ELSE export[o].state
<1>1. new \in ExportStates \cup {"NONE"} /\ export \in [Orders -> ExportRows]
  BY DEF TypeOK, ExportRows, ExportStates
<1>2. export' = [export EXCEPT ![o].state = new]
  BY DEF Claim
<1> HIDE DEF new
<1>3. Rewritten(o, new)
  BY <1>1, <1>2, StateUpdate DEF Rewritten
<1> QED
  BY <1>3 DEF new

(* Types, one step of each action. *)
LEMMA NextTypeOK == PipelineInv /\ [Next]_vars => TypeOK'
<1> SUFFICES ASSUME PipelineInv, [Next]_vars PROVE TypeOK'
  OBVIOUS
<1> USE NoneAssumption
    DEF TypeOK, OrderStatuses, ExportStates, Files, AuditActions, CallPoints,
        JobPoints, Goto, StartCall, EndCall, NoCall, NoJob, Log, JobGoto, database, calls, work, trouble
<1>0. TypeOK /\ CallsOK /\ WorkOK
  BY DEF PipelineInv
<1>e. \A c \in Callers : pc[c] # "idle" => call[c].order \in Orders
  BY <1>0 DEF CallsOK
<1>j. job.at # "idle" => job.order \in Orders
  BY <1>0 DEF WorkOK
<1>1. ASSUME NEW c \in Callers, NEW o \in Orders,
             \/ ApproveRead(c, o) \/ RejectRead(c, o)
             \/ PollRead(c, o) \/ DownloadRead(c, o)
      PROVE  TypeOK'
  <2>1. CASE ApproveRead(c, o)
    BY <1>0, <2>1 DEF ApproveRead
  <2>2. CASE RejectRead(c, o)
    BY <1>0, <2>2 DEF RejectRead
  <2>3. CASE PollRead(c, o)
    BY <1>0, <2>3 DEF PollRead
  <2>4. CASE DownloadRead(c, o)
    BY <1>0, <2>4 DEF DownloadRead, ExportRows
  <2> QED
    BY <1>1, <2>1, <2>2, <2>3, <2>4
<1>2. ASSUME NEW c \in Callers, ApproveCommit(c) PROVE TypeOK'
  <2>1. export' \in [Orders -> ExportRows]
    BY <1>0, <1>e, <1>j, <1>2, UpsertEffect DEF ApproveCommit, Rewritten
  <2>2. status' \in [Orders -> OrderStatuses]
    <3>1. status' = [status EXCEPT ![call[c].order] = "APPROVED"] \/ status' = status
      BY <1>2 DEF ApproveCommit
    <3>2. status \in [Orders -> OrderStatuses]
      BY <1>0
    <3> QED
      BY <3>1, <3>2
  <2>3. pc' \in [Callers -> CallPoints]
    BY <1>0, <1>2 DEF ApproveCommit
  <2>4. UNCHANGED <<audits, downloads, master, call, queue, job, faults, crashes, cut>>
    BY <1>2 DEF ApproveCommit
  <2> QED
    BY <1>0, <2>1, <2>2, <2>3, <2>4 DEF ExportRows
<1>3. ASSUME NEW c \in Callers, WriteConflict(c) PROVE TypeOK'
  BY <1>0, <1>3 DEF WriteConflict
<1>4. ASSUME NEW c \in Callers, LogApproval(c) PROVE TypeOK'
  BY <1>0, <1>4 DEF LogApproval, CallsOK
<1>5. ASSUME NEW c \in Callers, RejectCommit(c) PROVE TypeOK'
  BY <1>0, <1>5 DEF RejectCommit
<1>6. ASSUME NEW c \in Callers, LogRejection(c) PROVE TypeOK'
  BY <1>0, <1>6 DEF LogRejection, CallsOK
<1>7. ASSUME NEW c \in Callers, Enqueue(c) PROVE TypeOK'
  BY <1>0, <1>7 DEF Enqueue, CallsOK
<1>8. ASSUME NEW c \in Callers, PollUpsert(c) PROVE TypeOK'
  <2>1. export' \in [Orders -> ExportRows]
    BY <1>0, <1>e, <1>j, <1>8, UpsertEffect DEF PollUpsert, Rewritten
  <2>2. pc' \in [Callers -> CallPoints]
    <3>1. \/ pc' = [pc EXCEPT ![c] = "reset"]
          \/ pc' = [pc EXCEPT ![c] = "enqueue"]
          \/ pc' = [pc EXCEPT ![c] = "idle"]
      BY <1>8, Zenon DEF PollUpsert
    <3> QED
      BY <1>0, <3>1
  <2>3. call' = call \/ call' = [call EXCEPT ![c] = NoCall]
    BY <1>8 DEF PollUpsert
  <2>4. call' \in [Callers -> [order : Orders \cup {None},
                              seen : OrderStatuses \cup {None}, file : Files]]
    BY <1>0, <2>3
  <2>5. UNCHANGED <<status, audits, downloads, master, queue, job, faults, crashes, cut>>
    BY <1>8 DEF PollUpsert
  <2> QED
    BY <1>0, <2>1, <2>2, <2>4, <2>5 DEF ExportRows
<1>9. ASSUME NEW c \in Callers, PollReset(c) PROVE TypeOK'
  <2>1. export' \in [Orders -> ExportRows]
    BY <1>0, <1>e, <1>j, <1>9, SetStateEffect DEF PollReset, Rewritten
  <2> QED
    BY <1>0, <1>e, <1>j, <1>9, <2>1 DEF PollReset, ExportRows
<1>10. ASSUME NEW c \in Callers, Deliver(c) PROVE TypeOK'
  BY <1>0, <1>10 DEF Deliver, CallsOK
<1>11. ASSUME NEW c \in Callers, CallFails(c) PROVE TypeOK'
  BY <1>0, <1>11, BoundsAssumption DEF CallFails
<1>12. ASSUME StartJob PROVE TypeOK'
  BY <1>0, <1>12 DEF StartJob
<1>13. ASSUME Claim PROVE TypeOK'
  <2>1. export' \in [Orders -> ExportRows]
    BY <1>0, <1>e, <1>j, <1>13, ClaimEffect DEF Claim, Rewritten
  <2> QED
    BY <1>0, <1>e, <1>j, <1>13, <2>1 DEF Claim, ExportRows
<1>14. ASSUME Reread PROVE TypeOK'
  BY <1>0, <1>14 DEF Reread
<1>15. ASSUME Build PROVE TypeOK'
  BY <1>0, <1>15 DEF Build
<1>16. ASSUME Store PROVE TypeOK'
  BY <1>0, <1>16 DEF Store, ExportRows
<1>17. ASSUME LogGenerated PROVE TypeOK'
  BY <1>0, <1>17 DEF LogGenerated, WorkOK
<1>18. ASSUME MarkFailed PROVE TypeOK'
  <2>1. export' \in [Orders -> ExportRows]
    BY <1>0, <1>e, <1>j, <1>18, SetStateEffect DEF MarkFailed, Rewritten
  <2> QED
    BY <1>0, <1>e, <1>j, <1>18, <2>1 DEF MarkFailed, ExportRows
<1>19. ASSUME JobFails PROVE TypeOK'
  <2>1. job' \in [order : Orders \cup {None}, at : JobPoints, csv : Files]
    BY <1>0, <1>j, <1>19 DEF JobFails
  <2>2. cut' \subseteq Orders
    BY <1>0, <1>j, <1>19 DEF JobFails
  <2> QED
    BY <1>0, <1>19, <2>1, <2>2, BoundsAssumption DEF JobFails
<1>20. ASSUME Crash PROVE TypeOK'
  BY <1>0, <1>20, BoundsAssumption DEF Crash
<1>21. ASSUME Rename PROVE TypeOK'
  BY <1>0, <1>21, BoundsAssumption DEF Rename, Versions
<1>22. ASSUME UNCHANGED vars PROVE TypeOK'
  BY <1>0, <1>22 DEF vars
<1> QED
  BY <1>1, <1>2, <1>3, <1>4, <1>5, <1>6, <1>7, <1>8, <1>9, <1>10, <1>11,
     <1>12, <1>13, <1>14, <1>15, <1>16, <1>17, <1>18, <1>19, <1>20, <1>21,
     <1>22 DEF Next, CallStep, JobStep

-----------------------------------------------------------------------------
(* Only two steps decide an order, both from PENDING.                      *)
LEMMA StatusStep ==
  ASSUME [Next]_vars
  PROVE  \/ UNCHANGED status
         \/ \E c \in Callers : ApproveCommit(c) \/ RejectCommit(c)
BY DEF Next, CallStep, JobStep, ApproveRead, WriteConflict, LogApproval,
       RejectRead, LogRejection, Enqueue, PollRead, PollUpsert, PollReset,
       DownloadRead, Deliver, CallFails, StartJob, Claim, Reread, Build, Store,
       LogGenerated, MarkFailed, JobFails, Crash, Rename, database, vars

LEMMA DecisionsStay ==
  ASSUME PipelineInv, [Next]_vars, NEW o \in Orders, status[o] # "PENDING"
  PROVE  status'[o] = status[o]
<1>0. TypeOK /\ CallsOK
  BY DEF PipelineInv
<1>1. CASE UNCHANGED status
  BY <1>1
<1>2. ASSUME NEW c \in Callers, ApproveCommit(c) PROVE status'[o] = status[o]
  <2>1. call[c].order \in Orders
    BY <1>0, <1>2 DEF ApproveCommit, CallsOK
  <2>2. \/ /\ status[call[c].order] = "PENDING"
           /\ status' = [status EXCEPT ![call[c].order] = "APPROVED"]
        \/ UNCHANGED status
    BY <1>2 DEF ApproveCommit
  <2> QED
    BY <1>0, <2>1, <2>2 DEF TypeOK
<1>3. ASSUME NEW c \in Callers, RejectCommit(c) PROVE status'[o] = status[o]
  BY <1>0, <1>3 DEF RejectCommit, CallsOK, TypeOK
<1> QED
  BY <1>1, <1>2, <1>3, StatusStep

(* What the calls rely on, one step of each action: a decided order stays  *)
(* as the call saw it.                                                     *)
LEMMA NextCallsOK == PipelineInv /\ [Next]_vars => CallsOK'
<1> SUFFICES ASSUME PipelineInv, [Next]_vars PROVE CallsOK'
  OBVIOUS
<1>0. TypeOK /\ CallsOK /\ ExportIffApproved
  BY DEF PipelineInv
<1>s. \A o \in Orders : status[o] # "PENDING" => status'[o] = status[o]
  BY DecisionsStay
<1> USE DEF CallsOK, Goto
<1>1. ASSUME NEW c \in Callers, NEW o \in Orders, ApproveRead(c, o)
      PROVE  CallsOK'
  BY <1>0, <1>s, <1>1 DEF ApproveRead, StartCall, TypeOK, OrderStatuses, database
<1>2. ASSUME NEW c \in Callers, NEW o \in Orders, RejectRead(c, o)
      PROVE  CallsOK'
  BY <1>0, <1>s, <1>2 DEF RejectRead, StartCall, TypeOK, OrderStatuses, database
<1>3. ASSUME NEW c \in Callers, NEW o \in Orders, PollRead(c, o)
      PROVE  CallsOK'
  BY <1>0, <1>s, <1>3 DEF PollRead, StartCall, TypeOK, database
<1>4. ASSUME NEW c \in Callers, NEW o \in Orders, DownloadRead(c, o)
      PROVE  CallsOK'
  BY <1>0, <1>s, <1>4
  DEF DownloadRead, StartCall, TypeOK, ExportRows, Files, database
<1>5. ASSUME NEW c \in Callers, ApproveCommit(c) PROVE CallsOK'
  BY <1>0, <1>s, <1>5 DEF ApproveCommit, TypeOK
<1>6. ASSUME NEW c \in Callers, RejectCommit(c) PROVE CallsOK'
  BY <1>0, <1>s, <1>6 DEF RejectCommit, TypeOK
<1>7. ASSUME NEW c \in Callers, LogApproval(c) PROVE CallsOK'
  BY <1>0, <1>s, <1>7 DEF LogApproval, TypeOK
<1>8. ASSUME NEW c \in Callers, PollReset(c) PROVE CallsOK'
  BY <1>0, <1>s, <1>8 DEF PollReset, TypeOK
<1>9. ASSUME NEW c \in Callers, PollUpsert(c) PROVE CallsOK'
  BY <1>0, <1>s, <1>9 DEF PollUpsert, EndCall, TypeOK
<1>10. ASSUME NEW c \in Callers, EndCall(c) PROVE CallsOK'
  BY <1>0, <1>s, <1>10 DEF EndCall, TypeOK
<1>11. ASSUME Crash PROVE CallsOK'
  BY <1>0, <1>s, <1>11 DEF Crash, TypeOK
<1>12. ASSUME UNCHANGED calls PROVE CallsOK'
  BY <1>0, <1>s, <1>12 DEF calls
<1> QED
  BY <1>1, <1>2, <1>3, <1>4, <1>5, <1>6, <1>7, <1>8, <1>9, <1>10, <1>11, <1>12
  DEF Next, CallStep, JobStep, WriteConflict, LogRejection, Enqueue, Deliver,
      CallFails, StartJob, Claim, Reread, Build, Store, LogGenerated,
      MarkFailed, JobFails, Rename, calls, vars

(* The queue and the running task change in Enqueue, in the task's own     *)
(* steps and in a crash.                                                   *)
LEMMA NextWorkOK ==
  PipelineInv /\ [Next]_vars => WorkOK' /\ OneTaskPerOrder'
<1> SUFFICES ASSUME PipelineInv, [Next]_vars PROVE WorkOK' /\ OneTaskPerOrder'
  OBVIOUS
<1>0. TypeOK /\ CallsOK /\ WorkOK /\ OneTaskPerOrder
  BY DEF PipelineInv
<1>s. \A o \in Orders : status[o] = "APPROVED" => status'[o] = "APPROVED"
  BY DecisionsStay
<1>q. /\ \A i \in 1..Len(queue) : queue[i] \in Orders
      /\ job.at # "idle" => job.order \in Orders
  BY <1>0 DEF TypeOK, WorkOK
<1> USE NoneAssumption DEF WorkOK, OneTaskPerOrder, NoJob, JobGoto
<1>1. ASSUME NEW c \in Callers, Enqueue(c) PROVE WorkOK' /\ OneTaskPerOrder'
  <2> DEFINE o == call[c].order
  <2>1. o \in Orders /\ status[o] = "APPROVED" /\ UNCHANGED <<job, status>>
    BY <1>0, <1>1 DEF Enqueue, CallsOK, database
  <2>2. CASE o \in InFlight
    BY <1>0, <1>1, <2>1, <2>2 DEF Enqueue
  <2>3. CASE o \notin InFlight
    <3>1. queue' = Append(queue, o)
      BY <1>1, <2>3 DEF Enqueue
    <3>2. /\ \A i \in 1..Len(queue) : queue[i] # o
          /\ job.order # o
      BY <2>1, <2>3 DEF InFlight
    <3>3. /\ Len(queue') = Len(queue) + 1
          /\ \A i \in 1..Len(queue) : queue'[i] = queue[i]
          /\ queue'[Len(queue) + 1] = o
      BY <1>0, <2>1, <3>1 DEF TypeOK
    <3>4. Len(queue) \in Nat
      BY <1>0 DEF TypeOK
    <3> HIDE DEF o
    <3> QED
      BY <1>0, <2>1, <3>2, <3>3, <3>4
  <2> QED
    BY <2>2, <2>3
<1>2. ASSUME StartJob PROVE WorkOK' /\ OneTaskPerOrder'
  <2>1. /\ job'.order = queue[1] /\ job'.at = "claim" /\ UNCHANGED status
        /\ Len(queue) \in Nat /\ Len(queue) # 0
    BY <1>0, <1>2 DEF StartJob, TypeOK, database
  <2>2. /\ Len(queue') = Len(queue) - 1
        /\ \A i \in 1..Len(queue') : queue'[i] = queue[i + 1]
    BY <1>0, <1>2 DEF StartJob, TypeOK
  <2> QED
    BY <1>0, <1>q, <2>1, <2>2
<1>3. ASSUME Claim PROVE WorkOK' /\ OneTaskPerOrder'
  BY <1>0, <1>3 DEF Claim, TypeOK
<1>4. ASSUME Reread PROVE WorkOK' /\ OneTaskPerOrder'
  BY <1>0, <1>q, <1>4 DEF Reread, TypeOK, database
<1>5. ASSUME Build PROVE WorkOK' /\ OneTaskPerOrder'
  BY <1>0, <1>5 DEF Build, TypeOK, database
<1>6. ASSUME Store PROVE WorkOK' /\ OneTaskPerOrder'
  BY <1>0, <1>6 DEF Store, TypeOK
<1>7. ASSUME LogGenerated \/ MarkFailed PROVE WorkOK' /\ OneTaskPerOrder'
  BY <1>0, <1>q, <1>7 DEF LogGenerated, MarkFailed, TypeOK
<1>8. ASSUME JobFails PROVE WorkOK' /\ OneTaskPerOrder'
  BY <1>0, <1>q, <1>8 DEF JobFails, TypeOK, database
<1>9. ASSUME Crash PROVE WorkOK' /\ OneTaskPerOrder'
  BY <1>9 DEF Crash
<1>10. ASSUME UNCHANGED work PROVE WorkOK' /\ OneTaskPerOrder'
  BY <1>0, <1>q, <1>s, <1>10 DEF work
<1> QED
  BY <1>1, <1>2, <1>3, <1>4, <1>5, <1>6, <1>7, <1>8, <1>9, <1>10
  DEF Next, CallStep, JobStep, ApproveRead, ApproveCommit, WriteConflict,
      LogApproval, RejectRead, RejectCommit, LogRejection, PollRead,
      PollUpsert, PollReset, DownloadRead, Deliver, CallFails, Rename, work,
      vars

(* An ORDER_APPROVED row is written by the one call that approved.         *)
LEMMA NextLogOK == PipelineInv /\ [Next]_vars => LogOK'
<1> SUFFICES ASSUME PipelineInv, [Next]_vars PROVE LogOK'
  OBVIOUS
<1>0. TypeOK /\ CallsOK /\ LogOK
  BY DEF PipelineInv
<1>s. \A o \in Orders : status[o] = "APPROVED" => status'[o] = "APPROVED"
  BY DecisionsStay
<1>e. \A c \in Callers : pc[c] # "idle" => call[c].order \in Orders
  BY <1>0 DEF CallsOK
<1> USE DEF LogOK, Goto
<1>3. ASSUME \A o : ApprovalRows(o)' = ApprovalRows(o),
             \A c \in Callers : pc'[c] = "logApproval" =>
               /\ pc[c] = "logApproval"
               /\ call'[c].order = call[c].order
      PROVE  LogOK'
  BY <1>0, <1>s, <1>3
<1>1. ASSUME NEW c \in Callers, ApproveCommit(c) PROVE LogOK'
  <2>1. \A o : ApprovalRows(o)' = ApprovalRows(o)
    BY <1>1 DEF ApproveCommit, ApprovalRows
  <2>2. UNCHANGED call /\ call[c].order \in Orders
    BY <1>e, <1>1 DEF ApproveCommit
  <2>3. CASE pc' = [pc EXCEPT ![c] = "enqueue"]
    BY <1>0, <1>3, <2>1, <2>2, <2>3 DEF TypeOK
  <2>4. CASE /\ status[call[c].order] = "PENDING"
             /\ pc' = [pc EXCEPT ![c] = "logApproval"]
    <3>1. ApprovalRows(call[c].order) = {}
      BY <1>0, <2>2, <2>4
    <3>2. \A d \in Callers : pc[d] = "logApproval" =>
            call[d].order # call[c].order
      BY <1>0, <2>4 DEF CallsOK
    <3>3. \A d \in Callers : pc'[d] = "logApproval" =>
            d = c \/ pc[d] = "logApproval"
      BY <1>0, <2>4 DEF TypeOK
    <3> QED
      BY <1>0, <1>s, <2>1, <2>2, <3>1, <3>2, <3>3
  <2> QED
    BY <1>1, <2>3, <2>4 DEF ApproveCommit
<1>2. ASSUME NEW c \in Callers, LogApproval(c) PROVE LogOK'
  <2> DEFINE row == [action |-> "ORDER_APPROVED", order |-> call[c].order,
                     by |-> c]
  <2>1. audits' = audits \cup {row} /\ UNCHANGED <<status, call>>
    BY <1>2 DEF LogApproval, Log
  <2>2. call[c].order \in Orders /\ ApprovalRows(call[c].order) = {}
    BY <1>0, <1>e, <1>2 DEF LogApproval
  <2>3. ApprovalRows(call[c].order)' = {row}
    BY <2>1, <2>2 DEF ApprovalRows
  <2>4. \A o : o # call[c].order => ApprovalRows(o)' = ApprovalRows(o)
    BY <2>1 DEF ApprovalRows
  <2>5. status[call[c].order] = "APPROVED"
    BY <1>0, <1>2 DEF LogApproval, CallsOK
  <2>6. \A d \in Callers : pc'[d] = "logApproval" =>
          /\ pc[d] = "logApproval" /\ d # c
          /\ call[d].order # call[c].order
    BY <1>0, <1>2 DEF LogApproval, TypeOK
  <2> HIDE DEF row
  <2>7. \A o \in Orders : ApprovalRows(o)' # {} => status'[o] = "APPROVED"
    BY <1>0, <2>1, <2>4, <2>5
  <2>8. \A o \in Orders : \A a, b \in ApprovalRows(o)' : a = b
    BY <1>0, <2>1, <2>3, <2>4
  <2>9. \A d \in Callers : pc'[d] = "logApproval" =>
          /\ ApprovalRows(call[d].order)' = {}
          /\ \A e \in Callers : pc'[e] = "logApproval" /\ e # d =>
               call[e].order # call[d].order
    BY <1>0, <2>1, <2>4, <2>6
  <2> QED
    BY <2>1, <2>7, <2>8, <2>9
<1>4. ASSUME \/ UNCHANGED audits
             \/ \E o, by : Log("ORDER_REJECTED", o, by)
             \/ \E o, by : Log("EXPORT_GENERATED", o, by)
             \/ \E o, by : Log("EXPORT_DOWNLOADED", o, by)
      PROVE  \A o : ApprovalRows(o)' = ApprovalRows(o)
  BY <1>4 DEF Log, ApprovalRows
<1>5. ASSUME NEW c \in Callers, NEW o \in Orders,
             \/ ApproveRead(c, o) \/ RejectRead(c, o)
             \/ PollRead(c, o) \/ DownloadRead(c, o)
      PROVE  LogOK'
  <2>1. UNCHANGED audits
    BY <1>5 DEF ApproveRead, RejectRead, PollRead, DownloadRead, database
  <2>2. \/ pc' = [pc EXCEPT ![c] = "approve"]
        \/ pc' = [pc EXCEPT ![c] = "reject"]
        \/ pc' = [pc EXCEPT ![c] = "upsert"]
        \/ pc' = [pc EXCEPT ![c] = "deliver"]
    BY <1>5, Zenon DEF ApproveRead, RejectRead, PollRead, DownloadRead, StartCall
  <2>3. \E t : call' = [call EXCEPT ![c] = t]
    BY <1>5, Zenon DEF ApproveRead, RejectRead, PollRead, DownloadRead, StartCall
  <2>4. \A d \in Callers : pc'[d] = "logApproval" =>
          pc[d] = "logApproval" /\ call'[d].order = call[d].order
    BY <1>0, <2>2, <2>3 DEF TypeOK
  <2> QED
    BY <1>3, <1>4, <2>1, <2>4
<1>6. ASSUME NEW c \in Callers, EndCall(c),
             \/ UNCHANGED audits
             \/ \E o, by : Log("ORDER_REJECTED", o, by)
             \/ \E o, by : Log("EXPORT_DOWNLOADED", o, by)
      PROVE  LogOK'
  <2>1. \A d \in Callers : pc'[d] = "logApproval" =>
          pc[d] = "logApproval" /\ call'[d].order = call[d].order
    BY <1>0, <1>6 DEF EndCall, TypeOK
  <2> QED
    BY <1>3, <1>4, <1>6, <2>1
<1>7. ASSUME NEW c \in Callers,
             RejectCommit(c) \/ PollReset(c) \/ PollUpsert(c)
      PROVE  LogOK'
  <2>1. UNCHANGED audits
    BY <1>7 DEF RejectCommit, PollReset, PollUpsert
  <2>2. \/ pc' = [pc EXCEPT ![c] = "logRejection"]
        \/ pc' = [pc EXCEPT ![c] = "enqueue"]
        \/ pc' = [pc EXCEPT ![c] = "reset"]
        \/ pc' = [pc EXCEPT ![c] = "idle"]
    BY <1>7, Zenon DEF RejectCommit, PollReset, PollUpsert, EndCall
  <2>3. call' = call \/ call' = [call EXCEPT ![c] = NoCall]
    BY <1>7, Zenon DEF RejectCommit, PollReset, PollUpsert, EndCall
  <2>4. \A d \in Callers : pc'[d] = "logApproval" =>
          pc[d] = "logApproval" /\ call'[d].order = call[d].order
    BY <1>0, <2>2, <2>3 DEF TypeOK
  <2> QED
    BY <1>3, <1>4, <2>1, <2>4
<1>8. ASSUME Crash PROVE LogOK'
  <2>1. UNCHANGED audits /\ \A d \in Callers : pc'[d] = "idle"
    BY <1>8 DEF Crash, database
  <2> QED
    BY <1>3, <1>4, <2>1
<1>9. ASSUME UNCHANGED calls,
             \/ UNCHANGED audits
             \/ \E o, by : Log("EXPORT_GENERATED", o, by)
      PROVE  LogOK'
  BY <1>3, <1>4, <1>9 DEF calls
<1> QED
  <2>1. ASSUME NEW c \in Callers, CallStep(c) \/ CallFails(c) PROVE LogOK'
    BY <2>1, <1>1, <1>2, <1>6, <1>7
    DEF CallStep, WriteConflict, LogRejection, Enqueue, Deliver, CallFails,
        database
  <2>2. ASSUME JobStep \/ JobFails \/ Rename \/ UNCHANGED vars PROVE LogOK'
    BY <2>2, <1>9 DEF JobStep, StartJob, Claim, Reread, Build, Store,
       LogGenerated, MarkFailed, JobFails, Rename, database, calls, vars
  <2> QED
    BY <2>1, <2>2, <1>5, <1>8 DEF Next

(* Writing the state of an approved order's row, and of no other.          *)
LEMMA RewriteApproved ==
  ASSUME TypeOK, ExportIffApproved, UNCHANGED status,
         NEW o \in Orders, status[o] = "APPROVED",
         NEW new \in ExportStates, Rewritten(o, new),
         new = "COMPLETED" => export[o].state = "COMPLETED"
  PROVE  ExportIffApproved'
BY DEF ExportIffApproved, Rewritten, ExportStates, TypeOK

(* The row and the decision, one step of each action that writes either.   *)
LEMMA NextExportIffApproved == PipelineInv /\ [Next]_vars => ExportIffApproved'
<1> SUFFICES ASSUME PipelineInv, [Next]_vars PROVE ExportIffApproved'
  OBVIOUS
<1>0. TypeOK /\ CallsOK /\ WorkOK /\ ExportIffApproved
  BY DEF PipelineInv
<1>e. \A c \in Callers : pc[c] # "idle" => call[c].order \in Orders
  BY <1>0 DEF CallsOK
<1>j. job.at # "idle" => job.order \in Orders /\ status[job.order] = "APPROVED"
  BY <1>0, NoneAssumption DEF WorkOK, TypeOK
<1>t. \A o \in Orders : export[o].state \in ExportStates \cup {"NONE"}
  BY <1>0 DEF TypeOK, ExportRows
<1>1. ASSUME NEW c \in Callers, ApproveCommit(c) PROVE ExportIffApproved'
  <2> DEFINE o == call[c].order
  <2>1. o \in Orders /\ Upsert(o)
    BY <1>e, <1>1 DEF ApproveCommit
  <2>2. Rewritten(o, IF export[o].state = "NONE" THEN "PENDING"
                                                ELSE export[o].state)
    BY <1>0, <2>1, UpsertEffect
  <2>3. status'[o] = "APPROVED" /\ \A p \in Orders : p # o => status'[p] = status[p]
    BY <1>0, <1>1, <2>1 DEF ApproveCommit, CallsOK, TypeOK
  <2> HIDE DEF o
  <2> QED
    BY <1>0, <2>1, <2>2, <2>3 DEF ExportIffApproved, Rewritten
<1>2. ASSUME NEW c \in Callers, RejectCommit(c) PROVE ExportIffApproved'
  BY <1>0, <1>e, <1>2 DEF RejectCommit, CallsOK, ExportIffApproved, TypeOK
<1>3. ASSUME NEW c \in Callers, PollUpsert(c) PROVE ExportIffApproved'
  <2> DEFINE o == call[c].order
  <2>1. o \in Orders /\ Upsert(o) /\ UNCHANGED status /\ status[o] = "APPROVED"
    BY <1>0, <1>e, <1>3 DEF PollUpsert, CallsOK
  <2>2. Rewritten(o, IF export[o].state = "NONE" THEN "PENDING"
                                                ELSE export[o].state)
    BY <1>0, <2>1, UpsertEffect
  <2>3. export[o].state \in ExportStates
    BY <1>0, <1>t, <2>1 DEF ExportIffApproved
  <2>4. Rewritten(o, export[o].state)
    BY <2>2, <2>3 DEF ExportStates
  <2> HIDE DEF o
  <2> QED
    BY <1>0, <2>1, <2>3, <2>4, RewriteApproved
<1>4. ASSUME NEW c \in Callers, PollReset(c) PROVE ExportIffApproved'
  <2> DEFINE o == call[c].order
  <2>1. /\ o \in Orders /\ SetState(o, "PENDING")
        /\ UNCHANGED status /\ status[o] = "APPROVED"
    BY <1>0, <1>e, <1>4 DEF PollReset, CallsOK
  <2>2. "PENDING" \in ExportStates
    BY DEF ExportStates
  <2> HIDE DEF o
  <2> QED
    BY <1>0, <2>1, <2>2, SetStateEffect, RewriteApproved
<1>5. ASSUME Claim PROVE ExportIffApproved'
  <2>1. job.order \in Orders /\ status[job.order] = "APPROVED" /\ UNCHANGED status
    BY <1>j, <1>5 DEF Claim
  <2>2. Rewritten(job.order,
          IF export[job.order].state \in {"PENDING", "FAILED"}
            THEN "PROCESSING" ELSE export[job.order].state)
    BY <1>0, <1>5, <2>1, ClaimEffect
  <2>3. export[job.order].state \in ExportStates
    BY <1>0, <1>t, <2>1 DEF ExportIffApproved
  <2>4. CASE export[job.order].state \in {"PENDING", "FAILED"}
    <3>1. Rewritten(job.order, "PROCESSING") /\ "PROCESSING" \in ExportStates
      BY <2>2, <2>4 DEF ExportStates
    <3> QED
      BY <1>0, <2>1, <3>1, RewriteApproved
  <2>5. CASE export[job.order].state \notin {"PENDING", "FAILED"}
    <3>1. Rewritten(job.order, export[job.order].state)
      BY <2>2, <2>5
    <3> QED
      BY <1>0, <2>1, <2>3, <3>1, RewriteApproved
  <2> QED
    BY <2>4, <2>5
<1>6. ASSUME Store PROVE ExportIffApproved'
  <2>1. /\ job.order \in Orders /\ status[job.order] = "APPROVED"
        /\ UNCHANGED status /\ job.csv # None
    BY <1>0, <1>j, <1>6, NoneAssumption DEF Store, WorkOK, Versions
  <2>2. export' = [export EXCEPT ![job.order] =
                     [state |-> "COMPLETED", file |-> job.csv]]
    BY <1>6 DEF Store
  <2> QED
    BY <1>0, <2>1, <2>2 DEF ExportIffApproved, TypeOK
<1>7. ASSUME MarkFailed PROVE ExportIffApproved'
  <2>1. /\ job.order \in Orders /\ SetState(job.order, "FAILED")
        /\ UNCHANGED status /\ status[job.order] = "APPROVED"
    BY <1>j, <1>7 DEF MarkFailed
  <2>2. "FAILED" \in ExportStates
    BY DEF ExportStates
  <2> QED
    BY <1>0, <2>1, <2>2, SetStateEffect, RewriteApproved
<1>8. ASSUME UNCHANGED <<status, export>> PROVE ExportIffApproved'
  BY <1>0, <1>8 DEF ExportIffApproved
<1> QED
  BY <1>1, <1>2, <1>3, <1>4, <1>5, <1>6, <1>7, <1>8
  DEF Next, CallStep, JobStep, ApproveRead, WriteConflict, LogApproval,
      RejectRead, LogRejection, Enqueue, PollRead, DownloadRead, Deliver,
      CallFails, StartJob, Reread, Build, LogGenerated, JobFails, Crash,
      Rename, database, vars

(* The state PROCESSING is entered by the claim alone and left before the  *)
(* task that claimed ends, or the task is among the cut ones.              *)
LEMMA NextProcessingIsOwned == PipelineInv /\ [Next]_vars => ProcessingIsOwned'
<1> SUFFICES ASSUME PipelineInv, [Next]_vars PROVE ProcessingIsOwned'
  OBVIOUS
<1>0. TypeOK /\ CallsOK /\ WorkOK /\ ExportIffApproved /\ ProcessingIsOwned
  BY DEF PipelineInv
<1>e. \A c \in Callers : pc[c] # "idle" => call[c].order \in Orders
  BY <1>0 DEF CallsOK
<1>j. job.at # "idle" => job.order \in Orders
  BY <1>0, NoneAssumption DEF WorkOK, TypeOK
<1>1. ASSUME UNCHANGED <<job, cut>>,
             \A o \in Orders : export'[o].state = "PROCESSING" =>
                              export[o].state = "PROCESSING"
      PROVE  ProcessingIsOwned'
  BY <1>0, <1>1 DEF ProcessingIsOwned
<1>2. ASSUME NEW c \in Callers, Upsert(call[c].order), pc[c] # "idle",
             UNCHANGED <<job, cut>>
      PROVE  ProcessingIsOwned'
  <2> DEFINE o == call[c].order
  <2>1. o \in Orders
    BY <1>e, <1>2
  <2>2. Rewritten(o, IF export[o].state = "NONE" THEN "PENDING"
                                                ELSE export[o].state)
    BY <1>0, <1>2, <2>1, UpsertEffect
  <2> HIDE DEF o
  <2> QED
    BY <1>1, <1>2, <2>1, <2>2 DEF Rewritten
<1>3. ASSUME NEW c \in Callers, PollReset(c) PROVE ProcessingIsOwned'
  <2>1. call[c].order \in Orders /\ SetState(call[c].order, "PENDING")
    BY <1>e, <1>3 DEF PollReset
  <2>2. Rewritten(call[c].order, "PENDING")
    BY <1>0, <2>1, SetStateEffect DEF ExportStates
  <2>3. UNCHANGED <<job, cut>>
    BY <1>3 DEF PollReset, work, trouble
  <2> QED
    BY <1>1, <2>1, <2>2, <2>3 DEF Rewritten
<1>4. ASSUME StartJob PROVE ProcessingIsOwned'
  BY <1>0, <1>4, NoneAssumption
  DEF StartJob, ProcessingIsOwned, WorkOK, database, trouble
<1>5. ASSUME Claim PROVE ProcessingIsOwned'
  <2>1. /\ job.order \in Orders /\ UNCHANGED cut
        /\ job'.order = job.order /\ job'.at = "reread"
    BY <1>0, <1>j, <1>5 DEF Claim, JobGoto, TypeOK, trouble
  <2>2. \A p \in Orders : p # job.order => export'[p] = export[p]
    BY <1>0, <1>5, <2>1, ClaimEffect DEF Rewritten
  <2> QED
    BY <1>0, <2>1, <2>2 DEF ProcessingIsOwned
<1>6. ASSUME Reread PROVE ProcessingIsOwned'
  <2>1. UNCHANGED export /\ job.at = "reread" /\ job.order \in Orders
    BY <1>j, <1>6 DEF Reread, database
  <2>2. CASE export[job.order].state = "PROCESSING"
    <3>1. /\ job'.order = job.order /\ job'.at = "build"
          /\ cut' = cut \ {job.order}
      BY <1>0, <1>6, <2>2 DEF Reread, JobGoto, TypeOK
    <3> QED
      BY <1>0, <2>1, <3>1 DEF ProcessingIsOwned
  <2>3. CASE export[job.order].state # "PROCESSING"
    BY <1>0, <1>6, <2>1, <2>3 DEF Reread, ProcessingIsOwned
  <2> QED
    BY <2>2, <2>3
<1>7. ASSUME Build PROVE ProcessingIsOwned'
  BY <1>0, <1>7 DEF Build, ProcessingIsOwned, TypeOK, database, trouble
<1>8. ASSUME Store PROVE ProcessingIsOwned'
  <2>1. /\ job.order \in Orders /\ UNCHANGED cut
        /\ export' = [export EXCEPT ![job.order] =
                        [state |-> "COMPLETED", file |-> job.csv]]
    BY <1>j, <1>8 DEF Store, trouble
  <2> QED
    BY <1>0, <2>1 DEF ProcessingIsOwned, TypeOK
<1>9. ASSUME LogGenerated PROVE ProcessingIsOwned'
  BY <1>0, <1>9 DEF LogGenerated, ProcessingIsOwned, trouble
<1>10. ASSUME MarkFailed PROVE ProcessingIsOwned'
  <2>1. job.order \in Orders /\ SetState(job.order, "FAILED") /\ UNCHANGED cut
    BY <1>j, <1>10 DEF MarkFailed, trouble
  <2>2. Rewritten(job.order, "FAILED")
    BY <1>0, <2>1, SetStateEffect DEF ExportStates
  <2> QED
    BY <1>0, <2>1, <2>2 DEF ProcessingIsOwned, Rewritten
<1>11. ASSUME JobFails PROVE ProcessingIsOwned'
  BY <1>0, <1>j, <1>11
  DEF JobFails, JobGoto, ProcessingIsOwned, TypeOK, database
<1>12. ASSUME Crash PROVE ProcessingIsOwned'
  BY <1>0, <1>12, NoneAssumption DEF Crash, ProcessingIsOwned, database
<1>13. ASSUME UNCHANGED <<export, job, cut>> PROVE ProcessingIsOwned'
  BY <1>1, <1>13
<1> QED
  <2>1. ASSUME NEW c \in Callers, ApproveCommit(c) \/ PollUpsert(c)
        PROVE  ProcessingIsOwned'
    BY <2>1, <1>2 DEF ApproveCommit, PollUpsert, work, trouble
  <2> QED
    BY <2>1, <1>3, <1>4, <1>5, <1>6, <1>7, <1>8, <1>9, <1>10, <1>11, <1>12,
       <1>13
    DEF Next, CallStep, JobStep, ApproveRead, WriteConflict, LogApproval,
        RejectRead, RejectCommit, LogRejection, Enqueue, PollRead,
        DownloadRead, Deliver, CallFails, Rename, database, work, trouble, vars

LEMMA NextInv == PipelineInv /\ [Next]_vars => PipelineInv'
BY NextTypeOK, NextCallsOK, NextWorkOK, NextLogOK, NextExportIffApproved,
   NextProcessingIsOwned DEF PipelineInv

-----------------------------------------------------------------------------
(* The inductive invariant of approval and export holds in every state:    *)
(* what a handler or the task of generateExport relies on after an await.  *)
THEOREM PipelineInvariant == Spec => []PipelineInv
<1>1. PipelineInv /\ UNCHANGED vars => PipelineInv'
  BY NextInv
<1> QED
  BY InitInv, NextInv, PTL DEF Spec

(* Every variable of the pipeline keeps its type: the tables, the requests *)
(* in progress and the in-memory queue of approvals and exports.           *)
THEOREM TypeCorrectness == Spec => []TypeOK
<1>1. PipelineInv => TypeOK
  BY DEF PipelineInv
<1> QED
  BY <1>1, PipelineInvariant, PTL

(* An order has an ExportHistory row exactly when it is approved, whatever *)
(* approvals, rejections, retries, failures and crashes interleave.        *)
THEOREM ExportsFollowApproval == Spec => []ExportIffApproved
<1>1. PipelineInv => ExportIffApproved
  BY DEF PipelineInv
<1> QED
  BY <1>1, PipelineInvariant, PTL

(* InMemoryTaskQueue never holds two tasks of one order, whoever enqueues. *)
THEOREM NoDoubleTask == Spec => []OneTaskPerOrder
<1>1. PipelineInv => OneTaskPerOrder
  BY DEF PipelineInv
<1> QED
  BY <1>1, PipelineInvariant, PTL

(* generateExport leaves a row PROCESSING only when it was cut short       *)
(* outside its try block or by the end of the process.                     *)
THEOREM ClaimsAreOwned == Spec => []ProcessingIsOwned
<1>1. PipelineInv => ProcessingIsOwned
  BY DEF PipelineInv
<1> QED
  BY <1>1, PipelineInvariant, PTL

(* approveOrder and rejectOrder never replace a decision.                  *)
THEOREM DecisionsAreFinal == Spec => DecisionIsFinal
<1>1. PipelineInv /\ [Next]_vars =>
        [\A o \in Orders : status[o] # "PENDING" => status'[o] = status[o]]_vars
  BY DecisionsStay
<1> QED
  BY <1>1, PipelineInvariant, PTL DEF Spec, DecisionIsFinal

-----------------------------------------------------------------------------
(* Without failures an approval that is not logged yet is on its way.      *)
LogOnItsWay ==
  \A o \in Orders : status[o] = "APPROVED" /\ faults = 0 /\ crashes = 0 =>
    \/ ApprovalRows(o) # {}
    \/ \E c \in Callers : pc[c] = "logApproval" /\ call[c].order = o

(* A step of a caller elsewhere leaves the callers at the log where they are. *)
StepsAside(c) ==
  /\ pc[c] # "logApproval"
  /\ \A d \in Callers \ {c} : pc'[d] = pc[d] /\ call'[d] = call[d]

LEMMA NextLogOnItsWay == PipelineInv /\ LogOnItsWay /\ [Next]_vars => LogOnItsWay'
<1> SUFFICES ASSUME PipelineInv, LogOnItsWay, [Next]_vars PROVE LogOnItsWay'
  OBVIOUS
<1>0. TypeOK /\ CallsOK
  BY DEF PipelineInv
<1>e. \A c \in Callers : pc[c] # "idle" => call[c].order \in Orders
  BY <1>0 DEF CallsOK
<1>1. ASSUME UNCHANGED <<status, faults, crashes>>, audits \subseteq audits',
             \A c \in Callers : pc[c] = "logApproval" =>
               pc'[c] = "logApproval" /\ call'[c].order = call[c].order
      PROVE  LogOnItsWay'
  BY <1>1 DEF LogOnItsWay, ApprovalRows
<1>2. ASSUME NEW c \in Callers, ApproveCommit(c) PROVE LogOnItsWay'
  <2> DEFINE o == call[c].order
  <2>1. /\ o \in Orders /\ pc[c] = "approve"
        /\ UNCHANGED <<audits, call, faults, crashes>>
    BY <1>e, <1>2 DEF ApproveCommit, trouble
  <2>2. CASE UNCHANGED status /\ Goto(c, "enqueue")
    BY <1>0, <1>1, <2>1, <2>2 DEF Goto, TypeOK
  <2>3. CASE /\ status' = [status EXCEPT ![o] = "APPROVED"]
             /\ Goto(c, "logApproval")
    <3>1. /\ pc'[c] = "logApproval"
          /\ \A d \in Callers : pc[d] = "logApproval" => pc'[d] = "logApproval"
          /\ \A p \in Orders \ {o} : status'[p] = status[p]
      BY <1>0, <2>1, <2>3 DEF Goto, TypeOK
    <3>2. call'[c].order = o
      BY <2>1
    <3> HIDE DEF o
    <3> QED
      BY <2>1, <3>1, <3>2 DEF LogOnItsWay, ApprovalRows
  <2> QED
    BY <1>2, <2>2, <2>3 DEF ApproveCommit
<1>3. ASSUME NEW c \in Callers, LogApproval(c) PROVE LogOnItsWay'
  <2> DEFINE o == call[c].order
             row == [action |-> "ORDER_APPROVED", order |-> o, by |-> c]
  <2>1. /\ UNCHANGED <<status, call, faults, crashes>>
        /\ audits' = audits \cup {row}
        /\ pc' = [pc EXCEPT ![c] = "enqueue"]
    BY <1>3 DEF LogApproval, Log, Goto, trouble
  <2>2. row \in ApprovalRows(o)'
    BY <2>1 DEF ApprovalRows
  <2>3. \A p \in Orders : ApprovalRows(p) \subseteq ApprovalRows(p)'
    BY <2>1 DEF ApprovalRows
  <2>4. \A d \in Callers \ {c} : pc'[d] = pc[d]
    BY <1>0, <2>1 DEF TypeOK
  <2> HIDE DEF row
  <2>5. ASSUME NEW p \in Orders, p = o PROVE ApprovalRows(p)' # {}
    BY <2>1, <2>2, <2>5
  <2> QED
    BY <2>1, <2>3, <2>4, <2>5 DEF LogOnItsWay
<1>4. ASSUME NEW c \in Callers, StepsAside(c), UNCHANGED <<status, faults, crashes>>,
             audits \subseteq audits'
      PROVE  LogOnItsWay'
  <2>1. \A d \in Callers : pc[d] = "logApproval" =>
          pc'[d] = "logApproval" /\ call'[d].order = call[d].order
    BY <1>0, <1>4, Zenon DEF StepsAside
  <2> QED
    BY <1>1, <1>4, <2>1
<1>5. ASSUME NEW c \in Callers, NEW o \in Orders,
             \/ ApproveRead(c, o) \/ RejectRead(c, o)
             \/ PollRead(c, o) \/ DownloadRead(c, o)
      PROVE  LogOnItsWay'
  <2>1. UNCHANGED <<status, audits, faults, crashes>> /\ pc[c] = "idle"
    BY <1>5 DEF ApproveRead, RejectRead, PollRead, DownloadRead, StartCall,
                database, trouble
  <2>2. /\ \E to : pc' = [pc EXCEPT ![c] = to]
        /\ \E t : call' = [call EXCEPT ![c] = t]
    BY <1>5, Zenon DEF ApproveRead, RejectRead, PollRead, DownloadRead,
                       StartCall, Goto
  <2> QED
    BY <1>0, <1>4, <2>1, <2>2 DEF StepsAside, TypeOK
<1>6. ASSUME NEW c \in Callers,
             RejectCommit(c) \/ PollReset(c) \/ PollUpsert(c)
      PROVE  LogOnItsWay'
  <2>1. /\ UNCHANGED <<audits, faults, crashes>>
        /\ pc[c] \in {"reject", "reset", "upsert"}
    BY <1>6 DEF RejectCommit, PollReset, PollUpsert, trouble
  <2>2. /\ \E to : pc' = [pc EXCEPT ![c] = to]
        /\ call' = call \/ \E t : call' = [call EXCEPT ![c] = t]
    BY <1>6, Zenon DEF RejectCommit, PollReset, PollUpsert, EndCall, Goto
  <2>3. StepsAside(c)
    BY <1>0, <2>1, <2>2 DEF StepsAside, TypeOK
  <2>4. CASE UNCHANGED status
    BY <1>4, <2>1, <2>3, <2>4
  <2>5. CASE RejectCommit(c)
    <3>1. /\ call[c].order \in Orders
          /\ status' = [status EXCEPT ![call[c].order] = "REJECTED"]
      BY <1>e, <2>5 DEF RejectCommit
    <3>2. \A p \in Orders : status'[p] = "APPROVED" => status[p] = "APPROVED"
      BY <1>0, <3>1 DEF TypeOK
    <3>3. \A d \in Callers : pc[d] = "logApproval" =>
            pc'[d] = "logApproval" /\ call'[d].order = call[d].order
      BY <1>0, <2>3, Zenon DEF StepsAside
    <3> QED
      BY <2>1, <3>2, <3>3 DEF LogOnItsWay, ApprovalRows
  <2> QED
    BY <1>6, <2>4, <2>5 DEF PollReset, PollUpsert
<1>7. ASSUME NEW c \in Callers, EndCall(c), pc[c] # "logApproval",
             audits \subseteq audits', UNCHANGED <<status, faults, crashes>>
      PROVE  LogOnItsWay'
  <2>1. StepsAside(c)
    BY <1>0, <1>7 DEF StepsAside, EndCall, Goto, TypeOK
  <2> QED
    BY <1>4, <1>7, <2>1
<1>8. ASSUME UNCHANGED <<status, calls, faults, crashes>>, audits \subseteq audits'
      PROVE  LogOnItsWay'
  BY <1>1, <1>8 DEF calls
<1>9. ASSUME faults' = faults + 1 \/ crashes' = crashes + 1 PROVE LogOnItsWay'
  BY <1>0, <1>9 DEF LogOnItsWay, TypeOK
<1> QED
  <2>1. ASSUME NEW c \in Callers, CallStep(c) PROVE LogOnItsWay'
    <3>1. CASE WriteConflict(c) \/ LogRejection(c) \/ Enqueue(c) \/ Deliver(c)
      BY <1>7, <3>1 DEF WriteConflict, LogRejection, Enqueue, Deliver, Log,
                        database, trouble
    <3> QED
      BY <2>1, <1>2, <1>3, <1>6, <3>1 DEF CallStep
  <2>2. ASSUME JobStep \/ Rename \/ UNCHANGED vars PROVE LogOnItsWay'
    BY <2>2, <1>8 DEF JobStep, StartJob, Claim, Reread, Build, Store, Log,
       LogGenerated, MarkFailed, Rename, database, calls, trouble, vars
  <2>3. ASSUME NEW c \in Callers, CallFails(c) PROVE LogOnItsWay'
    BY <2>3, <1>9 DEF CallFails
  <2>4. ASSUME JobFails \/ Crash PROVE LogOnItsWay'
    BY <2>4, <1>9 DEF JobFails, Crash
  <2> QED
    BY <2>1, <2>2, <2>3, <2>4, <1>5 DEF Next

(* approveOrder writes one ORDER_APPROVED row per approved order, whoever  *)
(* posts the approval and however often, and forgets it only when a        *)
(* statement fails or the process ends in between.                         *)
THEOREM ApprovalIsLoggedOnce == Spec => []ApprovalLoggedOnce
<1>1. Init => LogOnItsWay
  BY DEF Init, LogOnItsWay
<1>2. PipelineInv /\ LogOnItsWay => ApprovalLoggedOnce
  BY DEF PipelineInv, LogOK, LogOnItsWay, ApprovalLoggedOnce
<1> QED
  BY <1>1, <1>2, NextLogOnItsWay, PipelineInvariant, PTL DEF Spec

-----------------------------------------------------------------------------
(* Until a statement fails nothing makes an export FAILED, so a file that   *)
(* was stored is the file of a COMPLETED row, and stays it.                *)
Holds(o, f) == export[o].state = "COMPLETED" /\ export[o].file = f

FilesFixed ==
  /\ \A o \in Orders : /\ export[o].state # "FAILED"
                       /\ export[o].file # None => export[o].state = "COMPLETED"
                       /\ \A f \in downloads[o] : Holds(o, f)
  /\ \A c \in Callers :
       /\ pc[c] # "reset"
       /\ pc[c] = "deliver" => Holds(call[c].order, call[c].file)
  /\ job.at # "fail"
  /\ job.at \in {"build", "store"} => export[job.order].state = "PROCESSING"

FixedUntilFault == faults = 0 => FilesFixed

(* Rewriting the state of a row, to one that is not FAILED and without     *)
(* taking back COMPLETED or PROCESSING.                                    *)
Advanced(o) ==
  /\ export' \in [Orders -> ExportRows]
  /\ export'[o].file = export[o].file
  /\ export'[o].state # "FAILED"
  /\ export[o].state \in {"COMPLETED", "PROCESSING"} =>
       export'[o].state = export[o].state
  /\ \A p \in Orders : p # o => export'[p] = export[p]

LEMMA AdvancedRows ==
  ASSUME TypeOK, CallsOK, WorkOK, FilesFixed, NEW o \in Orders, Advanced(o)
  PROVE  /\ \A p \in Orders :
              /\ export'[p].state # "FAILED"
              /\ export'[p].file # None => export'[p].state = "COMPLETED"
              /\ \A f : Holds(p, f) => Holds(p, f)'
              /\ export[p].state = "PROCESSING" => export'[p].state = "PROCESSING"
BY DEF FilesFixed, Advanced, Holds

LEMMA UpsertAdvances ==
  ASSUME TypeOK, FilesFixed, NEW o \in Orders, Upsert(o)
  PROVE  Advanced(o)
<1>1. Rewritten(o, IF export[o].state = "NONE" THEN "PENDING" ELSE export[o].state)
  BY UpsertEffect
<1> QED
  BY <1>1 DEF Rewritten, Advanced, FilesFixed

LEMMA ClaimAdvances ==
  ASSUME TypeOK, FilesFixed, job.order \in Orders, Claim
  PROVE  Advanced(job.order)
<1>1. Rewritten(job.order,
        IF export[job.order].state \in {"PENDING", "FAILED"}
          THEN "PROCESSING" ELSE export[job.order].state)
  BY ClaimEffect
<1> QED
  BY <1>1 DEF Rewritten, Advanced, FilesFixed

LEMMA NextFilesFixed ==
  PipelineInv /\ FixedUntilFault /\ [Next]_vars => FixedUntilFault'
<1> SUFFICES ASSUME PipelineInv, faults = 0 => FilesFixed, [Next]_vars, faults' = 0
    PROVE  FilesFixed'
  BY DEF FixedUntilFault
<1>0. TypeOK /\ CallsOK /\ WorkOK /\ ExportIffApproved
  BY DEF PipelineInv
<1>n. faults \in Nat
  BY <1>0 DEF TypeOK
<1>u. ASSUME UNCHANGED faults PROVE FilesFixed
  BY <1>u
<1>e. \A c \in Callers : pc[c] # "idle" => call[c].order \in Orders
  BY <1>0 DEF CallsOK
<1>j. job.at # "idle" => job.order \in Orders /\ status[job.order] = "APPROVED"
  BY <1>0, NoneAssumption DEF WorkOK, TypeOK
(* Steps that leave the rows and the task: only calls and downloads differ. *)
<1>a. ASSUME FilesFixed, UNCHANGED <<export, job, downloads>>,
             \A c \in Callers :
               /\ pc'[c] # "reset"
               /\ pc'[c] = "deliver" => Holds(call'[c].order, call'[c].file)
      PROVE  FilesFixed'
  BY <1>a DEF FilesFixed, Holds
<1>c. ASSUME FilesFixed, NEW c \in Callers, UNCHANGED <<export, job, downloads>>,
             \E to : to \notin {"reset", "deliver"} /\ pc' = [pc EXCEPT ![c] = to],
             call' = call \/ \E t : call' = [call EXCEPT ![c] = t]
      PROVE  FilesFixed'
  <2>1. \A d \in Callers : d # c => pc'[d] = pc[d] /\ call'[d] = call[d]
    BY <1>0, <1>c DEF TypeOK
  <2>2. pc'[c] \notin {"reset", "deliver"}
    BY <1>0, <1>c DEF TypeOK
  <2> QED
    BY <1>a, <1>c, <2>1, <2>2 DEF FilesFixed
(* Steps of a call that may create the row. *)
<1>b. ASSUME FilesFixed, NEW c \in Callers, NEW o \in Orders, Advanced(o),
             UNCHANGED <<job, downloads>>,
             \E to : to \notin {"reset", "deliver"} /\ pc' = [pc EXCEPT ![c] = to],
             call' = call \/ \E t : call' = [call EXCEPT ![c] = t]
      PROVE  FilesFixed'
  <2>1. \A d \in Callers : d # c => pc'[d] = pc[d] /\ call'[d] = call[d]
    BY <1>0, <1>b DEF TypeOK
  <2>2. pc'[c] \notin {"reset", "deliver"}
    BY <1>0, <1>b DEF TypeOK
  <2>3. \A p \in Orders :
          /\ export'[p].state # "FAILED"
          /\ export'[p].file # None => export'[p].state = "COMPLETED"
          /\ \A f : Holds(p, f) => Holds(p, f)'
          /\ export[p].state = "PROCESSING" => export'[p].state = "PROCESSING"
    BY <1>0, <1>b, AdvancedRows
  <2>4. \A d \in Callers : pc'[d] = "deliver" =>
          Holds(call[d].order, call[d].file) /\ call'[d] = call[d]
    BY <1>b, <2>1, <2>2 DEF FilesFixed
  <2>5. \A d \in Callers : pc'[d] = "deliver" => call[d].order \in Orders
    BY <1>e, <2>1, <2>2
  <2>6. \A d \in Callers : pc'[d] = "deliver" =>
          (export'[call'[d].order].state = "COMPLETED"
             /\ export'[call'[d].order].file = call'[d].file)
    BY <2>3, <2>4, <2>5 DEF Holds
  <2>7. \A d \in Callers : pc'[d] # "reset"
    BY <1>b, <2>1, <2>2 DEF FilesFixed
  <2> QED
    BY <1>b, <1>j, <2>3, <2>6, <2>7 DEF FilesFixed, Holds
<1>1. ASSUME NEW c \in Callers, NEW o \in Orders,
             ApproveRead(c, o) \/ RejectRead(c, o) \/ PollRead(c, o)
      PROVE  FilesFixed'
  BY <1>c, <1>u, <1>1 DEF ApproveRead, RejectRead, PollRead, StartCall, Goto,
                          database, work, trouble
<1>2. ASSUME NEW c \in Callers, NEW o \in Orders, DownloadRead(c, o)
      PROVE  FilesFixed'
  <2>1. /\ FilesFixed /\ UNCHANGED <<export, job, downloads>>
        /\ pc' = [pc EXCEPT ![c] = "deliver"] /\ export[o].file # None
        /\ call' = [call EXCEPT ![c] =
                      [order |-> o, seen |-> None, file |-> export[o].file]]
    BY <1>u, <1>2 DEF DownloadRead, StartCall, Goto, database, work, trouble
  <2>2. Holds(call'[c].order, call'[c].file)
    BY <1>0, <2>1 DEF Holds, FilesFixed, TypeOK
  <2>3. \A d \in Callers : d # c => pc'[d] = pc[d] /\ call'[d] = call[d]
    BY <1>0, <2>1 DEF TypeOK
  <2>4. pc'[c] = "deliver"
    BY <1>0, <2>1 DEF TypeOK
  <2> QED
    BY <1>a, <2>1, <2>2, <2>3, <2>4 DEF FilesFixed
<1>3. ASSUME NEW c \in Callers, ApproveCommit(c) PROVE FilesFixed'
  <2>1. /\ FilesFixed /\ call[c].order \in Orders /\ Upsert(call[c].order)
        /\ UNCHANGED <<job, downloads, call>>
    BY <1>e, <1>u, <1>3 DEF ApproveCommit, work, trouble
  <2>2. \E to : to \notin {"reset", "deliver"} /\ pc' = [pc EXCEPT ![c] = to]
    BY <1>3 DEF ApproveCommit, Goto
  <2> QED
    BY <1>0, <1>b, <2>1, <2>2, UpsertAdvances
<1>4. ASSUME NEW c \in Callers, PollUpsert(c) PROVE FilesFixed'
  <2>1. /\ FilesFixed /\ call[c].order \in Orders /\ Upsert(call[c].order)
        /\ UNCHANGED <<job, downloads>>
    BY <1>e, <1>u, <1>4 DEF PollUpsert, work, trouble
  <2>2. Advanced(call[c].order)
    BY <1>0, <2>1, UpsertAdvances
  <2>3. export'[call[c].order].state # "FAILED"
    BY <2>2 DEF Advanced
  <2>4. \/ pc' = [pc EXCEPT ![c] = "enqueue"] /\ UNCHANGED call
        \/ /\ pc' = [pc EXCEPT ![c] = "idle"]
           /\ call' = [call EXCEPT ![c] = NoCall]
    BY <1>4, <2>3, Zenon DEF PollUpsert, Goto, EndCall
  <2> QED
    BY <1>b, <2>1, <2>2, <2>4
<1>5. ASSUME NEW c \in Callers, LogApproval(c) \/ RejectCommit(c)
      PROVE  FilesFixed'
  BY <1>c, <1>u, <1>5 DEF LogApproval, RejectCommit, Goto, work, trouble
<1>6. ASSUME NEW c \in Callers, WriteConflict(c) \/ LogRejection(c) \/ Enqueue(c)
      PROVE  FilesFixed'
  BY <1>c, <1>u, <1>6 DEF WriteConflict, LogRejection, Enqueue, EndCall, Goto,
                          database, work, trouble
<1>7. ASSUME NEW c \in Callers, PollReset(c) PROVE FilesFixed'
  BY <1>u, <1>7 DEF PollReset, FilesFixed, trouble
<1>8. ASSUME NEW c \in Callers, Deliver(c) PROVE FilesFixed'
  <2> DEFINE o == call[c].order
             f == call[c].file
  <2>1. /\ FilesFixed /\ o \in Orders /\ Holds(o, f)
        /\ UNCHANGED <<export, job>>
        /\ downloads' = [downloads EXCEPT ![o] = @ \cup {f}]
        /\ pc' = [pc EXCEPT ![c] = "idle"]
        /\ call' = [call EXCEPT ![c] = NoCall]
    BY <1>e, <1>u, <1>8 DEF Deliver, FilesFixed, EndCall, Goto, work, trouble
  <2> HIDE DEF o, f
  <2>2. \A p \in Orders : \A g \in downloads'[p] : Holds(p, g)
    BY <1>0, <2>1 DEF FilesFixed, TypeOK
  <2>3. \A d \in Callers : d # c => pc'[d] = pc[d] /\ call'[d] = call[d]
    BY <1>0, <2>1 DEF TypeOK
  <2>4. pc'[c] = "idle"
    BY <1>0, <2>1 DEF TypeOK
  <2> QED
    BY <2>1, <2>2, <2>3, <2>4 DEF FilesFixed, Holds
<1>9. ASSUME StartJob \/ Reread \/ Build \/ LogGenerated PROVE FilesFixed'
  <2>1. FilesFixed /\ UNCHANGED <<export, downloads, pc, call>>
    BY <1>u, <1>9 DEF StartJob, Reread, Build, LogGenerated, database, calls,
                       trouble
  <2>2. /\ job'.at # "fail"
        /\ job'.at \in {"build", "store"} => export[job'.order].state = "PROCESSING"
    <3>1. CASE StartJob
      BY <3>1 DEF StartJob
    <3>2. CASE Reread
      BY <1>0, <3>2 DEF Reread, JobGoto, NoJob, TypeOK
    <3>3. CASE Build
      BY <1>0, <1>j, <2>1, <3>3 DEF Build, TypeOK, FilesFixed
    <3>4. CASE LogGenerated
      BY <3>4 DEF LogGenerated, NoJob
    <3> QED
      BY <1>9, <3>1, <3>2, <3>3, <3>4
  <2> QED
    BY <2>1, <2>2 DEF FilesFixed, Holds
<1>10. ASSUME Claim PROVE FilesFixed'
  <2>1. /\ FilesFixed /\ job.order \in Orders
        /\ UNCHANGED <<downloads, pc, call>> /\ job'.at = "reread"
    BY <1>0, <1>j, <1>u, <1>10 DEF Claim, JobGoto, calls, trouble, TypeOK
  <2>2. \A p \in Orders :
          /\ export'[p].state # "FAILED"
          /\ export'[p].file # None => export'[p].state = "COMPLETED"
          /\ \A f : Holds(p, f) => Holds(p, f)'
    BY <1>0, <1>10, <2>1, ClaimAdvances, AdvancedRows
  <2>3. \A d \in Callers : pc[d] = "deliver" => Holds(call[d].order, call[d].file)'
    <3> SUFFICES ASSUME NEW d \in Callers, pc[d] = "deliver"
        PROVE  /\ export'[call[d].order].state = "COMPLETED"
               /\ export'[call[d].order].file = call[d].file
      BY <2>1 DEF Holds
    <3>1. call[d].order \in Orders /\ Holds(call[d].order, call[d].file)
      BY <1>e, <2>1 DEF FilesFixed
    <3> QED
      BY <2>2, <3>1 DEF Holds
  <2> QED
    BY <2>1, <2>2, <2>3 DEF FilesFixed, Holds
<1>11. ASSUME Store PROVE FilesFixed'
  <2> DEFINE o == job.order
  <2>1. /\ FilesFixed /\ o \in Orders /\ export[o].state = "PROCESSING"
        /\ export' = [export EXCEPT ![o] = [state |-> "COMPLETED", file |-> job.csv]]
        /\ UNCHANGED <<downloads, pc, call>> /\ job'.at = "log"
    BY <1>0, <1>j, <1>u, <1>11
    DEF Store, FilesFixed, JobGoto, calls, trouble, TypeOK
  <2> HIDE DEF o
  <2>2. /\ export'[o].state = "COMPLETED"
        /\ \A p \in Orders : p # o => export'[p] = export[p]
    BY <1>0, <2>1 DEF TypeOK
  <2>3. downloads[o] = {} /\ \A d \in Callers : pc[d] = "deliver" => call[d].order # o
    BY <1>0, <2>1 DEF FilesFixed, Holds, TypeOK
  <2> QED
    BY <1>e, <2>1, <2>2, <2>3 DEF FilesFixed, Holds
<1>12. ASSUME MarkFailed PROVE FilesFixed'
  BY <1>u, <1>12 DEF MarkFailed, FilesFixed, trouble
<1>13. ASSUME \/ JobFails \/ \E c \in Callers : CallFails(c) PROVE FilesFixed'
  BY <1>n, <1>13 DEF JobFails, CallFails
<1>14. ASSUME Crash PROVE FilesFixed'
  <2>1. FilesFixed /\ UNCHANGED <<export, downloads>> /\ job' = NoJob
    BY <1>u, <1>14 DEF Crash, database
  <2>2. \A c \in Callers : pc'[c] = "idle"
    BY <1>14 DEF Crash
  <2> QED
    BY <2>1, <2>2 DEF FilesFixed, Holds, NoJob
<1>15. ASSUME Rename \/ UNCHANGED vars PROVE FilesFixed'
  <2>1. FilesFixed /\ UNCHANGED <<export, downloads, job, pc, call>>
    BY <1>u, <1>15 DEF Rename, vars, database, calls, work, trouble
  <2> QED
    BY <2>1 DEF FilesFixed, Holds
<1> QED
  BY <1>1, <1>2, <1>3, <1>4, <1>5, <1>6, <1>7, <1>8, <1>9, <1>10, <1>11,
     <1>12, <1>13, <1>14, <1>15 DEF Next, CallStep, JobStep

(* All downloads of an order's file deliver the same file as long as no     *)
(* statement has failed, whatever dealers and SKUs are renamed to and       *)
(* however often approval and export are asked for again.                  *)
THEOREM DownloadsAreOneFile == Spec => []DownloadsAgree
<1>1. Init => FixedUntilFault
  BY DEF Init, FixedUntilFault, FilesFixed, NoJob, NoCall
<1>2. FixedUntilFault => DownloadsAgree
  BY DEF FixedUntilFault, FilesFixed, Holds, DownloadsAgree
<1> QED
  BY <1>1, <1>2, NextFilesFixed, PipelineInvariant, PTL DEF Spec

-----------------------------------------------------------------------------
(* The stage of an order depends on its status and on whether it has a     *)
(* file, so rewriting export states stutters.                              *)
LEMMA SameStage ==
  ASSUME UNCHANGED status, \A p \in Orders : export'[p].file = export[p].file
  PROVE  stage' = stage
<1>1. \A p \in Orders : StageOf(p)' = StageOf(p)
  BY DEF StageOf
<1> QED
  BY <1>1 DEF stage

LEMMA RewrittenFiles ==
  ASSUME NEW o \in Orders, NEW new, Rewritten(o, new)
  PROVE  \A p \in Orders : export'[p].file = export[p].file
BY DEF Rewritten

(* A step that changes one order's stage is a move of the lifecycle.       *)
LEMMA OneStage ==
  ASSUME NEW o \in Orders, NEW to,
         stage'[o] = to,
         \A p \in Orders \ {o} : status'[p] = status[p] /\ export'[p].file = export[p].file
  PROVE  stage' = [stage EXCEPT ![o] = to]
<1>1. \A p \in Orders \ {o} : StageOf(p)' = StageOf(p)
  BY DEF StageOf
<1> QED
  BY <1>1 DEF stage

(* Every step of the pipeline is a step of the lifecycle or stutters.      *)
LEMMA StepIsMove == PipelineInv /\ [Next]_vars => [Lifecycle!Next]_stage
<1> SUFFICES ASSUME PipelineInv, [Next]_vars PROVE [Lifecycle!Next]_stage
  OBVIOUS
<1>0. TypeOK /\ CallsOK /\ WorkOK /\ ExportIffApproved
  BY DEF PipelineInv
<1>e. \A c \in Callers : pc[c] # "idle" => call[c].order \in Orders
  BY <1>0 DEF CallsOK
<1>j. job.at # "idle" => job.order \in Orders /\ status[job.order] = "APPROVED"
  BY <1>0, NoneAssumption DEF WorkOK, TypeOK
<1>1. ASSUME NEW c \in Callers, ApproveCommit(c) PROVE [Lifecycle!Next]_stage
  <2> DEFINE o == call[c].order
  <2>1. o \in Orders /\ Upsert(o)
    BY <1>e, <1>1 DEF ApproveCommit
  <2>2. \A p \in Orders : export'[p].file = export[p].file
    BY <1>0, <2>1, UpsertEffect, RewrittenFiles
  <2>3. CASE UNCHANGED status
    BY <2>2, <2>3, SameStage
  <2>4. CASE status[o] = "PENDING" /\ status' = [status EXCEPT ![o] = "APPROVED"]
    <3>1. export[o].file = None
      BY <1>0, <2>1, <2>4 DEF ExportIffApproved
    <3>2. status'[o] = "APPROVED" /\ \A p \in Orders \ {o} : status'[p] = status[p]
      BY <1>0, <2>1, <2>4 DEF TypeOK
    <3> HIDE DEF o
    <3>3. stage[o] = "pending" /\ stage'[o] = "approved"
      BY <2>1, <2>2, <2>4, <3>1, <3>2 DEF stage, StageOf
    <3>4. Lifecycle!Approve(o)
      BY <2>1, <2>2, <3>2, <3>3, OneStage DEF Lifecycle!Approve, Lifecycle!Move
    <3> QED
      BY <2>1, <3>4 DEF Lifecycle!Next
  <2> QED
    BY <1>1, <2>3, <2>4 DEF ApproveCommit
<1>2. ASSUME NEW c \in Callers, RejectCommit(c) PROVE [Lifecycle!Next]_stage
  <2> DEFINE o == call[c].order
  <2>1. /\ o \in Orders /\ UNCHANGED export
        /\ status[o] \in {"PENDING", "REJECTED"}
        /\ status' = [status EXCEPT ![o] = "REJECTED"]
    BY <1>0, <1>e, <1>2 DEF RejectCommit, CallsOK
  <2>2. status'[o] = "REJECTED" /\ \A p \in Orders \ {o} : status'[p] = status[p]
    BY <1>0, <2>1 DEF TypeOK
  <2>3. CASE status[o] = "REJECTED"
    <3>1. UNCHANGED status
      BY <1>0, <2>1, <2>3 DEF TypeOK
    <3> QED
      BY <2>1, <3>1, SameStage
  <2>4. CASE status[o] = "PENDING"
    <3> HIDE DEF o
    <3>1. stage[o] = "pending" /\ stage'[o] = "rejected"
      BY <2>1, <2>2, <2>4 DEF stage, StageOf
    <3>2. Lifecycle!Reject(o)
      BY <2>1, <2>2, <3>1, OneStage DEF Lifecycle!Reject, Lifecycle!Move
    <3> QED
      BY <2>1, <3>2 DEF Lifecycle!Next
  <2> QED
    BY <2>1, <2>3, <2>4
<1>3. ASSUME Store PROVE [Lifecycle!Next]_stage
  <2> DEFINE o == job.order
  <2>1. /\ o \in Orders /\ status[o] = "APPROVED" /\ UNCHANGED status
        /\ job.csv # None
    BY <1>0, <1>j, <1>3, NoneAssumption DEF Store, WorkOK, Versions
  <2>2. export' = [export EXCEPT ![o] = [state |-> "COMPLETED", file |-> job.csv]]
    BY <1>3 DEF Store
  <2>3. /\ export'[o].file # None
        /\ \A p \in Orders \ {o} : export'[p].file = export[p].file
    BY <1>0, <2>1, <2>2 DEF TypeOK
  <2> HIDE DEF o
  <2>4. stage'[o] = "published"
    BY <2>1, <2>3 DEF stage, StageOf
  <2>5. stage' = [stage EXCEPT ![o] = "published"]
    BY <2>1, <2>3, <2>4, OneStage
  <2>6. CASE export[o].file = None
    <3>1. stage[o] = "approved"
      BY <2>1, <2>6 DEF stage, StageOf
    <3> QED
      BY <2>1, <2>5, <3>1 DEF Lifecycle!Next, Lifecycle!Publish, Lifecycle!Move
  <2>7. CASE export[o].file # None
    <3>1. stage[o] = "published"
      BY <2>1, <2>7 DEF stage, StageOf
    <3>2. stage = [p \in Orders |-> StageOf(p)]
      BY DEF stage
    <3> QED
      BY <2>1, <2>5, <3>1, <3>2
  <2> QED
    BY <2>6, <2>7
<1>4. ASSUME NEW c \in Callers, PollUpsert(c) PROVE UNCHANGED stage
  BY <1>0, <1>e, <1>4, UpsertEffect, RewrittenFiles, SameStage DEF PollUpsert
<1>5. ASSUME NEW c \in Callers, PollReset(c) PROVE UNCHANGED stage
  BY <1>0, <1>e, <1>5, SetStateEffect, RewrittenFiles, SameStage
  DEF PollReset, ExportStates
<1>6. ASSUME Claim PROVE UNCHANGED stage
  <2>1. job.order \in Orders /\ UNCHANGED status
    BY <1>j, <1>6 DEF Claim
  <2> QED
    BY <1>0, <1>6, <2>1, ClaimEffect, RewrittenFiles, SameStage
<1>7. ASSUME MarkFailed PROVE UNCHANGED stage
  BY <1>0, <1>j, <1>7, SetStateEffect, RewrittenFiles, SameStage
  DEF MarkFailed, ExportStates
<1>8. ASSUME UNCHANGED <<status, export>> PROVE UNCHANGED stage
  BY <1>8, SameStage
<1> QED
  BY <1>1, <1>2, <1>3, <1>4, <1>5, <1>6, <1>7, <1>8
  DEF Next, CallStep, JobStep, ApproveRead, WriteConflict, LogApproval,
      RejectRead, LogRejection, Enqueue, PollRead, DownloadRead, Deliver,
      CallFails, StartJob, Reread, Build, LogGenerated, JobFails, Crash,
      Rename, database, vars

(* Approval, rejection and export implement the lifecycle: one decision,   *)
(* a file for approved orders only, and no file ever withdrawn.            *)
THEOREM PipelineImplementsLifecycle == Spec => ImplementsLifecycle
<1>1. Init => Lifecycle!Init
  BY DEF Init, Lifecycle!Init, stage, StageOf
<1> QED
  BY <1>1, StepIsMove, PipelineInvariant, PTL
  DEF Spec, ImplementsLifecycle, Lifecycle!Spec

-----------------------------------------------------------------------------
(* The process: its start, its connections and its shutdown.               *)

(* How far a shutdown has come says whether the server was closed; one that *)
(* is, has no connection any more.                                          *)
ShutdownOK ==
  /\ server = "closing" <=> shutdown = "close"
  /\ server \in {"closing", "closed"} => shutdown # "none"
  /\ server = "closed" => open = {}
  /\ server \in {"starting", "failed"} => open = {}

ProcessInv == ServerTypeOK /\ ShutdownOK /\ NoAnswerCutOff

LEMMA ProcessStarts == ServerInit => ProcessInv
<1> SUFFICES ASSUME ServerInit PROVE ProcessInv
  OBVIOUS
<1>1. ServerTypeOK
  <2>1. tasks \in 0..MaxTasks
    BY LifecycleAssumption DEF ServerInit
  <2> QED
    BY <2>1 DEF ServerInit, ServerTypeOK
<1>2. ShutdownOK
  BY DEF ServerInit, ShutdownOK
<1>3. NoAnswerCutOff
  BY DEF ServerInit, NoAnswerCutOff
<1> QED
  BY <1>1, <1>2, <1>3 DEF ProcessInv

LEMMA ProcessSteps == ProcessInv /\ [ServerNext]_serverVars => ProcessInv'
<1> SUFFICES ASSUME ProcessInv, [ServerNext]_serverVars PROVE ProcessInv'
  OBVIOUS
<1> USE LifecycleAssumption DEF ProcessInv, ServerTypeOK, ShutdownOK, NoAnswerCutOff, Running, Handle
<1>1. CASE Listen \/ StartFails \/ StartupExit
  BY <1>1 DEF Listen, StartFails, StartupExit
<1>2. CASE TaskEnds
  BY <1>2 DEF TaskEnds
<1>3. CASE Signal
  BY <1>3 DEF Signal, Arms, Busy
<1>4. CASE Drained
  BY <1>4 DEF Drained, Drains
<1>5. CASE Exit
  BY <1>5 DEF Exit
<1>6. CASE ForceExit
  BY <1>6 DEF ForceExit
<1>7. ASSUME NEW c \in Connections, Connect(c) PROVE ProcessInv'
  BY <1>7 DEF Connect
<1>8. ASSUME NEW c \in Connections, Close(c) PROVE ProcessInv'
  BY <1>8 DEF Close, AfterClose
<1>9. ASSUME NEW c \in Connections, Request(c) PROVE ProcessInv'
  BY <1>9 DEF Request
<1>10. ASSUME NEW c \in Connections, TimesOut(c) PROVE ProcessInv'
  BY <1>10 DEF TimesOut
<1>11. ASSUME NEW c \in Connections, HandlerEnds(c) PROVE ProcessInv'
  BY <1>11 DEF HandlerEnds
<1>12. CASE UNCHANGED serverVars
  BY <1>12 DEF serverVars
<1> QED
  BY <1>1, <1>2, <1>3, <1>4, <1>5, <1>6, <1>7, <1>8, <1>9, <1>10, <1>11, <1>12 DEF ServerNext

(* The process and its connections are of the stated types. *)
THEOREM ServerTypeCorrect == ServerSpec => []ServerTypeOK
<1>1. ProcessInv => ServerTypeOK
  BY DEF ProcessInv
<1> QED
  BY <1>1, ProcessStarts, ProcessSteps, PTL DEF ServerSpec

(* shutdown, server/index.ts: an exit with success leaves no client that    *)
(* waits for its answer.                                                    *)
THEOREM ShutdownAnswers == ServerSpec => []NoAnswerCutOff
<1>1. ProcessInv => NoAnswerCutOff
  BY DEF ProcessInv
<1> QED
  BY <1>1, ProcessStarts, ProcessSteps, PTL DEF ServerSpec
===============================================================================
