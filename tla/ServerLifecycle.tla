--------------------------- MODULE ServerLifecycle ---------------------------
(***************************************************************************)
(* The server process (server/index.ts): start, requests and their time-out *)
(* (requestTimeoutGuard), tasks of the export queue, and the shutdown that  *)
(* a signal starts and a timer bounds.  Node's server.close closes idle     *)
(* connections and waits for the others, which may stay open after their    *)
(* answer; that, and when $disconnect returns, is external.                 *)
(***************************************************************************)
EXTENDS Naturals

CONSTANTS
  Connections,
  MaxTasks   \* bound: export tasks queued or running

ASSUME LifecycleAssumption == MaxTasks \in Nat

VARIABLES
  server,    \* the HTTP server
  ready,     \* isReady
  shutdown,  \* where shutdown() stands
  timer,     \* forceExitTimer is armed
  open,      \* connections
  handler,   \* of each connection's last request; "late": not waited for by
             \* any client, because it was answered for or the client left
  tasks,     \* export tasks
  exit       \* how the process ended

serverVars == <<server, ready, shutdown, timer, open, handler, tasks, exit>>

ServerInit ==
  /\ server = "starting" /\ ready = TRUE /\ shutdown = "none" /\ timer = FALSE
  /\ open = {} /\ handler = [c \in Connections |-> "none"]
  /\ tasks = 0 /\ exit = "none"

Running == exit = "none"
Handle(c, to) == handler' = [handler EXCEPT ![c] = to]

-----------------------------------------------------------------------------
Listen ==
  /\ Running /\ server = "starting" /\ server' = "listening"
  /\ UNCHANGED <<ready, shutdown, timer, open, handler, tasks, exit>>

(* server "error": the port is taken, for one. *)
StartFails ==
  /\ Running /\ server = "starting" /\ server' = "failed"
  /\ UNCHANGED <<ready, shutdown, timer, open, handler, tasks, exit>>

(* handleStartupError, when disconnectDatabase has returned. *)
StartupExit ==
  /\ Running /\ server = "failed" /\ exit' = "failure"
  /\ UNCHANGED <<server, ready, shutdown, timer, open, handler, tasks>>

Connect(c) ==
  /\ Running /\ server = "listening" /\ c \notin open /\ handler[c] = "none"
  /\ open' = open \cup {c}
  /\ UNCHANGED <<server, ready, shutdown, timer, handler, tasks, exit>>

(* response "close". *)
AfterClose(h) == IF h = "none" THEN "none" ELSE "late"

(* By the client, or by keepAliveTimeout. *)
Close(c) ==
  /\ Running /\ c \in open /\ open' = open \ {c}
  /\ Handle(c, AfterClose(handler[c]))
  /\ UNCHANGED <<server, ready, shutdown, timer, tasks, exit>>

Request(c) ==
  /\ Running /\ c \in open /\ handler[c] = "none" /\ Handle(c, "unanswered")
  /\ UNCHANGED <<server, ready, shutdown, timer, open, tasks, exit>>

(* requestTimeoutGuard answers; the handler goes on. *)
TimesOut(c) ==
  /\ Running /\ handler[c] = "unanswered" /\ Handle(c, "late")
  /\ UNCHANGED <<server, ready, shutdown, timer, open, tasks, exit>>

(* The handler ends and answers, if it is still to; approveOrder and        *)
(* getExport have queued a task.                                            *)
HandlerEnds(c) ==
  /\ Running /\ handler[c] # "none" /\ Handle(c, "none")
  /\ tasks' \in {tasks} \cup (IF tasks < MaxTasks THEN {tasks + 1} ELSE {})
  /\ UNCHANGED <<server, ready, shutdown, timer, open, exit>>

TaskEnds ==
  /\ Running /\ tasks > 0 /\ tasks' = tasks - 1
  /\ UNCHANGED <<server, ready, shutdown, timer, open, handler, exit>>

-----------------------------------------------------------------------------
(* Bug variant: a server that does not listen needs no timer. *)
ArmsIfListening == server = "listening"

(* setTimeout(..., GRACEFUL_SHUTDOWN_MS). *)
Arms == TRUE

Busy == {c \in open : handler[c] = "unanswered"}

(* SIGINT or SIGTERM; a second one is ignored. *)
Signal ==
  /\ Running /\ shutdown = "none"
  /\ ready' = FALSE /\ timer' = Arms
  /\ IF server = "listening"
     THEN server' = "closing" /\ shutdown' = "close" /\ open' = Busy
     ELSE shutdown' = "disconnect" /\ UNCHANGED <<server, open>>
  /\ UNCHANGED <<handler, tasks, exit>>

(* Bug variant: connections are cut off after their answers or not.         *)
DrainsAny == TRUE

(* server.close calls back when the last connection has ended. *)
Drains == open = {}

Drained ==
  /\ Running /\ shutdown = "close" /\ Drains
  /\ server' = "closed" /\ shutdown' = "disconnect"
  /\ UNCHANGED <<ready, timer, open, handler, tasks, exit>>

(* disconnectDatabase has returned, whether it failed or not. *)
Exit ==
  /\ Running /\ shutdown = "disconnect" /\ exit' = "success" /\ timer' = FALSE
  /\ UNCHANGED <<server, ready, shutdown, open, handler, tasks>>

(* forceExitTimer. *)
ForceExit ==
  /\ Running /\ timer /\ exit' = "failure"
  /\ UNCHANGED <<server, ready, shutdown, timer, open, handler, tasks>>

ServerNext ==
  \/ Listen \/ StartFails \/ StartupExit \/ TaskEnds
  \/ Signal \/ Drained \/ Exit \/ ForceExit
  \/ \E c \in Connections :
       Connect(c) \/ Close(c) \/ Request(c) \/ TimesOut(c) \/ HandlerEnds(c)

ServerSpec == ServerInit /\ [][ServerNext]_serverVars

(* The timer fires, and after a failed start $disconnect returns; nothing   *)
(* is assumed of clients, handlers, tasks or $disconnect in a shutdown.     *)
FairServerSpec ==
  ServerSpec /\ WF_serverVars(ForceExit) /\ WF_serverVars(StartupExit)

-----------------------------------------------------------------------------
ServerTypeOK ==
  /\ server \in {"starting", "listening", "failed", "closing", "closed"}
  /\ ready \in BOOLEAN /\ timer \in BOOLEAN
  /\ shutdown \in {"none", "close", "disconnect"}
  /\ open \subseteq Connections
  /\ handler \in [Connections -> {"none", "unanswered", "late"}]
  /\ \A c \in Connections : handler[c] = "unanswered" => c \in open
  /\ tasks \in 0..MaxTasks /\ exit \in {"none", "success", "failure"}

(* A shutdown that ends with success cuts off no client that still waits    *)
(* for its answer; what it cuts off are handlers answered for by the        *)
(* time-out or left by their client, and export tasks.  A server that began *)
(* to listen only after the signal is not closed at all.                    *)
NoAnswerCutOff ==
  exit = "success" /\ server # "listening" =>
    \A c \in Connections : handler[c] # "unanswered"

(* A signal ends the process, also while it starts and with connections     *)
(* that never end; so does a failed start.                                  *)
SignalEndsProcess == shutdown # "none" \/ server = "failed" ~> exit # "none"
=============================================================================
