------------------------------ MODULE ApiClient ------------------------------
(***************************************************************************)
(* The browser's API client (client.ts) under React Query (query-client.ts)*)
(* calls of one page pass the request interceptor, the network and the     *)
(* response interceptor, which refreshes the session once after a 401,     *)
(* repeats failed GETs, and opens the circuit breaker after a streak of    *)
(* failures.  A call that the interceptor refuses, because the breaker is  *)
(* open or the browser offline, comes back as a failure like any other.    *)
(***************************************************************************)
EXTENDS Naturals, FiniteSets

CONSTANTS
  Queries, Mutations,   \* calls; reused when settled
  MaxGetRetries,        \* MAX_GET_RETRIES
  QueryRetries,         \* failureCount < 2
  Threshold,            \* CIRCUIT_BREAKER_THRESHOLD
  Cooldown              \* CIRCUIT_BREAKER_COOLDOWN_MS, in ticks

ASSUME ClientAssumption ==
  /\ Queries \cap Mutations = {}
  /\ MaxGetRetries \in Nat /\ QueryRetries \in Nat
  /\ Threshold \in Nat \ {0} /\ Cooldown \in Nat \ {0}

VARIABLES
  online,     \* navigator.onLine
  calls,      \* each call
  refresh,    \* whether refreshPromise is set
  failures,   \* consecutiveFailures, capped at the threshold
  openFor,    \* openUntil - now, in ticks
  paused,     \* history: ticks since the server last failed a call, while open
  extended    \* history: a refused call has opened the breaker since

vars == <<online, calls, refresh, failures, openFor, paused, extended>>
pause == <<paused, extended>>

Calls == Queries \cup Mutations

(* The sends that the retries add up to: each attempt of a query sends one  *)
(* request, its repetitions and one replay after a refresh.                 *)
MaxSends(c) == IF c \in Queries THEN (QueryRetries + 1) * (MaxGetRetries + 2) ELSE 2

Idle == [at |-> "idle", tries |-> 0, retries |-> 0, replayed |-> FALSE,
         sends |-> 0, performed |-> 0]

(* No answer (network, time-out, refusal by the client) or 429 or 5xx. *)
IsTransient(status) == status \in {"none", "busy"}

Capped(n, max) == IF n < max THEN n + 1 ELSE max

Become(c, row) == calls' = [calls EXCEPT ![c] = row]

-----------------------------------------------------------------------------
Init ==
  /\ online = TRUE /\ refresh = FALSE
  /\ calls = [c \in Calls |-> Idle]
  /\ failures = 0 /\ openFor = 0 /\ paused = 0 /\ extended = FALSE

(* A component asks for data or submits. *)
Begin(c) ==
  /\ calls[c].at = "idle"
  /\ Become(c, [Idle EXCEPT !.at = "start"])
  /\ UNCHANGED <<online, refresh, failures, openFor, pause>>

(* React Query starts an attempt only while the browser is online; each is  *)
(* a new request with a configuration of its own.                           *)
Fetch(c) ==
  /\ calls[c].at = "start" /\ online
  /\ Become(c, [calls[c] EXCEPT !.at = "intercept", !.retries = 0, !.replayed = FALSE])
  /\ UNCHANGED <<online, refresh, failures, openFor, pause>>

(* The request interceptor lets it pass. *)
Pass(c) ==
  /\ calls[c].at = "intercept" /\ online /\ openFor = 0
  /\ Become(c, [calls[c] EXCEPT !.at = "out", !.sends = Capped(@, MaxSends(c) + 1)])
  /\ UNCHANGED <<online, refresh, failures, openFor, pause>>

(* What the server has performed, with this answer; queries change nothing. *)
Performed(c, did) == IF c \in Mutations /\ did THEN Capped(calls[c].performed, 2)
                     ELSE calls[c].performed

(* A settled call; its history stays to be looked at. *)
Done(c, did) == [Idle EXCEPT !.performed = Performed(c, did)]

(* queryClient's retry: a failure that may pass starts another attempt. *)
Settled(c, status) ==
  IF c \in Queries /\ IsTransient(status) /\ calls[c].tries < QueryRetries
  THEN [calls[c] EXCEPT !.at = "start", !.tries = @ + 1]
  ELSE Done(c, FALSE)

(* Bug variant: every method is repeated. *)
RepeatsAny(c, status) == IsTransient(status) /\ calls[c].retries < MaxGetRetries

(* shouldRetryGetRequest. *)
Repeats(c, status) ==
  c \in Queries /\ IsTransient(status) /\ calls[c].retries < MaxGetRetries

(* Bug variant: each failure adds a cooldown. *)
RegisterAdding(status) ==
  IF ~IsTransient(status) THEN UNCHANGED <<failures, openFor>>
  ELSE /\ failures' = Capped(failures, Threshold)
       /\ openFor' = IF failures + 1 >= Threshold THEN openFor + Cooldown ELSE openFor

(* registerCircuitFailure: also a failure that came from the client itself. *)
Register(status) ==
  IF ~IsTransient(status) THEN UNCHANGED <<failures, openFor>>
  ELSE /\ failures' = Capped(failures, Threshold)
       /\ openFor' = IF failures + 1 >= Threshold THEN Cooldown ELSE openFor

(* The end of the response interceptor, for a failure that is no first 401. *)
Rejected(c, status, did) ==
  IF Repeats(c, status)
  THEN /\ Become(c, [calls[c] EXCEPT !.at = "wait", !.retries = @ + 1,
                                     !.performed = Performed(c, did)])
       /\ UNCHANGED <<failures, openFor>>
  ELSE /\ Become(c, [Settled(c, status) EXCEPT !.performed = Performed(c, did)])
       /\ Register(status)

(* The request interceptor refuses: offline, or circuit breaker open. *)
Refuse(c) ==
  /\ calls[c].at = "intercept" /\ (~online \/ openFor > 0)
  /\ Rejected(c, "none", FALSE)
  /\ extended' = (extended \/ (~Repeats(c, "none") /\ failures + 1 >= Threshold))
  /\ UNCHANGED <<online, refresh, paused>>

(* 2xx: resetCircuitBreaker. *)
Succeeds(c) ==
  /\ calls[c].at = "out"
  /\ Become(c, Done(c, TRUE))
  /\ failures' = 0 /\ openFor' = 0 /\ paused' = 0 /\ extended' = FALSE
  /\ UNCHANGED <<online, refresh>>

(* Bug variant: the replayed request is not marked. *)
AnswersUnmarked(c) == [calls[c] EXCEPT !.at = "refresh"]

AfterUnauthorized(c) == [calls[c] EXCEPT !.at = "refresh", !.replayed = TRUE]

(* The first 401: wait for the refresh under way, or start one. *)
Unauthorized(c) ==
  /\ calls[c].at = "out" /\ ~calls[c].replayed
  /\ Become(c, AfterUnauthorized(c))
  /\ refresh' = TRUE
  /\ UNCHANGED <<online, failures, openFor, pause>>

(* Another error.  What the server did before an answer that did not come,  *)
(* or was 5xx, is open.                                                     *)
FailsWith(c, status) ==
  /\ calls[c].at = "out"
  /\ \E did \in {FALSE, IsTransient(status)} : Rejected(c, status, did)
  /\ paused' = IF IsTransient(status) THEN 0 ELSE paused
  /\ extended' = (extended /\ ~IsTransient(status))
  /\ UNCHANGED <<online, refresh>>

Fails(c) == \E status \in {"none", "busy", "refused"} : FailsWith(c, status)

(* getRetryDelay passes and the same configuration is requested again. *)
Repeat(c) ==
  /\ calls[c].at = "wait"
  /\ Become(c, [calls[c] EXCEPT !.at = "intercept"])
  /\ UNCHANGED <<online, refresh, failures, openFor, pause>>

(* refreshPromise settles for every call that waits for it: they are sent   *)
(* again, or rejected with the refresh's error, which is no failure of      *)
(* theirs to the breaker.                                                   *)
RefreshEnds ==
  /\ refresh /\ refresh' = FALSE
  /\ \E status \in {"ok", "none", "busy", "refused"} :
       calls' = [c \in Calls |->
         IF calls[c].at # "refresh" THEN calls[c]
         ELSE IF status = "ok" THEN [calls[c] EXCEPT !.at = "intercept"]
         ELSE Settled(c, status)]
  /\ UNCHANGED <<online, failures, openFor, pause>>

Switch ==
  /\ online' = ~online
  /\ UNCHANGED <<calls, refresh, failures, openFor, pause>>

Tick ==
  /\ openFor > 0 /\ openFor' = openFor - 1
  /\ paused' = Capped(paused, Cooldown + 1)
  /\ UNCHANGED <<online, calls, refresh, failures, extended>>

Advance(c) ==
  \/ Pass(c) \/ Refuse(c) \/ Succeeds(c) \/ Unauthorized(c) \/ Fails(c) \/ Repeat(c)

Next ==
  \/ \E c \in Calls : Begin(c) \/ Fetch(c) \/ Advance(c)
  \/ RefreshEnds \/ Switch \/ Tick

Spec == Init /\ [][Next]_vars

(* Requests time out after 15 s, timers fire, and an attempt that waits for *)
(* the connection starts when it is back.                                   *)
Fairness ==
  /\ \A c \in Calls : WF_vars(Advance(c)) /\ SF_vars(Fetch(c))
  /\ WF_vars(RefreshEnds) /\ SF_vars(Switch /\ online')

FairSpec == Spec /\ Fairness

-----------------------------------------------------------------------------
Rows == [at : {"idle", "start", "intercept", "out", "wait", "refresh"},
         tries : 0..QueryRetries, retries : 0..MaxGetRetries, replayed : BOOLEAN,
         sends : Nat, performed : 0..2]

TypeOK ==
  /\ online \in BOOLEAN /\ refresh \in BOOLEAN
  /\ calls \in [Calls -> Rows]
  /\ failures \in 0..Threshold /\ openFor \in 0..Cooldown /\ paused \in 0..(Cooldown + 1)
  /\ extended \in BOOLEAN

(* A call is sent no more often than its three retry rules add up to, in    *)
(* any order of refusals, refreshes, attempts and repetitions.              *)
SendsAreBounded == \A c \in Calls : calls[c].sends <= MaxSends(c)

(* The server performs a mutation at most once per call: only a request it  *)
(* refused unread is sent again.                                            *)
MutationsPerformedOnce == \A c \in Mutations : calls[c].performed <= 1

(* The three rules that repeat a request, taken together: the response      *)
(* interceptor's replay and repetition and React Query's retries.           *)
RepeatsAreSafe == SendsAreBounded /\ MutationsPerformedOnce

(* Every call settles: none repeats for ever, and none waits for a refresh  *)
(* that nobody is making.                                                   *)
EveryCallSettles == \A c \in Calls : calls[c].at # "idle" ~> calls[c].at = "idle"

(* client.ts:141: new requests will pause briefly.  The breaker is open no  *)
(* longer than the cooldown after the server last failed a call, unless a   *)
(* call that the client itself refused, and never sent, has opened it anew. *)
PauseIsBrief == paused > Cooldown => extended
=============================================================================
