--------------------------- MODULE ApiClientProofs ---------------------------
(***************************************************************************)
(* Proofs about ApiClient, and about NetworkBanner beside it, for every set *)
(* of calls and every setting of the client's limits: how often a call is  *)
(* sent, that a mutation is not performed twice, how long the breaker      *)
(* stays open, and what the banner says of the connection.                 *)
(***************************************************************************)
EXTENDS NetworkBanner, TLAPS

(* The requests of one attempt at most: the first, its repetitions and the *)
(* replay after a refresh.                                                 *)
PerAttempt == MaxGetRetries + 2

Replays(row) == IF row.replayed THEN 1 ELSE 0
Out(row) == IF row.at = "out" THEN 1 ELSE 0

(* A call's sends are those of the attempts before, and of this one.       *)
RowOK(c, row) ==
  /\ row.at = "start" => row.sends <= row.tries * PerAttempt
  /\ row.at \in {"intercept", "out", "wait", "refresh"} =>
       row.sends <= row.tries * PerAttempt + row.retries + Replays(row) + Out(row)
  /\ row.at = "idle" => row.sends = 0
  /\ c \in Mutations => /\ row.tries = 0 /\ row.retries = 0
                        /\ row.performed <= 1
                        /\ row.at # "idle" => row.performed = 0

IInv == TypeOK /\ \A c \in Calls : RowOK(c, calls[c])

-----------------------------------------------------------------------------
(* Multiples of the requests of one attempt. *)
LEMMA Multiples ==
  /\ PerAttempt \in Nat /\ 0 * PerAttempt = 0
  /\ \A n \in Nat : n * PerAttempt \in Nat /\ (n + 1) * PerAttempt = n * PerAttempt + PerAttempt
  /\ \A n \in 0..QueryRetries : n * PerAttempt <= QueryRetries * PerAttempt
<1>1. PerAttempt \in Nat
  BY ClientAssumption DEF PerAttempt
<1>2. \A k \in Nat : 0 * k = 0 /\ \A n \in Nat : n * k \in Nat /\ (n + 1) * k = n * k + k
  BY SMT
<1>3. \A k \in Nat : \A m \in Nat : \A n \in 0..m : n * k <= m * k
  BY SMT
<1> QED
  BY ONLY <1>1, <1>2, <1>3, ClientAssumption

LEMMA IdleRow ==
  /\ Idle \in Rows /\ Idle.at = "idle" /\ Idle.sends = 0 /\ Idle.tries = 0
  /\ Idle.retries = 0 /\ Idle.performed = 0 /\ Idle.replayed = FALSE
<1>1. 0 \in 0..QueryRetries /\ 0 \in 0..MaxGetRetries
  BY ClientAssumption
<1> QED
  BY <1>1 DEF Idle, Rows

LEMMA InitIInv == Init => IInv
<1> SUFFICES ASSUME Init PROVE IInv
  OBVIOUS
<1>1. Idle \in Rows /\ \A c : RowOK(c, Idle)
  BY IdleRow DEF RowOK
<1>2. calls \in [Calls -> Rows] /\ \A c \in Calls : calls[c] = Idle
  BY <1>1 DEF Init
<1>3. /\ failures \in 0..Threshold /\ openFor \in 0..Cooldown /\ paused \in 0..(Cooldown + 1)
  BY ClientAssumption DEF Init
<1>4. online \in BOOLEAN /\ refresh \in BOOLEAN /\ extended \in BOOLEAN
  BY DEF Init
<1> QED
  BY <1>1, <1>2, <1>3, <1>4 DEF IInv, TypeOK

(* A step of one call that leaves it a good row keeps the invariant. *)
LEMMA OneCall ==
  ASSUME IInv, NEW c \in Calls, NEW row \in Rows, RowOK(c, row), Become(c, row),
         online' \in BOOLEAN, refresh' \in BOOLEAN, failures' \in 0..Threshold,
         openFor' \in 0..Cooldown, paused' \in 0..(Cooldown + 1), extended' \in BOOLEAN
  PROVE  IInv'
<1>1. calls' = [calls EXCEPT ![c] = row] /\ calls \in [Calls -> Rows]
  BY DEF Become, IInv, TypeOK
<1>2. calls' \in [Calls -> Rows] /\ \A d \in Calls : RowOK(d, calls'[d])
  BY <1>1 DEF IInv
<1> QED
  BY <1>2 DEF IInv, TypeOK

(* A settled call, and a new attempt. *)
LEMMA SettledRows ==
  ASSUME IInv, NEW c \in Calls, calls[c].at # "idle", NEW status
  PROVE  /\ Settled(c, status) \in Rows
         /\ \A p \in 0..2 : [Settled(c, status) EXCEPT !.performed = p] \in Rows
         /\ c \in Mutations => Settled(c, status) = Done(c, FALSE)
         /\ RowOK(c, Settled(c, status))
         /\ \A p \in 0..2 : (c \in Mutations => p <= 1) =>
              RowOK(c, [Settled(c, status) EXCEPT !.performed = p])
<1> DEFINE row == calls[c]
<1>1. row \in Rows /\ RowOK(c, row)
  BY DEF IInv, TypeOK
<1>2. c \in Mutations => c \notin Queries
  BY ClientAssumption
<1>3. CASE Settled(c, status) = Done(c, FALSE)
  <2> DEFINE done == [Idle EXCEPT !.performed = row.performed]
  <2>1. Settled(c, status) = done
    BY <1>3 DEF Done, Performed
  <2>2. row.performed \in 0..2
    BY <1>1 DEF Rows
  <2>3. done \in Rows /\ done.at = "idle" /\ done.sends = 0 /\ done.tries = 0
        /\ done.retries = 0 /\ done.performed = row.performed
    <3> HIDE DEF row
    <3> QED
      BY <2>2, IdleRow DEF Rows
  <2> HIDE DEF done
  <2> QED
    BY <1>1, <1>3, <2>1, <2>3 DEF RowOK, Rows
<1>4. CASE /\ c \in Queries /\ row.tries < QueryRetries
           /\ Settled(c, status) = [row EXCEPT !.at = "start", !.tries = @ + 1]
  <2> DEFINE next == [row EXCEPT !.at = "start", !.tries = @ + 1]
  <2>1. next \in Rows /\ next.at = "start" /\ next.tries = row.tries + 1 /\ next.sends = row.sends
    <3>1. row.tries + 1 \in 0..QueryRetries
      BY <1>1, <1>4, ClientAssumption DEF Rows
    <3> HIDE DEF row
    <3> QED
      BY <1>1, <3>1 DEF Rows
  <2>2. row.sends <= (row.tries + 1) * PerAttempt
    <3>1. row.tries \in Nat /\ row.sends \in Nat /\ row.retries \in 0..MaxGetRetries
          /\ Replays(row) \in 0..1 /\ Out(row) \in 0..1
      BY <1>1, ClientAssumption DEF Rows, Replays, Out
    <3>2. row.sends <= row.tries * PerAttempt + PerAttempt
      <4>1. row.tries * PerAttempt \in Nat
        BY <3>1, Multiples
      <4> QED
        BY <1>1, <3>1, <4>1, ClientAssumption DEF RowOK, PerAttempt, Rows
    <3> QED
      BY <3>1, <3>2, Multiples
  <2>3. c \notin Mutations
    BY <1>2, <1>4
  <2> QED
    BY <1>2, <1>4, <2>1, <2>2, <2>3 DEF RowOK, Rows
<1> QED
  BY <1>2, <1>3, <1>4 DEF Settled

-----------------------------------------------------------------------------
(* A row for each step of a call. *)
LEMMA BeginStep == ASSUME IInv, NEW c \in Calls, Begin(c) PROVE IInv'
<1> DEFINE row == [Idle EXCEPT !.at = "start"]
<1>1. row \in Rows /\ row.at = "start" /\ row.sends = 0 /\ row.tries = 0
      /\ row.retries = 0 /\ row.performed = 0
  BY IdleRow DEF Rows
<1>2. Become(c, row) /\ UNCHANGED <<online, refresh, failures, openFor, paused, extended>>
  BY DEF Begin, pause
<1> HIDE DEF row
<1>3. RowOK(c, row)
  BY <1>1, Multiples DEF RowOK
<1> QED
  BY <1>1, <1>2, <1>3, OneCall DEF IInv, TypeOK

LEMMA MovesStep ==
  ASSUME IInv, NEW c \in Calls, Fetch(c) \/ Pass(c) \/ Repeat(c) \/ Unauthorized(c)
  PROVE  IInv'
<1>1. calls[c] \in Rows /\ RowOK(c, calls[c])
  BY DEF IInv, TypeOK
<1>2. PICK old \in Rows : old = calls[c]
  BY <1>1
<1>3. RowOK(c, old)
  BY <1>1, <1>2
<1>4. /\ old.tries \in 0..QueryRetries /\ old.retries \in 0..MaxGetRetries
      /\ old.replayed \in BOOLEAN /\ old.sends \in Nat /\ old.performed \in 0..2
      /\ 0 \in 0..MaxGetRetries /\ old.tries * PerAttempt \in Nat
  BY Multiples, ClientAssumption DEF Rows
<1>5. CASE Fetch(c)
  <2> DEFINE row == [old EXCEPT !.at = "intercept", !.retries = 0, !.replayed = FALSE]
  <2>1. /\ row \in Rows /\ row.at = "intercept" /\ row.retries = 0 /\ row.replayed = FALSE
        /\ row.tries = old.tries /\ row.sends = old.sends /\ row.performed = old.performed
    BY <1>4 DEF Rows
  <2>2. Become(c, row) /\ UNCHANGED <<online, refresh, failures, openFor, paused, extended>>
        /\ old.at = "start"
    BY <1>2, <1>5 DEF Fetch, pause
  <2> HIDE DEF row
  <2>3. RowOK(c, row)
    BY <1>3, <1>4, <2>1, <2>2 DEF RowOK, Replays, Out
  <2> QED
    BY <2>1, <2>2, <2>3, OneCall DEF IInv, TypeOK
<1>6. CASE Pass(c)
  <2> DEFINE sent == Capped(old.sends, MaxSends(c) + 1)
             row == [old EXCEPT !.at = "out", !.sends = sent]
  <2>1. sent \in Nat /\ sent <= old.sends + 1
    <3>1. MaxSends(c) \in Nat
      BY Multiples, ClientAssumption DEF MaxSends, PerAttempt
    <3> QED
      BY <1>4, <3>1 DEF Capped
  <2> HIDE DEF sent
  <2>2. /\ row \in Rows /\ row.at = "out" /\ row.retries = old.retries
        /\ row.replayed = old.replayed /\ row.tries = old.tries /\ row.sends = sent
        /\ row.performed = old.performed
    BY <2>1 DEF Rows
  <2>3. Become(c, row) /\ UNCHANGED <<online, refresh, failures, openFor, paused, extended>>
        /\ old.at = "intercept"
    BY <1>2, <1>6 DEF Pass, pause, sent
  <2> HIDE DEF row
  <2>4. RowOK(c, row)
    BY <1>3, <1>4, <2>1, <2>2, <2>3 DEF RowOK, Replays, Out
  <2> QED
    BY <2>2, <2>3, <2>4, OneCall DEF IInv, TypeOK
<1>7. CASE Repeat(c)
  <2> DEFINE row == [old EXCEPT !.at = "intercept"]
  <2>1. /\ row \in Rows /\ row.at = "intercept" /\ row.retries = old.retries
        /\ row.replayed = old.replayed /\ row.tries = old.tries /\ row.sends = old.sends
        /\ row.performed = old.performed
    BY DEF Rows
  <2>2. Become(c, row) /\ UNCHANGED <<online, refresh, failures, openFor, paused, extended>>
        /\ old.at = "wait"
    BY <1>2, <1>7 DEF Repeat, pause
  <2> HIDE DEF row
  <2>3. RowOK(c, row)
    BY <1>3, <1>4, <2>1, <2>2 DEF RowOK, Replays, Out
  <2> QED
    BY <2>1, <2>2, <2>3, OneCall DEF IInv, TypeOK
<1>8. CASE Unauthorized(c)
  <2> DEFINE row == [old EXCEPT !.at = "refresh", !.replayed = TRUE]
  <2>1. /\ row \in Rows /\ row.at = "refresh" /\ row.retries = old.retries
        /\ row.replayed = TRUE /\ row.tries = old.tries /\ row.sends = old.sends
        /\ row.performed = old.performed
    BY DEF Rows
  <2>2. Become(c, row) /\ refresh' = TRUE /\ UNCHANGED <<online, failures, openFor, paused, extended>>
        /\ old.at = "out" /\ ~old.replayed
    BY <1>2, <1>8 DEF Unauthorized, AfterUnauthorized, pause
  <2> HIDE DEF row
  <2>3. RowOK(c, row)
    BY <1>3, <1>4, <2>1, <2>2 DEF RowOK, Replays, Out
  <2>4. refresh' \in BOOLEAN
    BY <2>2
  <2> QED
    BY <2>1, <2>2, <2>3, <2>4, OneCall DEF IInv, TypeOK
<1> QED
  BY <1>5, <1>6, <1>7, <1>8

(* What the server has performed, and the breaker's count. *)
LEMMA Counted ==
  ASSUME IInv, NEW c \in Calls, NEW did \in BOOLEAN
  PROVE  /\ Performed(c, did) \in 0..2
         /\ c \in Mutations /\ calls[c].at # "idle" => Performed(c, did) <= 1
         /\ c \notin Mutations => Performed(c, did) = calls[c].performed
         /\ c \in Mutations /\ ~did => Performed(c, did) = calls[c].performed
<1>1. calls[c].performed \in 0..2 /\ RowOK(c, calls[c])
  BY DEF IInv, TypeOK, Rows
<1> QED
  BY <1>1 DEF Performed, Capped, RowOK

LEMMA Registered ==
  ASSUME IInv, NEW status, Register(status)
  PROVE  failures' \in 0..Threshold /\ openFor' \in 0..Cooldown
<1>1. failures \in 0..Threshold /\ openFor \in 0..Cooldown
  BY DEF IInv, TypeOK
<1> QED
  BY <1>1, ClientAssumption DEF Register, Capped

LEMMA RejectedStep ==
  ASSUME IInv, NEW c \in Calls, calls[c].at \in {"intercept", "out"}, NEW status,
         NEW did \in BOOLEAN, Rejected(c, status, did), UNCHANGED <<online, refresh>>,
         paused' \in {0, paused}, extended' \in BOOLEAN
  PROVE  IInv'
<1>1. PICK old \in Rows : old = calls[c]
  BY DEF IInv, TypeOK
<1>2. PICK p \in 0..2 : p = Performed(c, did)
  BY Counted
<1>3. RowOK(c, old) /\ (c \in Mutations => p <= 1) /\ (c \notin Mutations => p = old.performed)
  BY <1>1, <1>2, Counted DEF IInv
<1>4. paused' \in 0..(Cooldown + 1)
  BY ClientAssumption DEF IInv, TypeOK
<1>5. online' \in BOOLEAN /\ refresh' \in BOOLEAN
  BY DEF IInv, TypeOK
<1>6. CASE Repeats(c, status)
  <2> DEFINE row == [old EXCEPT !.at = "wait", !.retries = @ + 1, !.performed = p]
  <2>1. /\ c \in Queries /\ c \notin Mutations /\ old.retries < MaxGetRetries
        /\ Become(c, row) /\ UNCHANGED <<failures, openFor>>
    BY <1>1, <1>2, <1>6, ClientAssumption DEF Rejected, Repeats
  <2>2. old.retries + 1 \in 0..MaxGetRetries
    BY <2>1, ClientAssumption DEF Rows
  <2>3. /\ row \in Rows /\ row.at = "wait" /\ row.retries = old.retries + 1
        /\ row.replayed = old.replayed /\ row.tries = old.tries /\ row.sends = old.sends
    BY <2>2 DEF Rows
  <2> HIDE DEF row
  <2>4. RowOK(c, row)
    <3>1. old.tries * PerAttempt \in Nat /\ old.retries \in Nat /\ old.sends \in Nat
      BY Multiples, ClientAssumption DEF Rows
    <3> QED
      BY <1>1, <1>3, <2>1, <2>3, <3>1 DEF RowOK, Replays, Out
  <2>5. failures' \in 0..Threshold /\ openFor' \in 0..Cooldown
    BY <2>1 DEF IInv, TypeOK
  <2> QED
    BY <1>4, <1>5, <2>1, <2>3, <2>4, <2>5, OneCall
<1>7. CASE ~Repeats(c, status)
  <2>1. PICK row : row = [Settled(c, status) EXCEPT !.performed = p]
    OBVIOUS
  <2>2. Become(c, row) /\ Register(status)
    BY <1>2, <1>7, <2>1 DEF Rejected
  <2>3. row \in Rows /\ RowOK(c, row)
    BY <1>3, <2>1, SettledRows
  <2> QED
    BY <1>4, <1>5, <2>2, <2>3, OneCall, Registered
<1> QED
  BY <1>6, <1>7

LEMMA AnswersStep ==
  ASSUME IInv, NEW c \in Calls, Refuse(c) \/ Succeeds(c) \/ Fails(c) PROVE IInv'
<1>0. extended \in BOOLEAN
  BY DEF IInv, TypeOK
<1>1. CASE Refuse(c)
  <2>1. extended' \in BOOLEAN
    BY <1>0, <1>1 DEF Refuse
  <2> QED
    BY <1>1, <2>1, RejectedStep DEF Refuse
<1>2. CASE Fails(c)
  <2>1. PICK status \in {"none", "busy", "refused"} : FailsWith(c, status)
    BY <1>2 DEF Fails
  <2>2. IsTransient(status) \in BOOLEAN
    BY DEF IsTransient
  <2>3. PICK did \in BOOLEAN : Rejected(c, status, did)
    BY <2>1, <2>2 DEF FailsWith
  <2>4. /\ calls[c].at = "out" /\ UNCHANGED <<online, refresh>> /\ paused' \in {0, paused}
        /\ extended' \in BOOLEAN
    BY <1>0, <2>1, <2>2 DEF FailsWith
  <2> QED
    BY <2>3, <2>4, RejectedStep
<1>3. CASE Succeeds(c)
  <2>1. PICK p \in 0..2 : p = Performed(c, TRUE)
    BY Counted
  <2> DEFINE row == [Idle EXCEPT !.performed = p]
  <2>2. Become(c, row) /\ failures' = 0 /\ openFor' = 0 /\ paused' = 0 /\ extended' = FALSE
        /\ UNCHANGED <<online, refresh>> /\ calls[c].at = "out"
    BY <1>3, <2>1 DEF Succeeds, Done
  <2>3. row \in Rows /\ row.at = "idle" /\ row.sends = 0 /\ row.tries = 0 /\ row.retries = 0
        /\ row.performed = p
    BY IdleRow DEF Rows
  <2> HIDE DEF row
  <2>4. c \in Mutations => p <= 1
    BY <2>1, <2>2, Counted
  <2>5. RowOK(c, row)
    BY <2>3, <2>4 DEF RowOK
  <2>6. failures' \in 0..Threshold /\ openFor' \in 0..Cooldown /\ paused' \in 0..(Cooldown + 1)
    BY <2>2, ClientAssumption
  <2>7. online' \in BOOLEAN /\ refresh' \in BOOLEAN /\ extended' \in BOOLEAN
    BY <2>2 DEF IInv, TypeOK
  <2> QED
    BY <2>2, <2>3, <2>5, <2>6, <2>7, OneCall
<1> QED
  BY <1>1, <1>2, <1>3

LEMMA RefreshEndsStep == ASSUME IInv, RefreshEnds PROVE IInv'
<1>1. PICK status \in {"ok", "none", "busy", "refused"} :
        calls' = [c \in Calls |->
          IF calls[c].at # "refresh" THEN calls[c]
          ELSE IF status = "ok" THEN [calls[c] EXCEPT !.at = "intercept"]
          ELSE Settled(c, status)]
  BY DEF RefreshEnds
<1>2. ASSUME NEW c \in Calls PROVE calls'[c] \in Rows /\ RowOK(c, calls'[c])
  <2>1. PICK old \in Rows : old = calls[c]
    BY DEF IInv, TypeOK
  <2>2. RowOK(c, old)
    BY <2>1 DEF IInv
  <2>3. CASE calls'[c] = old
    BY <2>2, <2>3
  <2>4. CASE old.at = "refresh" /\ calls'[c] = [old EXCEPT !.at = "intercept"]
    <3> DEFINE row == [old EXCEPT !.at = "intercept"]
    <3>1. /\ row \in Rows /\ row.at = "intercept" /\ row.retries = old.retries
          /\ row.replayed = old.replayed /\ row.tries = old.tries /\ row.sends = old.sends
          /\ row.performed = old.performed
      BY DEF Rows
    <3> HIDE DEF row
    <3>2. RowOK(c, row)
      BY <2>2, <2>4, <3>1 DEF RowOK, Replays, Out
    <3> QED
      BY <2>4, <3>1, <3>2 DEF row
  <2>5. CASE old.at = "refresh" /\ calls'[c] = Settled(c, status)
    BY <2>1, <2>5, SettledRows
  <2> QED
    BY <1>1, <2>1, <2>3, <2>4, <2>5
<1>3. calls' \in [Calls -> Rows]
  <2>1. calls' = [c \in Calls |-> calls'[c]]
    BY <1>1
  <2> QED
    BY <1>2, <2>1
<1> QED
  BY <1>2, <1>3 DEF IInv, TypeOK, RefreshEnds, pause

LEMMA ClockStep == ASSUME IInv, Switch \/ Tick PROVE IInv'
<1>1. CASE Switch
  BY <1>1 DEF Switch, IInv, TypeOK, pause
<1>2. CASE Tick
  <2>1. openFor' \in 0..Cooldown /\ paused' \in 0..(Cooldown + 1)
    BY <1>2, ClientAssumption DEF Tick, IInv, TypeOK, Capped
  <2> QED
    BY <1>2, <2>1 DEF Tick, IInv, TypeOK
<1> QED
  BY <1>1, <1>2

-----------------------------------------------------------------------------
(* IInv is inductive. *)
LEMMA Inductive == IInv /\ [Next]_vars => IInv'
<1> SUFFICES ASSUME IInv, [Next]_vars PROVE IInv'
  OBVIOUS
<1>1. CASE UNCHANGED vars
  BY <1>1 DEF vars, IInv, TypeOK
<1> QED
  BY <1>1, BeginStep, MovesStep, AnswersStep, RefreshEndsStep, ClockStep DEF Next, Advance

(* The inductive invariant holds of every behaviour of the client. *)
THEOREM Invariance == Spec => []IInv
  BY InitIInv, Inductive, PTL DEF Spec

(* The calls, the breaker and the refresh are of the stated types. *)
THEOREM TypeCorrect == Spec => []TypeOK
<1>1. IInv => TypeOK
  BY DEF IInv
<1> QED
  BY <1>1, Invariance, PTL

(* client.ts and query-client.ts: a query is sent at most once, as often as *)
(* it is repeated, and once after a refresh, for each of its attempts; a    *)
(* mutation at most twice.                                                  *)
THEOREM SendsBounded == Spec => []SendsAreBounded
<1>1. ASSUME IInv, NEW c \in Calls PROVE calls[c].sends <= MaxSends(c)
  <2>1. PICK row \in Rows : row = calls[c]
    BY <1>1 DEF IInv, TypeOK
  <2>2. RowOK(c, row)
    BY <1>1, <2>1 DEF IInv
  <2>3. /\ row.tries \in 0..QueryRetries /\ row.retries \in 0..MaxGetRetries /\ row.sends \in Nat
        /\ Replays(row) <= 1 /\ Out(row) <= 1 /\ Replays(row) \in Nat /\ Out(row) \in Nat
        /\ row.at \in {"idle", "start", "intercept", "out", "wait", "refresh"}
    BY DEF Rows, Replays, Out
  <2>4. row.tries * PerAttempt <= QueryRetries * PerAttempt
    BY <2>3, Multiples
  <2>5. (QueryRetries + 1) * PerAttempt = QueryRetries * PerAttempt + PerAttempt
    BY ClientAssumption, Multiples
  <2>6. row.tries * PerAttempt \in Nat /\ QueryRetries * PerAttempt \in Nat /\ PerAttempt \in Nat
    BY <2>3, ClientAssumption, Multiples
  <2>7. CASE c \in Queries
    <3>1. row.retries + Replays(row) + Out(row) <= PerAttempt
      BY <2>3, ClientAssumption DEF PerAttempt
    <3>2. row.sends <= QueryRetries * PerAttempt + PerAttempt
      BY <2>2, <2>3, <2>4, <2>6, <3>1 DEF RowOK
    <3> QED
      BY <2>1, <2>5, <2>7, <3>2 DEF MaxSends, PerAttempt
  <2>8. CASE c \in Mutations
    <3>1. row.tries * PerAttempt = 0 /\ row.retries = 0
      BY <2>2, <2>8, Multiples DEF RowOK
    <3>2. row.sends <= 2
      BY <2>2, <2>3, <3>1 DEF RowOK
    <3> QED
      BY <2>1, <2>8, <3>2, ClientAssumption DEF MaxSends
  <2> QED
    BY <2>7, <2>8 DEF Calls
<1>2. IInv => SendsAreBounded
  BY <1>1 DEF SendsAreBounded
<1> QED
  BY <1>2, Invariance, PTL

(* client.ts: only a request that the server refused unread is sent again   *)
(* for a mutation, so a call performs it once at most.                      *)
THEOREM MutationsOnce == Spec => []MutationsPerformedOnce
<1>1. IInv => MutationsPerformedOnce
  BY DEF IInv, RowOK, MutationsPerformedOnce, Calls
<1> QED
  BY <1>1, Invariance, PTL

(* Together: the replay after a refresh, the repetition of GETs and React   *)
(* Query's retries neither multiply nor perform a mutation twice.           *)
THEOREM RepeatsBounded == Spec => []RepeatsAreSafe
<1>1. SendsAreBounded /\ MutationsPerformedOnce => RepeatsAreSafe
  BY DEF RepeatsAreSafe
<1> QED
  BY <1>1, SendsBounded, MutationsOnce, PTL
-----------------------------------------------------------------------------
(* Since the server last failed a call, an open breaker has only been       *)
(* counting down.                                                           *)
PauseOK == ~extended => paused + openFor <= Cooldown

LEMMA Countdown ==
  /\ \A o \in 0..Cooldown, p \in Nat : p = 0 => p + o <= Cooldown
  /\ \A o \in 0..Cooldown, p, q \in Nat :
       p + o <= Cooldown /\ o > 0 /\ q <= p + 1 => q + (o - 1) <= Cooldown
  BY ClientAssumption

LEMMA PauseKept == IInv /\ PauseOK /\ [Next]_vars => PauseOK'
<1> SUFFICES ASSUME IInv, PauseOK, [Next]_vars PROVE PauseOK'
  OBVIOUS
<1>1. /\ failures \in 0..Threshold /\ openFor \in 0..Cooldown
      /\ paused \in 0..(Cooldown + 1) /\ extended \in BOOLEAN
  BY DEF IInv, TypeOK
<1>2. CASE UNCHANGED <<openFor, pause>>
  BY <1>2 DEF PauseOK, pause
<1>3. ASSUME NEW c \in Calls, Refuse(c) PROVE PauseOK'
  <2>1. CASE Repeats(c, "none")
    BY <1>3, <2>1 DEF Refuse, Rejected, PauseOK
  <2>2. CASE ~Repeats(c, "none")
    <3>1. Register("none") /\ extended' = (extended \/ failures + 1 >= Threshold) /\ paused' = paused
      BY <1>3, <2>2 DEF Refuse, Rejected
    <3> QED
      BY <1>1, <3>1, ClientAssumption DEF Register, IsTransient, PauseOK
  <2> QED
    BY <2>1, <2>2
<1>4. ASSUME NEW c \in Calls, Succeeds(c) PROVE PauseOK'
  BY <1>4, ClientAssumption DEF Succeeds, PauseOK
<1>5. ASSUME NEW c \in Calls, NEW status, FailsWith(c, status) PROVE PauseOK'
  <2>1. CASE IsTransient(status)
    <3>1. openFor' \in 0..Cooldown
      BY <1>1, <1>5, Registered DEF FailsWith, Rejected
    <3>2. paused' = 0
      BY <1>5, <2>1 DEF FailsWith
    <3>3. paused' + openFor' <= Cooldown
      BY <3>1, <3>2, Countdown
    <3> QED
      BY <3>3 DEF PauseOK
  <2>2. CASE ~IsTransient(status)
    <3>1. openFor' = openFor
      BY <1>5, <2>2 DEF FailsWith, Rejected, Repeats, Register
    <3>2. paused' = paused /\ (extended' <=> extended)
      BY <1>1, <1>5, <2>2 DEF FailsWith
    <3> QED
      BY <3>1, <3>2 DEF PauseOK
  <2> QED
    BY <2>1, <2>2
<1>6. CASE Tick
  <2>1. openFor' = openFor - 1 /\ openFor > 0 /\ paused' <= paused + 1
        /\ paused \in Nat /\ paused' \in Nat
    BY <1>1, <1>6, ClientAssumption DEF Tick, Capped
  <2>2. ~extended' => paused + openFor <= Cooldown
    BY <1>6 DEF Tick, PauseOK
  <2>3. paused + openFor <= Cooldown => paused' + (openFor - 1) <= Cooldown
    BY <1>1, <2>1, Countdown
  <2> QED
    BY <2>1, <2>2, <2>3 DEF PauseOK
<1>7. ASSUME NEW c \in Calls, Begin(c) \/ Fetch(c) \/ Pass(c) \/ Unauthorized(c) \/ Repeat(c)
      PROVE  UNCHANGED <<openFor, pause>>
  BY <1>7 DEF Begin, Fetch, Pass, Unauthorized, Repeat
<1>8. CASE RefreshEnds \/ Switch \/ UNCHANGED vars
  BY <1>2, <1>8 DEF RefreshEnds, Switch, vars, pause
<1> QED
  BY <1>2, <1>3, <1>4, <1>5, <1>6, <1>7, <1>8 DEF Next, Advance, Fails

(* client.ts, the circuit breaker: after the server has failed a call the   *)
(* breaker is open no longer than its cooldown, unless a call that was      *)
(* never sent opens it anew.                                                *)
THEOREM PausesAreBrief == Spec => []PauseIsBrief
<1>1. Init => PauseOK
  BY ClientAssumption DEF Init, PauseOK
<1>2. IInv /\ PauseOK => PauseIsBrief
  BY ClientAssumption DEF IInv, TypeOK, PauseOK, PauseIsBrief
<1> QED
  BY <1>1, <1>2, InitIInv, Inductive, PauseKept, PTL DEF Spec

-----------------------------------------------------------------------------
(* The banner. *)

Shown == [offline : BOOLEAN, degraded : BOOLEAN, recovering : BOOLEAN]

(* What is shown, with the variables' values. *)
BannerInv ==
  /\ online \in BOOLEAN /\ excused \in BOOLEAN /\ shown \in Shown
  /\ NeverFalselyOffline /\ OfflineShown

-----------------------------------------------------------------------------
(* A step of the two is a step of the client, or none of it. *)
LEMMA ClientSteps == [BannerNext]_allVars => [Next]_vars
<1> SUFFICES ASSUME [BannerNext]_allVars PROVE [Next]_vars
  OBVIOUS
<1>1. CASE GoOnline \/ GoOffline
  BY <1>1 DEF GoOnline, GoOffline, Next
<1>2. CASE Clears
  BY <1>2 DEF Clears
<1>3. CASE \E c \in Calls : TellRefused(c) \/ TellSuccess(c)
  BY <1>3 DEF TellRefused, TellSuccess, Next, Advance
<1>4. CASE \E c \in Calls : TellFailure(c)
  BY <1>4 DEF TellFailure, Next, Advance, Fails
<1>5. CASE RefreshEnds \/ Tick \/ \E c \in Calls : Silent(c)
  BY <1>5 DEF Silent, Next, Advance
<1>6. CASE UNCHANGED allVars
  BY <1>6 DEF allVars
<1> QED
  BY <1>1, <1>2, <1>3, <1>4, <1>5, <1>6 DEF BannerNext

(* NetworkStatusBanner.tsx only listens: what is proved of ApiClient holds  *)
(* of the client beside the banner.                                         *)
THEOREM BannerOnlyListens == BannerSpec => Spec
  BY ClientSteps, PTL DEF BannerSpec, BannerInit, Spec

(* What the interceptors and the breaker keep, they keep beside the banner. *)
THEOREM ClientBesideBanner == BannerSpec => [](RepeatsAreSafe /\ PauseIsBrief)
  BY BannerOnlyListens, RepeatsBounded, PausesAreBrief, PTL

LEMMA InitBannerInv == BannerInit => BannerInv
  BY DEF BannerInit, Init, BannerInv, Shown, Clear, NeverFalselyOffline, OfflineShown

(* BannerInv is inductive. *)
LEMMA BannerInductive == BannerInv /\ [BannerNext]_allVars => BannerInv'
<1> SUFFICES ASSUME BannerInv, [BannerNext]_allVars PROVE BannerInv'
  OBVIOUS
<1> USE DEF BannerInv, Shown, NeverFalselyOffline, OfflineShown
<1>1. CASE GoOnline
  BY <1>1 DEF GoOnline, Switch, Restored, Clear
<1>2. CASE GoOffline
  BY <1>2 DEF GoOffline, Switch, Lost, Clear
<1>3. ASSUME NEW c \in Calls, TellRefused(c) PROVE BannerInv'
  BY <1>3 DEF TellRefused, Refuse
<1>4. ASSUME NEW c \in Calls, TellSuccess(c) PROVE BannerInv'
  BY <1>4 DEF TellSuccess, Succeeds
<1>5. ASSUME NEW c \in Calls, TellFailure(c) PROVE BannerInv'
  BY <1>5 DEF TellFailure, FailsWith, IsTransient
<1>6. CASE Clears
  BY <1>6 DEF Clears, vars, Clear
<1>7. CASE UNCHANGED banner /\ (RefreshEnds \/ Tick \/ \E c \in Calls : Silent(c))
  <2>1. CASE RefreshEnds
    BY <1>7, <2>1 DEF banner, RefreshEnds
  <2>2. CASE Tick
    BY <1>7, <2>2 DEF banner, Tick
  <2>3. ASSUME NEW c \in Calls, Silent(c) PROVE online' = online
    BY <2>3 DEF Silent, Begin, Fetch, Pass, Unauthorized, Repeat
  <2> QED
    BY <1>7, <2>1, <2>2, <2>3 DEF banner
<1>8. CASE UNCHANGED allVars
  BY <1>8 DEF allVars, banner, vars
<1> QED
  BY <1>1, <1>2, <1>3, <1>4, <1>5, <1>6, <1>7, <1>8 DEF BannerNext

(* NetworkStatusBanner.tsx: the banner never says offline while the browser *)
(* is online, whatever late answers and timers do.                          *)
THEOREM BannerNeverLies == BannerSpec => []NeverFalselyOffline
<1>1. BannerInv => NeverFalselyOffline
  BY DEF BannerInv
<1> QED
  BY <1>1, InitBannerInv, BannerInductive, PTL DEF BannerSpec

(* NetworkStatusBanner.tsx: only the timer of an earlier recovery and an    *)
(* answer to an earlier request take the offline banner away.               *)
THEOREM OfflineIsShown == BannerSpec => []OfflineShown
<1>1. BannerInv => OfflineShown
  BY DEF BannerInv
<1> QED
  BY <1>1, InitBannerInv, BannerInductive, PTL DEF BannerSpec
=============================================================================
