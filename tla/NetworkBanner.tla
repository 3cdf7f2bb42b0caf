---------------------------- MODULE NetworkBanner ----------------------------
(***************************************************************************)
(* The banner about the connection (NetworkStatusBanner.tsx) beside the API *)
(* client that drives it: ApiClient's steps tell it of refused, failed and  *)
(* successful requests and of the browser's events; the banner listens to   *)
(* the browser's events too, and closes some time after a recovery.         *)
(***************************************************************************)
EXTENDS ApiClient

VARIABLES
  shown,     \* the banner's state
  timer,     \* clearTimer is armed
  excused    \* history: since the connection was lost, the timer of an earlier
             \* recovery has fired or a request sent before it has succeeded

banner == <<shown, timer, excused>>
allVars == <<vars, banner>>

Clear == [offline |-> FALSE, degraded |-> FALSE, recovering |-> FALSE]

BannerInit ==
  /\ Init
  /\ shown = [Clear EXCEPT !.offline = ~online] /\ timer = FALSE /\ excused = FALSE

(* Bug variant: what is told of is added to what is shown. *)
RestoredKeeping(s) == [s EXCEPT !.recovering = TRUE]

(* handleOnline. *)
Restored(s) == [Clear EXCEPT !.recovering = TRUE]

(* "online": the client's listener, which was there first, then the         *)
(* banner's.                                                                *)
GoOnline ==
  /\ Switch /\ online'
  /\ shown' = Restored(shown) /\ timer' = TRUE
  /\ excused' = FALSE

(* Bug variant: a lost connection is shown as trouble only. *)
LostAsTrouble == [Clear EXCEPT !.degraded = TRUE]

(* handleOffline. *)
Lost == [Clear EXCEPT !.offline = TRUE]

(* "offline"; a timer that is armed stays so. *)
GoOffline ==
  /\ Switch /\ ~online'
  /\ shown' = Lost
  /\ UNCHANGED <<timer, excused>>

(* A refused request: offline is told by the request interceptor; the       *)
(* repetition or the breaker tells of a slow service, offline or not.       *)
TellRefused(c) ==
  /\ Refuse(c)
  /\ shown' = [shown EXCEPT !.offline = @ \/ ~online, !.degraded = TRUE]
  /\ UNCHANGED <<timer, excused>>

(* An answer that has arrived is told of even when the connection was lost  *)
(* since.                                                                   *)
TellSuccess(c) ==
  /\ Succeeds(c)
  /\ shown' = [shown EXCEPT !.offline = FALSE, !.degraded = FALSE]
  /\ excused' = (excused \/ ~online)
  /\ UNCHANGED timer

(* A failure before a repetition, or counted by the breaker; one that is    *)
(* the answer to what was asked tells of nothing.                           *)
TellFailure(c) ==
  /\ \E status \in {"none", "busy", "refused"} :
       /\ FailsWith(c, status)
       /\ shown' = [shown EXCEPT !.degraded = @ \/ IsTransient(status)]
  /\ UNCHANGED <<timer, excused>>

Silent(c) == Begin(c) \/ Fetch(c) \/ Pass(c) \/ Unauthorized(c) \/ Repeat(c)

(* clearTimer, after 2.5 s. *)
Clears ==
  /\ timer /\ timer' = FALSE /\ shown' = Clear
  /\ excused' = (excused \/ ~online)
  /\ UNCHANGED vars

BannerNext ==
  \/ GoOnline \/ GoOffline \/ Clears
  \/ \E c \in Calls : TellRefused(c) \/ TellSuccess(c) \/ TellFailure(c)
  \/ UNCHANGED banner /\ (RefreshEnds \/ Tick \/ \E c \in Calls : Silent(c))

BannerSpec == BannerInit /\ [][BannerNext]_allVars
BannerFairSpec == BannerSpec /\ Fairness /\ WF_allVars(Clears)

-----------------------------------------------------------------------------
(* The banner never says offline while the browser is online.               *)
NeverFalselyOffline == online => ~shown.offline

(* Offline is shown while the browser is, until the timer of an earlier     *)
(* recovery or an answer to an earlier request takes it away.               *)
OfflineShown == ~online => shown.offline \/ excused
=============================================================================
