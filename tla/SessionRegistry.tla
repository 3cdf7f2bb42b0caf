--------------------------- MODULE SessionRegistry ---------------------------
(***************************************************************************)
(* What the session store promises.  A session is opened for an owner; it  *)
(* may be ended and, by a renewal that began while it was live, come back. *)
(* A session that is ended and has no renewal under way stays ended: no    *)
(* renewal of it can begin any more.                                       *)
(***************************************************************************)
CONSTANTS Ids, Users, None

VARIABLES
  owner,     \* who each session was opened for, None before that
  ended,     \* sessions that were revoked or have expired
  renewing   \* sessions with a renewal under way

vars == <<owner, ended, renewing>>

Init ==
  /\ owner = [s \in Ids |-> None]
  /\ ended = {} /\ renewing = {}

Opened == {s \in Ids : owner[s] # None}

(* A login opens a session. *)
Open(s, u) ==
  /\ owner[s] = None
  /\ owner' = [owner EXCEPT ![s] = u]
  /\ UNCHANGED <<ended, renewing>>

(* A renewal begins: only with a live session. *)
Begin(s) ==
  /\ s \in Opened \ ended
  /\ renewing' = renewing \cup {s}
  /\ UNCHANGED <<owner, ended>>

(* The renewal makes the session live, whatever happened since it began;   *)
(* another renewal of it may still be under way.                           *)
Renew(s) ==
  /\ s \in renewing
  /\ ended' = ended \ {s}
  /\ renewing' \in {renewing, renewing \ {s}}
  /\ UNCHANGED owner

(* A renewal fails. *)
GiveUp(s) ==
  /\ renewing' = renewing \ {s}
  /\ UNCHANGED <<owner, ended>>

(* Logout, logout of all, login elsewhere, the administrator, or time. *)
End(S) ==
  /\ S \subseteq Opened
  /\ ended' = ended \cup S
  /\ UNCHANGED <<owner, renewing>>

Next ==
  \/ \E s \in Ids : (\E u \in Users : Open(s, u)) \/ Begin(s) \/ Renew(s) \/ GiveUp(s)
  \/ \E S \in SUBSET Ids : End(S)

Spec == Init /\ [][Next]_vars
=============================================================================
