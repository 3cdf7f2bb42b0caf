------------------------------ MODULE MCSessions ------------------------------
(***************************************************************************)
(* Instances of Sessions for TLC.  A behaviour uses one of several mixes of *)
(* operations; wrong passwords are an operation of their own.  Where        *)
(* accounts are updated, logins overlap updates and refreshes, but not each *)
(* other, nor do refreshes: that is the first mix's.                        *)
(***************************************************************************)
EXTENDS Sessions, TLC

VARIABLE mix

Mixes == {{"login", "refresh", "logout", "logoutAll"},
          {"login", "refresh", "update"},
          {"login", "logout", "guess"}}

IsGuess(body) == body.op = "login" /\ body.password = 0
Mixed(body) == body.op \in mix /\ (IsGuess(body) => "guess" \in mix)

MixInit == Init /\ mix \in Mixes
MixNext ==
  /\ Next /\ UNCHANGED mix
  /\ \A r \in Requests : req'[r] # None => Mixed(req'[r])
  /\ "update" \in mix => \A r, q \in {a \in Requests : req'[a] # None} :
       r # q /\ req'[r].op = req'[q].op => req'[r].op = "update"
MixSpec == MixInit /\ [][MixNext]_<<vars, mix>>

Identities == Permutations(Ids) \cup Permutations(Requests)
=============================================================================
