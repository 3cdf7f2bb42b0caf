---------------------------- MODULE MCOrderIntake ----------------------------
(***************************************************************************)
(* Instances of OrderIntake for TLC.  Head Office, in one behaviour, edits *)
(* the catalogue, switches accounts on and off, or is away: an order is    *)
(* checked against the two apart, in statements that do not share a        *)
(* variable.  Requests under different keys meet while it is away: they    *)
(* share only the numbers and the lock, which it has no part in.           *)
(***************************************************************************)
EXTENDS OrderIntake

VARIABLE headOffice

OneKey == CHOOSE k \in Keys : TRUE
KeysInUse == {req[r].key : r \in {a \in Requests : req[a] # None}}

MixInit == Init /\ headOffice \in {"catalogue", "dealers", "away"}
MixNext ==
  /\ Next /\ UNCHANGED headOffice
  /\ catalog' # catalog => headOffice = "catalogue"
  /\ activeDealers' # activeDealers => headOffice = "dealers"
  /\ headOffice # "away" => KeysInUse' \subseteq {OneKey}
MixSpec == MixInit /\ [][MixNext]_<<vars, headOffice>> /\ Fairness
==============================================================================
