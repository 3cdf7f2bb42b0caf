---------------------------- MODULE OrderLifecycle ----------------------------
(***************************************************************************)
(* What Head Office promises about an order: it is decided once, approved  *)
(* or rejected; only an approved order gets an ERP file; and a file that   *)
(* has once been available stays available.                                *)
(***************************************************************************)
CONSTANT Orders

VARIABLE stage

Stages == {"pending", "approved", "published", "rejected"}

Move(o, from, to) == stage[o] = from /\ stage' = [stage EXCEPT ![o] = to]

Approve(o) == Move(o, "pending", "approved")
Reject(o)  == Move(o, "pending", "rejected")
Publish(o) == Move(o, "approved", "published")

Init == stage = [o \in Orders |-> "pending"]

Next == \E o \in Orders : Approve(o) \/ Reject(o) \/ Publish(o)

Spec == Init /\ [][Next]_stage
===============================================================================
