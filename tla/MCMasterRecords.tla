--------------------------- MODULE MCMasterRecords ---------------------------
(* Instances of MasterRecords for TLC. *)
EXTENDS MasterRecords

CONSTANTS d1, d2, n1, n2

Input(kind, id, name, case, active, password) ==
  [kind |-> kind, id |-> id, code |-> <<name, case>>, active |-> active, password |-> password]

(* Two dealers that clash in case, one of which is renamed and back, and is *)
(* switched off; the other gets a password; two SKUs that clash.            *)
SomeInputs ==
  {Input("dealer", d1, n1, "upper", TRUE, FALSE), Input("dealer", d1, n2, "upper", FALSE, FALSE),
   Input("dealer", d2, n1, "lower", TRUE, FALSE), Input("dealer", d2, n1, "upper", TRUE, TRUE),
   Input("sku", d1, n1, "upper", TRUE, FALSE), Input("sku", d2, n1, "lower", FALSE, FALSE)}
=============================================================================
