------------------------------- MODULE MCScreens -------------------------------
(***************************************************************************)
(* Instances of Screens for TLC.  The user of the order queue approves     *)
(* orders, and in one behaviour rejects some too or waits for exports:     *)
(* the dialog and the waits share no state.  Other users decide in both.   *)
(***************************************************************************)
EXTENDS Screens

VARIABLE desk

MixInit ==
  /\ ScreensInit /\ desk \in {"rejects", "downloads"}
  /\ route # "/head-office/orders" => desk = "rejects"
MixNext ==
  /\ ScreensNext /\ UNCHANGED desk
  /\ jobs' # <<>> => desk = "downloads"
  /\ rejecting' # None => desk = "rejects"
MixSpec == MixInit /\ [][MixNext]_<<allVars, desk>>
=============================================================================
