---------------------------- MODULE MCOrderAmounts ----------------------------
(* Instances of OrderAmounts for TLC. *)
EXTENDS OrderAmounts, TLC

Identities == Permutations(Items) \cup Permutations(Users)
=============================================================================
