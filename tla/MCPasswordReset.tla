--------------------------- MODULE MCPasswordReset ---------------------------
(* Instances of PasswordReset for TLC. *)
EXTENDS PasswordReset, TLC

Identities == Permutations(Asks) \cup Permutations(Resets) \cup Permutations(Logins)
=============================================================================
