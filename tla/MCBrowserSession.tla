--------------------------- MODULE MCBrowserSession ---------------------------
(* Instances of BrowserSession for TLC. *)
EXTENDS BrowserSession, TLC

Identities == Permutations(Tabs) \cup Permutations(Users)
=============================================================================
